CONSTANTS
    WordBits = 2
    WindowSize = 4
    MaxSeq = 5
    MaxObs = 5
SPECIFICATION Spec
PROPERTIES FlushDeclaresAllMissing
