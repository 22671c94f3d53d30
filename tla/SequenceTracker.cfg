\* Two words of two bits: the ring wraps after four sequence numbers, and nine
\* numbers go round it twice.
CONSTANTS
    WordBits = 2
    WindowSize = 4
    MaxSeq = 8
    MaxObs = 6
SPECIFICATION Spec
INVARIANTS TypeOK WindowExact DeliveredExact ReorderedExact
PROPERTIES FlushNeverOvercounts
