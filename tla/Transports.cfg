CONSTANTS
  Client = {c1, c2}
  Attempts <- MCAttempts
  Cap = 1
  Wire = 1
  MaxCalls <- MCCalls
  MaxSend = 1
  MaxCuts = 1
  Replay = 2
  Callers = {"new"}
SPECIFICATION Spec
INVARIANTS TypeOK InOrder Accounted TableIsServing ReadyMeansSubscribed ResumeMissesOnlyTheWindow
CHECK_DEADLOCK FALSE
SYMMETRY Symmetry
