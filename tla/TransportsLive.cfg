CONSTANTS
  Client = {c1}
  Attempts <- MCAttempts
  Cap = 1
  Wire = 1
  MaxCalls <- MCLiveCalls
  MaxSend = 0
  MaxCuts = 1
  Replay = 2
  Callers = {"new", "main"}
SPECIFICATION FairSpec
INVARIANT InOrder
PROPERTIES DeadPeersLeave BenchStopEndsAll Delivered BroadcastReturns Reconnects
CHECK_DEADLOCK FALSE
