CONSTANTS
  Callers = {c1, c2}
  Closers = {k1}
  Ops = {"Write", "TryWrite"}
  Free = Free
  OutQueueSize = 1
  CtrlCap = 1
  MaxMsgs = 2
  MaxPings = 2
SPECIFICATION FairSpec
INVARIANTS TypeOK InOrder CloseSafe
PROPERTIES NoFrameAfterTorn ImplementsOutQueue
PROPERTIES WaitsEnd
CHECK_DEADLOCK FALSE
