CONSTANTS
  Callers = {c1}
  Closers = {k1}
  Ops = {"Write", "TryWrite"}
  OutQueueSize = 1
  CtrlCap = 1
  Loads <- MCLoads
SPECIFICATION FairSpec
INVARIANTS ClosedOnce PingWindow
PROPERTIES ImplementsOutQueue GoroutinesEnd
CHECK_DEADLOCK FALSE
