CONSTANTS
  Callers = {c1, c2}
  Closers = {k1}
  Ops = {"Write"}
  Free = Free
  OutQueueSize = 1
  CtrlCap = 1
  MaxMsgs = 2
  MaxPings = 2
SPECIFICATION FairSpec
PROPERTIES FailureClosesPeer
CHECK_DEADLOCK FALSE
