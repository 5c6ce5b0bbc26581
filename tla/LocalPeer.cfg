CONSTANTS
  Callers = {c1}
  Closers = {k1}
  Ops <- ClientWrites
  Free = Free
  OutQueueSize = 1
  MaxMsgs <- ThreeFromClient
SPECIFICATION FairSpec
INVARIANTS NoSendOnClosedChannel CloseDrains
PROPERTIES ImplementsOutQueue
PROPERTIES CloseTearsDownPair
CHECK_DEADLOCK FALSE
