CONSTANTS
  Kind <- MCKind
  Target <- MCTarget
  Cancellable = {"stream"}
  Progressive = {"stream"}
  Chunked = {"upload"}
  Loads <- MCLoads
SPECIFICATION FairSpec
INVARIANTS ReaderNotStopped InvocationStateKept TablesAgree HandlersMissedOnlyEarly
PROPERTIES CallsUnblock
CHECK_DEADLOCK FALSE
