CONSTANTS
  Alice = Alice
  Bob = Bob
  None = None
  Sessions = {Alice, Bob}
  OutQueueSize = 1
  Loads <- MCLoads
SPECIFICATION FairSpec
INVARIANTS DeliveredInOrder CallsAnsweredOnce DetachForgets ShutdownDisconnects
PROPERTIES DeliveriesEnd
CHECK_DEADLOCK FALSE
