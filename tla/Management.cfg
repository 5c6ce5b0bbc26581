CONSTANTS
    c1 = c1
    c2 = c2
    Clients = {c1, c2}
    Peers <- MCPeers
    Workloads = {{"enable", "disable", "interval"}, {"kill"}, {"log"}}
    MaxCalls = 3
    MaxOpen = 2
    MaxKills = 2
    Nil = Nil
SPECIFICATION Spec
INVARIANT GoroutinesAccounted
PROPERTIES LoggersStop KillsReach
CHECK_DEADLOCK FALSE
