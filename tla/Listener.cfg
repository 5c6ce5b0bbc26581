CONSTANTS
    Kinds = {"quic", "webtransport", "tcp"}
    Conns = {c1}
    MaxStreams = 3
    MaxJoins <- MCMaxJoins
    Capacity = 1
    Nil = Nil
SPECIFICATION Spec
INVARIANTS NoSendOnClosedChannel RawAfterAuthentication
PROPERTIES ListenerWindsDown ClientsSettle
CHECK_DEADLOCK FALSE
