---------------------------- MODULE MCManagement ----------------------------
(***************************************************************************)
(* Two sessions: both with a RawSocketPeer, one of them over a QUIC stream; *)
(* or one with a peer whose Close is limited in time.                      *)
(***************************************************************************)
EXTENDS Management

CONSTANTS c1, c2

PerClient(first, second) == [c \in Clients |-> IF c = c1 THEN first ELSE second]

MCPeers == {PerClient("raw", "stream"), PerClient("raw", "timed")}
=============================================================================
