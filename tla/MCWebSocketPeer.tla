-------------------------- MODULE MCWebSocketPeer --------------------------
(***************************************************************************)
(* Instances of the WebSocket peer: one that is kept alive and is sent a   *)
(* stray pong, one without keep-alive that is written to more.             *)
(***************************************************************************)
EXTENDS WebSocketPeer

MCLoads ==
  {[keepAlive |-> TRUE, msgs |-> 1, stray |-> 1], [keepAlive |-> FALSE, msgs |-> 3, stray |-> 0]}
=============================================================================
