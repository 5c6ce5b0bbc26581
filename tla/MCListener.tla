----------------------------- MODULE MCListener -----------------------------
(* Instance of Listener for TLC: two sessions and a raw stream, or one     *)
(* session and two raw streams, on one QUIC connection; a WebTransport     *)
(* connection with one session; a TCP connection.                          *)
EXTENDS Listener

MCMaxJoins == [k \in Kinds |-> IF k = "quic" THEN 2 ELSE 1]
=============================================================================
