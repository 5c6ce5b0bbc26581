---------------------------- MODULE MCLocalPeer ----------------------------
(***************************************************************************)
(* An instance of the in-memory pair. Write is the client session's        *)
(* operation (session.go), TryWrite the router's (realm.go); the router's  *)
(* meta API also uses Write, to send the GOODBYE of a kill (meta.go).      *)
(***************************************************************************)
EXTENDS LocalPeer

ClientWrites == [s \in Side |-> IF s = "client" THEN {"Write"} ELSE {"TryWrite"}]

\* Three messages from the client: one in the writer's hand, one queued, one parked.
ThreeFromClient == [s \in Side |-> IF s = "client" THEN 3 ELSE 2]
=============================================================================
