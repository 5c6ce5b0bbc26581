------------------------------ MODULE OutQueue ------------------------------
(***************************************************************************)
(* What every transport of the library (WebSocketPeer, RawSocketPeer,      *)
(* localPeer in peer.go) promises about the messages handed to Write and   *)
(* TryWrite: the accepted messages reach the connection in the order in    *)
(* which they were accepted, none twice, none skipped; at most the queue's *)
(* capacity plus the one message the writer holds wait at any time; and    *)
(* once transmission has stopped it never resumes.                         *)
(*                                                                         *)
(* A message is the number of its acceptance: the first accepted is 1.     *)
(***************************************************************************)
EXTENDS Naturals, Sequences

CONSTANT Capacity

VARIABLES
  accepted,  \* how many messages Write or TryWrite has accepted
  sent,      \* the messages written to the connection, in order
  stopped    \* TRUE once nothing will be written any more

vars == <<accepted, sent, stopped>>

Init == accepted = 0 /\ sent = <<>> /\ stopped = FALSE

Accept ==
  /\ accepted - Len(sent) < Capacity + 1
  /\ accepted' = accepted + 1
  /\ UNCHANGED <<sent, stopped>>

Transmit ==
  /\ ~stopped
  /\ Len(sent) < accepted
  /\ sent' = Append(sent, Len(sent) + 1)
  /\ UNCHANGED <<accepted, stopped>>

Stop ==
  /\ ~stopped
  /\ stopped' = TRUE
  /\ UNCHANGED <<accepted, sent>>

Next == Accept \/ Transmit \/ Stop

Spec == Init /\ [][Next]_vars
=============================================================================
