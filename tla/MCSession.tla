------------------------------ MODULE MCSession ------------------------------
(***************************************************************************)
(* Workloads for the client session: which requests the application makes  *)
(* and what the router sends unasked.                                      *)
(***************************************************************************)
EXTENDS Session, TLC

MCKind ==
  "stream" :> "call" @@ "upload" :> "call" @@ "reg1" :> "register" @@ "unreg1" :> "unregister"
  @@ "sub1" :> "subscribe" @@ "sub2" :> "subscribe" @@ "unsub1" :> "unsubscribe"
  @@ "unsub2" :> "unsubscribe"
  @@ "pub" :> "publish" @@ "leave" :> "leave"
MCTarget ==
  "unreg1" :> "reg1" @@ "sub1" :> "topic" @@ "sub2" :> "topic" @@ "unsub1" :> "sub1"
  @@ "unsub2" :> "sub2"

\* Two calls: one has a deadline and takes progressive results, one sends its arguments
\* in chunks.
Calls ==
  [requests |-> {"stream", "upload"}, serial |-> FALSE, slow |-> FALSE,
   push |-> {"PROGRESS", "GOODBYE"}, pushes |-> 2, chunks |-> 1]

\* A procedure that is registered, invoked with up to three chunks and unregistered again,
\* and a publish, while the router is slow; or a procedure that is invoked twice with up to
\* two chunks, or interrupted.
Registrations ==
  [requests |-> {"reg1", "unreg1", "pub"}, serial |-> FALSE, slow |-> TRUE,
   push |-> {"INVOCATION"}, pushes |-> 1, chunks |-> 2]
Interrupts ==
  [requests |-> {"reg1", "unreg1"}, serial |-> FALSE, slow |-> TRUE,
   push |-> {"INVOCATION", "INTERRUPT"}, pushes |-> 2, chunks |-> 1]

\* Two handlers on one topic, unsubscribed again, and Leave.
Subscriptions ==
  [requests |-> {"sub1", "sub2", "unsub1", "unsub2", "leave"}, serial |-> TRUE, slow |-> FALSE,
   push |-> {"EVENT", "ABORT", "UNPARSABLE", "UNEXPECTED"}, pushes |-> 2, chunks |-> 0]

\* A call that waits while the session subscribes and events arrive.
Mixed ==
  [requests |-> {"stream", "sub1"}, serial |-> TRUE, slow |-> TRUE,
   push |-> {"EVENT", "GOODBYE"}, pushes |-> 2, chunks |-> 0]

MCLoads == {Calls, Registrations, Interrupts, Mixed, Subscriptions}
=============================================================================
