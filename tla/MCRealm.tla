------------------------------- MODULE MCRealm -------------------------------
(***************************************************************************)
(* Workloads for a realm: who its clients are and what they send.          *)
(***************************************************************************)
EXTENDS Realm

CONSTANTS Alice, Bob

PerClient(alice, bob) == [s \in Sessions |-> IF s = Alice THEN alice ELSE bob]

\* Alice calls and cancels, Bob is the callee.
Rpc ==
  [send |-> PerClient({"CALL", "CANCEL"},
                      {"REGISTER", "UNREGISTER", "YIELD", "PROGRESS", "ERROR", "GARBAGE"}),
   sends |-> PerClient(2, 2), number |-> 1,
   join |-> Sessions, denied |-> {}, shutdown |-> FALSE, remove |-> FALSE, kill |-> {}]

\* Alice publishes, Bob subscribes and may not publish.
PubSub ==
  [Rpc EXCEPT !.send = PerClient({"PUBLISH"}, {"SUBSCRIBE", "UNSUBSCRIBE", "PUBLISH"}),
              !.number = 2, !.denied = {<<Bob, "PUBLISH">>}]

\* Bob says goodbye while Alice stays or goes, the realm may be removed by name, and the router
\* is closed.
Shutdown ==
  [Rpc EXCEPT !.send = PerClient({}, {"GOODBYE"}), !.sends = PerClient(0, 1),
              !.shutdown = TRUE, !.remove = TRUE]

\* Alice calls, cancels or publishes, Bob registers or subscribes and is killed.
Killing ==
  [Rpc EXCEPT !.send = PerClient({"CALL", "CANCEL", "PUBLISH"}, {"REGISTER", "SUBSCRIBE"}),
              !.sends = PerClient(2, 1), !.kill = {Bob}]

\* Both are killed, Alice with an event for Bob.
KillingBoth ==
  [Killing EXCEPT !.send = PerClient({"PUBLISH"}, {"SUBSCRIBE"}), !.sends = PerClient(1, 1),
                  !.kill = Sessions]

\* Bob is alone, sends what he likes and is killed, and the router is closed.
KillingAtShutdown ==
  [Killing EXCEPT !.join = {Bob}, !.sends = PerClient(0, 2), !.shutdown = TRUE,
                  !.send = PerClient({}, {"REGISTER", "CALL", "GOODBYE"})]

MCLoads == {Rpc, PubSub, Shutdown, Killing, KillingBoth, KillingAtShutdown}
=============================================================================
