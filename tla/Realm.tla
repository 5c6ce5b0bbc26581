-------------------------------- MODULE Realm --------------------------------
(***************************************************************************)
(* One realm of the router (realm.go, and the goroutine per client of      *)
(* server.go that feeds it). Every client has a goroutine that reads its   *)
(* messages one by one, asks the dealer or the broker what to send, and    *)
(* delivers it to the recipients' bounded queues with TryWrite, which does *)
(* not wait for room: what does not fit is dropped. The goroutines meet in *)
(* the map of clients, the dealer, the broker, and the recipients' queues  *)
(* and mutexes. Router.Close and the session kills of the meta API (meta.go)*)
(* run beside them; a kill's Write does wait for room, and on a raw socket *)
(* or a local peer it keeps the mutex that TryWrite and Close need.        *)
(*                                                                         *)
(* Dealer and broker belong to another library (external): each call into  *)
(* them is one step, and what they answer is modelled from what realm.go   *)
(* does with it. There is one procedure and one topic. A call and its      *)
(* invocation, and a publication with its events, have the same number.    *)
(***************************************************************************)
EXTENDS Naturals, Sequences, FiniteSets, SequencesExt

CONSTANTS
  Sessions,     \* the clients
  OutQueueSize, \* capacity of a client's queue
  Loads,        \* the workloads: who connects (join); the types of message each client sends
                \* (send); <<client, type>>, what no role and no authorizer allows (denied);
                \* whether the router is closed (shutdown) or the realm removed by name
                \* (remove), whom a meta client kills (kill); and the bounds, how many messages
                \* each client sends (sends) and how many calls and publications there are
                \* (number)
  None

Types == {"REGISTER", "UNREGISTER", "CALL", "CANCEL", "YIELD", "PROGRESS", "ERROR",
          "SUBSCRIBE", "UNSUBSCRIBE", "PUBLISH", "GOODBYE", "GARBAGE"}

ASSUME LoadAssumption ==
  /\ \A l \in Loads :
       /\ l.send \in [Sessions -> SUBSET Types] /\ l.sends \in [Sessions -> Nat]
       /\ l.denied \subseteq Sessions \X Types /\ l.number \in Nat
       /\ l.shutdown \in BOOLEAN /\ l.remove \in BOOLEAN
       /\ l.kill \subseteq Sessions /\ l.join \subseteq Sessions
  /\ IsFiniteSet(Sessions) /\ None \notin Sessions
ASSUME SizeAssumption == OutQueueSize \in Nat \ {0}

VARIABLES
  load,       \* the workload, chosen once
  clients,    \* the keys of r.clients
  brokerHas,  \* sessions the broker knows
  dealerHas,  \* sessions the dealer knows
  registered, \* the dealer: callee of the procedure, or None
  pending,    \* the dealer: open invocations
  subscribed, \* the broker: subscribers of the topic
  peerOpen,   \* each client's transport, as the router sees it
  inbox,      \* each client's messages that its goroutine has not read
  outq,       \* each client's queue
  hpc,        \* each client's goroutine: "new", "addBroker", "addDealer", "read", "deliver",
              \* "close", "detach", "broker", "dealer", "leave", "gone"
  todo,       \* what a goroutine in "deliver" has left to deliver
  closer,     \* Router.Close: "idle", "range", in Close ("close", "wait"), in DetachClient
              \* ("detach", "broker", "dealer"), "done"
  atClient,   \* the client its Range is at, or None
  toClose,    \* the clients that were attached when it started
  killer,     \* killSession for each client: "idle", in Write ("write"; "parked" or, with the
              \* peer's mutex, "locked" while it waits for room), "close", "done"
  known,      \* FALSE once the router has forgotten the realm's name
  sentBy,     \* how many messages each client has sent
  seen,       \* history: what each client has received
  origin,     \* history: who made each call or publication
  answers,    \* history: the final answers queued for each call
  dropped,    \* history: <<type, number>> of the messages that did not fit
  canceled    \* history: the invocations the dealer cancelled

tableVars == <<clients, brokerHas, dealerHas>>
dealerVars == <<registered, pending>>
peerVars == <<peerOpen, inbox, outq>>
handlerVars == <<hpc, todo>>
routerVars == <<closer, atClient, toClose, known>>
clientVars == <<sentBy, seen, origin>>
histVars == <<answers, dropped, canceled>>
vars == <<tableVars, dealerVars, subscribed, peerVars, handlerVars, routerVars, clientVars,
          histVars>>

Numbers == 1..load.number
Msg(type, n) == [type |-> type, n |-> n]
To(s, type, n) == [to |-> s, msg |-> Msg(type, n)]
Nothing == [mode |-> "none", msgs |-> <<>>]

Init ==
  /\ load \in Loads
  /\ clients = {} /\ brokerHas = {} /\ dealerHas = {}
  /\ registered = None /\ pending = {} /\ subscribed = {}
  /\ peerOpen = [s \in Sessions |-> TRUE]
  /\ inbox = [s \in Sessions |-> <<>>] /\ outq = [s \in Sessions |-> <<>>]
  /\ hpc = [s \in Sessions |-> "new"] /\ todo = [s \in Sessions |-> Nothing]
  /\ closer = "idle" /\ atClient = None /\ toClose = {} /\ known = TRUE
  /\ killer = [s \in Sessions |-> "idle"]
  /\ sentBy = [s \in Sessions |-> 0] /\ seen = [s \in Sessions |-> <<>>]
  /\ origin = <<>>
  /\ answers = [n \in Numbers |-> <<>>] /\ dropped = {} /\ canceled = {}

-----------------------------------------------------------------------------
(* The clients: what conforming peers send and receive.                    *)

Saw(s, type, n) == Msg(type, n) \in Range(seen[s])

\* The messages client s may send now.
Sendable(s) ==
  LET next == Len(origin) + 1 IN
  {Msg(type, 0) : type \in load.send[s] \cap {"REGISTER", "SUBSCRIBE", "GOODBYE", "GARBAGE"}}
  \cup {Msg("UNREGISTER", 0) : x \in IF Saw(s, "REGISTERED", 0) THEN {0} ELSE {}}
  \cup {Msg("UNSUBSCRIBE", 0) : x \in IF Saw(s, "SUBSCRIBED", 0) THEN {0} ELSE {}}
  \cup {Msg(type, next) : type \in IF next <= load.number THEN {"CALL", "PUBLISH"} ELSE {}}
  \cup {Msg("CANCEL", n) : n \in {k \in DOMAIN origin : origin[k] = s}}
  \cup {Msg(type, n) : type \in {"YIELD", "PROGRESS", "ERROR"},
                       n \in {k \in Numbers : Saw(s, "INVOCATION", k)}}

ClientSends(s) ==
  /\ peerOpen[s] /\ hpc[s] # "new"
  /\ sentBy[s] < load.sends[s]
  /\ \E m \in Sendable(s) :
       /\ m.type \in load.send[s]
       /\ inbox' = [inbox EXCEPT ![s] = Append(@, m)]
       /\ origin' = IF m.type \in {"CALL", "PUBLISH"} THEN Append(origin, s) ELSE origin
  /\ sentBy' = [sentBy EXCEPT ![s] = @ + 1]
  /\ UNCHANGED <<tableVars, dealerVars, subscribed, peerOpen, outq, handlerVars, routerVars,
                 seen, histVars>>

ClientReceives(s) ==
  /\ outq[s] # <<>>
  /\ seen' = [seen EXCEPT ![s] = Append(@, Head(outq[s]))]
  /\ outq' = [outq EXCEPT ![s] = Tail(@)]
  /\ UNCHANGED <<tableVars, dealerVars, subscribed, peerOpen, inbox, handlerVars, routerVars,
                 sentBy, origin, histVars>>

ClientDisconnects(s) ==
  /\ peerOpen[s] /\ hpc[s] # "new"
  /\ peerOpen' = [peerOpen EXCEPT ![s] = FALSE]
  /\ UNCHANGED <<tableVars, dealerVars, subscribed, inbox, outq, handlerVars, routerVars,
                 clientVars, histVars>>

-----------------------------------------------------------------------------
(* Attach and detach                                                       *)

Goes(s, where) == hpc' = [hpc EXCEPT ![s] = where]

\* Router.AttachClient finds the realm, or the client is turned away.
Attach(s) ==
  /\ hpc[s] = "new" /\ s \in load.join
  /\ Goes(s, IF known THEN "addBroker" ELSE "gone")
  /\ clients' = IF known THEN clients \cup {s} ELSE clients
  /\ UNCHANGED <<brokerHas, dealerHas, dealerVars, subscribed, peerVars, todo, routerVars,
                 clientVars, histVars>>

AddToBroker(s) ==
  /\ hpc[s] = "addBroker"
  /\ brokerHas' = brokerHas \cup {s}
  /\ Goes(s, "addDealer")
  /\ UNCHANGED <<clients, dealerHas, dealerVars, subscribed, peerVars, todo, routerVars,
                 clientVars, histVars>>

AddToDealer(s) ==
  /\ hpc[s] = "addDealer"
  /\ dealerHas' = dealerHas \cup {s}
  /\ Goes(s, "read")
  /\ UNCHANGED <<clients, brokerHas, dealerVars, subscribed, peerVars, todo, routerVars,
                 clientVars, histVars>>

\* ReadMessage fails (the transport is closed, by either side, or the message cannot be
\* parsed) and DetachClient looks for the realm.
ReadFails(s) ==
  /\ hpc[s] = "read"
  /\ ~peerOpen[s] \/ (inbox[s] # <<>> /\ Head(inbox[s]).type = "GARBAGE")
  /\ Goes(s, IF known THEN "detach" ELSE "gone")
  /\ UNCHANGED <<tableVars, dealerVars, subscribed, peerVars, todo, routerVars, clientVars,
                 histVars>>

Detach(s) ==
  /\ hpc[s] = "detach"
  /\ clients' = clients \ {s}
  /\ Goes(s, "broker")
  /\ UNCHANGED <<brokerHas, dealerHas, dealerVars, subscribed, peerVars, todo, routerVars,
                 clientVars, histVars>>

\* What broker.RemoveSession and dealer.RemoveSession forget; nobody is told (external).
RemoveFromBroker(s) ==
  /\ brokerHas' = brokerHas \ {s}
  /\ subscribed' = subscribed \ {s}

RemoveFromDealer(s) ==
  /\ dealerHas' = dealerHas \ {s}
  /\ registered' = IF registered = s THEN None ELSE registered
  /\ pending' = {p \in pending : p.callee # s}

\* An error, because the session is gone already, ends DetachClient.
DetachBroker(s) ==
  /\ hpc[s] = "broker"
  /\ Goes(s, IF s \in brokerHas THEN "dealer" ELSE "gone")
  /\ RemoveFromBroker(s)
  /\ UNCHANGED <<clients, dealerHas, dealerVars, peerVars, todo, routerVars, clientVars,
                 histVars>>

\* Faulty variant: the session's registrations outlive it.
DetachDealerNot(s) ==
  /\ hpc[s] = "dealer"
  /\ dealerHas' = dealerHas \ {s}
  /\ Goes(s, "gone")
  /\ UNCHANGED <<clients, brokerHas, dealerVars, subscribed, peerVars, todo, routerVars,
                 clientVars, histVars>>

DetachDealer(s) ==
  /\ hpc[s] = "dealer"
  /\ RemoveFromDealer(s)
  /\ Goes(s, IF s \in dealerHas THEN "leave" ELSE "gone")
  /\ UNCHANGED <<clients, brokerHas, subscribed, peerVars, todo, routerVars, clientVars,
                 histVars>>

\* A Write that waits for room in the queue of r with r's mutex: TryWrite and Close wait.
Locked(r) == killer[r] = "locked"

\* The transport is closed only if everybody knew the session.
DetachClose(s) ==
  /\ hpc[s] = "leave" /\ ~Locked(s)
  /\ peerOpen' = [peerOpen EXCEPT ![s] = FALSE]
  /\ Goes(s, "gone")
  /\ UNCHANGED <<tableVars, dealerVars, subscribed, inbox, outq, todo, routerVars, clientVars,
                 histVars>>

-----------------------------------------------------------------------------
(* ReceiveMessage                                                          *)

Deliver(s, mode, msgs) ==
  /\ todo' = [todo EXCEPT ![s] = [mode |-> mode, msgs |-> msgs]]
  /\ Goes(s, IF msgs = <<>> THEN "read" ELSE "deliver")

PendingCall(n) == CHOOSE p \in pending : p.n = n
IsPending(n) == \E p \in pending : p.n = n

\* dealer.ReceiveMessage (external): the next state of the dealer and what it wants sent.
DealerReceives(s, m) ==
  \/ /\ m.type = "CALL"
     /\ IF registered = None
        THEN pending' = pending /\ Deliver(s, "call", <<To(s, "ERROR", m.n)>>)
        ELSE /\ pending' = pending \cup {[n |-> m.n, caller |-> s, callee |-> registered]}
             /\ Deliver(s, "call", <<To(registered, "INVOCATION", m.n)>>)
     /\ UNCHANGED registered
  \/ /\ m.type = "REGISTER"
     /\ registered' = IF registered = None THEN s ELSE registered
     /\ Deliver(s, "other", <<To(s, IF registered = None THEN "REGISTERED" ELSE "REFUSED", 0)>>)
     /\ UNCHANGED pending
  \/ /\ m.type = "UNREGISTER"
     /\ registered' = IF registered = s THEN None ELSE registered
     /\ Deliver(s, "other", <<To(s, IF registered = s THEN "UNREGISTERED" ELSE "REFUSED", 0)>>)
     /\ UNCHANGED pending
  \/ /\ m.type \in {"YIELD", "ERROR"}
     /\ IF IsPending(m.n)
        THEN LET p == PendingCall(m.n) IN
             /\ pending' = pending \ {p}
             /\ Deliver(s, "other", IF p.caller \in dealerHas
                  THEN <<To(p.caller, IF m.type = "YIELD" THEN "RESULT" ELSE "ERROR", m.n)>>
                  ELSE <<>>)
        ELSE pending' = pending /\ Deliver(s, "other", <<>>)
     /\ UNCHANGED registered
  \/ /\ m.type = "PROGRESS"
     /\ IF IsPending(m.n)
        THEN LET p == PendingCall(m.n) IN
             IF p.caller \in dealerHas
             THEN pending' = pending /\ Deliver(s, "other", <<To(p.caller, "PROGRESS", m.n)>>)
             ELSE pending' = pending \ {p} /\ Deliver(s, "other", <<To(s, "INTERRUPT", m.n)>>)
        ELSE pending' = pending /\ Deliver(s, "other", <<>>)
     /\ UNCHANGED registered

\* dealer.ReceiveCancel (external), mode killnowait: INTERRUPT for the callee, ERROR for the
\* caller.
DealerCancels(s, m) ==
  /\ m.type = "CANCEL"
  /\ IF IsPending(m.n)
     THEN LET p == PendingCall(m.n) IN
          /\ pending' = pending \ {p}
          /\ canceled' = canceled \cup {p}
          /\ Deliver(s, "cancel", <<To(p.callee, "INTERRUPT", m.n), To(s, "ERROR", m.n)>>)
     ELSE UNCHANGED <<pending, canceled>> /\ Deliver(s, "cancel", <<>>)
  /\ UNCHANGED registered

\* broker.ReceiveMessage and ReceivePublish (external).
BrokerReceives(s, m) ==
  \/ /\ m.type = "SUBSCRIBE"
     /\ subscribed' = subscribed \cup {s}
     /\ Deliver(s, "other", <<To(s, "SUBSCRIBED", 0)>>)
  \/ /\ m.type = "UNSUBSCRIBE"
     /\ subscribed' = subscribed \ {s}
     /\ Deliver(s, "other", <<To(s, IF s \in subscribed THEN "UNSUBSCRIBED" ELSE "REFUSED", 0)>>)
  \/ /\ m.type = "PUBLISH"
     /\ \E order \in SetToSeqs(subscribed \ {s}), ack \in {<<>>, <<To(s, "PUBLISHED", m.n)>>} :
          Deliver(s, "publish", [i \in DOMAIN order |-> To(order[i], "EVENT", m.n)] \o ack)
     /\ UNCHANGED subscribed

\* Dealer and broker refuse what a session they do not know asks for (external).
Unknown(s, m) ==
  \/ s \notin brokerHas /\ m.type \in {"SUBSCRIBE", "UNSUBSCRIBE", "PUBLISH"}
  \/ s \notin dealerHas /\ m.type \notin {"SUBSCRIBE", "UNSUBSCRIBE", "PUBLISH", "GOODBYE"}

\* authorize said no: an ERROR goes straight to the client's own transport, except for a
\* publication that wants no acknowledgement.
Refuse(s, m) ==
  \/ Deliver(s, "self", <<To(s, IF m.type = "CALL" THEN "ERROR" ELSE "REFUSED", m.n)>>)
  \/ m.type = "PUBLISH" /\ Deliver(s, "self", <<>>)

\* Faulty variant: a CANCEL is handled by a goroutine of its own.
ReceiveConcurrently(s) ==
  LET m == Head(inbox[s]) IN
  /\ hpc[s] \in {"read", "deliver"}
  /\ inbox[s] # <<>>
  /\ inbox' = [inbox EXCEPT ![s] = Tail(@)]
  /\ \/ /\ m.type = "CANCEL" /\ IsPending(m.n)
        /\ Deliver(s, "other", <<To(PendingCall(m.n).callee, "INTERRUPT", m.n)>> \o todo[s].msgs)
        /\ UNCHANGED dealerVars
     \/ /\ hpc[s] = "read" /\ m.type # "CANCEL"
        /\ DealerReceives(s, m)
  /\ UNCHANGED <<tableVars, subscribed, peerOpen, outq, routerVars, clientVars, histVars>>

Receive(s) ==
  LET m == Head(inbox[s]) IN
  /\ hpc[s] = "read"
  /\ inbox[s] # <<>> /\ m.type # "GARBAGE"
  /\ inbox' = [inbox EXCEPT ![s] = Tail(@)]
  /\ \/ /\ ~known \/ (Unknown(s, m) /\ <<s, m.type>> \notin load.denied)
        /\ Deliver(s, "other", <<>>)
        /\ UNCHANGED <<dealerVars, subscribed, canceled>>
     \/ /\ known /\ <<s, m.type>> \in load.denied
        /\ Refuse(s, m)
        /\ UNCHANGED <<dealerVars, subscribed, canceled>>
     \/ /\ known /\ <<s, m.type>> \notin load.denied /\ ~Unknown(s, m)
        /\ \/ DealerReceives(s, m) /\ UNCHANGED <<subscribed, canceled>>
           \/ DealerCancels(s, m) /\ UNCHANGED subscribed
           \/ BrokerReceives(s, m) /\ UNCHANGED <<dealerVars, canceled>>
           \/ /\ m.type = "GOODBYE"
              /\ Deliver(s, "goodbye", <<To(s, "GOODBYE", 0)>>)
              /\ UNCHANGED <<dealerVars, subscribed, canceled>>
  /\ UNCHANGED <<tableVars, peerOpen, outq, routerVars, clientVars, answers, dropped>>

-----------------------------------------------------------------------------
(* TryWriteMessage to one recipient after the other, each under its mutex  *)

Fits(r) == Len(outq[r]) < OutQueueSize
Queue(r, m) == outq' = [outq EXCEPT ![r] = Append(@, m)]
IsAnswer(d) == d.msg.type \in {"RESULT", "ERROR"}

\* The goroutine goes on with what is left to deliver; GOODBYE is followed by Close.
GoOn(s, mode, rest) ==
  /\ todo' = [todo EXCEPT ![s] = IF rest = <<>> THEN Nothing
                                 ELSE [mode |-> mode, msgs |-> rest]]
  /\ Goes(s, IF rest # <<>> THEN "deliver" ELSE IF mode = "goodbye" THEN "close" ELSE "read")

\* ReceiveMessage returns the error; HandleClient logs it and reads on.
GiveUp(s) ==
  /\ todo' = [todo EXCEPT ![s] = Nothing]
  /\ Goes(s, "read")

\* The recipient is found (a client's own goroutine does not have to look) and takes it.
DeliverQueued(s) ==
  LET t == todo[s]
      d == Head(t.msgs)
  IN
  /\ hpc[s] = "deliver"
  /\ d.to \in clients \/ t.mode \in {"self", "goodbye"}
  /\ ~Locked(d.to) /\ peerOpen[d.to] /\ Fits(d.to)
  /\ Queue(d.to, d.msg)
  /\ answers' = IF IsAnswer(d) THEN [answers EXCEPT ![d.msg.n] = Append(@, d.msg.type)]
                               ELSE answers
  /\ GoOn(s, t.mode, Tail(t.msgs))
  /\ UNCHANGED <<tableVars, dealerVars, subscribed, peerOpen, inbox, routerVars, clientVars,
                 dropped, canceled>>

\* Faulty variant: the router waits for room in the recipient's queue (Write).
DeliverDroppedNever(s) ==
  /\ FALSE
  /\ UNCHANGED vars

\* Faulty variant: handleCancel returns when a queue is full.
DeliverDroppedReturns(s) ==
  /\ hpc[s] = "deliver"
  /\ peerOpen[Head(todo[s].msgs).to] /\ ~Fits(Head(todo[s].msgs).to)
  /\ GiveUp(s)
  /\ UNCHANGED <<tableVars, dealerVars, subscribed, peerVars, routerVars, clientVars, histVars>>

\* The queue is full: the message is dropped. The caller is told if it was its INVOCATION;
\* the dealer is not.
DeliverDropped(s) ==
  LET t == todo[s]
      d == Head(t.msgs)
  IN
  /\ hpc[s] = "deliver"
  /\ d.to \in clients \/ t.mode \in {"self", "goodbye"}
  /\ ~Locked(d.to) /\ peerOpen[d.to] /\ ~Fits(d.to)
  /\ IF t.mode = "call" THEN GoOn(s, "last", <<To(s, "ERROR", d.msg.n)>>)
                        ELSE GoOn(s, t.mode, Tail(t.msgs))
  /\ dropped' = dropped \cup {<<d.msg.type, d.msg.n>>}
  /\ UNCHANGED <<tableVars, dealerVars, subscribed, peerVars, routerVars, clientVars, answers,
                 canceled>>

\* The recipient is not in the map: handleCancel and the publication skip it, the others
\* return an error.
DeliverAbsent(s) ==
  LET t == todo[s]
      d == Head(t.msgs)
  IN
  /\ hpc[s] = "deliver"
  /\ d.to \notin clients /\ t.mode \notin {"self", "goodbye"}
  /\ IF t.mode \in {"cancel", "publish"} THEN GoOn(s, t.mode, Tail(t.msgs)) ELSE GiveUp(s)
  /\ UNCHANGED <<tableVars, dealerVars, subscribed, peerVars, routerVars, clientVars, histVars>>

\* The recipient is in the map but closed: only the publication skips it.
DeliverClosed(s) ==
  LET t == todo[s]
      d == Head(t.msgs)
  IN
  /\ hpc[s] = "deliver"
  /\ d.to \in clients \/ t.mode \in {"self", "goodbye"}
  /\ ~Locked(d.to) /\ ~peerOpen[d.to]
  /\ IF t.mode = "publish" THEN GoOn(s, t.mode, Tail(t.msgs)) ELSE GiveUp(s)
  /\ UNCHANGED <<tableVars, dealerVars, subscribed, peerVars, routerVars, clientVars, histVars>>

\* The Close that follows the client's GOODBYE.
CloseAfterGoodbye(s) ==
  /\ hpc[s] = "close" /\ ~Locked(s)
  /\ peerOpen' = [peerOpen EXCEPT ![s] = FALSE]
  /\ Goes(s, "read")
  /\ UNCHANGED <<tableVars, dealerVars, subscribed, inbox, outq, todo, routerVars, clientVars,
                 histVars>>

HandleClient(s) ==
  \/ AddToBroker(s) \/ AddToDealer(s) \/ ReadFails(s) \/ Detach(s) \/ DetachBroker(s) \/ DetachDealer(s)
  \/ DetachClose(s) \/ Receive(s)
  \/ DeliverQueued(s) \/ DeliverDropped(s) \/ DeliverAbsent(s) \/ DeliverClosed(s)
  \/ CloseAfterGoodbye(s)

-----------------------------------------------------------------------------
(* Router.Close, Realm.Close and RemoveRealm                               *)

StartClose ==
  /\ load.shutdown /\ closer = "idle" /\ known
  /\ closer' = "range"
  /\ toClose' = clients
  /\ UNCHANGED <<tableVars, dealerVars, subscribed, peerVars, handlerVars, atClient, known,
                 clientVars, histVars>>

\* Realm.Close's Range, which may also come across a client that attached since: GOODBYE
\* if it fits, Close, and DetachClient step by step.
CloseClient(s) ==
  /\ closer = "range"
  /\ s \in clients /\ ~Locked(s)
  /\ IF peerOpen[s] /\ Fits(s) THEN Queue(s, Msg("GOODBYE", 0)) ELSE UNCHANGED outq
  /\ closer' = "close" /\ atClient' = s
  /\ UNCHANGED <<tableVars, dealerVars, subscribed, peerOpen, inbox, handlerVars, toClose, known,
                 clientVars, histVars>>

CloseTransport ==
  /\ closer = "close" /\ ~Locked(atClient)
  /\ peerOpen' = [peerOpen EXCEPT ![atClient] = FALSE]
  /\ closer' = "wait"
  /\ UNCHANGED <<tableVars, dealerVars, subscribed, inbox, outq, handlerVars, atClient, toClose,
                 known, clientVars, histVars>>

\* Close has waited for the peer's writer: on a raw socket for as long as the link stalls
\* (peer.go:728), so nothing says that this step is taken.
CloseReturns ==
  /\ closer = "wait"
  /\ closer' = "detach"
  /\ UNCHANGED <<tableVars, dealerVars, subscribed, peerVars, handlerVars, atClient, toClose,
                 known, clientVars, histVars>>

CloseDetach ==
  /\ closer = "detach"
  /\ clients' = clients \ {atClient}
  /\ closer' = "broker"
  /\ UNCHANGED <<brokerHas, dealerHas, dealerVars, subscribed, peerVars, handlerVars, atClient,
                 toClose, known, clientVars, histVars>>

CloseDetachBroker ==
  /\ closer = "broker"
  /\ closer' = IF atClient \in brokerHas THEN "dealer" ELSE "range"
  /\ RemoveFromBroker(atClient)
  /\ UNCHANGED <<clients, dealerHas, dealerVars, peerVars, handlerVars, atClient, toClose,
                 known, clientVars, histVars>>

CloseDetachDealer ==
  /\ closer = "dealer"
  /\ closer' = "range"
  /\ RemoveFromDealer(atClient)
  /\ UNCHANGED <<clients, brokerHas, subscribed, peerVars, handlerVars, atClient, toClose, known,
                 clientVars, histVars>>

\* Faulty variant: Realm.Close's callback returns false, which ends the Range.
EndCloseEarly ==
  /\ closer = "range"
  /\ closer' = "done"
  /\ known' = FALSE
  /\ UNCHANGED <<tableVars, dealerVars, subscribed, peerVars, handlerVars, atClient, toClose,
                 clientVars, histVars>>

\* The Range is over: it may have missed a client that attached meanwhile. The name goes.
EndClose ==
  /\ closer = "range"
  /\ toClose \cap clients = {}
  /\ closer' = "done"
  /\ known' = FALSE
  /\ UNCHANGED <<tableVars, dealerVars, subscribed, peerVars, handlerVars, atClient, toClose,
                 clientVars, histVars>>

RemoveRealm ==
  /\ load.remove /\ known
  /\ known' = FALSE
  /\ UNCHANGED <<tableVars, dealerVars, subscribed, peerVars, handlerVars, closer, atClient,
                 toClose, clientVars, histVars>>

Router ==
  \/ StartClose \/ (\E s \in Sessions : CloseClient(s)) \/ CloseTransport \/ CloseReturns
  \/ CloseDetach \/ CloseDetachBroker \/ CloseDetachDealer \/ EndClose
  \/ RemoveRealm

-----------------------------------------------------------------------------
(* killSession, called by the meta API for a session it found in the map   *)

KillGoes(s, where) == killer' = [killer EXCEPT ![s] = where]

KillFinds(s) ==
  /\ s \in load.kill /\ killer[s] = "idle"
  /\ s \in clients
  /\ KillGoes(s, "write")
  /\ UNCHANGED vars

\* Write says that the peer is closed, and nothing more is done.
KillFails(s) ==
  /\ killer[s] = "write" /\ ~peerOpen[s]
  /\ KillGoes(s, "done")
  /\ UNCHANGED vars

\* The queue is full and Write waits: with the mutex on a raw socket or a local peer, without
\* it on a WebSocket.
KillWaits(s) ==
  /\ killer[s] = "write" /\ peerOpen[s] /\ ~Fits(s)
  /\ \E how \in {"locked", "parked"} : KillGoes(s, how)
  /\ UNCHANGED vars

KillWrites(s) ==
  /\ (killer[s] = "write" /\ peerOpen[s]) \/ killer[s] \in {"locked", "parked"}
  /\ Fits(s)
  /\ Queue(s, Msg("GOODBYE", 0))
  /\ KillGoes(s, "close")
  /\ UNCHANGED <<tableVars, dealerVars, subscribed, peerOpen, inbox, handlerVars, routerVars,
                 clientVars, histVars>>

KillCloses(s) ==
  /\ killer[s] = "close"
  /\ peerOpen' = [peerOpen EXCEPT ![s] = FALSE]
  /\ KillGoes(s, "done")
  /\ UNCHANGED <<tableVars, dealerVars, subscribed, inbox, outq, handlerVars, routerVars,
                 clientVars, histVars>>

Kill(s) == KillFinds(s) \/ KillFails(s) \/ KillWaits(s) \/ KillWrites(s) \/ KillCloses(s)

-----------------------------------------------------------------------------
Steps ==
  \/ \E s \in Sessions : ClientSends(s) \/ ClientReceives(s) \/ ClientDisconnects(s) \/ Attach(s)
  \/ \E s \in Sessions : HandleClient(s)
  \/ Router

Next ==
  /\ (Steps /\ UNCHANGED killer) \/ \E s \in Sessions : Kill(s)
  /\ UNCHANGED load

Spec == Init /\ [][Next]_<<load, killer, vars>>

\* The goroutines get on with their deliveries, and a Write that waits takes the room it gets.
\* No client has to read its queue, and no other step has to be taken.
DeliverNext(s) ==
  (DeliverQueued(s) \/ DeliverDropped(s) \/ DeliverAbsent(s) \/ DeliverClosed(s))
  /\ UNCHANGED <<load, killer>>

FairSpec ==
  /\ Spec
  /\ \A s \in Sessions : /\ WF_<<load, killer, vars>>(DeliverNext(s))
                          /\ WF_<<load, killer, vars>>(KillWrites(s) /\ UNCHANGED load)

-----------------------------------------------------------------------------
(* Safety                                                                  *)

TypeOK ==
  /\ load \in Loads
  /\ clients \subseteq Sessions /\ brokerHas \subseteq Sessions /\ dealerHas \subseteq Sessions
  /\ registered \in Sessions \cup {None} /\ subscribed \subseteq Sessions
  /\ pending \subseteq [n : Numbers, caller : Sessions, callee : Sessions]
  /\ peerOpen \in [Sessions -> BOOLEAN]
  /\ \A s \in Sessions : Len(outq[s]) <= OutQueueSize /\ Len(inbox[s]) <= load.sends[s]
  /\ hpc \in [Sessions -> {"new", "addBroker", "addDealer", "read", "deliver", "close",
                           "detach", "broker", "dealer", "leave", "gone"}]
  /\ closer \in {"idle", "range", "close", "wait", "detach", "broker", "dealer", "done"}
  /\ killer \in [Sessions -> {"idle", "write", "parked", "locked", "close", "done"}]
  /\ atClient \in Sessions \cup {None} /\ toClose \subseteq Sessions /\ known \in BOOLEAN
  /\ canceled \subseteq [n : Numbers, caller : Sessions, callee : Sessions]

\* What one client's goroutine queues for another arrives in the order of that client's
\* messages: a callee never gets the INTERRUPT of an invocation before the INVOCATION, and a
\* subscriber gets the events of one publisher in the order of publication, none twice,
\* while subscriptions come and go and other publishers' events come between.
DeliveredInOrder ==
  /\ TypeOK
  /\ \A s \in Sessions :
       LET q == seen[s] \o outq[s] IN
       \A j \in DOMAIN q : \A i \in 1..(j - 1) :
         /\ q[i].type = "INTERRUPT" => q[j] # Msg("INVOCATION", q[i].n)
         /\ q[i].type = "EVENT" /\ q[j].type = "EVENT" /\ origin[q[i].n] = origin[q[j].n] =>
              q[i].n < q[j].n

\* No call is answered twice, except one whose INVOCATION was dropped: the caller is told
\* so, the dealer keeps it open, and a CANCEL that was on its way is answered too. And a
\* call that was cancelled is answered ("log and continue so remaining messages still go
\* out", realm.go): when the caller's goroutine is done with the CANCEL, the caller has its
\* ERROR if it fits and the caller is still there, unless the callee has disconnected and is
\* still in the map, where handleCancel returns an error instead.
CallsAnsweredOnce ==
  /\ \A n \in Numbers :
       /\ Len(answers[n]) <= 2
       /\ Len(answers[n]) = 2 => <<"INVOCATION", n>> \in dropped /\ \E p \in canceled : p.n = n
  /\ \A p \in canceled :
       /\ hpc[p.caller] = "read" /\ p.caller \in clients /\ peerOpen[p.caller]
       /\ <<"ERROR", p.n>> \notin dropped
       => answers[p.n] # <<>> \/ ~peerOpen[p.callee]

\* A client whose goroutine has ended is forgotten by the map, the broker and the dealer: no
\* call or event is routed to it (DetachClient). Not so if the realm's name was removed
\* first, or while Realm.Close detaches the same clients: the two stop at each other's
\* errors, and a session that is half attached stays with the dealer.
DetachForgets ==
  \A s \in Sessions : hpc[s] = "gone" /\ known /\ closer = "idle" =>
    /\ s \notin clients \cup brokerHas \cup dealerHas \cup subscribed
    /\ registered # s

\* Router.Close disconnects every client that was attached when it began, though clients
\* attach and detach themselves meanwhile (one that does is about to close its transport).
ShutdownDisconnects ==
  closer = "done" => \A s \in toClose : peerOpen[s] => hpc[s] \in {"broker", "dealer", "leave"}

-----------------------------------------------------------------------------
(* Liveness                                                                *)

\* A client that does not read blocks no other one (TestBlockedCalleeNotBlockCaller): whatever
\* a goroutine has to deliver, and to whom, it gets through it, while queues stay full for
\* ever, and clients come, go and are killed. It is held up for good only by a kill:
\* killSession's Write to the recipient waits for room with the mutex of the recipient's
\* peer, and the recipient never reads.
DeliveriesEnd ==
  \A s \in Sessions :
    []<>(hpc[s] = "deliver" => LET r == Head(todo[s].msgs).to IN Locked(r) /\ ~Fits(r))
=============================================================================
