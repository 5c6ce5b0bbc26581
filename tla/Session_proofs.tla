--------------------------- MODULE Session_proofs ---------------------------
(***************************************************************************)
(* Proofs about Session, for any requests and any workloads. The inductive *)
(* invariant has five parts: the shape of the state and of the messages on *)
(* their way; what a request goes through (asked, open at the router,      *)
(* answered, told, done), one at a time; registrations; subscriptions; and *)
(* invocations.                                                            *)
(***************************************************************************)
EXTENDS Session, TLAPS

Replies == {"RESULT", "ERROR", "ACK"}
RouterTypes == Kinds \cup {"cancel", "unacknowledged", "yield"}
PlainTypes == Replies \cup (PushTypes \ {"INVOCATION"})
AllTopics == {Target[r] : r \in {q \in AllRequests : Kind[q] = "subscribe"}}
Ids == AllRequests \cup AllTopics \cup Nat

\* What the session sends, and what the router sends.
Order == [type : RouterTypes, id : Ids]
Plain == [type : PlainTypes, id : Ids]
Invocation == [type : {"INVOCATION"}, id : Nat, reg : AllRequests, chunk : Nat, more : BOOLEAN,
               receive : BOOLEAN, asked : BOOLEAN]
Message == Plain \cup Invocation

\* Whom a message is about.
RouterOK(m) ==
  /\ m.type \in Kinds => m.id \in Requests /\ Kind[m.id] = m.type
  /\ m.type = "cancel" => m.id \in Of("call")
  /\ m.type = "leave" => pc[m.id] # "new"
SessionOK(m) ==
  /\ m.type = "RESULT" => m.id \in Of("call")
  /\ m.type = "ERROR" => m.id \in Requests /\ Kind[m.id] # "leave"
  /\ m.type = "ACK" => m.id \in Requests /\ Kind[m.id] \notin {"call", "leave"}
  /\ m.type = "EVENT" => m.id \in Topics
  /\ m.type = "INVOCATION" => m.id \in 1..pushed /\ m.chunk \in 0..load.chunks /\ m.reg \in Of("register")
  /\ m.type = "INTERRUPT" => m.id \in 1..pushed
  /\ m.type \in {"UNPARSABLE", "UNEXPECTED"} => m.type \in load.push

RouterState ==
  /\ rCalls \subseteq Of("call") /\ rRegs \subseteq Of("register") /\ rSubs \subseteq Topics
  /\ pushed \in 0..load.pushes /\ rInvs \subseteq 1..pushed
  /\ rMore \subseteq [id : 1..pushed, reg : Of("register"), sent : 0..load.chunks, asked : BOOLEAN]
  /\ \A h \in cancels \cup running \cup interrupted : h[1] \in 1..pushed
RequestState ==
  /\ \A r \in Requests : pc[r] = "returned" <=> outcome[r] # "none"
  /\ table \subseteq {r \in Requests : pc[r] \in {"wait", "cancelling", "cancel"} /\ Kind[r] # "leave"}
  /\ \A r \in Requests : pc[r] \in {"cancelling", "cancel"} => Kind[r] = "call"
  /\ \A r \in Requests : chunksLeft[r] > 0 => r \in Chunked
  /\ \A u \in Of("unregister") \cup Of("unsubscribe") : pc[u] # "new" => outcome[Target[u]] = "ok"
ReaderState ==
  /\ reader \in {"blocked", "dispatching"} => toSession # <<>>
  /\ reader = "blocked" => Head(toSession).type \in Replies
  /\ reader = "dispatching" => Head(toSession).type = "EVENT"
  /\ OnlyCalls => reader # "dead"
Orders == toRouter \in Seq(Order) /\ \A i \in 1..Len(toRouter) : RouterOK(toRouter[i])
Messages == toSession \in Seq(Message) /\ \A i \in 1..Len(toSession) : SessionOK(toSession[i])
Shape == TypeOK /\ RouterState /\ RequestState /\ ReaderState /\ Orders /\ Messages

-----------------------------------------------------------------------------
(* One reply to a request                                                  *)

Has(q, types, id) == \E i \in 1..Len(q) : q[i].type \in types /\ q[i].id = id

Simple == {r \in Requests \ Chunked : Kind[r] # "leave"}
Asked(r) == Has(toRouter, {Kind[r]}, r)
Answered(r) == Has(toSession, Replies, r)
Told(r) == reply[r] # <<>>
Done(r) == outcome[r] = "ok"

TokenInv(r) ==
  /\ Asked(r) => r \notin rCalls /\ ~Answered(r) /\ ~Told(r) /\ ~Done(r)
  /\ r \in rCalls => ~Answered(r) /\ ~Told(r) /\ ~Done(r)
  /\ Answered(r) => ~Told(r) /\ ~Done(r)
  /\ Told(r) => ~Done(r)
  /\ Asked(r) \/ r \in rCalls \/ Answered(r) \/ Told(r) => pc[r] \notin {"new", "send"}
  /\ Asked(r) => Kind[r] = "call" \/ pc[r] = "wait" \/ outcome[r] = "timeout"
Apart(a, b, types) == ~(a.type \in types /\ b.type \in types /\ a.id = b.id /\ a.id \in Simple)
OnceIn(q, types) == \A i, j \in 1..Len(q) : i < j => Apart(q[i], q[j], types)
TInv == (\A r \in Simple : TokenInv(r)) /\ OnceIn(toRouter, Kinds) /\ OnceIn(toSession, Replies)

-----------------------------------------------------------------------------
(* Registrations                                                           *)

Errored(r) == Has(toSession, {"ERROR"}, r) \/ reply[r] = <<"error">>
Acked(r) == Has(toSession, {"ACK"}, r) \/ reply[r] = <<"ok">>
\* Request r was granted and its goroutine has still to see it, or gave up.
Granted(r) == outcome[r] = "timeout" \/ (pc[r] = "wait" /\ ~Asked(r) /\ ~Errored(r))
LeaveStarted == \E l \in Of("leave") : pc[l] # "new"

First(m, g) == m.type = "INVOCATION" /\ m.reg = g /\ m.chunk = 0
Invoked(g) == \E i \in 1..Len(toSession) : First(toSession[i], g)

RegInv(g) ==
  /\ g \in rRegs \/ Invoked(g) => g \in regs \/ Granted(g)
  /\ g \in regs => Done(g)
  /\ g \in regs /\ g \notin rRegs =>
       LeaveStarted \/ \E u \in Of("unregister") : Target[u] = g /\ Granted(u)
  /\ Acked(g) => g \in rRegs \/ LeaveStarted
UnregInv(u) ==
  /\ Acked(u) => Target[u] \notin rRegs
  /\ reply[u] = <<"ok">> => ~Invoked(Target[u])
  /\ \A i, j \in 1..Len(toSession) :
       i < j /\ toSession[i].type = "ACK" /\ toSession[i].id = u => ~First(toSession[j], Target[u])
RInv == (\A g \in Of("register") : RegInv(g)) /\ (\A u \in Of("unregister") : UnregInv(u))

-----------------------------------------------------------------------------
(* Subscriptions                                                           *)

Gone(t) == \E r \in Of("subscribe") : Topic(r) = t /\ outcome[r] = "timeout"
Covered(t) == t \in subEntry \/ \E r \in Of("subscribe") : Topic(r) = t /\ Granted(r)
Unsub(m, t) == m.type = "unsubscribe" /\ Topic(m.id) = t
NoUnsub(t) == \A i \in 1..Len(toRouter) : ~Unsub(toRouter[i], t)

AloneInv ==
  \A r, q \in Of("subscribe") \cup Of("unsubscribe") :
    Topic(r) = Topic(q) /\ pc[r] \in {"send", "wait"} /\ pc[q] \in {"send", "wait"} => r = q
EventInv == \A t \in Topics : t \in rSubs \/ Has(toSession, {"EVENT"}, t) => Covered(t)
UnsubInv(u) ==
  pc[u] = "wait" =>
    /\ subs \cap OnTopic(Topic(u)) = {}
    /\ Acked(u) /\ ~Gone(Topic(u)) => Topic(u) \notin rSubs
    /\ reply[u] = <<"ok">> /\ ~Gone(Topic(u)) => ~Has(toSession, {"EVENT"}, Topic(u))
    /\ ~Gone(Topic(u)) => \A i, j \in 1..Len(toSession) :
         i < j /\ toSession[i].type = "ACK" /\ toSession[i].id = u =>
           ~(toSession[j].type = "EVENT" /\ toSession[j].id = Topic(u))
SubInv(h) ==
  /\ h \in subs => Topic(h) \in subEntry
  /\ ~LeaveStarted /\ (h \in subs \/ (pc[h] = "wait" /\ Acked(h))) => Topic(h) \in rSubs /\ NoUnsub(Topic(h))
  /\ pc[h] = "wait" => \A i, j \in 1..Len(toRouter) :
       i < j /\ toRouter[i].type = "subscribe" /\ toRouter[i].id = h => ~Unsub(toRouter[j], Topic(h))
SInv ==
  load.serial =>
    /\ AloneInv /\ EventInv /\ HandlerKept
    /\ \A u \in Of("unsubscribe") : UnsubInv(u)
    /\ \A h \in Of("subscribe") : SubInv(h)

-----------------------------------------------------------------------------
(* Invocations                                                             *)

\* For the messages q on their way to the session, the router's open invocations S and the
\* handlers H: chunk n of invocation i was sent, and says whether more will come.
SentOK(S, i, n, more) == \A m \in S : m.id = i => n <= m.sent /\ more
NextOK(i, n, more, m) == m.type = "INVOCATION" /\ m.id = i => n < m.chunk /\ more
Opening(m, i) == m.type = "INVOCATION" /\ m.id = i /\ m.chunk = 0 /\ m.asked /\ m.more

OneEach(S) == \A m, k \in S : m.id = k.id => m = k
QueueOK(q, S) ==
  \A i \in 1..Len(q) : q[i].type = "INVOCATION" =>
    SentOK(S, q[i].id, q[i].chunk, q[i].more) /\ q[i].receive = (q[i].asked /\ q[i].chunk = 0)
OrderOK(q) ==
  \A i, j \in 1..Len(q) : i < j /\ q[i].type = "INVOCATION" => NextOK(q[i].id, q[i].chunk, q[i].more, q[j])
HandlersOK(H, S, q) ==
  \A h \in H : SentOK(S, h[1], h[2], h[3]) /\ \A i \in 1..Len(q) : NextOK(h[1], h[2], h[3], q[i])
PairsOK(H) == \A h, k \in H : h[1] = k[1] => h = k \/ (h[2] < k[2] /\ h[3]) \/ (k[2] < h[2] /\ k[3])
ChunkIn(q, S, H) == OneEach(S) /\ QueueOK(q, S) /\ OrderOK(q) /\ HandlersOK(H, S, q) /\ PairsOK(H)
ChunkInv == ChunkIn(toSession, rMore, running \cup cancels)

\* An INTERRUPT is the last the router says of an invocation.
StopIn(q, S, I) ==
  /\ \A i \in 1..Len(q) : q[i].type = "INTERRUPT" => q[i].id \notin I /\ \A m \in S : m.id # q[i].id
  /\ \A i, j \in 1..Len(q) : i < j /\ q[i].type = "INTERRUPT" => ~(q[j].type = "INVOCATION" /\ q[j].id = q[i].id)
StopInv == StopIn(toSession, rMore, rInvs)

\* A chunk of a call that asked for progress finds the send-progress function F, or comes
\* after the chunk that stores it.
ProgressQueue(q, F) ==
  \A j \in 1..Len(q) : q[j].type = "INVOCATION" /\ q[j].asked /\ q[j].chunk > 0 =>
    q[j].id \in F \/ \E i \in 1..Len(q) : i < j /\ Opening(q[i], q[j].id)
ProgressMore(q, S, F) ==
  \A m \in S : m.asked => m.id \in F \/ \E i \in 1..Len(q) : Opening(q[i], m.id)
ProgressInv ==
  reader # "panic" =>
    /\ ProgressQueue(toSession, progressFunc)
    /\ transport = "open" => ProgressMore(toSession, rMore, progressFunc)
IInvs == ChunkInv /\ StopInv /\ ProgressInv /\ InterruptReaches

-----------------------------------------------------------------------------
(* Queues                                                                  *)

\* q is p without its first k messages and perhaps without some of its last.
Shorter(q, p, k) ==
  /\ k \in {0, 1} /\ Len(q) \in Nat /\ Len(p) \in Nat /\ Len(q) + k <= Len(p)
  /\ \A i \in 1..Len(q) : q[i] = p[i + k]
\* q is p with m added.
Longer(q, p, m) ==
  /\ Len(p) \in Nat /\ Len(q) = Len(p) + 1
  /\ \A i \in 1..Len(p) : q[i] = p[i]
  /\ q[Len(p) + 1] = m

LEMMA SameQueue == ASSUME NEW S, NEW q \in Seq(S) PROVE Shorter(q, q, 0)
<1>1. PICK n \in Nat : n = Len(q)
    OBVIOUS
<1>2. \A i \in 1..n : i + 0 = i
    BY <1>1
<1>3. n + 0 <= n
    OBVIOUS
<1>4. QED
    BY <1>1, <1>2, <1>3 DEF Shorter

LEMMA TailQueue ==
  ASSUME NEW S, NEW q \in Seq(S), q # <<>>
  PROVE  Shorter(Tail(q), q, 1) /\ Tail(q) \in Seq(S) /\ Head(q) = q[1] /\ Head(q) \in S /\ 1 \in 1..Len(q)
<1>1. Tail(q) \in Seq(S) /\ Head(q) = q[1] /\ Head(q) \in S /\ Len(q) \in Nat \ {0}
    OBVIOUS
<1>2. Len(Tail(q)) = Len(q) - 1 /\ \A i \in 1..Len(Tail(q)) : Tail(q)[i] = q[i + 1]
    OBVIOUS
<1>3. PICK n \in Nat \ {0} : n = Len(q)
    BY <1>1
<1>4. n - 1 \in Nat /\ (n - 1) + 1 <= n /\ 1 \in 1..n
    OBVIOUS
<1>5. QED
    BY <1>1, <1>2, <1>3, <1>4 DEF Shorter

LEMMA CutQueue ==
  ASSUME NEW S, NEW q \in Seq(S)
  PROVE  /\ Shorter(<<>>, q, 0) /\ <<>> \in Seq(S)
         /\ q # <<>> => Shorter(<<Head(q)>>, q, 0) /\ <<Head(q)>> \in Seq(S)
<1>1. Shorter(<<>>, q, 0) /\ <<>> \in Seq(S)
    BY DEF Shorter
<1>2. ASSUME q # <<>>
      PROVE  Shorter(<<Head(q)>>, q, 0) /\ <<Head(q)>> \in Seq(S)
    <2>1. Head(q) = q[1] /\ Head(q) \in S /\ Len(q) \in Nat \ {0}
        BY <1>2
    <2>2. PICK h \in S : h = Head(q)
        BY <2>1
    <2>3. <<h>> \in Seq(S) /\ Len(<<h>>) = 1 /\ <<h>>[1] = h
        OBVIOUS
    <2>4. \A i \in 1..1 : i = 1
        OBVIOUS
    <2>5. PICK n \in Nat \ {0} : n = Len(q)
        BY <2>1
    <2>6. 1 + 0 <= n /\ 1 + 0 = 1
        OBVIOUS
    <2>7. QED
        BY <2>1, <2>2, <2>3, <2>4, <2>5, <2>6 DEF Shorter
<1>3. QED
    BY <1>1, <1>2

LEMMA AppendQueue ==
  ASSUME NEW S, NEW q \in Seq(S), NEW m \in S
  PROVE  Longer(Append(q, m), q, m) /\ Append(q, m) \in Seq(S) /\ Append(q, m) # <<>>
<1>1. Append(q, m) \in Seq(S) /\ Len(Append(q, m)) = Len(q) + 1 /\ Len(q) \in Nat
    OBVIOUS
<1>2. \A i \in 1..Len(q) : Append(q, m)[i] = q[i]
    OBVIOUS
<1>3. Append(q, m)[Len(q) + 1] = m
    OBVIOUS
<1>4. Append(q, m) # <<>>
    <2>1. PICK n \in Nat : n = Len(q)
        BY <1>1
    <2>2. n + 1 # 0 /\ Len(<<>>) = 0
        OBVIOUS
    <2>3. QED
        BY <1>1, <2>1, <2>2
<1>5. QED
    BY <1>1, <1>2, <1>3, <1>4 DEF Longer

\* A position in a shorter queue was one before, a step later; in a longer one it is an old
\* position or the last.
LEMMA Shifted ==
  ASSUME NEW q, NEW p, NEW k, Shorter(q, p, k), NEW i \in 1..Len(q)
  PROVE  i + k \in 1..Len(p) /\ q[i] = p[i + k]
<1>1. PICK n \in Nat, d \in Nat : n = Len(p) /\ d = Len(q)
    BY DEF Shorter
<1>2. i \in 1..d /\ k \in {0, 1} /\ d + k <= n
    BY <1>1 DEF Shorter
<1>3. i + k \in 1..n
    BY <1>2
<1>4. QED
    BY <1>1, <1>3 DEF Shorter

LEMMA Grown ==
  ASSUME NEW q, NEW p, NEW m, Longer(q, p, m), NEW i \in 1..Len(q)
  PROVE  (i \in 1..Len(p) /\ q[i] = p[i]) \/ (i = Len(p) + 1 /\ q[i] = m)
<1>1. PICK n \in Nat : n = Len(p)
    BY DEF Longer
<1>2. i \in 1..(n + 1)
    BY <1>1 DEF Longer
<1>3. i \in 1..n \/ i = n + 1
    BY <1>2
<1>4. QED
    BY <1>1, <1>3 DEF Longer

LEMMA Older ==
  ASSUME NEW q, NEW p, NEW m, Longer(q, p, m)
  PROVE  /\ \A i \in 1..Len(p) : i \in 1..Len(q) /\ q[i] = p[i]
         /\ Len(p) + 1 \in 1..Len(q) /\ q[Len(p) + 1] = m
<1>1. PICK n \in Nat : n = Len(p)
    BY DEF Longer
<1>2. n + 1 \in 1..(n + 1) /\ \A i \in 1..n : i \in 1..(n + 1)
    BY <1>1
<1>3. QED
    BY <1>1, <1>2 DEF Longer

LEMMA HasShorter ==
  ASSUME NEW q, NEW p, NEW k, Shorter(q, p, k), NEW T, NEW id, Has(q, T, id)
  PROVE  Has(p, T, id)
<1>1. PICK i \in 1..Len(q) : q[i].type \in T /\ q[i].id = id
    BY DEF Has
<1>2. i + k \in 1..Len(p) /\ q[i] = p[i + k]
    BY Shifted
<1>3. QED
    BY <1>1, <1>2 DEF Has

LEMMA HasLonger ==
  ASSUME NEW q, NEW p, NEW m, Longer(q, p, m), NEW T, NEW id
  PROVE  Has(q, T, id) <=> Has(p, T, id) \/ (m.type \in T /\ m.id = id)
<1>1. ASSUME Has(q, T, id)
      PROVE  Has(p, T, id) \/ (m.type \in T /\ m.id = id)
    <2>1. PICK i \in 1..Len(q) : q[i].type \in T /\ q[i].id = id
        BY <1>1 DEF Has
    <2>2. (i \in 1..Len(p) /\ q[i] = p[i]) \/ (i = Len(p) + 1 /\ q[i] = m)
        BY Grown
    <2>3. QED
        BY <2>1, <2>2 DEF Has
<1>2. ASSUME Has(p, T, id)
      PROVE  Has(q, T, id)
    BY <1>2, Older DEF Has
<1>3. ASSUME m.type \in T /\ m.id = id
      PROVE  Has(q, T, id)
    BY <1>3, Older DEF Has
<1>4. QED
    BY <1>1, <1>2, <1>3

-----------------------------------------------------------------------------
(* What a step does to a request                                           *)

Starts(r) ==
  /\ pc[r] = "new" /\ pc' = [pc EXCEPT ![r] = "send"]
  /\ UNCHANGED <<outcome, reply, toRouter>>
Asks(r) ==
  /\ pc[r] = "send" /\ pc' = [pc EXCEPT ![r] = "wait"]
  /\ toRouter' = Append(toRouter, Msg(Kind[r], r))
  /\ UNCHANGED <<outcome, reply>>
Continues(r) ==
  /\ r \in Chunked
  /\ UNCHANGED toRouter \/ \E type \in {"call", "cancel"} : toRouter' = Append(toRouter, Msg(type, r))
  /\ UNCHANGED <<pc, outcome, reply>>
Cancels(r) ==
  /\ Kind[r] = "call"
  /\ \/ pc[r] = "wait" /\ pc' = [pc EXCEPT ![r] = "cancelling"] /\ UNCHANGED toRouter
     \/ /\ pc[r] = "cancelling" /\ pc' = [pc EXCEPT ![r] = "cancel"]
        /\ toRouter' = Append(toRouter, Msg("cancel", r))
  /\ UNCHANGED <<outcome, reply>>
Takes(r, how) ==
  /\ pc[r] \in {"wait", "cancel"} /\ reply[r] = <<how>>
  /\ pc' = [pc EXCEPT ![r] = "returned"] /\ outcome' = [outcome EXCEPT ![r] = how]
  /\ reply' = [reply EXCEPT ![r] = <<>>]
  /\ UNCHANGED toRouter
GivesUp(r, how) ==
  /\ how \in {"error", "refused", "timeout", "canceled", "closed"}
  /\ pc[r] # "returned"
  /\ Kind[r] = "call" \/ pc[r] \in {"new", "send"} \/ how = "timeout"
  /\ how = "timeout" => pc[r] = "wait"
  /\ pc' = [pc EXCEPT ![r] = "returned"] /\ outcome' = [outcome EXCEPT ![r] = how]
  /\ UNCHANGED <<reply, toRouter>>
\* A request that needs no reply: publish, unsubscribe, Leave.
Finishes(r) ==
  /\ \/ Kind[r] \in {"publish", "unsubscribe"} /\ pc[r] = "send"
     \/ Kind[r] = "leave" /\ pc[r] = "wait"
  /\ pc' = [pc EXCEPT ![r] = "returned"] /\ outcome' = [outcome EXCEPT ![r] = "ok"]
  /\ UNCHANGED toRouter \/ toRouter' = Append(toRouter, Msg("unacknowledged", r))
  /\ UNCHANGED reply
Moves(r) ==
  \/ Starts(r) \/ Asks(r) \/ Continues(r) \/ Cancels(r) \/ Finishes(r)
  \/ \E how \in {"ok", "error"} : Takes(r, how)
  \/ \E how \in {"error", "refused", "timeout", "canceled", "closed"} : GivesUp(r, how)

LEMMA RequestMoves ==
  ASSUME TypeOK, RequestState, NEW r \in Requests, Request(r)
  PROVE  Moves(r) /\ UNCHANGED <<invVars, transport, toSession, routerVars>>
<1> USE DEF TypeOK, RequestState, invVars, routerVars, netVars, callVars, subVars, lifeVars, reqVars, Moves
<1>1. CASE Refuse(r)
    BY <1>1 DEF Refuse, MayStart, Return, GivesUp
<1>2. CASE StartRequest(r)
    BY <1>2 DEF StartRequest, MayStart, Starts
<1>3. ASSUME Send(r)
      PROVE  Moves(r) /\ UNCHANGED <<invVars, transport, toSession, routerVars>>
    BY <1>3 DEF Send, Asks, Return, GivesUp
<1>4. CASE SendRequest(r)
    BY <1>3, <1>4 DEF SendRequest
<1>5. CASE SendUnsubscribe(r)
    <2>1. CASE Send(r)
        BY <1>3, <2>1
    <2>2. CASE Return(r, "ok") /\ UNCHANGED <<reply, regs, callVars, invVars, netVars, routerVars>>
        BY <1>5, <2>2 DEF SendUnsubscribe, Return, Finishes
    <2>3. QED
        BY <1>5, <2>1, <2>2 DEF SendUnsubscribe
<1>6. CASE PublishUnacknowledged(r)
    BY <1>6 DEF PublishUnacknowledged, Return, Finishes
<1>7. CASE SendChunk(r)
    BY <1>7 DEF SendChunk, Continues
<1>8. CASE ReplyTaken(r)
    BY <1>8 DEF ReplyTaken, TakeReply, Takes, Return
<1>9. CASE Registered(r)
    BY <1>9 DEF Registered, TakeReply, Takes, Return
<1>10. CASE Subscribed(r)
    BY <1>10 DEF Subscribed, TakeReply, Takes, Return
<1>11. CASE Unsubscribed(r)
    BY <1>11 DEF Unsubscribed, TakeReply, Takes, Return
<1>12. CASE Timeout(r)
    BY <1>12 DEF Timeout, Return, GivesUp
<1>13. CASE ContextDone(r) \/ SendCancel(r)
    BY <1>13, CallsAssumption DEF ContextDone, SendCancel, Return, GivesUp, Cancels
<1>14. CASE CancelTimeout(r)
    BY <1>14 DEF CancelTimeout, Return, GivesUp
<1>15. CASE CallSeesLeave(r)
    BY <1>15 DEF CallSeesLeave, Return, GivesUp
<1>16. CASE LeaveReturns(r)
    BY <1>16 DEF LeaveReturns, Return, Finishes
<1>17. QED
    BY <1>1, <1>2, <1>4, <1>5, <1>6, <1>7, <1>8, <1>9, <1>10, <1>11, <1>12, <1>13, <1>14, <1>15,
       <1>16 DEF Request

\* The reader takes the next message, and may pass a reply on.
Tells(how) ==
  /\ toSession # <<>> /\ Head(toSession).type \in Replies
  /\ how = IF Head(toSession).type = "ERROR" THEN "error" ELSE "ok"
  /\ reply[Id] = <<>> /\ reply' = [reply EXCEPT ![Id] = <<how>>]
  /\ Received
Drops == toSession # <<>> /\ Received /\ UNCHANGED reply
Hears == UNCHANGED <<reply, toSession>> \/ Drops \/ \E how \in {"ok", "error"} : Tells(how)

LEMMA ReaderHears ==
  ASSUME ReaderState, Reader
  PROVE  /\ Hears
         /\ UNCHANGED <<pc, outcome, toRouter, regs, subVars, chunksLeft, routerVars>>
         /\ transport' \in {transport, "lost"}
         /\ reader \in {"reading", "blocked", "dispatching", "leaving"}
<1> USE DEF ReaderState, invVars, routerVars, netVars, callVars, subVars, lifeVars, reqVars, Hears, Drops,
            Receiving, ReaderDies
<1>1. CASE ReadResult
    BY <1>1 DEF ReadResult, Deliver, Tells, Replies
<1>2. CASE ReadProgress
    BY <1>2 DEF ReadProgress
<1>3. CASE ReadAck
    BY <1>3 DEF ReadAck, Deliver, Tells, Replies
<1>4. CASE ReadError
    BY <1>4 DEF ReadError, Deliver, Tells, Replies
<1>5. CASE ReadBlocks
    BY <1>5 DEF ReadBlocks
<1>6. CASE ReadUnblocks
    BY <1>6 DEF ReadUnblocks, Deliver, Tells, Replies
<1>7. CASE ReadEvent
    BY <1>7 DEF ReadEvent
<1>8. CASE EventDispatched
    BY <1>8 DEF EventDispatched
<1>9. CASE ReadInvocation
    BY <1>9 DEF ReadInvocation
<1>10. CASE ReadInterrupt
    BY <1>10 DEF ReadInterrupt
<1>11. CASE ReadGoodbye
    BY <1>11 DEF ReadGoodbye
<1>12. CASE AfterOnLeave
    BY <1>12 DEF AfterOnLeave
<1>13. CASE ReadAbort
    BY <1>13 DEF ReadAbort
<1>14. CASE ReadGarbage
    BY <1>14 DEF ReadGarbage
<1>15. CASE ReadFails
    BY <1>15 DEF ReadFails
<1>16. QED
    BY <1>1, <1>2, <1>3, <1>4, <1>5, <1>6, <1>7, <1>8, <1>9, <1>10, <1>11, <1>12, <1>13, <1>14, <1>15
    DEF Reader

LEMMA HandlerFrame ==
  ASSUME NEW h, HandlerReturns(h)
  PROVE  /\ UNCHANGED <<reqVars, lifeVars, regs, subVars, callVars, progressFunc, interrupted, transport,
                        toSession, routerVars>>
         /\ running' \subseteq running /\ cancels' \subseteq cancels
         /\ UNCHANGED toRouter \/ toRouter' = Append(toRouter, Msg("yield", h[1]))
BY DEF HandlerReturns

LEMMA RouterFrame ==
  ASSUME Router
  PROVE  SessionUnchanged /\ transport = "open"
<1>1. RouterHandles => SessionUnchanged /\ transport = "open"
    BY DEF RouterHandles
<1>2. ASSUME NEW r \in Requests
      PROVE  RouterAnswers(r) => SessionUnchanged /\ transport = "open"
    BY DEF RouterAnswers
<1>3. RouterNextChunk => SessionUnchanged /\ transport = "open"
    BY DEF RouterNextChunk
<1>4. RouterPushes => SessionUnchanged /\ transport = "open"
    BY DEF RouterPushes
<1>5. QED
    BY <1>1, <1>2, <1>3, <1>4 DEF Router

-----------------------------------------------------------------------------
(* The shape of the state                                                  *)

LEMMA LoadFacts ==
  ASSUME TypeOK
  PROVE  /\ Requests \subseteq AllRequests /\ load.serial \in BOOLEAN /\ load.push \subseteq PushTypes
         /\ load.pushes \in Nat /\ load.chunks \in Nat
         /\ \A r \in Requests : Kind[r] \in Kinds
         /\ \A r \in Of("unregister") : Target[r] \in Of("register")
         /\ \A r \in Of("unsubscribe") : Target[r] \in Of("subscribe")
         /\ \A r \in Of("subscribe") \cup Of("unsubscribe") : Topic(r) \in Topics
<1>1. load \in Loads
    BY DEF TypeOK
<1>2. load \in [requests : SUBSET AllRequests, serial : BOOLEAN, slow : BOOLEAN,
                push : SUBSET PushTypes, pushes : Nat, chunks : Nat]
    BY <1>1, LoadAssumption
<1>3. /\ Requests \subseteq AllRequests /\ load.serial \in BOOLEAN /\ load.push \subseteq PushTypes
      /\ load.pushes \in Nat /\ load.chunks \in Nat
    BY <1>2 DEF Requests
<1>4. \A r \in Requests : Kind[r] \in Kinds
    BY <1>3, KindAssumption
<1>5. /\ \A r \in Of("unregister") : Target[r] \in Of("register")
      /\ \A r \in Of("unsubscribe") : Target[r] \in Of("subscribe")
    BY <1>1, TargetAssumption DEF Of, Requests
<1>6. ASSUME NEW r \in Of("subscribe") \cup Of("unsubscribe")
      PROVE  Topic(r) \in Topics
    BY <1>5 DEF Of, Topic, Topics
<1>7. QED
    BY <1>3, <1>4, <1>5, <1>6

LEMMA SendType ==
  ASSUME TypeOK, UNCHANGED load, NEW r \in Requests, Send(r)
  PROVE  /\ pc' \in [Requests -> {"new", "send", "wait", "cancelling", "cancel", "returned"}]
         /\ outcome' \in [Requests -> {"none", "ok", "error", "refused", "timeout", "canceled", "closed"}]
         /\ table' \subseteq Requests /\ chunksLeft' \in [Requests -> 0..load.chunks]
         /\ UNCHANGED <<reply, progress, invVars, regs, transport, toSession, routerVars>>
<1>1. load.chunks \in Nat
    BY LoadFacts
<1>2. chunksLeft' \in [Requests -> 0..load.chunks]
    <2>1. (IF r \in Chunked /\ transport = "open" THEN load.chunks ELSE 0) \in 0..load.chunks
        BY <1>1
    <2>2. chunksLeft' = [chunksLeft EXCEPT ![r] =
                           IF r \in Chunked /\ transport = "open" THEN load.chunks ELSE 0]
        BY DEF Send
    <2>3. chunksLeft \in [Requests -> 0..load.chunks]
        BY DEF TypeOK
    <2>4. QED
        BY <2>1, <2>2, <2>3
<1>3. QED
    BY <1>2 DEF Send, Return, TypeOK

LEMMA RequestType ==
  ASSUME TypeOK, UNCHANGED load, NEW r \in Requests, Request(r)
  PROVE  TypeOK'
<1> USE DEF invVars, routerVars, netVars, callVars, subVars, lifeVars, reqVars, TypeOK, Requests, Of, Topics
<1>0. load.chunks \in Nat /\ (Kind[r] \in {"subscribe", "unsubscribe"} => Topic(r) \in Topics)
    BY LoadFacts
<1>1. CASE Refuse(r)
    BY <1>1 DEF Refuse, StoreProgressHandler, Return
<1>2. CASE StartRequest(r)
    BY <1>2 DEF StartRequest, StoreProgressHandler
<1>4. CASE SendRequest(r)
    BY <1>4, SendType DEF SendRequest
<1>5. CASE SendUnsubscribe(r)
    <2>0. reader' \in {reader, "panic"} /\ subs' \subseteq subs
        BY <1>5 DEF SendUnsubscribe, WriteMap
    <2>1. CASE Send(r)
        BY <1>5, <2>0, <2>1, SendType DEF SendUnsubscribe
    <2>2. CASE Return(r, "ok") /\ UNCHANGED <<reply, regs, callVars, invVars, netVars, routerVars>>
        BY <1>5, <2>0, <2>2 DEF SendUnsubscribe, Return
    <2>3. QED
        BY <1>5, <2>1, <2>2 DEF SendUnsubscribe
<1>6. CASE PublishUnacknowledged(r)
    BY <1>6 DEF PublishUnacknowledged, Return
<1>7. CASE SendChunk(r)
    <2>1. chunksLeft[r] - 1 \in 0..load.chunks /\ 0 \in 0..load.chunks
        BY <1>0, <1>7 DEF SendChunk
    <2>2. chunksLeft' = [chunksLeft EXCEPT ![r] = 0] \/ chunksLeft' = [chunksLeft EXCEPT ![r] = chunksLeft[r] - 1]
        BY <1>7 DEF SendChunk
    <2>3. chunksLeft' \in [Requests -> 0..load.chunks]
        BY <2>1, <2>2
    <2>4. QED
        BY <1>7, <2>3 DEF SendChunk
<1>8. CASE ReplyTaken(r)
    <2>1. PICK how \in {"ok", "error"} : TakeReply(r, how)
        BY <1>8 DEF ReplyTaken
    <2>2. /\ pc' \in [Requests -> {"new", "send", "wait", "cancelling", "cancel", "returned"}]
          /\ outcome' \in [Requests -> {"none", "ok", "error", "refused", "timeout", "canceled", "closed"}]
          /\ table' \subseteq Requests /\ reply' \in [Requests -> {<<>>, <<"ok">>, <<"error">>}]
        BY <2>1 DEF TakeReply, Return
    <2>3. QED
        BY <1>8, <2>2 DEF ReplyTaken
<1>9. CASE Registered(r)
    BY <1>9 DEF Registered, TakeReply, Return
<1>10. CASE Subscribed(r)
    <2>1. reader' \in {reader, "panic"}
        BY <1>10 DEF Subscribed, WriteMap
    <2>2. QED
        BY <1>0, <1>10, <2>1 DEF Subscribed, TakeReply, Return
<1>11. CASE Unsubscribed(r)
    BY <1>11 DEF Unsubscribed, TakeReply, Return
<1>12. CASE Timeout(r)
    BY <1>12 DEF Timeout, Return
<1>13. CASE ContextDone(r) \/ SendCancel(r)
    <2>1. CASE ContextDone(r)
        BY <2>1 DEF ContextDone
    <2>2. CASE SendCancel(r) /\ transport = "open"
        BY <2>2 DEF SendCancel
    <2>3. CASE SendCancel(r) /\ transport # "open"
        BY <2>3 DEF SendCancel, Return
    <2>4. QED
        BY <1>13, <2>1, <2>2, <2>3
<1>14. CASE CancelTimeout(r)
    BY <1>14 DEF CancelTimeout, Return
<1>15. CASE CallSeesLeave(r)
    BY <1>15 DEF CallSeesLeave, Return
<1>16. CASE LeaveReturns(r)
    <2>1. goodbyeChan' \in 0..1
        BY <1>16 DEF LeaveReturns
    <2>2. QED
        BY <1>16, <2>1 DEF LeaveReturns, Return
<1>17. QED
    BY <1>1, <1>2, <1>4, <1>5, <1>6, <1>7, <1>8, <1>9, <1>10, <1>11, <1>12, <1>13, <1>14, <1>15,
       <1>16 DEF Request

LEMMA HeadOfMessages ==
  ASSUME Messages, toSession # <<>>
  PROVE  /\ SessionOK(Head(toSession)) /\ Head(toSession) = toSession[1] /\ 1 \in 1..Len(toSession)
         /\ Head(toSession) \in Message /\ Shorter(Tail(toSession), toSession, 1)
         /\ Tail(toSession) \in Seq(Message)
BY TailQueue DEF Messages

LEMMA HeadOfOrders ==
  ASSUME Orders, toRouter # <<>>
  PROVE  /\ RouterOK(Head(toRouter)) /\ Head(toRouter) = toRouter[1] /\ 1 \in 1..Len(toRouter)
         /\ Head(toRouter) \in Order /\ Shorter(Tail(toRouter), toRouter, 1)
         /\ Tail(toRouter) \in Seq(Order)
BY TailQueue DEF Orders

LEMMA HeadInvocation ==
  ASSUME Messages, toSession # <<>>, Head(toSession).type = "INVOCATION"
  PROVE  /\ Head(toSession) \in Invocation
         /\ Head(toSession).id \in 1..pushed /\ Head(toSession).chunk \in 0..load.chunks
         /\ Head(toSession).more \in BOOLEAN /\ Head(toSession).reg \in Of("register")
<1>1. SessionOK(Head(toSession)) /\ Head(toSession) \in Message
    BY HeadOfMessages
<1>2. Head(toSession) \in Invocation
    BY <1>1 DEF Message, Plain, Invocation, PlainTypes, Replies
<1>3. Head(toSession).more \in BOOLEAN
    BY <1>2 DEF Invocation
<1>4. QED
    BY <1>1, <1>2, <1>3 DEF SessionOK

LEMMA ReaderType ==
  ASSUME TypeOK, RouterState, ReaderState, Messages, UNCHANGED load, Reader
  PROVE  TypeOK'
<1> USE DEF invVars, routerVars, netVars, callVars, subVars, lifeVars, reqVars, TypeOK, Requests, Of, Topics,
            Receiving, ReaderDies
<1>1. CASE ReadResult
    BY <1>1 DEF ReadResult, Deliver
<1>2. CASE ReadProgress
    BY <1>2 DEF ReadProgress
<1>3. CASE ReadAck
    BY <1>3 DEF ReadAck, Deliver
<1>4. CASE ReadError
    BY <1>4 DEF ReadError, Deliver
<1>5. CASE ReadBlocks
    BY <1>5 DEF ReadBlocks
<1>6. CASE ReadUnblocks
    BY <1>6 DEF ReadUnblocks, Deliver
<1>7. CASE ReadEvent
    BY <1>7 DEF ReadEvent
<1>8. CASE EventDispatched
    BY <1>8 DEF EventDispatched
<1>9. CASE ReadInvocation
    <2>1. CASE Head(toSession).reg \notin regs
        BY <1>9, <2>1 DEF ReadInvocation
    <2>2. CASE Head(toSession).reg \in regs
        <3>1. /\ Head(toSession).id \in 1..pushed /\ Head(toSession).chunk \in 0..load.chunks
              /\ Head(toSession).more \in BOOLEAN
            BY <1>9, HeadInvocation DEF ReadInvocation
        <3>2. 1..pushed \subseteq 1..load.pushes
            BY LoadFacts DEF RouterState
        <3>3. HandlerOf(Head(toSession)) \in (1..load.pushes) \X (0..load.chunks) \X BOOLEAN
            BY <3>1, <3>2 DEF HandlerOf
        <3>4. cancels' \cup running' \subseteq cancels \cup running \cup {HandlerOf(Head(toSession))}
            BY <1>9, <2>2 DEF ReadInvocation
        <3>5. cancels' \cup running' \cup interrupted' \subseteq (1..load.pushes) \X (0..load.chunks) \X BOOLEAN
            BY <1>9, <3>3, <3>4 DEF ReadInvocation
        <3>6. progressFunc' \subseteq 1..load.pushes
            <4>1. StoreProgressFunc(Head(toSession))
                BY <1>9, <2>2 DEF ReadInvocation
            <4>2. progressFunc' \subseteq progressFunc \cup {Head(toSession).id}
                BY <4>1 DEF StoreProgressFunc
            <4>3. progressFunc \subseteq 1..load.pushes
                OBVIOUS
            <4>4. QED
                BY <3>1, <3>2, <4>2, <4>3
        <3>7. QED
            BY <1>9, <2>2, <3>5, <3>6 DEF ReadInvocation
    <2>3. QED
        BY <2>1, <2>2
<1>10. CASE ReadInterrupt
    BY <1>10 DEF ReadInterrupt, OfInvocation
<1>11. CASE ReadGoodbye
    BY <1>11 DEF ReadGoodbye
<1>12. CASE AfterOnLeave
    BY <1>12 DEF AfterOnLeave, markDisconnected
<1>13. CASE ReadAbort
    BY <1>13 DEF ReadAbort, markDisconnected
<1>14. CASE ReadGarbage
    BY <1>14 DEF ReadGarbage
<1>15. CASE ReadFails
    BY <1>15 DEF ReadFails, markDisconnected
<1>16. QED
    BY <1>1, <1>2, <1>3, <1>4, <1>5, <1>6, <1>7, <1>8, <1>9, <1>10, <1>11, <1>12, <1>13, <1>14, <1>15
    DEF Reader

LEMMA TypeKept ==
  ASSUME TypeOK, RouterState, ReaderState, Messages, Next
  PROVE  TypeOK'
<1>0. UNCHANGED load
    BY DEF Next
<1>1. CASE \E r \in Requests : Request(r)
    BY <1>0, <1>1, RequestType
<1>2. CASE Reader
    BY <1>0, <1>2, ReaderType
<1>3. CASE \E h \in running : HandlerReturns(h)
    <2>1. PICK h \in running : HandlerReturns(h)
        BY <1>3
    <2>2. /\ UNCHANGED <<reqVars, lifeVars, regs, subVars, callVars, progressFunc, interrupted, transport,
                         toSession, routerVars>>
          /\ running' \subseteq running /\ cancels' \subseteq cancels
        BY <2>1, HandlerFrame
    <2>3. QED
        BY <1>0, <2>2 DEF reqVars, lifeVars, subVars, callVars, TypeOK, Requests, Of, Topics
<1>4. CASE Router
    BY <1>0, <1>4, RouterFrame
    DEF SessionUnchanged, reqVars, lifeVars, subVars, callVars, invVars, TypeOK, Requests, Of, Topics
<1>5. CASE TransportLost
    BY <1>0, <1>5 DEF TransportLost, reqVars, lifeVars, subVars, callVars, invVars, TypeOK, Requests, Of, Topics
<1>6. QED
    BY <1>1, <1>2, <1>3, <1>4, <1>5 DEF Next, Steps

LEMMA OtherReads ==
  ASSUME Reader, ~ReadInvocation, ~ReadInterrupt
  PROVE  UNCHANGED invVars
BY DEF Reader, ReadResult, ReadProgress, ReadAck, ReadError, ReadBlocks, ReadUnblocks, ReadEvent,
       EventDispatched, ReadGoodbye, AfterOnLeave, ReadAbort, ReadGarbage, ReadFails, invVars

LEMMA InvokeRouterState ==
  ASSUME TypeOK, RouterState, UNCHANGED load, NEW i \in 1..pushed', NEW g \in Of("register"),
         NEW n \in 0..load.chunks, NEW asked \in BOOLEAN, Invoke(i, g, n, asked), pushed' \in Nat,
         pushed <= pushed'
  PROVE  rMore' \subseteq [id : 1..pushed', reg : Of("register"), sent : 0..load.chunks, asked : BOOLEAN]
<1>1. [id |-> i, reg |-> g, sent |-> n, asked |-> asked] \in
        [id : 1..pushed', reg : Of("register"), sent : 0..load.chunks, asked : BOOLEAN]
    OBVIOUS
<1>2. 1..pushed \subseteq 1..pushed'
    BY DEF RouterState
<1>3. rMore \subseteq [id : 1..pushed', reg : Of("register"), sent : 0..load.chunks, asked : BOOLEAN]
    BY <1>2 DEF RouterState
<1>4. rMore' \subseteq rMore \cup {[id |-> i, reg |-> g, sent |-> n, asked |-> asked]}
    BY DEF Invoke
<1>5. QED
    BY <1>1, <1>3, <1>4

LEMMA RouterStateKept ==
  ASSUME TypeOK, RouterState, RequestState, ReaderState, Messages, Orders, Next
  PROVE  RouterState'
<1>0. load' = load /\ Requests' = Requests /\ load.chunks \in Nat /\ load.pushes \in Nat /\ pushed \in Nat
    BY LoadFacts DEF Next, Requests, RouterState
<1> USE DEF RouterState, Requests, Of, Topics
<1>1. CASE \E r \in Requests : Request(r)
    <2>1. PICK r \in Requests : Request(r)
        BY <1>1
    <2>2. UNCHANGED <<invVars, transport, toSession, routerVars>>
        BY <2>1, RequestMoves
    <2>3. QED
        BY <1>0, <2>2 DEF invVars, routerVars
<1>2. CASE Reader
    <2>1. UNCHANGED routerVars
        BY <1>2, ReaderHears
    <2>2. CASE ReadInvocation
        <3>1. Head(toSession).id \in 1..pushed
            BY <2>2, HeadInvocation DEF ReadInvocation, Receiving
        <3>2. /\ cancels' \cup running' \subseteq cancels \cup running \cup {HandlerOf(Head(toSession))}
              /\ UNCHANGED interrupted
            BY <2>2 DEF ReadInvocation
        <3>3. HandlerOf(Head(toSession))[1] = Head(toSession).id
            BY DEF HandlerOf
        <3>4. \A h \in cancels' \cup running' \cup interrupted' : h[1] \in 1..pushed
            BY <3>1, <3>2, <3>3
        <3>5. QED
            BY <1>0, <2>1, <3>4 DEF routerVars
    <2>3. CASE ReadInterrupt
        <3>1. cancels' \cup running' \cup interrupted' \subseteq cancels \cup running \cup interrupted
            BY <2>3 DEF ReadInterrupt, OfInvocation
        <3>2. QED
            BY <1>0, <2>1, <3>1 DEF routerVars
    <2>4. CASE ~ReadInvocation /\ ~ReadInterrupt
        BY <1>0, <1>2, <2>1, <2>4, OtherReads DEF invVars, routerVars
    <2>5. QED
        BY <2>2, <2>3, <2>4
<1>3. CASE \E h \in running : HandlerReturns(h)
    BY <1>0, <1>3, HandlerFrame DEF routerVars
<1>4. CASE RouterHandles
    <2>1. RouterOK(Head(toRouter)) /\ UNCHANGED <<pushed, cancels, running, interrupted>>
        BY <1>4, HeadOfOrders DEF RouterHandles, SessionUnchanged, invVars
    <2>2. /\ rCalls' \subseteq rCalls \cup Of("call") /\ rRegs' \subseteq rRegs \cup Of("register")
          /\ rSubs' \subseteq rSubs \cup Topics
          /\ rInvs' \subseteq rInvs /\ rMore' \subseteq rMore
        BY <1>4, <2>1 DEF RouterHandles, RouterOK, Kinds, Topic
    <2>3. QED
        BY <1>0, <2>1, <2>2
<1>5. CASE \E r \in Requests : RouterAnswers(r)
    BY <1>0, <1>5 DEF RouterAnswers, SessionUnchanged, invVars
<1>6. CASE RouterNextChunk
    <2>1. PICK m \in rMore : m.sent < load.chunks /\ Invoke(m.id, m.reg, m.sent + 1, m.asked)
        BY <1>6 DEF RouterNextChunk
    <2>2. UNCHANGED <<pushed, cancels, running, interrupted, rRegs, rSubs, rCalls, rInvs>>
        BY <1>6 DEF RouterNextChunk, SessionUnchanged, invVars
    <2>3. m.id \in 1..pushed /\ m.reg \in Of("register") /\ m.sent + 1 \in 0..load.chunks /\ m.asked \in BOOLEAN
        BY <1>0, <2>1
    <2>4. rMore' \subseteq [id : 1..pushed', reg : Of("register"), sent : 0..load.chunks, asked : BOOLEAN]
        <3>1. pushed' = pushed /\ pushed' \in Nat /\ pushed <= pushed' /\ m.id \in 1..pushed'
            BY <1>0, <2>2, <2>3
        <3> HIDE DEF RouterState, Requests, Of, Topics
        <3>2. QED
            BY <1>0, <2>1, <2>3, <3>1, InvokeRouterState
    <2>5. QED
        BY <1>0, <2>2, <2>4
<1>7. CASE RouterPushes
    <2>1. pushed' = pushed + 1 /\ pushed < load.pushes
        BY <1>7 DEF RouterPushes
    <2>2. /\ pushed' \in 0..load.pushes /\ pushed' \in Nat /\ pushed <= pushed'
          /\ pushed' \in 1..pushed' /\ 1..pushed \subseteq 1..pushed'
        BY <1>0, <2>1
    <2>3. UNCHANGED <<cancels, running, interrupted, rRegs, rSubs, rCalls>>
        BY <1>7 DEF RouterPushes, SessionUnchanged, invVars
    <2>4. rInvs' \subseteq rInvs \cup {pushed'}
        BY <1>7, <2>1 DEF RouterPushes
    <2>5. rMore' \subseteq [id : 1..pushed', reg : Of("register"), sent : 0..load.chunks, asked : BOOLEAN]
        <3>1. CASE rMore' \subseteq rMore
            BY <2>2, <3>1
        <3>2. CASE \E g \in rRegs, asked \in BOOLEAN : Invoke(pushed + 1, g, 0, asked)
            <4>1. PICK g \in rRegs, asked \in BOOLEAN : Invoke(pushed + 1, g, 0, asked)
                BY <3>2
            <4>2. g \in Of("register") /\ 0 \in 0..load.chunks /\ pushed + 1 \in 1..pushed'
                BY <1>0, <2>1, <2>2
            <4> HIDE DEF RouterState, Requests, Of, Topics
            <4>3. QED
                BY <1>0, <2>2, <4>1, <4>2, InvokeRouterState
        <3>3. QED
            BY <1>7, <3>1, <3>2 DEF RouterPushes
    <2>6. QED
        BY <1>0, <2>2, <2>3, <2>4, <2>5
<1>8. CASE TransportLost
    BY <1>0, <1>8 DEF TransportLost, invVars, routerVars
<1>9. QED
    BY <1>1, <1>2, <1>3, <1>4, <1>5, <1>6, <1>7, <1>8 DEF Next, Steps, Router

LEMMA NewMayStart ==
  ASSUME NEW r, Request(r), pc[r] = "new"
  PROVE  MayStart(r) \/ UNCHANGED <<pc, outcome>>
BY DEF Request, Refuse, StartRequest, SendRequest, SendUnsubscribe, Send, PublishUnacknowledged, SendChunk,
       ReplyTaken, Registered, Subscribed, Unsubscribed, TakeReply, Timeout, ContextDone, SendCancel, CancelTimeout,
       CallSeesLeave, LeaveReturns, reqVars

\* A request that has returned stays as it is, and none becomes new again.
LEMMA ReturnedStays ==
  ASSUME TypeOK, RequestState, NEW r \in Requests, Moves(r), NEW q \in Requests
  PROVE  /\ pc[q] = "returned" => pc'[q] = "returned" /\ outcome'[q] = outcome[q]
         /\ pc[q] # "new" => pc'[q] # "new"
         /\ q # r => pc'[q] = pc[q] /\ outcome'[q] = outcome[q] /\ reply'[q] = reply[q]
BY DEF TypeOK, RequestState, Moves, Starts, Asks, Continues, Cancels, Takes, GivesUp, Finishes

LEMMA RequestTable ==
  ASSUME TypeOK, RequestState, NEW r \in Requests, Request(r)
  PROVE  /\ table' \subseteq table \cup {r}
         /\ r \in table' => pc'[r] \in {"wait", "cancelling", "cancel"} /\ Kind[r] # "leave"
         /\ \A q \in Requests : chunksLeft'[q] > 0 => chunksLeft[q] > 0 \/ q \in Chunked
<1>1. table' \subseteq table \cup {r}
    BY DEF Request, Refuse, StartRequest, SendRequest, SendUnsubscribe, Send, PublishUnacknowledged, SendChunk,
           ReplyTaken, Registered, Subscribed, Unsubscribed, TakeReply, Timeout, ContextDone, SendCancel, CancelTimeout,
           CallSeesLeave, LeaveReturns, reqVars, Return
<1>2. ASSUME r \in table'
      PROVE  pc'[r] \in {"wait", "cancelling", "cancel"} /\ Kind[r] # "leave"
    <2>2. CASE UNCHANGED <<pc, table>>
        BY <1>2, <2>2 DEF RequestState
    <2>3. CASE pc' = [pc EXCEPT ![r] = "send"] /\ UNCHANGED table /\ pc[r] = "new"
        BY <1>2, <2>3 DEF RequestState
    <2>4. CASE (pc' = [pc EXCEPT ![r] = "cancelling"] \/ pc' = [pc EXCEPT ![r] = "cancel"]) /\ UNCHANGED table
        BY <1>2, <2>4 DEF RequestState, TypeOK
    <2>5. CASE pc' = [pc EXCEPT ![r] = "wait"] /\ pc[r] = "send"
               /\ table' = IF Kind[r] = "leave" THEN table ELSE table \cup {r}
        BY <1>2, <2>5 DEF RequestState, TypeOK
    <2>6. ASSUME Send(r)
          PROVE  pc'[r] \in {"wait", "cancelling", "cancel"} /\ Kind[r] # "leave"
        BY <1>2, <2>5, <2>6 DEF Send, Return
    <2>7. CASE SendUnsubscribe(r)
        BY <1>2, <2>6, <2>7 DEF SendUnsubscribe, Return
    <2>8. QED
        BY <1>2, <2>2, <2>3, <2>4, <2>6, <2>7
        DEF Request, Refuse, StartRequest, MayStart, SendRequest, PublishUnacknowledged, SendChunk,
            ReplyTaken, Registered, Subscribed, Unsubscribed, TakeReply, Timeout, ContextDone, SendCancel, CancelTimeout,
            CallSeesLeave, LeaveReturns, reqVars, Return
<1>3. ASSUME NEW q \in Requests, chunksLeft'[q] > 0
      PROVE  chunksLeft[q] > 0 \/ q \in Chunked
    <2>1. chunksLeft \in [Requests -> 0..load.chunks] /\ load.chunks \in Nat
        BY LoadFacts DEF TypeOK
    <2>2. ASSUME Send(r)
          PROVE  chunksLeft[q] > 0 \/ q \in Chunked
        <3>1. PICK c : chunksLeft' = [chunksLeft EXCEPT ![r] = c] /\ (r \notin Chunked => c = 0)
            BY <2>2 DEF Send
        <3>2. QED
            BY <1>3, <2>1, <3>1
    <2>3. CASE SendChunk(r)
        BY <1>3, <2>1, <2>3 DEF SendChunk
    <2>4. CASE UNCHANGED chunksLeft
        BY <1>3, <2>4
    <2>5. QED
        BY <2>2, <2>3, <2>4
        DEF Request, Refuse, StartRequest, SendRequest, SendUnsubscribe, PublishUnacknowledged,
            ReplyTaken, Registered, Subscribed, Unsubscribed, Timeout, ContextDone, SendCancel, CancelTimeout,
            CallSeesLeave, LeaveReturns, callVars
<1>4. QED
    BY <1>1, <1>2, <1>3

LEMMA RequestStateKept ==
  ASSUME TypeOK, RequestState, ReaderState, Next
  PROVE  RequestState'
<1>0. load' = load /\ Requests' = Requests /\ (\A k : Of(k)' = Of(k))
    BY DEF Next, Requests, Of
<1>1. CASE \E r \in Requests : Request(r)
    <2>1. PICK r \in Requests : Request(r)
        BY <1>1
    <2>2. Moves(r)
        BY <2>1, RequestMoves
    <2>3. \A q \in Requests : pc'[q] = "returned" <=> outcome'[q] # "none"
        BY <2>2 DEF TypeOK, RequestState, Moves, Starts, Asks, Continues, Cancels, Takes, GivesUp, Finishes
    <2>4. \A q \in Requests : pc'[q] \in {"cancelling", "cancel"} => Kind[q] = "call"
        BY <2>2 DEF TypeOK, RequestState, Moves, Starts, Asks, Continues, Cancels, Takes, GivesUp, Finishes
    <2>5. table' \subseteq {q \in Requests : pc'[q] \in {"wait", "cancelling", "cancel"} /\ Kind[q] # "leave"}
        BY <2>1, <2>2, RequestTable, ReturnedStays DEF RequestState
    <2>6. \A q \in Requests : chunksLeft'[q] > 0 => q \in Chunked
        BY <2>1, RequestTable DEF RequestState
    <2>7. ASSUME NEW u \in Of("unregister") \cup Of("unsubscribe"), pc'[u] # "new"
          PROVE  outcome'[Target[u]] = "ok"
        <3>1. u \in Requests /\ Target[u] \in Requests /\ Kind[u] \in {"unregister", "unsubscribe"}
            BY LoadFacts DEF Of
        <3>2. outcome[Target[u]] = "ok"
            <4>1. CASE pc[u] # "new"
                BY <4>1 DEF RequestState
            <4>2. CASE pc[u] = "new"
                <5>1. u = r
                    BY <2>2, <2>7, <3>1, <4>2, ReturnedStays
                <5>2. MayStart(u) \/ UNCHANGED pc
                    BY <2>1, <4>2, <5>1, NewMayStart
                <5>3. QED
                    BY <2>7, <3>1, <4>2, <5>2 DEF MayStart
            <4>3. QED
                BY <4>1, <4>2
        <3>3. pc[Target[u]] = "returned"
            BY <3>1, <3>2 DEF RequestState
        <3>4. QED
            BY <2>2, <3>1, <3>2, <3>3, ReturnedStays
    <2>8. QED
        BY <1>0, <2>3, <2>4, <2>5, <2>6, <2>7 DEF RequestState
<1>2. ASSUME UNCHANGED <<pc, outcome, chunksLeft>>, table' \subseteq table
      PROVE  RequestState'
    BY <1>0, <1>2 DEF RequestState
<1>3. CASE Reader
    <2>1. UNCHANGED <<pc, outcome, chunksLeft>>
        BY <1>3, ReaderHears
    <2>2. table' \subseteq table
        BY <1>3 DEF Reader, ReadResult, ReadProgress, ReadAck, ReadError, ReadBlocks, ReadUnblocks, ReadEvent,
           EventDispatched, ReadInvocation, ReadInterrupt, ReadGoodbye, AfterOnLeave, ReadAbort, ReadGarbage,
           ReadFails, reqVars
    <2>3. QED
        BY <1>2, <2>1, <2>2
<1>4. CASE \E h \in running : HandlerReturns(h)
    BY <1>2, <1>4, HandlerFrame DEF reqVars, callVars
<1>5. CASE Router
    BY <1>2, <1>5, RouterFrame DEF SessionUnchanged, reqVars, callVars
<1>6. CASE TransportLost
    BY <1>2, <1>6 DEF TransportLost, reqVars, callVars
<1>7. QED
    BY <1>1, <1>3, <1>4, <1>5, <1>6 DEF Next, Steps

LEMMA IdFacts ==
  ASSUME TypeOK
  PROVE  Requests \subseteq Ids /\ Topics \subseteq Ids /\ Nat \subseteq Ids
<1>1. Requests \subseteq AllRequests
    BY LoadFacts
<1>2. Topics \subseteq AllTopics
    BY <1>1 DEF Topics, AllTopics, Of
<1>3. QED
    BY <1>1, <1>2 DEF Ids

LEMMA OrdersShorter ==
  ASSUME Orders, UNCHANGED load, \A q \in Requests : pc[q] # "new" => pc'[q] # "new",
         toRouter' \in Seq(Order), NEW k, Shorter(toRouter', toRouter, k)
  PROVE  Orders'
<1>1. ASSUME NEW i \in 1..Len(toRouter')
      PROVE  RouterOK(toRouter[i])'
    <2>1. i + k \in 1..Len(toRouter) /\ toRouter'[i] = toRouter[i + k]
        BY Shifted
    <2>2. RouterOK(toRouter[i + k])
        BY <2>1 DEF Orders
    <2>3. PICK m : m = toRouter[i + k]
        OBVIOUS
    <2>4. RouterOK(m)'
        BY <2>2, <2>3 DEF RouterOK, Requests, Of, Kinds
    <2>5. QED
        BY <2>1, <2>3, <2>4 DEF RouterOK
<1>2. QED
    BY <1>1 DEF Orders

LEMMA OrdersLonger ==
  ASSUME Orders, UNCHANGED load, \A q \in Requests : pc[q] # "new" => pc'[q] # "new",
         NEW m \in Order, RouterOK(m)', toRouter' = Append(toRouter, m)
  PROVE  Orders'
<1>1. Longer(toRouter', toRouter, m) /\ toRouter' \in Seq(Order)
    BY AppendQueue DEF Orders
<1>2. ASSUME NEW i \in 1..Len(toRouter')
      PROVE  RouterOK(toRouter[i])'
    <2>1. CASE i \in 1..Len(toRouter) /\ toRouter'[i] = toRouter[i]
        <3>1. PICK n : n = toRouter[i]
            OBVIOUS
        <3>2. RouterOK(n)
            BY <2>1, <3>1 DEF Orders
        <3>3. RouterOK(n)'
            BY <3>2 DEF RouterOK, Requests, Of, Kinds
        <3>4. QED
            BY <2>1, <3>1, <3>3 DEF RouterOK
    <2>2. CASE toRouter'[i] = m
        BY <2>2 DEF RouterOK
    <2>3. QED
        BY <1>1, <2>1, <2>2, Grown
<1>3. QED
    BY <1>1, <1>2 DEF Orders

LEMMA OrdersKept ==
  ASSUME TypeOK, RequestState, ReaderState, Orders, Next
  PROVE  Orders'
<1>0. UNCHANGED load /\ Requests \subseteq Ids /\ Shorter(toRouter, toRouter, 0) /\ toRouter \in Seq(Order)
    BY IdFacts, SameQueue DEF Next, Orders
<1>1. CASE \E r \in Requests : Request(r)
    <2>1. PICK r \in Requests : Request(r)
        BY <1>1
    <2>2. Moves(r)
        BY <2>1, RequestMoves
    <2>3. \A q \in Requests : pc[q] # "new" => pc'[q] # "new"
        BY <2>2, ReturnedStays
    <2>4. CASE UNCHANGED toRouter
        BY <1>0, <2>3, <2>4, OrdersShorter
    <2>5. ASSUME NEW type \in RouterTypes, toRouter' = Append(toRouter, Msg(type, r)),
                 \/ type = Kind[r] /\ pc'[r] # "new"
                 \/ type = "unacknowledged"
                 \/ type \in {"call", "cancel"} /\ Kind[r] = "call"
          PROVE  Orders'
        <3>1. Msg(type, r) \in Order
            BY <1>0 DEF Msg, Order
        <3>2. RouterOK(Msg(type, r))'
            <4>1. Msg(type, r).type = type /\ Msg(type, r).id = r /\ Requests' = Requests
                BY <1>0 DEF Msg, Requests
            <4>2. (type \in Kinds => type = Kind[r]) /\ (type = "cancel" => Kind[r] = "call")
                  /\ (type = "leave" => pc'[r] # "new")
                BY <2>5, LoadFacts DEF Kinds
            <4>3. QED
                BY <4>1, <4>2 DEF RouterOK, Of
        <3>3. QED
            BY <1>0, <2>3, <2>5, <3>1, <3>2, OrdersLonger
    <2>6. Kind[r] \in RouterTypes /\ {"unacknowledged", "call", "cancel"} \subseteq RouterTypes
        BY LoadFacts DEF RouterTypes, Kinds
    <2>7. CASE Asks(r)
        BY <2>5, <2>6, <2>7 DEF Asks, TypeOK
    <2>8. CASE Continues(r)
        BY <2>4, <2>5, <2>6, <2>8, CallsAssumption DEF Continues
    <2>9. CASE Cancels(r)
        BY <2>4, <2>5, <2>6, <2>9 DEF Cancels
    <2>10. CASE Finishes(r)
        BY <2>4, <2>5, <2>6, <2>10 DEF Finishes
    <2>11. QED
        BY <2>2, <2>4, <2>7, <2>8, <2>9, <2>10 DEF Moves, Starts, Takes, GivesUp
<1>2. ASSUME UNCHANGED <<pc, toRouter>>
      PROVE  Orders'
    BY <1>0, <1>2, OrdersShorter
<1>3. CASE Reader
    BY <1>2, <1>3, ReaderHears
<1>4. CASE \E h \in running : HandlerReturns(h)
    <2>1. PICK h \in running : HandlerReturns(h)
        BY <1>4
    <2>2. UNCHANGED pc /\ (UNCHANGED toRouter \/ toRouter' = Append(toRouter, Msg("yield", h[1])))
        BY <2>1, HandlerFrame DEF reqVars
    <2>3. h[1] \in 1..load.pushes /\ load.pushes \in Nat
        BY LoadFacts DEF TypeOK
    <2>4. h[1] \in Ids
        BY <2>3, IdFacts
    <2>5. Msg("yield", h[1]) \in Order /\ RouterOK(Msg("yield", h[1]))'
        BY <2>4 DEF Order, Msg, RouterTypes, RouterOK, Kinds
    <2>6. QED
        BY <1>0, <1>2, <2>2, <2>5, OrdersLonger
<1>5. CASE RouterHandles
    <2>1. toRouter # <<>> /\ toRouter' = Tail(toRouter) /\ UNCHANGED pc
        BY <1>5 DEF RouterHandles, SessionUnchanged, reqVars
    <2>2. QED
        BY <1>0, <2>1, HeadOfOrders, OrdersShorter
<1>6. CASE \E r \in Requests : RouterAnswers(r)
    BY <1>2, <1>6 DEF RouterAnswers, SessionUnchanged, reqVars
<1>7. CASE RouterNextChunk
    BY <1>2, <1>7 DEF RouterNextChunk, SessionUnchanged, reqVars
<1>8. CASE RouterPushes
    BY <1>2, <1>8 DEF RouterPushes, SessionUnchanged, reqVars
<1>9. CASE TransportLost
    <2>1. toRouter' = <<>> /\ UNCHANGED pc
        BY <1>9 DEF TransportLost, reqVars
    <2>2. QED
        BY <1>0, <2>1, CutQueue, OrdersShorter
<1>10. QED
    BY <1>1, <1>3, <1>4, <1>5, <1>6, <1>7, <1>8, <1>9 DEF Next, Steps, Router

LEMMA MessagesShorter ==
  ASSUME Messages, UNCHANGED load, pushed' = pushed, toSession' \in Seq(Message), NEW k,
         Shorter(toSession', toSession, k)
  PROVE  Messages'
<1>1. ASSUME NEW i \in 1..Len(toSession')
      PROVE  SessionOK(toSession[i])'
    <2>1. i + k \in 1..Len(toSession) /\ toSession'[i] = toSession[i + k]
        BY Shifted
    <2>2. SessionOK(toSession[i + k])
        BY <2>1 DEF Messages
    <2>3. PICK m : m = toSession[i + k]
        OBVIOUS
    <2>4. SessionOK(m)'
        BY <2>2, <2>3 DEF SessionOK, Requests, Of, Topics
    <2>5. QED
        BY <2>1, <2>3, <2>4 DEF SessionOK
<1>2. QED
    BY <1>1 DEF Messages

LEMMA MessagesLonger ==
  ASSUME Messages, UNCHANGED load, pushed \in Nat, pushed' \in Nat, pushed <= pushed',
         NEW m \in Message, SessionOK(m)', toSession' = Append(toSession, m)
  PROVE  Messages'
<1>1. Longer(toSession', toSession, m) /\ toSession' \in Seq(Message) /\ 1..pushed \subseteq 1..pushed'
    BY AppendQueue DEF Messages
<1>2. ASSUME NEW i \in 1..Len(toSession')
      PROVE  SessionOK(toSession[i])'
    <2>1. CASE i \in 1..Len(toSession) /\ toSession'[i] = toSession[i]
        <3>1. PICK n : n = toSession[i]
            OBVIOUS
        <3>2. SessionOK(n)
            BY <2>1, <3>1 DEF Messages
        <3>3. SessionOK(n)'
            BY <1>1, <3>2 DEF SessionOK, Requests, Of, Topics
        <3>4. QED
            BY <2>1, <3>1, <3>3 DEF SessionOK
    <2>2. CASE toSession'[i] = m
        BY <2>2 DEF SessionOK
    <2>3. QED
        BY <1>1, <2>1, <2>2, Grown
<1>3. QED
    BY <1>1, <1>2 DEF Messages

\* What the router says of a request, or of a topic, or unasked.
LEMMA PlainMessage ==
  ASSUME TypeOK, RouterState, NEW type \in PlainTypes, NEW id \in Ids
  PROVE  Msg(type, id) \in Message /\ Msg(type, id).type = type /\ Msg(type, id).id = id
BY DEF Msg, Message, Plain

\* The INVOCATION that Invoke sends.
InvocationMsg(i, g, n, more, asked) ==
  [type |-> "INVOCATION", id |-> i, reg |-> g, chunk |-> n, more |-> more,
   receive |-> asked /\ n = 0, asked |-> asked]

LEMMA InvokeSends ==
  ASSUME TypeOK, RouterState, NEW i \in Nat, NEW g \in Of("register"), NEW n \in Nat, NEW asked \in BOOLEAN,
         Invoke(i, g, n, asked)
  PROVE  \E more \in BOOLEAN :
           /\ toSession' = Append(toSession, InvocationMsg(i, g, n, more, asked))
           /\ InvocationMsg(i, g, n, more, asked) \in Invocation
           /\ more => load.chunks > 0
           /\ rMore' = (rMore \ Closed(i)) \cup
                (IF more THEN {[id |-> i, reg |-> g, sent |-> n, asked |-> asked]} ELSE {})
<1>1. load.chunks \in Nat /\ g \in AllRequests
    BY LoadFacts DEF Of
<1>2. PICK more \in {FALSE} \cup {load.chunks > 0} :
        /\ toSession' = Append(toSession, InvocationMsg(i, g, n, more, asked))
        /\ rMore' = (rMore \ Closed(i)) \cup
             (IF more THEN {[id |-> i, reg |-> g, sent |-> n, asked |-> asked]} ELSE {})
    BY DEF Invoke, InvocationMsg, ToSession
<1>3. more \in BOOLEAN /\ (more => load.chunks > 0)
    <2>1. more = FALSE \/ more = (load.chunks > 0)
        OBVIOUS
    <2>2. PICK b : b = (load.chunks > 0)
        OBVIOUS
    <2>3. b \in BOOLEAN
        BY <1>1, <2>2
    <2>4. b => load.chunks > 0
        BY <2>2
    <2>5. QED
        BY <2>1, <2>2, <2>3, <2>4, Zenon
<1>4. InvocationMsg(i, g, n, more, asked) \in Invocation
    BY <1>1, <1>3 DEF InvocationMsg, Invocation
<1>5. QED
    BY <1>2, <1>3, <1>4

LEMMA MessagesKept ==
  ASSUME TypeOK, RouterState, RequestState, ReaderState, Orders, Messages, Next
  PROVE  Messages'
<1>0. /\ UNCHANGED load /\ Requests' = Requests /\ pushed \in Nat /\ load.chunks \in Nat
      /\ Shorter(toSession, toSession, 0) /\ toSession \in Seq(Message)
    BY LoadFacts, SameQueue DEF Next, Messages, Requests, RouterState
<1>1. ASSUME UNCHANGED <<toSession, pushed>>
      PROVE  Messages'
    BY <1>0, <1>1, MessagesShorter
<1>2. ASSUME NEW type \in PlainTypes, NEW id \in Ids, toSession' = Append(toSession, Msg(type, id)),
             SessionOK(Msg(type, id))', pushed' \in Nat, pushed <= pushed'
      PROVE  Messages'
    BY <1>0, <1>2, PlainMessage, MessagesLonger
<1>3. CASE \E r \in Requests : Request(r)
    BY <1>1, <1>3, RequestMoves DEF routerVars
<1>4. CASE Reader
    <2>1. Hears /\ UNCHANGED pushed
        BY <1>4, ReaderHears DEF routerVars
    <2>2. UNCHANGED toSession \/ (toSession # <<>> /\ toSession' = Tail(toSession))
        BY <2>1 DEF Hears, Drops, Tells, Received
    <2>3. QED
        BY <1>0, <1>1, <2>1, <2>2, HeadOfMessages, MessagesShorter
<1>5. CASE \E h \in running : HandlerReturns(h)
    BY <1>1, <1>5, HandlerFrame DEF routerVars
<1>6. CASE RouterHandles
    <2>1. RouterOK(Head(toRouter)) /\ UNCHANGED pushed /\ Head(toRouter) \in Order
        BY <1>6, HeadOfOrders DEF RouterHandles
    <2>2. PICK m \in Order : m = Head(toRouter)
        BY <2>1
    <2>3. m.id \in Ids /\ {"ACK", "ERROR", "GOODBYE"} \subseteq PlainTypes
        BY <2>2 DEF Order, PlainTypes, Replies, PushTypes
    <2>4. \/ UNCHANGED toSession
          \/ toSession' = Append(toSession, Msg("ACK", m.id)) /\ m.type \in Kinds \ {"call", "leave"}
          \/ toSession' = Append(toSession, Msg("ERROR", m.id)) /\ m.type \in (Kinds \ {"leave"}) \cup {"cancel"}
          \/ toSession' = Append(toSession, Msg("GOODBYE", m.id))
        BY <1>6, <2>2 DEF RouterHandles, ToSession, Kinds
    <2>5. CASE UNCHANGED toSession
        BY <1>1, <2>1, <2>5
    <2>6. CASE toSession' = Append(toSession, Msg("ACK", m.id)) /\ m.type \in Kinds \ {"call", "leave"}
        <3>1. SessionOK(Msg("ACK", m.id))'
            BY <1>0, <2>1, <2>2, <2>6 DEF SessionOK, RouterOK, Msg
        <3>2. QED
            BY <1>0, <1>2, <2>1, <2>3, <2>6, <3>1
    <2>7. CASE toSession' = Append(toSession, Msg("ERROR", m.id)) /\ m.type \in (Kinds \ {"leave"}) \cup {"cancel"}
        <3>1. m.id \in Requests /\ Kind[m.id] # "leave"
            BY <2>1, <2>2, <2>7 DEF RouterOK, Of
        <3>2. SessionOK(Msg("ERROR", m.id))'
            BY <1>0, <3>1 DEF SessionOK, Msg
        <3>3. QED
            BY <1>0, <1>2, <2>1, <2>3, <2>7, <3>2
    <2>8. CASE toSession' = Append(toSession, Msg("GOODBYE", m.id))
        <3>1. SessionOK(Msg("GOODBYE", m.id))'
            BY DEF SessionOK, Msg
        <3>2. QED
            BY <1>0, <1>2, <2>1, <2>3, <2>8, <3>1
    <2>9. QED
        BY <2>4, <2>5, <2>6, <2>7, <2>8
<1>7. CASE \E r \in Requests : RouterAnswers(r)
    <2>1. PICK r \in Requests : RouterAnswers(r)
        BY <1>7
    <2>2. r \in Of("call") /\ r \in Ids /\ UNCHANGED pushed
        BY <2>1, IdFacts DEF RouterAnswers, RouterState
    <2>3. \E type \in {"RESULT", "ERROR"} : toSession' = Append(toSession, Msg(type, r))
        BY <2>1 DEF RouterAnswers, ToSession
    <2>4. ASSUME NEW type \in {"RESULT", "ERROR"}
          PROVE  SessionOK(Msg(type, r))' /\ type \in PlainTypes
        <3>1. Kind[r] = "call" /\ r \in Requests
            BY <2>2 DEF Of
        <3>2. Msg(type, r).type = type /\ Msg(type, r).id = r
            BY DEF Msg
        <3>3. QED
            BY <1>0, <3>1, <3>2 DEF SessionOK, Of, PlainTypes, Replies
    <2>5. QED
        BY <1>0, <1>2, <2>2, <2>3, <2>4
<1>8. ASSUME NEW i \in 1..pushed', NEW g \in Of("register"), NEW n \in 0..load.chunks, NEW asked \in BOOLEAN,
             Invoke(i, g, n, asked), pushed' \in Nat, pushed <= pushed'
      PROVE  Messages'
    <2>1. i \in Nat /\ n \in Nat
        BY <1>0, <1>8
    <2>2. PICK more \in BOOLEAN :
            /\ toSession' = Append(toSession, InvocationMsg(i, g, n, more, asked))
            /\ InvocationMsg(i, g, n, more, asked) \in Invocation
        BY <1>8, <2>1, InvokeSends
    <2>3. SessionOK(InvocationMsg(i, g, n, more, asked))'
        BY <1>0, <1>8 DEF InvocationMsg, SessionOK, Of, Requests
    <2>4. InvocationMsg(i, g, n, more, asked) \in Message
        BY <2>2 DEF Message
    <2>5. QED
        BY <1>0, <1>8, <2>2, <2>3, <2>4, MessagesLonger
<1>9. CASE RouterNextChunk
    <2>1. PICK m \in rMore : m.sent < load.chunks /\ Invoke(m.id, m.reg, m.sent + 1, m.asked)
        BY <1>9 DEF RouterNextChunk
    <2>2. pushed' = pushed /\ pushed <= pushed'
        BY <1>0, <1>9 DEF RouterNextChunk
    <2>3. m.id \in 1..pushed' /\ m.reg \in Of("register") /\ m.sent + 1 \in 0..load.chunks /\ m.asked \in BOOLEAN
        BY <1>0, <2>1, <2>2 DEF RouterState
    <2>4. QED
        BY <1>0, <1>8, <2>1, <2>2, <2>3
<1>10. CASE RouterPushes
    <2>1. pushed' = pushed + 1 /\ pushed' \in Nat /\ pushed <= pushed' /\ 1..pushed \subseteq 1..pushed'
          /\ pushed + 1 \in 1..pushed' /\ 0 \in 0..load.chunks
        BY <1>0, <1>10 DEF RouterPushes
    <2>2. CASE \E r \in rCalls \cap Progressive : ToSession(Msg("PROGRESS", r))
        <3>1. PICK r \in rCalls : toSession' = Append(toSession, Msg("PROGRESS", r))
            BY <2>2 DEF ToSession
        <3>2. r \in Ids /\ "PROGRESS" \in PlainTypes
            BY IdFacts DEF RouterState, Of, PlainTypes, PushTypes
        <3>3. SessionOK(Msg("PROGRESS", r))'
            BY DEF SessionOK, Msg
        <3>4. QED
            BY <1>2, <2>1, <3>1, <3>2, <3>3
    <2>3. CASE \E t \in rSubs : ToSession(Msg("EVENT", t))
        <3>1. PICK t \in rSubs : toSession' = Append(toSession, Msg("EVENT", t))
            BY <2>3 DEF ToSession
        <3>2. t \in Topics /\ t \in Ids /\ "EVENT" \in PlainTypes
            BY IdFacts DEF RouterState, PlainTypes, PushTypes
        <3>3. SessionOK(Msg("EVENT", t))'
            BY <1>0, <3>2 DEF SessionOK, Msg, Topics, Of
        <3>4. QED
            BY <1>2, <2>1, <3>1, <3>2, <3>3
    <2>4. CASE \E g \in rRegs, asked \in BOOLEAN : Invoke(pushed + 1, g, 0, asked)
        <3>1. rRegs \subseteq Of("register")
            BY DEF RouterState
        <3>2. QED
            BY <1>8, <2>1, <2>4, <3>1
    <2>5. CASE \E i \in rInvs : ToSession(Msg("INTERRUPT", i))
        <3>1. PICK i \in rInvs : toSession' = Append(toSession, Msg("INTERRUPT", i))
            BY <2>5 DEF ToSession
        <3>2. i \in 1..pushed' /\ i \in Nat
            BY <1>0, <2>1 DEF RouterState
        <3>3. i \in Ids /\ "INTERRUPT" \in PlainTypes
            BY <3>2, IdFacts DEF PlainTypes, PushTypes
        <3>4. SessionOK(Msg("INTERRUPT", i))'
            BY <3>2 DEF SessionOK, Msg
        <3>5. QED
            BY <1>2, <2>1, <3>1, <3>3, <3>4
    <2>6. CASE \E type \in load.push \cap {"GOODBYE", "ABORT", "UNPARSABLE", "UNEXPECTED"} : ToSession(Msg(type, 0))
        <3>1. PICK type \in load.push \cap {"GOODBYE", "ABORT", "UNPARSABLE", "UNEXPECTED"} :
                toSession' = Append(toSession, Msg(type, 0))
            BY <2>6 DEF ToSession
        <3>2. 0 \in Ids /\ type \in PlainTypes
            BY IdFacts DEF PlainTypes, PushTypes
        <3>3. SessionOK(Msg(type, 0))'
            BY <1>0 DEF SessionOK, Msg
        <3>4. QED
            BY <1>2, <2>1, <3>1, <3>2, <3>3
    <2>7. QED
        BY <1>10, <2>2, <2>3, <2>4, <2>5, <2>6 DEF RouterPushes
<1>11. CASE TransportLost
    <2>1. /\ UNCHANGED pushed
          /\ toSession' \in {toSession, <<>>} \/ (reader \in {"blocked", "dispatching"} /\ toSession' = <<Head(toSession)>>)
        BY <1>11 DEF TransportLost, routerVars
    <2>2. QED
        BY <1>0, <1>1, <2>1, CutQueue, MessagesShorter DEF ReaderState
<1>12. QED
    BY <1>3, <1>4, <1>5, <1>6, <1>7, <1>9, <1>10, <1>11 DEF Next, Steps, Router

LEMMA RequestReader ==
  ASSUME NEW r, Request(r)
  PROVE  reader' \in {reader, "panic"}
BY DEF Request, Refuse, StartRequest, SendRequest, SendUnsubscribe, WriteMap, PublishUnacknowledged, SendChunk,
       ReplyTaken, Registered, Subscribed, Unsubscribed, Timeout, ContextDone, SendCancel, CancelTimeout, CallSeesLeave,
       LeaveReturns, lifeVars

\* The router only adds to what is on its way to the session.
LEMMA RouterAdds ==
  ASSUME Router
  PROVE  UNCHANGED toSession \/ \E m : toSession' = Append(toSession, m)
<1>1. CASE RouterHandles
    BY <1>1 DEF RouterHandles, ToSession
<1>2. CASE \E r \in Requests : RouterAnswers(r)
    BY <1>2 DEF RouterAnswers, ToSession
<1>3. CASE RouterNextChunk
    BY <1>3 DEF RouterNextChunk, Invoke, ToSession
<1>4. CASE RouterPushes
    BY <1>4 DEF RouterPushes, Invoke, ToSession
<1>5. QED
    BY <1>1, <1>2, <1>3, <1>4 DEF Router

LEMMA ReaderStateKept ==
  ASSUME TypeOK, RouterState, RequestState, ReaderState, Messages, Next
  PROVE  ReaderState'
<1>0. load' = load /\ Requests' = Requests /\ OnlyCalls' = OnlyCalls /\ toSession \in Seq(Message)
    BY DEF Next, Requests, OnlyCalls, Messages
<1>1. CASE \E r \in Requests : Request(r)
    <2>1. UNCHANGED toSession /\ reader' \in {reader, "panic"}
        BY <1>1, RequestMoves, RequestReader
    <2>2. QED
        BY <1>0, <2>1 DEF ReaderState
<1>2. ASSUME reader' \notin {"blocked", "dispatching"}, reader' = "dead" => reader = "dead" \/ ~OnlyCalls
      PROVE  ReaderState'
    BY <1>0, <1>2 DEF ReaderState
<1>3. ASSUME UNCHANGED <<toSession, reader>>
      PROVE  ReaderState'
    BY <1>0, <1>3 DEF ReaderState
<1>4. CASE Reader
    <2>1. CASE ReadBlocks
        BY <1>0, <2>1 DEF ReadBlocks, Receiving, Replies, ReaderState, netVars
    <2>2. CASE ReadEvent /\ Id \in subEntry
        BY <1>0, <2>2 DEF ReadEvent, Receiving, ReaderState
    <2>3. CASE ReadEvent /\ Id \notin subEntry
        <3>1. SessionOK(Head(toSession)) /\ Head(toSession).type = "EVENT" /\ reader' = "dead"
            BY <2>3, HeadOfMessages DEF ReadEvent, Receiving, ReaderDies
        <3>2. Of("subscribe") # {}
            BY <3>1 DEF SessionOK, Topics
        <3>3. ~OnlyCalls
            BY <3>2 DEF OnlyCalls, Of
        <3>4. QED
            BY <1>2, <3>1, <3>3
    <2>4. CASE ReadAck
        <3>1. SessionOK(Head(toSession)) /\ Head(toSession).type = "ACK" /\ reader' \in {"reading", "dead"}
            BY <2>4, HeadOfMessages DEF ReadAck, Receiving, ReaderDies
        <3>2. ~OnlyCalls
            BY <3>1 DEF OnlyCalls, SessionOK
        <3>3. QED
            BY <1>2, <3>1, <3>2
    <2>5. CASE ReadError
        <3>1. SessionOK(Head(toSession)) /\ Head(toSession).type = "ERROR"
            BY <2>5, HeadOfMessages DEF ReadError, Receiving
        <3>2. reader' = "reading" \/ (reader' = "dead" /\ Kind[Id] # "call")
            BY <2>5 DEF ReadError, Receiving, ReaderDies
        <3>3. Kind[Id] # "call" => ~OnlyCalls
            BY <3>1 DEF OnlyCalls, SessionOK, Id
        <3>4. QED
            BY <1>2, <3>2, <3>3
    <2>6. CASE ReadGarbage
        <3>1. SessionOK(Head(toSession)) /\ Head(toSession).type \in {"UNPARSABLE", "UNEXPECTED"} /\ reader' = "dead"
            BY <2>6, HeadOfMessages DEF ReadGarbage, Receiving, ReaderDies
        <3>2. ~OnlyCalls
            BY <3>1 DEF OnlyCalls, SessionOK
        <3>3. QED
            BY <1>2, <3>1, <3>2
    <2>7. CASE \/ ReadResult \/ ReadProgress \/ ReadUnblocks \/ EventDispatched \/ ReadInvocation
               \/ ReadInterrupt \/ ReadGoodbye \/ AfterOnLeave \/ ReadAbort \/ ReadFails
        <3>1. reader' \in {"reading", "panic", "leaving", "gone"}
            BY <2>7 DEF ReadResult, ReadProgress, ReadUnblocks, EventDispatched, ReadInvocation, ReadInterrupt,
                        ReadGoodbye, AfterOnLeave, ReadAbort, ReadFails, Receiving, lifeVars
        <3>2. QED
            BY <1>2, <3>1
    <2>8. QED
        BY <1>4, <2>1, <2>2, <2>3, <2>4, <2>5, <2>6, <2>7 DEF Reader
<1>5. CASE \E h \in running : HandlerReturns(h)
    BY <1>3, <1>5, HandlerFrame DEF lifeVars
<1>6. CASE Router
    <2>1. UNCHANGED reader
        BY <1>6, RouterFrame DEF SessionUnchanged, lifeVars
    <2>2. CASE \E m : toSession' = Append(toSession, m)
        <3>1. PICK m : toSession' = Append(toSession, m)
            BY <2>2
        <3>2. toSession # <<>> => toSession' # <<>> /\ Head(toSession') = Head(toSession)
            BY <1>0, <3>1
        <3>3. QED
            BY <1>0, <2>1, <3>2 DEF ReaderState
    <2>3. QED
        BY <1>3, <1>6, <2>1, <2>2, RouterAdds
<1>7. CASE TransportLost
    <2>1. UNCHANGED reader
        BY <1>7 DEF TransportLost, lifeVars
    <2>2. CASE UNCHANGED toSession
        BY <1>3, <2>1, <2>2
    <2>3. CASE toSession' = IF reader \in {"blocked", "dispatching"} THEN <<Head(toSession)>> ELSE <<>>
        <3>1. CASE reader \in {"blocked", "dispatching"}
            <4>1. toSession' = <<Head(toSession)>>
                BY <2>3, <3>1
            <4>2. toSession' # <<>> /\ Head(toSession') = Head(toSession)
                BY <4>1
            <4>3. QED
                BY <1>0, <2>1, <4>2 DEF ReaderState
        <3>2. CASE reader \notin {"blocked", "dispatching"}
            BY <1>2, <2>1, <3>2
        <3>3. QED
            BY <3>1, <3>2
    <2>4. QED
        BY <1>7, <2>2, <2>3 DEF TransportLost
<1>8. QED
    BY <1>1, <1>4, <1>5, <1>6, <1>7 DEF Next, Steps

LEMMA ShapeKept ==
  ASSUME Shape, Next
  PROVE  Shape'
BY TypeKept, RouterStateKept, RequestStateKept, ReaderStateKept, OrdersKept, MessagesKept DEF Shape

-----------------------------------------------------------------------------
(* A request is asked, open, answered, told or done, one at a time         *)

LEMMA OnceShorter ==
  ASSUME NEW q, NEW p, NEW k, Shorter(q, p, k), NEW T, OnceIn(p, T)
  PROVE  OnceIn(q, T)
<1>1. ASSUME NEW i \in 1..Len(q), NEW j \in 1..Len(q), i < j
      PROVE  Apart(q[i], q[j], T)
    <2>1. i + k \in 1..Len(p) /\ q[i] = p[i + k] /\ j + k \in 1..Len(p) /\ q[j] = p[j + k]
        BY Shifted
    <2>2. k \in {0, 1} /\ i \in Nat /\ j \in Nat
        BY DEF Shorter
    <2>3. i + k < j + k
        BY <1>1, <2>2
    <2>4. QED
        BY <2>1, <2>3 DEF OnceIn
<1>2. QED
    BY <1>1 DEF OnceIn

LEMMA OnceLonger ==
  ASSUME NEW q, NEW p, NEW m, Longer(q, p, m), NEW T, OnceIn(p, T),
         m.type \in T /\ m.id \in Simple => ~Has(p, T, m.id)
  PROVE  OnceIn(q, T)
<1>1. ASSUME NEW i \in 1..Len(q), NEW j \in 1..Len(q), i < j
      PROVE  Apart(q[i], q[j], T)
    <2>1. PICK n \in Nat : n = Len(p) /\ i \in 1..(n + 1) /\ j \in 1..(n + 1)
        BY DEF Longer
    <2>2. i \in 1..n
        BY <1>1, <2>1
    <2>3. q[i] = p[i]
        BY <2>1, <2>2, Older
    <2>4. CASE j \in 1..Len(p) /\ q[j] = p[j]
        BY <1>1, <2>1, <2>2, <2>3, <2>4 DEF OnceIn
    <2>5. CASE q[j] = m
        BY <2>1, <2>2, <2>3, <2>5 DEF Apart, Has
    <2>6. QED
        BY <2>4, <2>5, Grown
<1>2. QED
    BY <1>1 DEF OnceIn

LEMMA OnceTail ==
  ASSUME NEW q, NEW p, Shorter(q, p, 1), NEW T, OnceIn(p, T), p[1].type \in T, p[1].id \in Simple
  PROVE  ~Has(q, T, p[1].id)
<1>1. ASSUME NEW i \in 1..Len(q), q[i].type \in T, q[i].id = p[1].id
      PROVE  FALSE
    <2>1. i + 1 \in 1..Len(p) /\ q[i] = p[i + 1] /\ Len(p) \in Nat /\ Len(q) \in Nat
        BY Shifted DEF Shorter
    <2>2. PICK n \in Nat : n = Len(p)
        BY <2>1
    <2>3. 1 \in 1..n /\ 1 < i + 1
        BY <2>1, <2>2
    <2>4. Apart(p[1], p[i + 1], T)
        BY <2>1, <2>2, <2>3 DEF OnceIn
    <2>5. QED
        BY <1>1, <2>1, <2>4 DEF Apart
<1>2. QED
    BY <1>1 DEF Has

\* A request of the queue is there under its own kind.
LEMMA AskedKind ==
  ASSUME Orders, TypeOK, NEW r \in Requests
  PROVE  Has(toRouter, Kinds, r) <=> Asked(r)
<1>1. Kind[r] \in Kinds
    BY LoadFacts
<1>2. ASSUME NEW i \in 1..Len(toRouter), toRouter[i].type \in Kinds, toRouter[i].id = r
      PROVE  toRouter[i].type = Kind[r]
    BY <1>2 DEF Orders, RouterOK
<1>3. QED
    BY <1>1, <1>2 DEF Has, Asked

LEMMA OncePrimed ==
  ASSUME UNCHANGED load, NEW T
  PROVE  /\ OnceIn(toRouter', T) => OnceIn(toRouter, T)'
         /\ OnceIn(toSession', T) => OnceIn(toSession, T)'
         /\ Simple' = Simple /\ Requests' = Requests
BY DEF OnceIn, Apart, Simple, Requests

LEMMA TokenStep ==
  ASSUME UNCHANGED <<load, pc, outcome, reply>>, NEW q \in Simple, TokenInv(q), Asked(q)' => Asked(q),
         q \in rCalls' => q \in rCalls \/ (Asked(q) /\ ~Asked(q)'),
         Answered(q)' => Answered(q) \/ ((Asked(q) \/ q \in rCalls) /\ ~Asked(q)' /\ q \notin rCalls')
  PROVE  TokenInv(q)'
<1>1. (Told(q)' <=> Told(q)) /\ (Done(q)' <=> Done(q))
    BY DEF Told, Done
<1>2. QED
    BY <1>1 DEF TokenInv

LEMMA MoveAsked ==
  ASSUME TypeOK, Orders, NEW r \in Requests, Moves(r), NEW q \in Simple
  PROVE  Asked(q)' <=> Asked(q) \/ (q = r /\ Asks(r))
<1>0. q \in Requests /\ q \notin Chunked /\ toRouter \in Seq(Order) /\ Kind[q] \in Kinds /\ r \in Ids
      /\ Kind[r] \in Kinds
    BY LoadFacts, IdFacts DEF Simple, Orders
<1>1. ASSUME NEW type \in RouterTypes, toRouter' = Append(toRouter, Msg(type, r))
      PROVE  Asked(q)' <=> Asked(q) \/ (type = Kind[q] /\ q = r)
    <2>1. Msg(type, r) \in Order /\ Msg(type, r).type = type /\ Msg(type, r).id = r
        BY <1>0 DEF Msg, Order
    <2>2. Longer(toRouter', toRouter, Msg(type, r))
        BY <1>0, <1>1, <2>1, AppendQueue
    <2>3. Has(toRouter', {Kind[q]}, q) <=> Has(toRouter, {Kind[q]}, q) \/ (type \in {Kind[q]} /\ r = q)
        BY <2>1, <2>2, HasLonger
    <2>4. QED
        BY <2>3 DEF Asked, Has
<1>2. ASSUME UNCHANGED toRouter
      PROVE  Asked(q)' <=> Asked(q)
    BY <1>2 DEF Asked, Has
<1>3. {"unacknowledged", "call", "cancel"} \cup Kinds \subseteq RouterTypes /\ "cancel" \notin Kinds
      /\ "unacknowledged" \notin Kinds
    BY DEF RouterTypes, Kinds
<1>4. CASE Asks(r)
    BY <1>0, <1>1, <1>3, <1>4 DEF Asks
<1>5. CASE Continues(r)
    <2>1. q # r
        BY <1>0, <1>5 DEF Continues
    <2>2. QED
        BY <1>1, <1>2, <1>3, <1>5, <2>1 DEF Continues
<1>6. CASE Cancels(r)
    <2>1. ~Asks(r)
        BY <1>6 DEF Cancels, Asks
    <2>2. QED
        BY <1>0, <1>1, <1>2, <1>3, <1>6, <2>1 DEF Cancels
<1>7. CASE Finishes(r)
    <2>1. ~Asks(r)
        BY <1>7 DEF Finishes, Asks, TypeOK
    <2>2. QED
        BY <1>0, <1>1, <1>2, <1>3, <1>7, <2>1 DEF Finishes
<1>8. ASSUME Starts(r) \/ (\E how \in {"ok", "error"} : Takes(r, how))
               \/ \E how \in {"error", "refused", "timeout", "canceled", "closed"} : GivesUp(r, how)
      PROVE  Asked(q)' <=> Asked(q) \/ (q = r /\ Asks(r))
    <2>1. UNCHANGED toRouter /\ (Starts(r) => ~Asks(r))
        BY <1>8 DEF Starts, Takes, GivesUp, Asks
    <2>2. ~Asks(r)
        BY <1>8, <2>1 DEF Takes, GivesUp, Asks, TypeOK
    <2>3. QED
        BY <1>2, <2>1, <2>2
<1>9. QED
    BY <1>4, <1>5, <1>6, <1>7, <1>8 DEF Moves

LEMMA TokenMove ==
  ASSUME Shape, TInv, NEW r \in Requests, Moves(r), UNCHANGED <<load, toSession, rCalls>>
  PROVE  TInv'
<1> USE DEF Shape
<1>1. ASSUME NEW q \in Simple
      PROVE  TokenInv(q)'
    <2>0. q \in Requests /\ q \notin Chunked /\ Kind[q] # "leave" /\ TokenInv(q) /\ r \in Requests
        BY DEF Simple, TInv
    <2>1. Asked(q)' <=> Asked(q) \/ (q = r /\ Asks(r))
        BY MoveAsked
    <2>2. Answered(q)' <=> Answered(q)
        BY DEF Answered, Has
    <2>3. CASE q # r
        <3>1. pc'[q] = pc[q] /\ outcome'[q] = outcome[q] /\ reply'[q] = reply[q]
            BY <2>0, <2>3, ReturnedStays
        <3>2. (Told(q)' <=> Told(q)) /\ (Done(q)' <=> Done(q))
            BY <3>1 DEF Told, Done
        <3>3. QED
            BY <2>0, <2>1, <2>2, <2>3, <3>1, <3>2 DEF TokenInv
    <2>4. CASE q = r
        <3>0. /\ pc \in [Requests -> {"new", "send", "wait", "cancelling", "cancel", "returned"}]
              /\ outcome \in [Requests -> {"none", "ok", "error", "refused", "timeout", "canceled", "closed"}]
              /\ reply \in [Requests -> {<<>>, <<"ok">>, <<"error">>}]
              /\ pc[q] = "returned" <=> outcome[q] # "none"
            BY <2>0 DEF TypeOK, RequestState
        <3>1. CASE Starts(r)
            <4>1. pc[q] = "new" /\ ~Asks(r) /\ outcome'[q] = "none" /\ (Told(q)' <=> Told(q))
                BY <2>4, <3>0, <3>1 DEF Starts, Asks, Told
            <4>2. ~Asked(q) /\ q \notin rCalls /\ ~Answered(q) /\ ~Told(q) /\ ~Done(q)'
                BY <2>0, <4>1 DEF TokenInv, Done
            <4>3. QED
                BY <2>1, <2>2, <4>1, <4>2 DEF TokenInv
        <3>2. CASE Asks(r)
            <4>1. pc[q] = "send" /\ outcome'[q] = "none" /\ pc'[q] = "wait" /\ (Told(q)' <=> Told(q))
                BY <2>4, <3>0, <3>2 DEF Asks, Told
            <4>2. ~Asked(q) /\ q \notin rCalls /\ ~Answered(q) /\ ~Told(q) /\ ~Done(q)'
                BY <2>0, <4>1 DEF TokenInv, Done
            <4>3. QED
                BY <2>1, <2>2, <4>1, <4>2 DEF TokenInv
        <3>3. CASE Cancels(r)
            <4>1. pc'[q] \in {"cancelling", "cancel"} /\ (Done(q)' <=> Done(q)) /\ (Told(q)' <=> Told(q)) /\ ~Asks(r) /\ Kind[q] = "call"
                BY <2>4, <3>0, <3>3 DEF Cancels, Asks, Told, Done
            <4>2. QED
                BY <2>0, <2>1, <2>2, <4>1 DEF TokenInv
        <3>4. CASE Finishes(r)
            <4>1. pc[q] = "send" /\ pc'[q] = "returned" /\ ~Asks(r) /\ (Told(q)' <=> Told(q))
                BY <2>0, <2>4, <3>0, <3>4 DEF Finishes, Asks, Told
            <4>2. ~Asked(q) /\ q \notin rCalls /\ ~Answered(q) /\ ~Told(q)
                BY <2>0, <4>1 DEF TokenInv
            <4>3. QED
                BY <2>1, <2>2, <4>1, <4>2 DEF TokenInv
        <3>5. ASSUME NEW how \in {"ok", "error"}, Takes(r, how)
              PROVE  TokenInv(q)'
            <4>1. reply[q] # <<>> /\ reply'[q] = <<>> /\ pc'[q] = "returned" /\ ~Asks(r)
                BY <2>4, <3>0, <3>5 DEF Takes, Asks
            <4>2. Told(q) /\ ~Told(q)'
                BY <4>1 DEF Told
            <4>3. ~Asked(q) /\ q \notin rCalls /\ ~Answered(q)
                BY <2>0, <4>2 DEF TokenInv
            <4>4. QED
                BY <2>1, <2>2, <4>1, <4>2, <4>3 DEF TokenInv
        <3>6. ASSUME NEW how \in {"error", "refused", "timeout", "canceled", "closed"}, GivesUp(r, how)
              PROVE  TokenInv(q)'
            <4>1. /\ pc'[q] = "returned" /\ outcome'[q] = how /\ ~Asks(r) /\ (Told(q)' <=> Told(q))
                  /\ Kind[q] = "call" \/ pc[q] \in {"new", "send"} \/ how = "timeout"
                BY <2>4, <3>0, <3>6 DEF GivesUp, Asks, Told
            <4>2. ~Done(q)'
                BY <3>6, <4>1 DEF Done
            <4>3. QED
                BY <2>0, <2>1, <2>2, <4>1, <4>2 DEF TokenInv
        <3>7. QED
            BY <2>0, <2>4, <3>1, <3>2, <3>3, <3>4, <3>5, <3>6 DEF Moves, Continues
    <2>5. QED
        BY <2>3, <2>4
<1>2. OnceIn(toRouter', Kinds)
    <2>0. toRouter \in Seq(Order) /\ r \in Ids /\ Kind[r] \in Kinds
        BY LoadFacts, IdFacts DEF Orders
    <2>1. ASSUME NEW type \in RouterTypes, toRouter' = Append(toRouter, Msg(type, r)),
                 type \in Kinds => r \in Chunked \/ pc[r] = "send"
          PROVE  OnceIn(toRouter', Kinds)
        <3>1. Msg(type, r) \in Order /\ Msg(type, r).type = type /\ Msg(type, r).id = r
            BY <2>0 DEF Msg, Order
        <3>2. Longer(toRouter', toRouter, Msg(type, r))
            BY <2>0, <2>1, <3>1, AppendQueue
        <3>3. ASSUME r \in Simple, type \in Kinds
              PROVE  ~Has(toRouter, Kinds, r)
            <4>1. TokenInv(r) /\ pc[r] = "send"
                BY <2>1, <3>3 DEF TInv, Simple
            <4>2. ~Asked(r)
                BY <4>1 DEF TokenInv
            <4>3. QED
                BY <4>2, AskedKind
        <3>4. QED
            BY <3>1, <3>2, <3>3, OnceLonger DEF TInv
    <2>2. CASE UNCHANGED toRouter
        BY <2>2 DEF TInv
    <2>3. {"unacknowledged", "call", "cancel"} \cup Kinds \subseteq RouterTypes /\ "cancel" \notin Kinds
          /\ "unacknowledged" \notin Kinds
        BY DEF RouterTypes, Kinds
    <2>4. CASE Asks(r)
        BY <2>0, <2>1, <2>3, <2>4 DEF Asks
    <2>5. CASE Continues(r)
        BY <2>1, <2>2, <2>3, <2>5 DEF Continues
    <2>6. CASE Cancels(r)
        BY <2>1, <2>2, <2>3, <2>6 DEF Cancels
    <2>7. CASE Finishes(r)
        BY <2>1, <2>2, <2>3, <2>7 DEF Finishes
    <2>8. QED
        BY <2>2, <2>4, <2>5, <2>6, <2>7 DEF Moves, Starts, Takes, GivesUp
<1>3. OnceIn(toSession', Replies)
    BY DEF TInv
<1>4. QED
    BY <1>1, <1>2, <1>3, OncePrimed DEF TInv

\* The router's reply m: it has just handled the request, or closed the call.
Handling(r) == RouterHandles /\ Head(toRouter).type = Kind[r] /\ Head(toRouter).id = r
Replying(m) ==
  \/ m.type \in {"ACK", "ERROR"} /\ Handling(m.id) /\ Kind[m.id] \notin {"call", "leave"} /\ UNCHANGED rCalls
  \/ m.type \in {"RESULT", "ERROR"} /\ m.id \in rCalls /\ m.id \notin rCalls' /\ rCalls' \subseteq rCalls

\* What it says is such a reply, or the first INVOCATION of a registration it has, or an
\* EVENT of a topic it has, or something else.
Said(m) ==
  /\ m.type \in Replies => Replying(m)
  /\ m.type = "INVOCATION" /\ m.chunk = 0 => m.reg \in rRegs
  /\ m.type = "EVENT" => m.id \in rSubs

LEMMA RouterSays ==
  ASSUME Shape, Router
  PROVE  /\ \/ UNCHANGED toSession
            \/ \E m \in Message : /\ toSession' = Append(toSession, m) /\ Longer(toSession', toSession, m)
                                  /\ Said(m)
         /\ \/ rCalls' \subseteq rCalls
            \/ \E r \in Requests : Handling(r) /\ rCalls' = rCalls \cup {r} /\ UNCHANGED toSession
<1> USE DEF Shape
<1>0. toSession \in Seq(Message)
    BY DEF Messages
<1>1. ASSUME NEW type \in PlainTypes, NEW id \in Ids, toSession' = Append(toSession, Msg(type, id)),
             type \in Replies => Replying(Msg(type, id)), type = "EVENT" => id \in rSubs
      PROVE  \E m \in Message : /\ toSession' = Append(toSession, m) /\ Longer(toSession', toSession, m)
                                /\ Said(m)
    <2>1. Msg(type, id) \in Message /\ Msg(type, id).type = type /\ Msg(type, id).id = id /\ type # "INVOCATION"
        BY PlainMessage DEF PlainTypes, PushTypes, Replies
    <2>2. Said(Msg(type, id))
        BY <1>1, <2>1 DEF Said
    <2>3. QED
        BY <1>0, <1>1, <2>1, <2>2, AppendQueue
<1>2. CASE RouterHandles
    <2>1. RouterOK(Head(toRouter)) /\ Head(toRouter) \in Order
        BY <1>2, HeadOfOrders DEF RouterHandles
    <2>2. PICK m \in Order : m = Head(toRouter)
        BY <2>1
    <2>3. m.id \in Ids /\ {"ACK", "ERROR", "GOODBYE"} \subseteq PlainTypes /\ "GOODBYE" \notin Replies
          /\ \A type \in {"ACK", "ERROR", "GOODBYE"} : type # "EVENT"
        BY <2>2 DEF Order, PlainTypes, Replies, PushTypes
    <2>4. /\ \/ UNCHANGED toSession
             \/ \E type \in {"ACK", "ERROR"} : toSession' = Append(toSession, Msg(type, m.id))
                  /\ m.type \in Kinds \ {"call", "leave"} /\ UNCHANGED rCalls
             \/ /\ toSession' = Append(toSession, Msg("ERROR", m.id))
                /\ m.id \in rCalls /\ rCalls' = rCalls \ {m.id}
             \/ toSession' = Append(toSession, Msg("GOODBYE", m.id))
          /\ rCalls' \subseteq rCalls \/ (m.type = "call" /\ rCalls' = rCalls \cup {m.id} /\ UNCHANGED toSession)
        BY <1>2, <2>2 DEF RouterHandles, ToSession, Kinds
    <2>5. m.type \in Kinds => m.id \in Requests /\ Handling(m.id)
        BY <1>2, <2>1, <2>2 DEF RouterOK, Handling
    <2>6. ASSUME NEW type \in {"ACK", "ERROR"}, toSession' = Append(toSession, Msg(type, m.id)),
                 m.type \in Kinds \ {"call", "leave"}, UNCHANGED rCalls
          PROVE  Replying(Msg(type, m.id))
        BY <2>1, <2>2, <2>5, <2>6 DEF Replying, Msg, RouterOK
    <2>7. ASSUME toSession' = Append(toSession, Msg("ERROR", m.id)), m.id \in rCalls, rCalls' = rCalls \ {m.id}
          PROVE  Replying(Msg("ERROR", m.id))
        BY <2>7 DEF Replying, Msg
    <2>8. \/ UNCHANGED toSession
          \/ \E n \in Message : /\ toSession' = Append(toSession, n) /\ Longer(toSession', toSession, n)
                                /\ Said(n)
        BY <1>1, <2>3, <2>4, <2>6, <2>7
    <2>9. rCalls' \subseteq rCalls \/ \E r \in Requests : Handling(r) /\ rCalls' = rCalls \cup {r} /\ UNCHANGED toSession
        <3>1. "call" \in Kinds
            BY DEF Kinds
        <3>2. QED
            BY <2>4, <2>5, <3>1
    <2>10. QED
        BY <2>8, <2>9
<1>3. CASE \E r \in Requests : RouterAnswers(r)
    <2>1. PICK r \in Requests : RouterAnswers(r)
        BY <1>3
    <2>2. r \in Ids /\ {"RESULT", "ERROR"} \subseteq PlainTypes
        BY IdFacts DEF PlainTypes, Replies
    <2>3. r \in rCalls /\ rCalls' = rCalls \ {r}
        BY <2>1 DEF RouterAnswers
    <2>4. PICK type \in {"RESULT", "ERROR"} : toSession' = Append(toSession, Msg(type, r))
        BY <2>1 DEF RouterAnswers, ToSession
    <2>5. Replying(Msg(type, r))
        BY <2>3 DEF Replying, Msg
    <2>6. QED
        BY <1>1, <2>2, <2>3, <2>4, <2>5
<1>4. ASSUME NEW i \in Nat, NEW g \in Of("register"), NEW n \in Nat, NEW asked \in BOOLEAN, Invoke(i, g, n, asked),
             n = 0 => g \in rRegs
      PROVE  \E m \in Message : /\ toSession' = Append(toSession, m) /\ Longer(toSession', toSession, m)
                                /\ Said(m)
    <2>1. PICK m \in Invocation : toSession' = Append(toSession, m) /\ m.chunk = n /\ m.reg = g
        <3>1. PICK more \in BOOLEAN : /\ toSession' = Append(toSession, InvocationMsg(i, g, n, more, asked))
                                      /\ InvocationMsg(i, g, n, more, asked) \in Invocation
            BY <1>4, InvokeSends
        <3>2. InvocationMsg(i, g, n, more, asked).chunk = n /\ InvocationMsg(i, g, n, more, asked).reg = g
            BY DEF InvocationMsg
        <3>3. QED
            BY <3>1, <3>2
    <2>2. m \in Message /\ m.type = "INVOCATION"
        BY DEF Message, Invocation
    <2>3. Said(m)
        BY <1>4, <2>1, <2>2 DEF Said, Replies
    <2>4. QED
        BY <1>0, <2>1, <2>2, <2>3, AppendQueue
<1>5. CASE RouterNextChunk
    <2>1. PICK m \in rMore : m.sent < load.chunks /\ Invoke(m.id, m.reg, m.sent + 1, m.asked)
        BY <1>5 DEF RouterNextChunk
    <2>2. m.id \in Nat /\ m.reg \in Of("register") /\ m.sent + 1 \in Nat /\ m.sent + 1 # 0 /\ m.asked \in BOOLEAN
        BY LoadFacts DEF RouterState
    <2>3. QED
        BY <1>4, <1>5, <2>1, <2>2 DEF RouterNextChunk
<1>6. CASE RouterPushes
    <2>1. rCalls' = rCalls /\ pushed + 1 \in Nat /\ 0 \in Nat /\ rRegs \subseteq Of("register")
        BY <1>6 DEF RouterPushes, RouterState
    <2>2. CASE \E g \in rRegs, asked \in BOOLEAN : Invoke(pushed + 1, g, 0, asked)
        BY <1>4, <2>1, <2>2
    <2>3. ASSUME NEW type \in PushTypes \ {"INVOCATION"}, NEW id, id \in Ids, ToSession(Msg(type, id)),
                 type = "EVENT" => id \in rSubs
          PROVE  \E m \in Message : /\ toSession' = Append(toSession, m) /\ Longer(toSession', toSession, m)
                                    /\ Said(m)
        <3>1. type \in PlainTypes /\ type \notin Replies
            BY DEF PlainTypes, PushTypes, Replies
        <3>2. QED
            BY <1>1, <2>3, <3>1 DEF ToSession
    <2>4. rCalls \subseteq Ids /\ rSubs \subseteq Ids /\ rInvs \subseteq Ids /\ 0 \in Ids
        BY IdFacts DEF RouterState, Of
    <2>5. {"PROGRESS", "EVENT", "INTERRUPT", "GOODBYE", "ABORT", "UNPARSABLE", "UNEXPECTED"}
            \subseteq PushTypes \ {"INVOCATION"}
        BY DEF PushTypes
    <2>6. QED
        BY <1>6, <2>1, <2>2, <2>3, <2>4, <2>5 DEF RouterPushes
<1>7. QED
    BY <1>2, <1>3, <1>5, <1>6 DEF Router

LEMMA AskedShorter ==
  ASSUME NEW k, Shorter(toRouter', toRouter, k), NEW q
  PROVE  Asked(q)' => Asked(q)
<1>1. Has(toRouter', {Kind[q]}, q) => Has(toRouter, {Kind[q]}, q)
    BY HasShorter
<1>2. QED
    BY <1>1 DEF Asked, Has

LEMMA AnsweredShorter ==
  ASSUME NEW k, Shorter(toSession', toSession, k), NEW q
  PROVE  Answered(q)' => Answered(q)
<1>1. Has(toSession', Replies, q) => Has(toSession, Replies, q)
    BY HasShorter
<1>2. QED
    BY <1>1 DEF Answered, Has

\* What the router takes from its queue.
LEMMA RouterTakes ==
  ASSUME Shape, Router
  PROVE  \E k : Shorter(toRouter', toRouter, k) /\ (RouterHandles => k = 1)
<1> USE DEF Shape
<1>1. CASE RouterHandles
    <2>1. toRouter # <<>> /\ toRouter' = Tail(toRouter)
        BY <1>1 DEF RouterHandles
    <2>2. QED
        BY <2>1, HeadOfOrders
<1>2. CASE ~RouterHandles
    <2>1. UNCHANGED toRouter
        BY <1>2 DEF Router, RouterAnswers, RouterNextChunk, RouterPushes
    <2>2. Shorter(toRouter', toRouter, 0)
        BY <2>1, SameQueue DEF Orders
    <2>3. QED
        BY <1>2, <2>2
<1>3. QED
    BY <1>1, <1>2

LEMMA HandlingAsked ==
  ASSUME Shape, TInv, NEW q \in Simple, Handling(q)
  PROVE  Asked(q) /\ ~Asked(q)'
<1> USE DEF Shape
<1>1. toRouter # <<>> /\ toRouter' = Tail(toRouter) /\ q \in Requests
    BY DEF Handling, RouterHandles, Simple
<1>2. Head(toRouter) = toRouter[1] /\ 1 \in 1..Len(toRouter) /\ Shorter(toRouter', toRouter, 1)
    BY <1>1, HeadOfOrders
<1>3. toRouter[1].type = Kind[q] /\ toRouter[1].id = q /\ Kind[q] \in Kinds
    BY <1>1, <1>2, LoadFacts DEF Handling
<1>4. Asked(q)
    BY <1>2, <1>3 DEF Asked, Has
<1>5. ~Has(toRouter', Kinds, q)
    BY <1>2, <1>3, OnceTail DEF TInv
<1>6. ~Asked(q)'
    BY <1>3, <1>5 DEF Asked, Has
<1>7. QED
    BY <1>4, <1>6

LEMMA TokenRouter ==
  ASSUME Shape, TInv, Router, UNCHANGED load
  PROVE  TInv'
<1> USE DEF Shape
<1>0. UNCHANGED <<pc, outcome, reply>>
    BY RouterFrame DEF SessionUnchanged, reqVars
<1>1. PICK k : Shorter(toRouter', toRouter, k)
    BY RouterTakes
<1>2. OnceIn(toRouter', Kinds)
    BY <1>1, OnceShorter DEF TInv
<1>3. \A q \in Simple : q \in rCalls' => q \in rCalls \/ (Asked(q) /\ ~Asked(q)')
    BY RouterSays, HandlingAsked
<1>4. ASSUME NEW m \in Message, Replying(m), m.id \in Simple
      PROVE  (Asked(m.id) \/ m.id \in rCalls) /\ ~Asked(m.id)' /\ m.id \notin rCalls' /\ ~Answered(m.id)
    <2>0. TokenInv(m.id)
        BY <1>4 DEF TInv
    <2>1. CASE m.id \in rCalls /\ m.id \notin rCalls'
        <3>1. ~Asked(m.id) /\ ~Answered(m.id)
            BY <2>0, <2>1 DEF TokenInv
        <3>2. QED
            BY <1>1, <2>1, <3>1, AskedShorter
    <2>2. CASE Handling(m.id) /\ Kind[m.id] \notin {"call", "leave"} /\ UNCHANGED rCalls
        <3>1. Asked(m.id) /\ ~Asked(m.id)'
            BY <1>4, <2>2, HandlingAsked
        <3>2. m.id \notin rCalls /\ ~Answered(m.id)
            BY <2>0, <3>1 DEF TokenInv
        <3>3. QED
            BY <2>2, <3>1, <3>2
    <2>3. QED
        BY <1>4, <2>1, <2>2 DEF Replying
<1>5. ASSUME NEW q \in Simple
      PROVE  TokenInv(q)'
    <2>1. Asked(q)' => Asked(q)
        BY <1>1, AskedShorter
    <2>2. Answered(q)' => Answered(q) \/ ((Asked(q) \/ q \in rCalls) /\ ~Asked(q)' /\ q \notin rCalls')
        <3>1. CASE UNCHANGED toSession
            BY <3>1 DEF Answered, Has
        <3>2. ASSUME NEW m \in Message, Longer(toSession', toSession, m), Said(m)
              PROVE  Answered(q)' => Answered(q) \/ ((Asked(q) \/ q \in rCalls) /\ ~Asked(q)' /\ q \notin rCalls')
            <4>1. Has(toSession', Replies, q) <=> Has(toSession, Replies, q) \/ (m.type \in Replies /\ m.id = q)
                BY <3>2, HasLonger
            <4>2. Answered(q)' <=> Answered(q) \/ (m.type \in Replies /\ m.id = q)
                BY <4>1 DEF Answered, Has
            <4>3. QED
                BY <1>4, <3>2, <4>2 DEF Said
        <3>3. QED
            BY <3>1, <3>2, RouterSays
    <2>3. QED
        BY <1>0, <1>3, <2>1, <2>2, TokenStep DEF TInv
<1>6. OnceIn(toSession', Replies)
    <2>1. CASE UNCHANGED toSession
        BY <2>1 DEF TInv
    <2>2. ASSUME NEW m \in Message, Longer(toSession', toSession, m), Said(m)
          PROVE  OnceIn(toSession', Replies)
        BY <1>4, <2>2, OnceLonger DEF TInv, Answered, Said
    <2>3. QED
        BY <2>1, <2>2, RouterSays
<1>7. QED
    BY <1>2, <1>5, <1>6, OncePrimed DEF TInv

LEMMA TokenReader ==
  ASSUME Shape, TInv, Reader, UNCHANGED load
  PROVE  TInv'
<1> USE DEF Shape
<1>0. Hears /\ UNCHANGED <<pc, outcome, toRouter, rCalls>>
    BY ReaderHears DEF routerVars
<1>1. \A q : Asked(q)' <=> Asked(q)
    BY <1>0 DEF Asked, Has
<1>2. OnceIn(toRouter', Kinds)
    BY <1>0 DEF TInv
<1>3. CASE UNCHANGED <<reply, toSession>> \/ Drops
    <2>1. UNCHANGED reply /\ \E k : Shorter(toSession', toSession, k)
        BY <1>3, HeadOfMessages, SameQueue DEF Drops, Received, Messages
    <2>2. PICK k : Shorter(toSession', toSession, k)
        BY <2>1
    <2>3. OnceIn(toSession', Replies)
        BY <2>2, OnceShorter DEF TInv
    <2>4. \A q \in Simple : TokenInv(q)'
        BY <1>0, <1>1, <2>1, <2>2, AnsweredShorter, TokenStep DEF TInv
    <2>5. QED
        BY <1>2, <2>3, <2>4, OncePrimed DEF TInv
<1>4. ASSUME NEW how \in {"ok", "error"}, Tells(how)
      PROVE  TInv'
    <2>1. /\ Shorter(toSession', toSession, 1) /\ Head(toSession) = toSession[1] /\ 1 \in 1..Len(toSession)
          /\ toSession[1].type \in Replies /\ Id = toSession[1].id
          /\ reply[Id] = <<>> /\ reply' = [reply EXCEPT ![Id] = <<how>>]
        BY <1>4, HeadOfMessages DEF Tells, Received, Id
    <2>2. OnceIn(toSession', Replies)
        BY <2>1, OnceShorter DEF TInv
    <2>3. ASSUME NEW q \in Simple
          PROVE  TokenInv(q)'
        <3>0. TokenInv(q) /\ (Answered(q)' => Answered(q)) /\ (Done(q)' <=> Done(q)) /\ q \in Requests
            BY <1>0, <2>1, AnsweredShorter DEF TInv, Done, Simple
        <3>1. CASE q = Id
            <4>1. Answered(q)
                BY <2>1, <3>1 DEF Answered, Has
            <4>2. ~Has(toSession', Replies, q)
                BY <2>1, <3>1, OnceTail DEF TInv
            <4>3. ~Answered(q)'
                BY <4>2 DEF Answered, Has
            <4>4. ~Done(q) /\ ~Asked(q) /\ q \notin rCalls /\ pc[q] \notin {"new", "send"}
                BY <3>0, <4>1 DEF TokenInv
            <4>5. QED
                BY <1>0, <1>1, <3>0, <4>3, <4>4 DEF TokenInv
        <3>2. CASE q # Id
            <4>1. reply'[q] = reply[q]
                BY <2>1, <3>0, <3>2 DEF TypeOK
            <4>2. Told(q)' <=> Told(q)
                BY <4>1 DEF Told
            <4>3. QED
                BY <1>0, <1>1, <3>0, <4>2 DEF TokenInv
        <3>3. QED
            BY <3>1, <3>2
    <2>4. QED
        BY <1>2, <2>2, <2>3, OncePrimed DEF TInv
<1>5. QED
    BY <1>0, <1>3, <1>4 DEF Hears

LEMMA TInvKept ==
  ASSUME Shape, TInv, Next
  PROVE  TInv'
<1> USE DEF Shape
<1>0. UNCHANGED load
    BY DEF Next
<1>1. CASE \E r \in Requests : Request(r)
    BY <1>0, <1>1, RequestMoves, TokenMove DEF routerVars
<1>2. CASE Reader
    BY <1>0, <1>2, TokenReader
<1>3. CASE \E h \in running : HandlerReturns(h)
    <2>1. PICK h \in running : HandlerReturns(h)
        BY <1>3
    <2>2. /\ UNCHANGED <<pc, outcome, reply, toSession, rCalls>>
          /\ UNCHANGED toRouter \/ toRouter' = Append(toRouter, Msg("yield", h[1]))
        BY <2>1, HandlerFrame DEF reqVars, routerVars
    <2>3. h[1] \in 1..load.pushes /\ load.pushes \in Nat
        BY LoadFacts DEF TypeOK
    <2>4. Msg("yield", h[1]) \in Order /\ Msg("yield", h[1]).type \notin Kinds
        BY <2>3, IdFacts DEF Order, Msg, RouterTypes, Kinds
    <2>5. UNCHANGED toRouter \/ Longer(toRouter', toRouter, Msg("yield", h[1]))
        BY <2>2, <2>4, AppendQueue DEF Orders
    <2>6. OnceIn(toRouter', Kinds)
        BY <2>4, <2>5, OnceLonger DEF TInv
    <2>7. ASSUME NEW q \in Simple
          PROVE  TokenInv(q)'
        <3>1. Kind[q] \in Kinds
            BY LoadFacts DEF Simple
        <3>2. Has(toRouter', {Kind[q]}, q) => Has(toRouter, {Kind[q]}, q)
            BY <2>4, <2>5, <3>1, HasLonger
        <3>3. (Asked(q)' => Asked(q)) /\ (Answered(q)' => Answered(q))
            BY <2>2, <3>2 DEF Asked, Answered, Has
        <3>4. QED
            BY <1>0, <2>2, <3>3, TokenStep DEF TInv
    <2>8. OnceIn(toSession', Replies)
        BY <2>2 DEF TInv
    <2>9. QED
        BY <1>0, <2>6, <2>7, <2>8, OncePrimed DEF TInv
<1>4. CASE Router
    BY <1>0, <1>4, TokenRouter
<1>5. CASE TransportLost
    <2>1. /\ UNCHANGED <<pc, outcome, reply, rCalls>> /\ toRouter' = <<>>
          /\ toSession' \in {toSession, <<>>} \/ (reader \in {"blocked", "dispatching"} /\ toSession' = <<Head(toSession)>>)
        BY <1>5 DEF TransportLost, reqVars, routerVars
    <2>2. Shorter(toRouter', toRouter, 0) /\ Shorter(toSession', toSession, 0)
        BY <2>1, CutQueue, SameQueue DEF ReaderState, Orders, Messages
    <2>3. OnceIn(toRouter', Kinds) /\ OnceIn(toSession', Replies)
        BY <2>2, OnceShorter DEF TInv
    <2>4. \A q \in Simple : TokenInv(q)'
        BY <1>0, <2>1, <2>2, AskedShorter, AnsweredShorter, TokenStep DEF TInv
    <2>5. QED
        BY <1>0, <2>3, <2>4, OncePrimed DEF TInv
<1>6. QED
    BY <1>1, <1>2, <1>3, <1>4, <1>5 DEF Next, Steps

-----------------------------------------------------------------------------
(* What any step does to the queues, a request and its reply               *)

\* The requests that change the tables.
Pair == {r \in Requests : Kind[r] \in {"register", "unregister", "subscribe", "unsubscribe"}}

LEMMA PairSimple == Pair \subseteq Simple
BY CallsAssumption DEF Pair, Simple

LEMMA ToSessionStep ==
  ASSUME Shape, Next
  PROVE  \/ \E k : Shorter(toSession', toSession, k)
         \/ Router /\ \E m \in Message : /\ toSession' = Append(toSession, m) /\ Longer(toSession', toSession, m)
                                         /\ Said(m)
<1> USE DEF Shape
<1>0. toSession \in Seq(Message) /\ Shorter(toSession, toSession, 0)
    BY SameQueue DEF Messages
<1>1. CASE \E r \in Requests : Request(r)
    BY <1>0, <1>1, RequestMoves
<1>2. CASE Reader
    <2>1. UNCHANGED toSession \/ (toSession # <<>> /\ toSession' = Tail(toSession))
        BY <1>2, ReaderHears DEF Hears, Drops, Tells, Received
    <2>2. QED
        BY <1>0, <2>1, HeadOfMessages
<1>3. CASE \E h \in running : HandlerReturns(h)
    BY <1>0, <1>3, HandlerFrame
<1>4. CASE Router
    BY <1>0, <1>4, RouterSays
<1>5. CASE TransportLost
    <2>1. \/ toSession' \in {toSession, <<>>}
          \/ reader \in {"blocked", "dispatching"} /\ toSession' = <<Head(toSession)>>
        BY <1>5 DEF TransportLost
    <2>2. QED
        BY <1>0, <2>1, CutQueue DEF ReaderState
<1>6. QED
    BY <1>1, <1>2, <1>3, <1>4, <1>5 DEF Next, Steps

LEMMA RequestStep ==
  ASSUME Shape, Next, NEW q \in Requests
  PROVE  \/ Request(q) /\ Moves(q) /\ UNCHANGED <<toSession, routerVars>>
         \/ pc'[q] = pc[q] /\ outcome'[q] = outcome[q]
<1> USE DEF Shape
<1>1. CASE \E r \in Requests : Request(r)
    BY <1>1, RequestMoves, ReturnedStays
<1>2. CASE Reader
    BY <1>2, ReaderHears
<1>3. CASE \E h \in running : HandlerReturns(h)
    BY <1>3, HandlerFrame DEF reqVars
<1>4. CASE Router
    BY <1>4, RouterFrame DEF SessionUnchanged, reqVars
<1>5. CASE TransportLost
    BY <1>5 DEF TransportLost, reqVars
<1>6. QED
    BY <1>1, <1>2, <1>3, <1>4, <1>5 DEF Next, Steps

LEMMA ReplyStep ==
  ASSUME Shape, Next, NEW q \in Requests
  PROVE  \/ reply'[q] \in {reply[q], <<>>}
         \/ /\ Shorter(toSession', toSession, 1) /\ 1 \in 1..Len(toSession) /\ toSession[1].id = q
            /\ \/ toSession[1].type = "ERROR" /\ reply'[q] = <<"error">>
               \/ toSession[1].type \in {"RESULT", "ACK"} /\ reply'[q] = <<"ok">>
            /\ reply[q] = <<>>
<1> USE DEF Shape
<1>0. reply \in [Requests -> {<<>>, <<"ok">>, <<"error">>}]
    BY DEF TypeOK
<1>1. CASE \E r \in Requests : Request(r)
    <2>1. PICK r \in Requests : Moves(r)
        BY <1>1, RequestMoves
    <2>2. UNCHANGED reply \/ reply' = [reply EXCEPT ![r] = <<>>]
        BY <2>1 DEF Moves, Starts, Asks, Continues, Cancels, Takes, GivesUp, Finishes
    <2>3. QED
        BY <1>0, <2>2
<1>2. CASE Reader
    <2>1. CASE UNCHANGED reply
        BY <2>1
    <2>2. ASSUME NEW how \in {"ok", "error"}, Tells(how)
          PROVE  \/ reply'[q] \in {reply[q], <<>>}
                 \/ /\ Shorter(toSession', toSession, 1) /\ 1 \in 1..Len(toSession) /\ toSession[1].id = q
                    /\ \/ toSession[1].type = "ERROR" /\ reply'[q] = <<"error">>
                       \/ toSession[1].type \in {"RESULT", "ACK"} /\ reply'[q] = <<"ok">>
                    /\ reply[q] = <<>>
        <3>1. /\ Shorter(toSession', toSession, 1) /\ Head(toSession) = toSession[1] /\ 1 \in 1..Len(toSession)
              /\ Id = toSession[1].id /\ reply[Id] = <<>> /\ reply' = [reply EXCEPT ![Id] = <<how>>]
              /\ toSession[1].type \in Replies /\ how = IF toSession[1].type = "ERROR" THEN "error" ELSE "ok"
            BY <2>2, HeadOfMessages DEF Tells, Received, Id
        <3>2. CASE q # Id
            BY <1>0, <3>1, <3>2
        <3>3. CASE q = Id
            <4>1. reply'[q] = <<how>>
                BY <1>0, <3>1, <3>3
            <4>2. QED
                BY <3>1, <3>3, <4>1 DEF Replies
        <3>4. QED
            BY <3>2, <3>3
    <2>3. QED
        BY <1>2, <2>1, <2>2, ReaderHears DEF Hears, Drops
<1>3. CASE \E h \in running : HandlerReturns(h)
    BY <1>3, HandlerFrame DEF reqVars
<1>4. CASE Router
    BY <1>4, RouterFrame DEF SessionUnchanged, reqVars
<1>5. CASE TransportLost
    BY <1>5 DEF TransportLost, reqVars
<1>6. QED
    BY <1>1, <1>2, <1>3, <1>4, <1>5 DEF Next, Steps

LEMMA AskedStep ==
  ASSUME Shape, Next, NEW q \in Simple
  PROVE  Asked(q)' => Asked(q) \/ (Request(q) /\ Asks(q))
<1> USE DEF Shape
<1>0. q \in Requests /\ Kind[q] \in Kinds /\ toRouter \in Seq(Order)
    BY LoadFacts DEF Simple, Orders
<1>1. CASE \E r \in Requests : Request(r)
    BY <1>1, RequestMoves, MoveAsked
<1>2. CASE UNCHANGED toRouter
    BY <1>2 DEF Asked, Has
<1>3. CASE Reader
    BY <1>2, <1>3, ReaderHears
<1>4. CASE \E h \in running : HandlerReturns(h)
    <2>1. PICK h \in running : UNCHANGED toRouter \/ toRouter' = Append(toRouter, Msg("yield", h[1]))
        BY <1>4, HandlerFrame
    <2>2. h[1] \in 1..load.pushes /\ load.pushes \in Nat
        BY LoadFacts DEF TypeOK
    <2>3. Msg("yield", h[1]) \in Order /\ Msg("yield", h[1]).type \notin Kinds
        BY <2>2, IdFacts DEF Order, Msg, RouterTypes, Kinds
    <2>4. CASE toRouter' = Append(toRouter, Msg("yield", h[1]))
        <3>1. Longer(toRouter', toRouter, Msg("yield", h[1]))
            BY <1>0, <2>3, <2>4, AppendQueue
        <3>2. Has(toRouter', {Kind[q]}, q) => Has(toRouter, {Kind[q]}, q)
            BY <1>0, <2>3, <3>1, HasLonger
        <3>3. QED
            BY <3>2 DEF Asked, Has
    <2>5. QED
        BY <1>2, <2>1, <2>4
<1>5. CASE Router
    BY <1>5, RouterTakes, AskedShorter
<1>6. CASE TransportLost
    <2>1. toRouter' = <<>>
        BY <1>6 DEF TransportLost
    <2>2. QED
        BY <1>0, <2>1, CutQueue, AskedShorter
<1>7. QED
    BY <1>1, <1>3, <1>4, <1>5, <1>6 DEF Next, Steps

\* The router has just handled request r, with this reply.
Grants(r, type) == Handling(r) /\ toSession' = Append(toSession, Msg(type, r))

LEMMA NewReply ==
  ASSUME Shape, Next, NEW r \in Pair, NEW type \in {"ACK", "ERROR"}, Has(toSession', {type}, r)
  PROVE  Has(toSession, {type}, r) \/ (Router /\ Grants(r, type))
<1> USE DEF Shape
<1>1. CASE \E k : Shorter(toSession', toSession, k)
    BY <1>1, HasShorter
<1>2. ASSUME Router, NEW m \in Message, toSession' = Append(toSession, m), Longer(toSession', toSession, m), Said(m)
      PROVE  Has(toSession, {type}, r) \/ Grants(r, type)
    <2>1. Has(toSession, {type}, r) \/ (m.type = type /\ m.id = r)
        BY <1>2, HasLonger
    <2>2. CASE m.type = type /\ m.id = r
        <3>1. Replying(m)
            BY <1>2, <2>2 DEF Said, Replies
        <3>2. r \notin rCalls
            BY DEF RouterState, Of, Pair
        <3>3. Handling(r)
            BY <2>2, <3>1, <3>2 DEF Replying
        <3>4. m = Msg(type, r)
            <4>1. m \in Plain
                BY <2>2 DEF Message, Invocation
            <4>2. m = [type |-> m.type, id |-> m.id]
                BY <4>1 DEF Plain
            <4>3. QED
                BY <2>2, <4>2 DEF Msg
        <3>5. QED
            BY <1>2, <3>3, <3>4 DEF Grants
    <2>3. QED
        BY <2>1, <2>2
<1>3. QED
    BY <1>1, <1>2, ToSessionStep

LEMMA AckedStep ==
  ASSUME Shape, Next, NEW r \in Pair, Acked(r)'
  PROVE  Acked(r) \/ (Router /\ Grants(r, "ACK"))
<1> USE DEF Shape
<1>0. r \in Requests /\ Kind[r] # "call"
    BY DEF Pair
<1>1. CASE Has(toSession', {"ACK"}, r)
    BY <1>1, NewReply DEF Acked
<1>2. CASE reply'[r] = <<"ok">>
    <2>0. <<"ok">> # <<>> /\ <<"ok">> # <<"error">>
        OBVIOUS
    <2>1. CASE reply[r] = <<"ok">>
        BY <2>1 DEF Acked
    <2>2. CASE 1 \in 1..Len(toSession) /\ toSession[1].id = r /\ toSession[1].type \in {"RESULT", "ACK"}
        <3>1. SessionOK(toSession[1])
            BY <2>2 DEF Messages
        <3>2. toSession[1].type = "ACK"
            BY <1>0, <2>2, <3>1 DEF SessionOK, Of
        <3>3. QED
            BY <2>2, <3>2 DEF Acked, Has
    <2>3. QED
        BY <1>0, <1>2, <2>0, <2>1, <2>2, ReplyStep
<1>3. Has(toSession', {"ACK"}, r) \/ reply'[r] = <<"ok">>
    BY DEF Acked, Has
<1>4. QED
    BY <1>1, <1>2, <1>3

LEMMA ErroredStep ==
  ASSUME Shape, Next, NEW r \in Pair, Errored(r)'
  PROVE  Errored(r) \/ (Router /\ Grants(r, "ERROR"))
<1> USE DEF Shape
<1>0. r \in Requests
    BY DEF Pair
<1>1. CASE Has(toSession', {"ERROR"}, r)
    BY <1>1, NewReply DEF Errored
<1>2. CASE reply'[r] = <<"error">>
    <2>0. <<"error">> # <<>> /\ <<"ok">> # <<"error">>
        OBVIOUS
    <2>1. CASE reply[r] = <<"error">>
        BY <2>1 DEF Errored
    <2>2. CASE 1 \in 1..Len(toSession) /\ toSession[1].id = r /\ toSession[1].type = "ERROR"
        BY <2>2 DEF Errored, Has
    <2>3. QED
        BY <1>0, <1>2, <2>0, <2>1, <2>2, ReplyStep
<1>3. Has(toSession', {"ERROR"}, r) \/ reply'[r] = <<"error">>
    BY DEF Errored, Has
<1>4. QED
    BY <1>1, <1>2, <1>3

\* What is granted stays so until its goroutine takes the reply.
LEMMA GrantedStays ==
  ASSUME Shape, TInv, Next, NEW r \in Pair, Granted(r)
  PROVE  Granted(r)' \/ (Request(r) /\ Takes(r, "ok") /\ pc[r] = "wait" /\ UNCHANGED <<toSession, routerVars>>)
<1> USE DEF Shape
<1>0. r \in Requests /\ r \in Simple /\ r \notin Chunked /\ Kind[r] \notin {"call", "leave", "publish"}
    BY PairSimple DEF Pair, Simple
<1>1. CASE outcome[r] = "timeout"
    <2>1. pc[r] = "returned"
        BY <1>0, <1>1 DEF RequestState
    <2>2. outcome'[r] = "timeout"
        BY <1>0, <1>1, <2>1, RequestStep, ReturnedStays
    <2>3. QED
        BY <2>2 DEF Granted
<1>2. CASE pc[r] = "wait" /\ ~Asked(r) /\ ~Errored(r)
    <2>1. ~Asked(r)'
        BY <1>0, <1>2, AskedStep DEF Asks
    <2>2. ~Errored(r)'
        BY <1>0, <1>2, ErroredStep, HandlingAsked DEF Grants
    <2>3. CASE pc'[r] = pc[r]
        BY <1>2, <2>1, <2>2, <2>3 DEF Granted
    <2>4. CASE Request(r) /\ Moves(r) /\ UNCHANGED <<toSession, routerVars>>
        <3>1. ~Starts(r) /\ ~Asks(r) /\ ~Continues(r) /\ ~Cancels(r) /\ ~Finishes(r)
            BY <1>0, <1>2 DEF Starts, Asks, Continues, Cancels, Finishes
        <3>2. ~Takes(r, "error")
            BY <1>2 DEF Takes, Errored
        <3>3. ASSUME NEW how \in {"error", "refused", "timeout", "canceled", "closed"}, GivesUp(r, how)
              PROVE  Granted(r)'
            <4>1. how = "timeout" /\ outcome' = [outcome EXCEPT ![r] = how]
                BY <1>0, <1>2, <3>3 DEF GivesUp
            <4>2. outcome'[r] = "timeout"
                BY <1>0, <4>1 DEF TypeOK
            <4>3. QED
                BY <4>2 DEF Granted
        <3>4. QED
            BY <1>2, <2>4, <3>1, <3>2, <3>3 DEF Moves
    <2>5. QED
        BY <1>0, <2>3, <2>4, RequestStep
<1>3. QED
    BY <1>1, <1>2 DEF Granted

\* A request that the router grants waits for it, or gave up.
LEMMA GrantedNew ==
  ASSUME Shape, TInv, Next, Router, NEW r \in Pair, Grants(r, "ACK")
  PROVE  Granted(r)'
<1> USE DEF Shape
<1>0. r \in Requests /\ r \in Simple /\ Kind[r] # "call"
    BY PairSimple DEF Pair
<1>1. Asked(r) /\ ~Asked(r)' /\ TokenInv(r)
    BY <1>0, HandlingAsked DEF Grants, TInv
<1>2. (pc[r] = "wait" \/ outcome[r] = "timeout") /\ ~Answered(r) /\ ~Told(r)
    BY <1>0, <1>1 DEF TokenInv
<1>3. UNCHANGED <<pc, outcome, reply>>
    BY RouterFrame DEF SessionUnchanged, reqVars
<1>4. ~Errored(r)'
    <2>1. ~Has(toSession, {"ERROR"}, r) /\ reply'[r] # <<"error">>
        <3>1. <<"error">> # <<>>
            OBVIOUS
        <3>2. QED
            BY <1>2, <1>3, <3>1 DEF Answered, Told, Has, Replies
    <2>2. ~Has(toSession', {"ERROR"}, r)
        <3>1. Msg("ACK", r) \in Message /\ Msg("ACK", r).type = "ACK"
            BY <1>0, PlainMessage, IdFacts DEF PlainTypes, Replies
        <3>2. Longer(toSession', toSession, Msg("ACK", r))
            BY <3>1, AppendQueue DEF Grants, Messages
        <3>3. QED
            BY <2>1, <3>1, <3>2, HasLonger
    <2>3. QED
        BY <2>1, <2>2 DEF Errored, Has
<1>5. QED
    BY <1>1, <1>2, <1>3, <1>4 DEF Granted

\* The action that takes a reply of success.
LEMMA TakesOk ==
  ASSUME Shape, NEW r \in Pair, Request(r), Takes(r, "ok")
  PROVE  /\ Kind[r] \in {"register", "unregister"} => Registered(r)
         /\ Kind[r] = "subscribe" => Subscribed(r)
         /\ Kind[r] = "unsubscribe" => Unsubscribed(r)
<1>0. /\ r \in Requests /\ Kind[r] \notin {"call", "leave", "publish"}
      /\ pc[r] \in {"wait", "cancel"} /\ pc'[r] = "returned" /\ outcome'[r] = "ok" /\ pc[r] # pc'[r]
    BY DEF Pair, Takes, Shape, TypeOK
<1>1. ~Refuse(r) /\ ~StartRequest(r) /\ ~SendRequest(r) /\ ~SendUnsubscribe(r) /\ ~PublishUnacknowledged(r)
    BY <1>0 DEF Refuse, StartRequest, MayStart, SendRequest, SendUnsubscribe, Send, PublishUnacknowledged
<1>2. /\ ~SendChunk(r) /\ ~ContextDone(r) /\ ~SendCancel(r)
      /\ ~CallSeesLeave(r) /\ ~LeaveReturns(r)
    BY <1>0, CallsAssumption DEF SendChunk, ContextDone, SendCancel, CallSeesLeave, LeaveReturns, reqVars
<1>3. \A how \in {"error", "timeout", "canceled"} : ~Return(r, how)
    BY <1>0 DEF Return, Shape, TypeOK
<1>4. ~Timeout(r) /\ ~CancelTimeout(r) /\ ~ReplyTaken(r)
    BY <1>0, <1>3 DEF Timeout, CancelTimeout, ReplyTaken, TakeReply
<1>5. Registered(r) \/ Subscribed(r) \/ Unsubscribed(r)
    BY <1>1, <1>2, <1>4 DEF Request
<1>6. QED
    BY <1>0, <1>5 DEF Registered, Subscribed, Unsubscribed

LEMMA AppendSame ==
  ASSUME NEW S, NEW q \in Seq(S), NEW a \in S, NEW b \in S, Append(q, a) = Append(q, b)
  PROVE  a = b
BY AppendQueue DEF Longer

LEMMA OneReply ==
  ASSUME Shape, NEW id \in Ids, toSession' = Append(toSession, Msg("ACK", id)),
         toSession' = Append(toSession, Msg("ERROR", id))
  PROVE  FALSE
<1> USE DEF Shape
<1>1. /\ Msg("ACK", id) \in Message /\ Msg("ACK", id).type = "ACK"
      /\ Msg("ERROR", id) \in Message /\ Msg("ERROR", id).type = "ERROR"
    BY PlainMessage DEF PlainTypes, Replies
<1>2. Msg("ACK", id) = Msg("ERROR", id)
    BY <1>1, AppendSame DEF Messages
<1>3. QED
    BY <1>1, <1>2

\* What the router does to its registrations.
LEMMA GrantsRegs ==
  ASSUME Shape, NEW r \in Pair, Grants(r, "ACK")
  PROVE  /\ Kind[r] = "register" => r \in rRegs'
         /\ Kind[r] = "unregister" => Target[r] \notin rRegs'
<1>0. r \in Ids
    BY IdFacts DEF Pair, Shape
<1>1. toSession' # Append(toSession, Msg("ERROR", r))
    BY <1>0, OneReply DEF Grants
<1>2. QED
    BY <1>1 DEF Grants, Handling, RouterHandles, ToSession

LEMMA RouterRegs ==
  ASSUME Shape, Next
  PROVE  \/ UNCHANGED rRegs
         \/ \E g \in Of("register") : Router /\ Grants(g, "ACK") /\ rRegs' = rRegs \cup {g}
         \/ \E u \in Of("unregister") : Router /\ Grants(u, "ACK") /\ rRegs' = rRegs \ {Target[u]}
         \/ LeaveStarted /\ rRegs' = {}
<1> USE DEF Shape
<1>1. CASE RouterHandles
    <2>1. RouterOK(Head(toRouter)) /\ Router
        BY <1>1, HeadOfOrders DEF RouterHandles, Router
    <2>2. PICK m : m = Head(toRouter)
        OBVIOUS
    <2>3. CASE m.type = "register"
        <3>1. m.id \in Of("register") /\ Handling(m.id)
            BY <1>1, <2>1, <2>2, <2>3 DEF RouterOK, Of, Handling, Kinds
        <3>2. UNCHANGED rRegs \/ (toSession' = Append(toSession, Msg("ACK", m.id)) /\ rRegs' = rRegs \cup {m.id})
            BY <1>1, <2>2, <2>3 DEF RouterHandles, ToSession
        <3>3. QED
            BY <2>1, <3>1, <3>2 DEF Grants
    <2>4. CASE m.type = "unregister"
        <3>1. m.id \in Of("unregister") /\ Handling(m.id)
            BY <1>1, <2>1, <2>2, <2>4 DEF RouterOK, Of, Handling, Kinds
        <3>2. /\ rRegs' = rRegs \ {Target[m.id]}
              /\ Target[m.id] \in rRegs => toSession' = Append(toSession, Msg("ACK", m.id))
            BY <1>1, <2>2, <2>4 DEF RouterHandles, ToSession
        <3>3. QED
            BY <2>1, <3>1, <3>2 DEF Grants
    <2>5. CASE m.type = "leave"
        <3>1. m.id \in Of("leave") /\ pc[m.id] # "new"
            BY <2>1, <2>2, <2>5 DEF RouterOK, Of, Kinds
        <3>2. rRegs' = {}
            BY <1>1, <2>2, <2>5 DEF RouterHandles
        <3>3. QED
            BY <3>1, <3>2 DEF LeaveStarted
    <2>6. CASE m.type \notin {"register", "unregister", "leave"}
        BY <1>1, <2>2, <2>6 DEF RouterHandles
    <2>7. QED
        BY <2>3, <2>4, <2>5, <2>6
<1>2. CASE \E r \in Requests : Request(r)
    BY <1>2, RequestMoves DEF routerVars
<1>3. CASE Reader
    BY <1>3, ReaderHears DEF routerVars
<1>4. CASE \E h \in running : HandlerReturns(h)
    BY <1>4, HandlerFrame DEF routerVars
<1>5. CASE TransportLost
    BY <1>5 DEF TransportLost, routerVars
<1>6. CASE Router /\ ~RouterHandles
    BY <1>6 DEF Router, RouterAnswers, RouterNextChunk, RouterPushes
<1>7. QED
    BY <1>1, <1>2, <1>3, <1>4, <1>5, <1>6 DEF Next, Steps

\* What the session does to its own.
LEMMA SessionRegs ==
  ASSUME Shape, Next
  PROVE  \/ UNCHANGED regs
         \/ \E r \in Requests :
              /\ Registered(r) /\ Takes(r, "ok") /\ pc[r] = "wait" /\ UNCHANGED <<toSession, routerVars>>
              /\ \/ Kind[r] = "register" /\ regs' = regs \cup {r}
                 \/ Kind[r] = "unregister" /\ regs' = regs \ {Target[r]}
<1> USE DEF Shape
<1>1. ASSUME NEW r \in Requests, Registered(r)
      PROVE  /\ Takes(r, "ok") /\ pc[r] = "wait" /\ UNCHANGED <<toSession, routerVars>>
             /\ \/ Kind[r] = "register" /\ regs' = regs \cup {r}
                \/ Kind[r] = "unregister" /\ regs' = regs \ {Target[r]}
    BY <1>1 DEF Registered, TakeReply, Return, Takes, RequestState, netVars
<1>2. CASE \E r \in Requests : Request(r)
    <2>1. PICK r \in Requests : Request(r)
        BY <1>2
    <2>2. CASE ~Registered(r)
        BY <2>1, <2>2 DEF Request, Refuse, StartRequest, SendRequest, SendUnsubscribe, Send, PublishUnacknowledged,
           SendChunk, ReplyTaken, Subscribed, Unsubscribed, Timeout, ContextDone, SendCancel, CancelTimeout, CallSeesLeave,
           LeaveReturns
    <2>3. QED
        BY <1>1, <2>2
<1>3. CASE Reader
    BY <1>3, ReaderHears
<1>4. CASE \E h \in running : HandlerReturns(h)
    BY <1>4, HandlerFrame
<1>5. CASE Router
    BY <1>5, RouterFrame DEF SessionUnchanged
<1>6. CASE TransportLost
    BY <1>6 DEF TransportLost
<1>7. QED
    BY <1>2, <1>3, <1>4, <1>5, <1>6 DEF Next, Steps

-----------------------------------------------------------------------------
(* Registrations                                                           *)

LEMMA InvokedStep ==
  ASSUME Shape, Next, NEW g, Invoked(g)'
  PROVE  Invoked(g) \/ g \in rRegs
<1>1. PICK i \in 1..Len(toSession') : First(toSession'[i], g)
    BY DEF Invoked, First
<1>2. CASE \E k : Shorter(toSession', toSession, k)
    <2>1. PICK k : Shorter(toSession', toSession, k)
        BY <1>2
    <2>2. i + k \in 1..Len(toSession) /\ toSession'[i] = toSession[i + k]
        BY <2>1, Shifted
    <2>3. QED
        BY <1>1, <2>2 DEF Invoked
<1>3. ASSUME NEW m \in Message, Longer(toSession', toSession, m), Said(m)
      PROVE  Invoked(g) \/ g \in rRegs
    <2>1. (i \in 1..Len(toSession) /\ toSession'[i] = toSession[i]) \/ toSession'[i] = m
        BY <1>3, Grown
    <2>2. First(m, g) => g \in rRegs
        BY <1>3 DEF First, Said
    <2>3. QED
        BY <1>1, <2>1, <2>2 DEF Invoked
<1>4. QED
    BY <1>2, <1>3, ToSessionStep

LEMMA LeaveStays ==
  ASSUME Shape, Next, LeaveStarted
  PROVE  LeaveStarted'
<1> USE DEF Shape
<1>1. PICK l \in Of("leave") : pc[l] # "new"
    BY DEF LeaveStarted
<1>2. l \in Requests /\ Of("leave")' = Of("leave")
    BY DEF Of, Requests, Next
<1>3. pc'[l] # "new"
    BY <1>1, <1>2, RequestStep, ReturnedStays
<1>4. QED
    BY <1>2, <1>3 DEF LeaveStarted

LEMMA DoneStays ==
  ASSUME Shape, Next, NEW r \in Requests, Done(r)
  PROVE  Done(r)'
<1> USE DEF Shape
<1>1. outcome[r] = "ok" /\ pc[r] = "returned"
    BY DEF Done, RequestState
<1>2. outcome'[r] = "ok"
    BY <1>1, RequestStep, ReturnedStays
<1>3. QED
    BY <1>2 DEF Done

\* An unregister that is past its start undoes a register that is done.
LEMMA Undoing ==
  ASSUME Shape, TInv, NEW u \in Of("unregister") \cup Of("unsubscribe"), pc[u] # "new"
  PROVE  Done(Target[u]) /\ ~Asked(Target[u]) /\ ~Answered(Target[u]) /\ ~Told(Target[u])
<1> USE DEF Shape
<1>1. Target[u] \in Simple
    BY LoadFacts, CallsAssumption DEF Of, Simple
<1>2. Done(Target[u])
    BY DEF RequestState, Done
<1>3. TokenInv(Target[u])
    BY <1>1 DEF TInv
<1>4. QED
    BY <1>2, <1>3 DEF TokenInv

LEMMA AckedTold ==
  ASSUME NEW r, Acked(r)
  PROVE  Answered(r) \/ Told(r)
<1>1. <<"ok">> # <<>>
    OBVIOUS
<1>2. QED
    BY <1>1 DEF Acked, Answered, Told, Has, Replies

LEMMA AckedStarted ==
  ASSUME TInv, NEW r \in Simple, Acked(r)
  PROVE  pc[r] \notin {"new", "send"} /\ ~Done(r) /\ ~Asked(r)
BY AckedTold DEF TInv, TokenInv

LEMMA OfPair ==
  /\ Of("register") \subseteq Pair /\ Of("unregister") \subseteq Pair
  /\ Of("subscribe") \subseteq Pair /\ Of("unsubscribe") \subseteq Pair
BY DEF Of, Pair

LEMMA RegInvKept ==
  ASSUME Shape, TInv, RInv, Next, NEW g \in Of("register")
  PROVE  RegInv(g)'
<1> USE DEF Shape
<1>0. /\ g \in Requests /\ g \in Pair /\ g \in Simple /\ Kind[g] = "register" /\ RegInv(g)
      /\ \A u \in Of("unregister") : u \in Requests /\ u \in Pair /\ u \in Simple /\ Kind[u] = "unregister" /\ UnregInv(u)
    BY OfPair, PairSimple DEF Of, RInv
<1>1. (g \in rRegs \/ Invoked(g) => g \in regs \/ Granted(g)) /\ (g \in regs => Done(g))
    BY <1>0 DEF RegInv
<1>2. /\ g \in regs /\ g \notin rRegs =>
           LeaveStarted \/ \E u \in Of("unregister") : Target[u] = g /\ Granted(u)
      /\ Acked(g) => g \in rRegs \/ LeaveStarted
    BY <1>0 DEF RegInv
<1>3. Of("register")' = Of("register") /\ Of("unregister")' = Of("unregister")
    BY DEF Of, Requests, Next
\* g leaves regs with an unregister that was acknowledged.
<1>4. ASSUME g \in regs, g \notin regs'
      PROVE  g \notin rRegs /\ ~Invoked(g)
    <2>1. PICK u \in Requests : Takes(u, "ok") /\ Kind[u] = "unregister" /\ Target[u] = g
        BY <1>4, SessionRegs
    <2>2. u \in Of("unregister") /\ reply[u] = <<"ok">>
        BY <2>1 DEF Of, Takes
    <2>3. QED
        BY <1>0, <2>1, <2>2 DEF UnregInv, Acked
<1>5. ASSUME g \notin regs, g \in regs'
      PROVE  Takes(g, "ok") /\ UNCHANGED <<toSession, routerVars>>
    BY <1>5, SessionRegs
<1>6. ASSUME NEW r \in Pair, Request(r), Takes(r, "ok"), Kind[r] \in {"register", "unregister"}
      PROVE  regs' = IF Kind[r] = "register" THEN regs \cup {r} ELSE regs \ {Target[r]}
    BY <1>6, TakesOk DEF Registered
<1>7. ASSUME g \in rRegs' \/ Invoked(g)'
      PROVE  g \in regs' \/ Granted(g)'
    <2>1. CASE g \notin rRegs /\ g \in rRegs'
        <3>1. Router /\ Grants(g, "ACK")
            BY <2>1, RouterRegs
        <3>2. QED
            BY <1>0, <3>1, GrantedNew
    <2>2. CASE g \in rRegs \/ Invoked(g)
        <3>1. CASE g \in regs
            BY <1>4, <2>2, <3>1
        <3>2. CASE Granted(g)
            BY <1>0, <1>6, <3>2, GrantedStays
        <3>3. QED
            BY <1>1, <2>2, <3>1, <3>2
    <2>3. QED
        BY <1>7, <2>1, <2>2, InvokedStep
<1>8. ASSUME g \in regs'
      PROVE  Done(g)'
    <2>1. CASE g \in regs
        BY <1>0, <1>1, <2>1, DoneStays
    <2>2. CASE g \notin regs
        <3>1. Takes(g, "ok")
            BY <1>5, <1>8, <2>2
        <3>2. outcome'[g] = "ok"
            BY <1>0, <3>1 DEF Takes, TypeOK
        <3>3. QED
            BY <3>2 DEF Done
    <2>3. QED
        BY <2>1, <2>2
<1>9. ASSUME g \in regs', g \notin rRegs'
      PROVE  LeaveStarted' \/ \E u \in Of("unregister") : Target[u] = g /\ Granted(u)'
    <2>1. CASE g \notin regs
        <3>1. Takes(g, "ok") /\ UNCHANGED rRegs
            BY <1>5, <1>9, <2>1 DEF routerVars
        <3>2. LeaveStarted
            BY <1>2, <1>9, <3>1 DEF Takes, Acked
        <3>3. QED
            BY <3>2, LeaveStays
    <2>2. CASE g \in rRegs
        <3>1. LeaveStarted \/ \E u \in Of("unregister") : Router /\ Grants(u, "ACK") /\ Target[u] = g
            BY <1>9, <2>2, RouterRegs
        <3>2. QED
            BY <1>0, <3>1, LeaveStays, GrantedNew
    <2>3. CASE g \in regs /\ g \notin rRegs
        <3>1. CASE LeaveStarted
            BY <3>1, LeaveStays
        <3>2. ASSUME NEW u \in Of("unregister"), Target[u] = g, Granted(u)
              PROVE  Granted(u)'
            BY <1>0, <1>6, <1>9, <3>2, GrantedStays
        <3>3. QED
            BY <1>2, <2>3, <3>1, <3>2
    <2>4. QED
        BY <2>1, <2>2, <2>3
<1>10. ASSUME Acked(g)'
       PROVE  g \in rRegs' \/ LeaveStarted'
    <2>1. CASE Router /\ Grants(g, "ACK")
        BY <1>0, <2>1, GrantsRegs
    <2>2. CASE Acked(g)
        <3>1. CASE LeaveStarted
            BY <3>1, LeaveStays
        <3>2. CASE g \in rRegs /\ g \notin rRegs'
            <4>1. CASE LeaveStarted
                BY <4>1, LeaveStays
            <4>2. ASSUME NEW u \in Of("unregister"), Grants(u, "ACK"), Target[u] = g
                  PROVE  FALSE
                <5>1. Asked(u) /\ TokenInv(u)
                    BY <1>0, <4>2, HandlingAsked DEF Grants, TInv
                <5>2. pc[u] # "new"
                    BY <5>1 DEF TokenInv
                <5>3. Done(g)
                    BY <4>2, <5>2, Undoing
                <5>4. QED
                    BY <1>0, <2>2, <5>3, AckedStarted
            <4>3. QED
                BY <3>2, <4>1, <4>2, RouterRegs
        <3>3. QED
            BY <1>2, <2>2, <3>1, <3>2
    <2>3. QED
        BY <1>0, <1>10, <2>1, <2>2, AckedStep
<1>11. QED
    BY <1>3, <1>7, <1>8, <1>9, <1>10 DEF RegInv

LEMMA UnregInvKept ==
  ASSUME Shape, TInv, RInv, Next, NEW u \in Of("unregister")
  PROVE  UnregInv(u)'
<1> USE DEF Shape
<1>0. /\ u \in Requests /\ u \in Pair /\ u \in Simple /\ Kind[u] = "unregister" /\ UnregInv(u)
      /\ Target[u] \in Of("register") /\ Target[u] \in Simple /\ Target[u] \in Pair
    BY OfPair, PairSimple, LoadFacts DEF Of, RInv
<1>1. PICK g \in Of("register") : g = Target[u]
    BY <1>0
<1>2. (Acked(u) => g \notin rRegs) /\ (reply[u] = <<"ok">> => ~Invoked(g))
    BY <1>0, <1>1 DEF UnregInv
<1>3. \A i, j \in 1..Len(toSession) :
        i < j /\ toSession[i].type = "ACK" /\ toSession[i].id = u => ~First(toSession[j], g)
    BY <1>0, <1>1 DEF UnregInv
<1>4. ASSUME Acked(u)'
      PROVE  g \notin rRegs'
    <2>1. CASE Router /\ Grants(u, "ACK")
        BY <1>0, <1>1, <2>1, GrantsRegs
    <2>2. CASE Acked(u)
        <3>1. ~Asked(g)
            BY <1>0, <1>1, <2>2, AckedStarted, Undoing
        <3>2. ~Grants(g, "ACK")
            BY <1>0, <1>1, <3>1, HandlingAsked DEF Grants
        <3>3. QED
            BY <1>2, <2>2, <3>2, RouterRegs
    <2>3. QED
        BY <1>0, <1>4, <2>1, <2>2, AckedStep
<1>5. ASSUME reply'[u] = <<"ok">>
      PROVE  ~Invoked(g)'
    <2>0. <<"ok">> # <<>> /\ <<"ok">> # <<"error">>
        OBVIOUS
    <2>1. CASE reply[u] = <<"ok">>
        BY <1>2, <2>1, InvokedStep DEF Acked
    <2>2. CASE /\ Shorter(toSession', toSession, 1) /\ 1 \in 1..Len(toSession) /\ toSession[1].id = u
               /\ toSession[1].type \in {"RESULT", "ACK"}
        <3>1. SessionOK(toSession[1])
            BY <2>2 DEF Messages
        <3>2. toSession[1].type = "ACK"
            BY <1>0, <2>2, <3>1 DEF SessionOK, Of
        <3>3. ASSUME NEW i \in 1..Len(toSession')
              PROVE  ~First(toSession'[i], g)
            <4>1. i + 1 \in 1..Len(toSession) /\ toSession'[i] = toSession[i + 1]
                BY <2>2, Shifted
            <4>2. i \in Nat /\ i > 0
                BY <2>2 DEF Shorter
            <4>3. 1 < i + 1
                BY <4>2
            <4>4. QED
                BY <1>3, <2>2, <3>2, <4>1, <4>3
        <3>4. QED
            BY <3>3 DEF Invoked, First
    <2>3. QED
        BY <1>0, <1>5, <2>0, <2>1, <2>2, ReplyStep
<1>6. ASSUME NEW i \in 1..Len(toSession'), NEW j \in 1..Len(toSession'), i < j,
             toSession'[i].type = "ACK", toSession'[i].id = u
      PROVE  ~First(toSession'[j], g)
    <2>1. ASSUME NEW k, Shorter(toSession', toSession, k)
          PROVE  ~First(toSession'[j], g)
        <3>1. /\ i + k \in 1..Len(toSession) /\ toSession'[i] = toSession[i + k]
              /\ j + k \in 1..Len(toSession) /\ toSession'[j] = toSession[j + k]
            BY <2>1, Shifted
        <3>2. k \in {0, 1} /\ i \in Nat /\ j \in Nat
            BY <2>1 DEF Shorter
        <3>3. i + k < j + k
            BY <1>6, <3>2
        <3>4. QED
            BY <1>3, <1>6, <3>1, <3>3
    <2>2. ASSUME NEW m \in Message, Longer(toSession', toSession, m), Said(m)
          PROVE  ~First(toSession'[j], g)
        <3>1. PICK n \in Nat : n = Len(toSession) /\ i \in 1..(n + 1) /\ j \in 1..(n + 1)
            BY <2>2 DEF Longer
        <3>2. i \in 1..n
            BY <1>6, <3>1
        <3>3. toSession'[i] = toSession[i] /\ i \in 1..Len(toSession)
            BY <2>2, <3>1, <3>2, Older
        <3>4. CASE j \in 1..Len(toSession) /\ toSession'[j] = toSession[j]
            BY <1>3, <1>6, <3>3, <3>4
        <3>5. CASE toSession'[j] = m
            <4>1. Acked(u)
                BY <1>6, <3>3 DEF Acked, Has
            <4>2. First(m, g) => g \in rRegs
                BY <2>2 DEF First, Said
            <4>3. QED
                BY <1>2, <3>5, <4>1, <4>2
        <3>6. QED
            BY <2>2, <3>4, <3>5, Grown
    <2>3. QED
        BY <2>1, <2>2, ToSessionStep
<1>7. QED
    BY <1>1, <1>4, <1>5, <1>6 DEF UnregInv, First

LEMMA RInvKept ==
  ASSUME Shape, TInv, RInv, Next
  PROVE  RInv'
<1>1. Of("register")' = Of("register") /\ Of("unregister")' = Of("unregister")
    BY DEF Of, Requests, Next
<1>2. QED
    BY <1>1, RegInvKept, UnregInvKept DEF RInv

-----------------------------------------------------------------------------
(* Subscriptions                                                           *)

LEMMA GrantsSubs ==
  ASSUME Shape, NEW r \in Pair, Grants(r, "ACK")
  PROVE  /\ Kind[r] = "subscribe" => Topic(r) \in rSubs'
         /\ Kind[r] = "unsubscribe" => Topic(r) \notin rSubs'
<1>0. r \in Ids
    BY IdFacts DEF Pair, Shape
<1>1. toSession' # Append(toSession, Msg("ERROR", r))
    BY <1>0, OneReply DEF Grants
<1>2. QED
    BY <1>1 DEF Grants, Handling, RouterHandles, ToSession

LEMMA RouterSubs ==
  ASSUME Shape, Next
  PROVE  \/ UNCHANGED rSubs
         \/ \E h \in Of("subscribe") : Router /\ Grants(h, "ACK") /\ rSubs' = rSubs \cup {Topic(h)}
         \/ \E u \in Of("unsubscribe") : Router /\ Grants(u, "ACK") /\ rSubs' = rSubs \ {Topic(u)}
         \/ LeaveStarted /\ rSubs' = {}
<1> USE DEF Shape
<1>1. CASE RouterHandles
    <2>1. RouterOK(Head(toRouter)) /\ Router
        BY <1>1, HeadOfOrders DEF RouterHandles, Router
    <2>2. PICK m : m = Head(toRouter)
        OBVIOUS
    <2>3. CASE m.type = "subscribe"
        <3>1. m.id \in Of("subscribe") /\ Handling(m.id)
            BY <1>1, <2>1, <2>2, <2>3 DEF RouterOK, Of, Handling, Kinds
        <3>2. UNCHANGED rSubs \/ (toSession' = Append(toSession, Msg("ACK", m.id)) /\ rSubs' = rSubs \cup {Topic(m.id)})
            BY <1>1, <2>2, <2>3 DEF RouterHandles, ToSession
        <3>3. QED
            BY <2>1, <3>1, <3>2 DEF Grants
    <2>4. CASE m.type = "unsubscribe"
        <3>1. m.id \in Of("unsubscribe") /\ Handling(m.id)
            BY <1>1, <2>1, <2>2, <2>4 DEF RouterOK, Of, Handling, Kinds
        <3>2. /\ rSubs' = rSubs \ {Topic(m.id)}
              /\ Topic(m.id) \in rSubs => toSession' = Append(toSession, Msg("ACK", m.id))
            BY <1>1, <2>2, <2>4 DEF RouterHandles, ToSession
        <3>3. QED
            BY <2>1, <3>1, <3>2 DEF Grants
    <2>5. CASE m.type = "leave"
        <3>1. m.id \in Of("leave") /\ pc[m.id] # "new"
            BY <2>1, <2>2, <2>5 DEF RouterOK, Of, Kinds
        <3>2. rSubs' = {}
            BY <1>1, <2>2, <2>5 DEF RouterHandles
        <3>3. QED
            BY <3>1, <3>2 DEF LeaveStarted
    <2>6. CASE m.type \notin {"subscribe", "unsubscribe", "leave"}
        BY <1>1, <2>2, <2>6 DEF RouterHandles
    <2>7. QED
        BY <2>3, <2>4, <2>5, <2>6
<1>2. CASE \E r \in Requests : Request(r)
    BY <1>2, RequestMoves DEF routerVars
<1>3. CASE Reader
    BY <1>3, ReaderHears DEF routerVars
<1>4. CASE \E h \in running : HandlerReturns(h)
    BY <1>4, HandlerFrame DEF routerVars
<1>5. CASE TransportLost
    BY <1>5 DEF TransportLost, routerVars
<1>6. CASE Router /\ ~RouterHandles
    BY <1>6 DEF Router, RouterAnswers, RouterNextChunk, RouterPushes
<1>7. QED
    BY <1>1, <1>2, <1>3, <1>4, <1>5, <1>6 DEF Next, Steps

\* What the session does to its handlers.
TakesHandler(h) ==
  /\ Takes(h, "ok") /\ pc[h] = "wait" /\ subs' = subs \cup {h} /\ subEntry' = subEntry \cup {Topic(h)}
DropsTopic(u) ==
  /\ Takes(u, "ok") /\ pc[u] = "wait"
  /\ subs' = subs \ OnTopic(Topic(u)) /\ subEntry' = subEntry \ {Topic(u)}
DropsHandler(u) ==
  /\ SendUnsubscribe(u) /\ pc[u] = "send" /\ pc'[u] # "new"
  /\ subs' = (IF Topic(u) \in subEntry THEN subs \ {Target[u]} ELSE subs) /\ UNCHANGED subEntry

LEMMA SessionSubs ==
  ASSUME Shape, Next
  PROVE  \/ UNCHANGED <<subs, subEntry>>
         \/ \E h \in Of("subscribe") : TakesHandler(h)
         \/ \E u \in Of("unsubscribe") : DropsTopic(u) \/ DropsHandler(u)
<1> USE DEF Shape
<1>1. CASE \E r \in Requests : Request(r)
    <2>1. PICK r \in Requests : Request(r)
        BY <1>1
    <2>2. CASE Subscribed(r)
        <3>1. r \in Of("subscribe") /\ Takes(r, "ok") /\ pc[r] = "wait"
            BY <2>2 DEF Subscribed, TakeReply, Return, Takes, RequestState, Of, netVars
        <3>2. QED
            BY <2>2, <3>1 DEF Subscribed, TakesHandler
    <2>3. CASE Unsubscribed(r)
        <3>1. r \in Of("unsubscribe") /\ Takes(r, "ok") /\ pc[r] = "wait"
            BY <2>3 DEF Unsubscribed, TakeReply, Return, Takes, RequestState, Of, netVars
        <3>2. QED
            BY <2>3, <3>1 DEF Unsubscribed, DropsTopic
    <2>4. CASE SendUnsubscribe(r)
        <3>1. r \in Of("unsubscribe") /\ pc[r] = "send"
            BY <2>4 DEF SendUnsubscribe, Of
        <3>2. Moves(r)
            BY <2>1, RequestMoves
        <3>3. pc'[r] # "new"
            BY <3>1, <3>2, ReturnedStays
        <3>4. QED
            BY <2>4, <3>1, <3>3 DEF SendUnsubscribe, DropsHandler
    <2>5. CASE ~Subscribed(r) /\ ~Unsubscribed(r) /\ ~SendUnsubscribe(r)
        BY <2>1, <2>5 DEF Request, Refuse, StartRequest, SendRequest, PublishUnacknowledged,
           SendChunk, ReplyTaken, Registered, Timeout, ContextDone, SendCancel, CancelTimeout, CallSeesLeave,
           LeaveReturns, subVars
    <2>6. QED
        BY <2>2, <2>3, <2>4, <2>5
<1>2. CASE Reader
    BY <1>2, ReaderHears DEF subVars
<1>3. CASE \E h \in running : HandlerReturns(h)
    BY <1>3, HandlerFrame DEF subVars
<1>4. CASE Router
    BY <1>4, RouterFrame DEF SessionUnchanged, subVars
<1>5. CASE TransportLost
    BY <1>5 DEF TransportLost, subVars
<1>6. QED
    BY <1>1, <1>2, <1>3, <1>4, <1>5 DEF Next, Steps

LEMMA EventStep ==
  ASSUME Shape, Next, NEW t, Has(toSession', {"EVENT"}, t)
  PROVE  Has(toSession, {"EVENT"}, t) \/ t \in rSubs
<1>1. CASE \E k : Shorter(toSession', toSession, k)
    BY <1>1, HasShorter
<1>2. ASSUME NEW m \in Message, Longer(toSession', toSession, m), Said(m)
      PROVE  Has(toSession, {"EVENT"}, t) \/ t \in rSubs
    BY <1>2, HasLonger DEF Said
<1>3. QED
    BY <1>1, <1>2, ToSessionStep

LEMMA ToRouterStep ==
  ASSUME Shape, Next
  PROVE  \/ \E k : Shorter(toRouter', toRouter, k)
         \/ \E m \in Order : /\ Longer(toRouter', toRouter, m)
                             /\ m.type \in Kinds \ {"call"} =>
                                  m.id \in Requests /\ Request(m.id) /\ Asks(m.id) /\ Kind[m.id] = m.type
<1> USE DEF Shape
<1>0. toRouter \in Seq(Order) /\ Shorter(toRouter, toRouter, 0)
    BY SameQueue DEF Orders
<1>1. CASE \E r \in Requests : Request(r)
    <2>1. PICK r \in Requests : Request(r)
        BY <1>1
    <2>2. Moves(r) /\ r \in Ids /\ Kind[r] \in Kinds
        BY <2>1, RequestMoves, IdFacts, LoadFacts
    <2>3. ASSUME NEW type \in RouterTypes, toRouter' = Append(toRouter, Msg(type, r)),
                 type \in Kinds \ {"call"} => Asks(r) /\ Kind[r] = type
          PROVE  \E m \in Order : /\ Longer(toRouter', toRouter, m)
                                  /\ m.type \in Kinds \ {"call"} =>
                                       m.id \in Requests /\ Request(m.id) /\ Asks(m.id) /\ Kind[m.id] = m.type
        <3>1. Msg(type, r) \in Order /\ Msg(type, r).type = type /\ Msg(type, r).id = r
            BY <2>2 DEF Msg, Order
        <3>2. Longer(toRouter', toRouter, Msg(type, r))
            BY <1>0, <2>3, <3>1, AppendQueue
        <3>3. QED
            BY <2>1, <2>3, <3>1, <3>2
    <2>4. {"unacknowledged", "call", "cancel"} \cup Kinds \subseteq RouterTypes /\ "cancel" \notin Kinds
          /\ "unacknowledged" \notin Kinds
        BY DEF RouterTypes, Kinds
    <2>5. CASE Asks(r)
        BY <2>2, <2>3, <2>4, <2>5 DEF Asks
    <2>6. CASE UNCHANGED toRouter
        BY <1>0, <2>6
    <2>7. CASE Continues(r)
        BY <2>3, <2>4, <2>6, <2>7 DEF Continues
    <2>8. CASE Cancels(r)
        BY <2>3, <2>4, <2>6, <2>8 DEF Cancels
    <2>9. CASE Finishes(r)
        BY <2>3, <2>4, <2>6, <2>9 DEF Finishes
    <2>10. QED
        BY <2>2, <2>5, <2>6, <2>7, <2>8, <2>9 DEF Moves, Starts, Takes, GivesUp
<1>2. CASE Reader
    BY <1>0, <1>2, ReaderHears
<1>3. CASE \E h \in running : HandlerReturns(h)
    <2>1. PICK h \in running : UNCHANGED toRouter \/ toRouter' = Append(toRouter, Msg("yield", h[1]))
        BY <1>3, HandlerFrame
    <2>2. h[1] \in 1..load.pushes /\ load.pushes \in Nat
        BY LoadFacts DEF TypeOK
    <2>3. Msg("yield", h[1]) \in Order /\ Msg("yield", h[1]).type \notin Kinds
        BY <2>2, IdFacts DEF Order, Msg, RouterTypes, Kinds
    <2>4. QED
        BY <1>0, <2>1, <2>3, AppendQueue
<1>4. CASE Router
    BY <1>4, RouterTakes
<1>5. CASE TransportLost
    <2>1. toRouter' = <<>>
        BY <1>5 DEF TransportLost
    <2>2. QED
        BY <1>0, <2>1, CutQueue
<1>6. QED
    BY <1>1, <1>2, <1>3, <1>4, <1>5 DEF Next, Steps

LEMMA WaitFrom ==
  ASSUME Shape, Next, NEW q \in Pair, pc'[q] = "wait"
  PROVE  pc[q] = "wait" \/ (Request(q) /\ Asks(q))
<1>0. q \in Requests /\ Kind[q] # "call"
    BY DEF Pair
<1>1. CASE Request(q) /\ Moves(q)
    BY <1>0, <1>1 DEF Shape, TypeOK, Moves, Starts, Asks, Continues, Cancels, Takes, GivesUp, Finishes
<1>2. QED
    BY <1>0, <1>1, RequestStep

LEMMA GoneStays ==
  ASSUME Shape, Next, NEW t, Gone(t)
  PROVE  Gone(t)'
<1> USE DEF Shape
<1>1. PICK r \in Of("subscribe") : Topic(r) = t /\ outcome[r] = "timeout"
    BY DEF Gone
<1>2. r \in Requests /\ Of("subscribe")' = Of("subscribe") /\ pc[r] = "returned"
    BY <1>1 DEF Of, Requests, Next, RequestState
<1>3. outcome'[r] = "timeout"
    BY <1>1, <1>2, RequestStep, ReturnedStays
<1>4. QED
    BY <1>1, <1>2, <1>3 DEF Gone, Topic

LEMMA AskedWaits ==
  ASSUME TInv, NEW q \in Pair, Asked(q)
  PROVE  (pc[q] = "wait" \/ outcome[q] = "timeout") /\ pc[q] \notin {"new", "send"}
BY PairSimple DEF TInv, TokenInv, Pair

LEMMA AloneKept ==
  ASSUME Shape, load.serial, AloneInv, Next
  PROVE  AloneInv'
<1> USE DEF Shape
<1>0. /\ Of("subscribe")' = Of("subscribe") /\ Of("unsubscribe")' = Of("unsubscribe")
      /\ \A r \in Of("subscribe") \cup Of("unsubscribe") :
           r \in Requests /\ r \in Pair /\ Kind[r] \in {"subscribe", "unsubscribe"}
    BY OfPair DEF Of, Requests, Next
<1>1. ASSUME NEW r \in Of("subscribe") \cup Of("unsubscribe"), NEW q \in Of("subscribe") \cup Of("unsubscribe"),
             Topic(r) = Topic(q), r # q, pc'[r] \in {"send", "wait"}, pc'[q] \in {"send", "wait"},
             pc[r] \notin {"send", "wait"}
      PROVE  FALSE
    <2>1. Request(r) /\ Moves(r)
        BY <1>0, <1>1, RequestStep
    <2>2. pc[r] = "new"
        BY <1>0, <1>1, <2>1
        DEF TypeOK, Moves, Starts, Asks, Continues, Cancels, Takes, GivesUp, Finishes
    <2>3. MayStart(r)
        BY <1>1, <2>1, <2>2, NewMayStart
    <2>4. ~Busy(Topic(r))
        BY <1>0, <1>1, <2>3 DEF MayStart
    <2>5. pc[q] \in {"send", "wait"}
        BY <1>0, <1>1, <2>1, ReturnedStays
    <2>6. QED
        BY <1>1, <2>4, <2>5 DEF Busy, OnTopic
<1>2. ASSUME NEW r \in Of("subscribe") \cup Of("unsubscribe"), NEW q \in Of("subscribe") \cup Of("unsubscribe"),
             Topic(r) = Topic(q), pc'[r] \in {"send", "wait"}, pc'[q] \in {"send", "wait"}
      PROVE  r = q
    BY <1>1, <1>2 DEF AloneInv
<1>3. QED
    BY <1>0, <1>2 DEF AloneInv, Topic

\* The last handler of a topic is gone when its unsubscribe is sent.
LEMMA AsksUnsubscribe ==
  ASSUME Shape, \A h \in Of("subscribe") : SubInv(h), NEW u \in Of("unsubscribe"), Request(u), Asks(u)
  PROVE  subs' \cap OnTopic(Topic(u)) = {}
<1>0. /\ u \in Requests /\ Kind[u] = "unsubscribe" /\ pc[u] = "send" /\ pc'[u] = "wait"
      /\ u \notin Chunked
    BY CallsAssumption DEF Of, Asks, Shape, TypeOK
<1>1. SendUnsubscribe(u)
    BY <1>0 DEF Request, Refuse, StartRequest, MayStart, SendRequest, PublishUnacknowledged, SendChunk, ReplyTaken,
       Registered, Subscribed, Unsubscribed, TakeReply, Timeout, ContextDone, SendCancel, CancelTimeout, CallSeesLeave,
       LeaveReturns, reqVars
<1>2. PICK t : t = Topic(u)
    OBVIOUS
<1>3. ~Return(u, "ok")
    BY <1>0 DEF Return, Shape, TypeOK
<1>4. /\ ~(t \in subEntry /\ (subs \cap OnTopic(t)) \ {Target[u]} # {})
      /\ subs' = IF t \in subEntry THEN subs \ {Target[u]} ELSE subs
    BY <1>1, <1>2, <1>3 DEF SendUnsubscribe
<1>5. CASE t \in subEntry
    BY <1>2, <1>4, <1>5
<1>6. CASE t \notin subEntry
    <2>1. ASSUME NEW h \in subs, h \in OnTopic(t)
          PROVE  FALSE
        <3>1. h \in Of("subscribe") /\ Topic(h) = t
            BY <2>1 DEF Shape, TypeOK, OnTopic
        <3>2. QED
            BY <1>6, <2>1, <3>1 DEF SubInv
    <2>2. QED
        BY <1>2, <1>4, <1>6, <2>1
<1>7. QED
    BY <1>5, <1>6

LEMMA EventKept ==
  ASSUME Shape, TInv, load.serial, EventInv, \A u \in Of("unsubscribe") : UnsubInv(u), Next
  PROVE  EventInv'
<1> USE DEF Shape
<1>0. /\ Of("subscribe")' = Of("subscribe") /\ Of("subscribe") \subseteq Pair /\ Of("unsubscribe") \subseteq Pair
      /\ Topics' = Topics /\ \A h \in Of("subscribe") : Kind[h] = "subscribe"
    BY OfPair DEF Of, Requests, Next, Topics
<1>1. ASSUME NEW t \in Topics, t \in rSubs' \/ Has(toSession', {"EVENT"}, t)
      PROVE  t \in subEntry' \/ \E r \in Of("subscribe") : Topic(r) = t /\ Granted(r)'
    <2>1. CASE t \in rSubs' /\ t \notin rSubs
        <3>1. PICK h \in Of("subscribe") : Router /\ Grants(h, "ACK") /\ Topic(h) = t
            BY <2>1, RouterSubs
        <3>2. QED
            BY <1>0, <3>1, GrantedNew
    <2>2. CASE t \in rSubs \/ Has(toSession, {"EVENT"}, t)
        <3>1. Covered(t)
            BY <2>2 DEF EventInv
        <3>2. CASE t \in subEntry /\ t \notin subEntry'
            <4>1. PICK u \in Of("unsubscribe") : DropsTopic(u) /\ Topic(u) = t
                BY <3>2, SessionSubs DEF TakesHandler, DropsTopic, DropsHandler
            <4>2. pc[u] = "wait" /\ reply[u] = <<"ok">> /\ Acked(u) /\ UnsubInv(u)
                BY <4>1 DEF DropsTopic, Takes, Acked
            <4>3. Gone(t)
                BY <2>2, <4>1, <4>2 DEF UnsubInv
            <4>4. Gone(t)'
                BY <4>3, GoneStays
            <4>5. QED
                BY <1>0, <4>4 DEF Gone, Granted, Topic
        <3>3. ASSUME NEW r \in Of("subscribe"), Topic(r) = t, Granted(r)
              PROVE  Granted(r)' \/ t \in subEntry'
            <4>1. CASE Request(r) /\ Takes(r, "ok")
                <5>1. Subscribed(r)
                    BY <1>0, <4>1, TakesOk
                <5>2. QED
                    BY <3>3, <5>1 DEF Subscribed
            <4>2. QED
                BY <1>0, <3>3, <4>1, GrantedStays
        <3>4. QED
            BY <3>1, <3>2, <3>3 DEF Covered
    <2>3. QED
        BY <1>1, <2>1, <2>2, EventStep
<1>2. ASSUME NEW t \in Topics, (t \in rSubs \/ Has(toSession, {"EVENT"}, t))'
      PROVE  Covered(t)'
    <2>1. t \in rSubs' \/ Has(toSession', {"EVENT"}, t)
        BY <1>2 DEF Has
    <2>2. QED
        BY <1>0, <1>1, <2>1 DEF Covered, Topic
<1>3. QED
    BY <1>0, <1>2 DEF EventInv

LEMMA HandlerKeptKept ==
  ASSUME Shape, HandlerKept, \A u \in Of("unsubscribe") : UnsubInv(u), Next
  PROVE  HandlerKept'
<1> USE DEF Shape
<1>0. /\ Of("subscribe")' = Of("subscribe") /\ Of("unsubscribe")' = Of("unsubscribe")
      /\ Of("subscribe") \subseteq Pair /\ Of("subscribe") \subseteq Requests /\ Of("unsubscribe") \subseteq Requests
    BY OfPair DEF Of, Requests, Next
<1>1. ASSUME NEW h \in Of("subscribe"), outcome'[h] = "ok",
             \A u \in Of("unsubscribe") : Target[u] = h => pc'[u] = "new"
      PROVE  h \in subs' /\ Topic(h) \in subEntry'
    <2>0. Kind[h] = "subscribe" /\ h \in Requests /\ h \in Pair /\ h \notin Chunked
        BY <1>0, CallsAssumption DEF Of
    <2>1. CASE outcome[h] = "ok"
        <3>1. \A u \in Of("unsubscribe") : Target[u] = h => pc[u] = "new"
            BY <1>0, <1>1, RequestStep, ReturnedStays
        <3>2. h \in subs /\ Topic(h) \in subEntry
            BY <2>1, <3>1 DEF HandlerKept
        <3>3. CASE \E g \in Of("subscribe") : TakesHandler(g)
            BY <3>2, <3>3 DEF TakesHandler
        <3>4. ASSUME NEW u \in Of("unsubscribe"), DropsTopic(u)
              PROVE  h \in subs' /\ Topic(h) \in subEntry'
            <4>1. subs \cap OnTopic(Topic(u)) = {}
                BY <3>4 DEF UnsubInv, DropsTopic
            <4>2. Topic(u) # Topic(h)
                BY <3>2, <4>1 DEF OnTopic
            <4>3. QED
                BY <3>2, <3>4, <4>2 DEF DropsTopic, OnTopic
        <3>5. ASSUME NEW u \in Of("unsubscribe"), DropsHandler(u)
              PROVE  h \in subs' /\ Topic(h) \in subEntry'
            <4>1. Target[u] # h
                BY <1>1, <3>5 DEF DropsHandler
            <4>2. QED
                BY <3>2, <3>5, <4>1 DEF DropsHandler
        <3>6. QED
            BY <3>2, <3>3, <3>4, <3>5, SessionSubs
    <2>2. CASE outcome[h] # "ok"
        <3>1. Request(h) /\ Moves(h)
            BY <1>1, <2>0, <2>2, RequestStep
        <3>2. Takes(h, "ok")
            <4>1. ASSUME NEW how \in {"error", "refused", "timeout", "canceled", "closed"}
                  PROVE  ~GivesUp(h, how)
                BY <1>1, <2>0, <4>1 DEF GivesUp, TypeOK
            <4>2. ~Takes(h, "error")
                BY <1>1, <2>0 DEF Takes, TypeOK
            <4>3. ~Starts(h) /\ ~Asks(h) /\ ~Continues(h) /\ ~Cancels(h) /\ ~Finishes(h)
                BY <1>1, <2>0, <2>2 DEF Starts, Asks, Continues, Cancels, Finishes
            <4>4. QED
                BY <3>1, <4>1, <4>2, <4>3 DEF Moves
        <3>3. Subscribed(h)
            BY <2>0, <3>1, <3>2, TakesOk
        <3>4. QED
            BY <3>3 DEF Subscribed
    <2>3. QED
        BY <2>1, <2>2
<1>2. QED
    BY <1>0, <1>1 DEF HandlerKept, Topic

LEMMA UnsubInvKept ==
  ASSUME Shape, TInv, AloneInv, \A h \in Of("subscribe") : SubInv(h), NEW u \in Of("unsubscribe"), UnsubInv(u), Next
  PROVE  UnsubInv(u)'
<1> USE DEF Shape
<1>0. /\ u \in Requests /\ u \in Pair /\ u \in Simple /\ Kind[u] = "unsubscribe"
      /\ Of("subscribe")' = Of("subscribe") /\ Of("unsubscribe")' = Of("unsubscribe")
      /\ Of("subscribe") \subseteq Pair /\ \A h \in Of("subscribe") : Kind[h] = "subscribe"
    BY OfPair, PairSimple DEF Of, Requests, Next
<1>1. PICK t : t = Topic(u)
    OBVIOUS
<1>2. OnTopic(t)' = OnTopic(t) /\ (Gone(t) => Gone(t)')
    BY <1>0, GoneStays DEF OnTopic, Topic
<1>3. SUFFICES ASSUME pc'[u] = "wait"
               PROVE  /\ subs' \cap OnTopic(t) = {}
                      /\ Acked(u)' /\ ~Gone(t)' => t \notin rSubs'
                      /\ reply'[u] = <<"ok">> /\ ~Gone(t)' => ~Has(toSession', {"EVENT"}, t)
                      /\ ~Gone(t)' => \A i, j \in 1..Len(toSession') :
                           i < j /\ toSession'[i].type = "ACK" /\ toSession'[i].id = u =>
                             ~(toSession'[j].type = "EVENT" /\ toSession'[j].id = t)
    BY <1>1, <1>2 DEF UnsubInv, Has, Topic
\* It has just been sent: nothing answers it yet.
<1>4. CASE Request(u) /\ Asks(u)
    <2>1. subs' \cap OnTopic(t) = {}
        BY <1>1, <1>4, AsksUnsubscribe
    <2>2. pc[u] = "send" /\ ~Acked(u) /\ ~Asked(u)
        BY <1>0, <1>4, AckedStarted, AskedWaits DEF Asks
    <2>3. ~Acked(u)'
        BY <1>0, <2>2, AckedStep, HandlingAsked DEF Grants
    <2>4. reply'[u] # <<"ok">> /\ \A i \in 1..Len(toSession') : ~(toSession'[i].type = "ACK" /\ toSession'[i].id = u)
        BY <2>3 DEF Acked, Has
    <2>5. QED
        BY <2>1, <2>3, <2>4
<1>5. CASE pc[u] = "wait"
    <2>0. /\ subs \cap OnTopic(t) = {}
          /\ Acked(u) /\ ~Gone(t) => t \notin rSubs
          /\ reply[u] = <<"ok">> /\ ~Gone(t) => ~Has(toSession, {"EVENT"}, t)
          /\ ~Gone(t) => \A i, j \in 1..Len(toSession) :
               i < j /\ toSession[i].type = "ACK" /\ toSession[i].id = u =>
                 ~(toSession[j].type = "EVENT" /\ toSession[j].id = t)
        BY <1>1, <1>5 DEF UnsubInv
    \* No subscribe of the topic is under way.
    <2>1. ASSUME NEW h \in Of("subscribe"), Topic(h) = t
          PROVE  pc[h] # "wait"
        BY <1>0, <1>1, <1>5, <2>1 DEF AloneInv
    <2>2. subs' \cap OnTopic(t) = {}
        <3>1. ASSUME NEW h \in Of("subscribe"), TakesHandler(h)
              PROVE  h \notin OnTopic(t)
            BY <2>1, <3>1 DEF TakesHandler, OnTopic
        <3>2. subs' \subseteq subs \/ \E h \in Of("subscribe") : TakesHandler(h) /\ subs' = subs \cup {h}
            BY SessionSubs DEF TakesHandler, DropsTopic, DropsHandler
        <3>3. QED
            BY <2>0, <3>1, <3>2
    <2>3. ASSUME Acked(u)', ~Gone(t)'
          PROVE  t \notin rSubs'
        <3>1. CASE Router /\ Grants(u, "ACK")
            BY <1>0, <1>1, <3>1, GrantsSubs
        <3>2. CASE Acked(u)
            <4>1. t \notin rSubs
                BY <1>2, <2>0, <2>3, <3>2
            <4>2. ASSUME NEW h \in Of("subscribe"), Grants(h, "ACK"), Topic(h) = t
                  PROVE  FALSE
                <5>1. Asked(h)
                    BY <1>0, <4>2, HandlingAsked, PairSimple DEF Grants
                <5>2. outcome[h] = "timeout"
                    BY <1>0, <2>1, <4>2, <5>1, AskedWaits
                <5>3. QED
                    BY <1>2, <2>3, <4>2, <5>2 DEF Gone
            <4>3. QED
                BY <4>1, <4>2, RouterSubs
        <3>3. QED
            BY <1>0, <2>3, <3>1, <3>2, AckedStep
    <2>4. ASSUME reply'[u] = <<"ok">>, ~Gone(t)'
          PROVE  ~Has(toSession', {"EVENT"}, t)
        <3>0. <<"ok">> # <<>> /\ <<"ok">> # <<"error">>
            OBVIOUS
        <3>1. CASE reply[u] = <<"ok">>
            BY <1>2, <2>0, <2>4, <3>1, EventStep DEF Acked
        <3>2. CASE /\ Shorter(toSession', toSession, 1) /\ 1 \in 1..Len(toSession) /\ toSession[1].id = u
                   /\ toSession[1].type \in {"RESULT", "ACK"}
            <4>1. SessionOK(toSession[1])
                BY <3>2 DEF Messages
            <4>2. toSession[1].type = "ACK"
                BY <1>0, <3>2, <4>1 DEF SessionOK, Of
            <4>3. ASSUME NEW i \in 1..Len(toSession')
                  PROVE  ~(toSession'[i].type = "EVENT" /\ toSession'[i].id = t)
                <5>1. i + 1 \in 1..Len(toSession) /\ toSession'[i] = toSession[i + 1]
                    BY <3>2, Shifted
                <5>2. i \in Nat /\ i > 0
                    BY <3>2 DEF Shorter
                <5>3. 1 < i + 1
                    BY <5>2
                <5>4. QED
                    BY <1>2, <2>0, <2>4, <3>2, <4>2, <5>1, <5>3
            <4>4. QED
                BY <4>3 DEF Has
        <3>3. QED
            BY <1>0, <2>4, <3>0, <3>1, <3>2, ReplyStep
    <2>5. ASSUME ~Gone(t)', NEW i \in 1..Len(toSession'), NEW j \in 1..Len(toSession'), i < j,
                 toSession'[i].type = "ACK", toSession'[i].id = u
          PROVE  ~(toSession'[j].type = "EVENT" /\ toSession'[j].id = t)
        <3>0. ~Gone(t)
            BY <1>2, <2>5
        <3>1. ASSUME NEW k, Shorter(toSession', toSession, k)
              PROVE  ~(toSession'[j].type = "EVENT" /\ toSession'[j].id = t)
            <4>1. /\ i + k \in 1..Len(toSession) /\ toSession'[i] = toSession[i + k]
                  /\ j + k \in 1..Len(toSession) /\ toSession'[j] = toSession[j + k]
                BY <3>1, Shifted
            <4>2. k \in {0, 1} /\ i \in Nat /\ j \in Nat
                BY <3>1 DEF Shorter
            <4>3. i + k < j + k
                BY <2>5, <4>2
            <4>4. QED
                BY <2>0, <2>5, <3>0, <4>1, <4>3
        <3>2. ASSUME NEW m \in Message, Longer(toSession', toSession, m), Said(m)
              PROVE  ~(toSession'[j].type = "EVENT" /\ toSession'[j].id = t)
            <4>1. PICK n \in Nat : n = Len(toSession) /\ i \in 1..(n + 1) /\ j \in 1..(n + 1)
                BY <3>2 DEF Longer
            <4>2. i \in 1..n
                BY <2>5, <4>1
            <4>3. toSession'[i] = toSession[i] /\ i \in 1..Len(toSession)
                BY <3>2, <4>1, <4>2, Older
            <4>4. CASE j \in 1..Len(toSession) /\ toSession'[j] = toSession[j]
                BY <2>0, <2>5, <3>0, <4>3, <4>4
            <4>5. CASE toSession'[j] = m
                <5>1. Acked(u)
                    BY <2>5, <4>3 DEF Acked, Has
                <5>2. m.type = "EVENT" => m.id \in rSubs
                    BY <3>2 DEF Said
                <5>3. QED
                    BY <2>0, <3>0, <4>5, <5>1, <5>2
            <4>6. QED
                BY <3>2, <4>4, <4>5, Grown
        <3>3. QED
            BY <3>1, <3>2, ToSessionStep
    <2>6. QED
        BY <2>2, <2>3, <2>4, <2>5
<1>6. QED
    BY <1>0, <1>3, <1>4, <1>5, WaitFrom

\* h's topic stays at the router and no UNSUBSCRIBE of it is on its way.
LEMMA SubscribedKept ==
  ASSUME Shape, TInv, AloneInv, \A g \in Of("subscribe") : SubInv(g), NEW h \in Of("subscribe"), Next,
         ~LeaveStarted, h \in subs' \/ pc'[h] = "wait", Topic(h) \in rSubs, NoUnsub(Topic(h))
  PROVE  Topic(h) \in rSubs' /\ NoUnsub(Topic(h))'
<1> USE DEF Shape
<1>0. /\ h \in Requests /\ h \in Pair /\ Kind[h] = "subscribe"
      /\ Of("unsubscribe") \subseteq Pair /\ \A u \in Of("unsubscribe") : Kind[u] = "unsubscribe"
    BY OfPair DEF Of
<1>1. PICK t : t = Topic(h)
    OBVIOUS
<1>2. ASSUME NEW u \in Of("unsubscribe"), Grants(u, "ACK"), Topic(u) = t
      PROVE  FALSE
    <2>1. toRouter # <<>> /\ Head(toRouter).type = "unsubscribe" /\ Head(toRouter).id = u
        BY <1>0, <1>2 DEF Grants, Handling, RouterHandles
    <2>2. Head(toRouter) = toRouter[1] /\ 1 \in 1..Len(toRouter)
        BY <2>1, HeadOfOrders
    <2>3. QED
        BY <1>1, <1>2, <2>1, <2>2 DEF NoUnsub, Unsub
<1>3. t \in rSubs'
    BY <1>1, <1>2, RouterSubs
<1>4. ASSUME NEW u \in Of("unsubscribe"), Topic(u) = t, Request(u), Asks(u)
      PROVE  FALSE
    <2>1. u # h /\ u \in Requests /\ pc[u] = "send" /\ Moves(u)
        BY <1>0, <1>4 DEF Asks, Of, Moves
    <2>2. pc'[h] # "wait"
        <3>1. pc'[h] = pc[h]
            BY <1>0, <2>1, ReturnedStays
        <3>2. QED
            BY <1>0, <1>1, <1>4, <2>1, <3>1 DEF AloneInv
    <2>3. h \in OnTopic(t)
        BY <1>1 DEF OnTopic
    <2>4. QED
        BY <1>4, <2>2, <2>3, AsksUnsubscribe
<1>5. ASSUME NEW i \in 1..Len(toRouter')
      PROVE  ~Unsub(toRouter'[i], t)
    <2>1. ASSUME NEW k, Shorter(toRouter', toRouter, k)
          PROVE  ~Unsub(toRouter'[i], t)
        <3>1. i + k \in 1..Len(toRouter) /\ toRouter'[i] = toRouter[i + k]
            BY <2>1, Shifted
        <3>2. QED
            BY <1>1, <3>1 DEF NoUnsub
    <2>2. ASSUME NEW m \in Order, Longer(toRouter', toRouter, m),
                 m.type \in Kinds \ {"call"} =>
                   m.id \in Requests /\ Request(m.id) /\ Asks(m.id) /\ Kind[m.id] = m.type
          PROVE  ~Unsub(toRouter'[i], t)
        <3>1. ~Unsub(m, t)
            <4>1. m.type = "unsubscribe" => m.id \in Of("unsubscribe") /\ Request(m.id) /\ Asks(m.id)
                BY <2>2 DEF Kinds, Of
            <4>2. QED
                BY <1>4, <4>1 DEF Unsub
        <3>2. QED
            BY <1>1, <2>2, <3>1, Grown DEF NoUnsub
    <2>3. QED
        BY <2>1, <2>2, ToRouterStep
<1>6. QED
    BY <1>1, <1>3, <1>5 DEF NoUnsub, Unsub, Topic

LEMMA SubInvKept ==
  ASSUME Shape, TInv, AloneInv, \A g \in Of("subscribe") : SubInv(g), NEW h \in Of("subscribe"), Next
  PROVE  SubInv(h)'
<1> USE DEF Shape
<1>0. /\ h \in Requests /\ h \in Pair /\ h \in Simple /\ Kind[h] = "subscribe" /\ SubInv(h)
      /\ \A u \in Of("unsubscribe") : Kind[u] = "unsubscribe"
    BY OfPair, PairSimple DEF Of
<1>1. PICK t : t = Topic(h)
    OBVIOUS
<1>2. /\ h \in subs => t \in subEntry
      /\ ~LeaveStarted /\ (h \in subs \/ (pc[h] = "wait" /\ Acked(h))) => t \in rSubs /\ NoUnsub(t)
      /\ pc[h] = "wait" => \A i, j \in 1..Len(toRouter) :
           i < j /\ toRouter[i].type = "subscribe" /\ toRouter[i].id = h => ~Unsub(toRouter[j], t)
    BY <1>0, <1>1 DEF SubInv
<1>3. ASSUME h \in subs'
      PROVE  t \in subEntry'
    <2>1. ASSUME NEW g \in Of("subscribe"), TakesHandler(g)
          PROVE  t \in subEntry'
        BY <1>1, <1>2, <1>3, <2>1 DEF TakesHandler
    <2>2. ASSUME NEW u \in Of("unsubscribe"), DropsTopic(u)
          PROVE  t \in subEntry'
        <3>1. h \in subs /\ h \notin OnTopic(Topic(u)) /\ subEntry' = subEntry \ {Topic(u)}
            BY <1>3, <2>2 DEF DropsTopic
        <3>2. Topic(u) # t
            BY <1>1, <3>1 DEF OnTopic
        <3>3. QED
            BY <1>2, <3>1, <3>2
    <2>3. ASSUME NEW u \in Of("unsubscribe"), DropsHandler(u)
          PROVE  t \in subEntry'
        BY <1>2, <1>3, <2>3 DEF DropsHandler
    <2>4. QED
        BY <1>2, <1>3, <2>1, <2>2, <2>3, SessionSubs
\* An unsubscribe of the topic is not sent while h waits.
<1>4. ASSUME NEW u \in Of("unsubscribe"), Topic(u) = t, Asks(u), pc[h] = "wait"
      PROVE  FALSE
    BY <1>0, <1>1, <1>4 DEF AloneInv, Asks
<1>5. ASSUME pc'[h] = "wait", NEW i \in 1..Len(toRouter'), NEW j \in 1..Len(toRouter'), i < j,
             toRouter'[i].type = "subscribe", toRouter'[i].id = h
      PROVE  ~Unsub(toRouter'[j], t)
    <2>1. CASE Request(h) /\ Asks(h)
        <3>1. pc[h] = "send" /\ toRouter' = Append(toRouter, Msg("subscribe", h)) /\ ~Asked(h)
            BY <1>0, <2>1, AskedWaits DEF Asks
        <3>2. Msg("subscribe", h) \in Order /\ toRouter \in Seq(Order)
            BY <1>0, IdFacts DEF Msg, Order, RouterTypes, Kinds, Orders
        <3>3. Longer(toRouter', toRouter, Msg("subscribe", h))
            BY <3>1, <3>2, AppendQueue
        <3>4. PICK n \in Nat : n = Len(toRouter) /\ i \in 1..(n + 1) /\ j \in 1..(n + 1)
            BY <3>3 DEF Longer
        <3>5. i \in 1..n
            BY <1>5, <3>4
        <3>6. toRouter'[i] = toRouter[i] /\ i \in 1..Len(toRouter)
            BY <3>3, <3>4, <3>5, Older
        <3>7. Asked(h)
            BY <1>0, <1>5, <3>6 DEF Asked, Has
        <3>8. QED
            BY <3>1, <3>7
    <2>2. CASE pc[h] = "wait"
        <3>1. ASSUME NEW k, Shorter(toRouter', toRouter, k)
              PROVE  ~Unsub(toRouter'[j], t)
            <4>1. /\ i + k \in 1..Len(toRouter) /\ toRouter'[i] = toRouter[i + k]
                  /\ j + k \in 1..Len(toRouter) /\ toRouter'[j] = toRouter[j + k]
                BY <3>1, Shifted
            <4>2. k \in {0, 1} /\ i \in Nat /\ j \in Nat
                BY <3>1 DEF Shorter
            <4>3. i + k < j + k
                BY <1>5, <4>2
            <4>4. QED
                BY <1>2, <1>5, <2>2, <4>1, <4>3
        <3>2. ASSUME NEW m \in Order, Longer(toRouter', toRouter, m),
                     m.type \in Kinds \ {"call"} =>
                       m.id \in Requests /\ Request(m.id) /\ Asks(m.id) /\ Kind[m.id] = m.type
              PROVE  ~Unsub(toRouter'[j], t)
            <4>1. PICK n \in Nat : n = Len(toRouter) /\ i \in 1..(n + 1) /\ j \in 1..(n + 1)
                BY <3>2 DEF Longer
            <4>2. i \in 1..n
                BY <1>5, <4>1
            <4>3. toRouter'[i] = toRouter[i] /\ i \in 1..Len(toRouter)
                BY <3>2, <4>1, <4>2, Older
            <4>4. CASE j \in 1..Len(toRouter) /\ toRouter'[j] = toRouter[j]
                BY <1>2, <1>5, <2>2, <4>3, <4>4
            <4>5. CASE toRouter'[j] = m
                <5>1. m.type = "unsubscribe" => m.id \in Of("unsubscribe") /\ Asks(m.id)
                    BY <3>2 DEF Kinds, Of
                <5>2. QED
                    BY <1>4, <2>2, <4>5, <5>1 DEF Unsub
            <4>6. QED
                BY <3>2, <4>4, <4>5, Grown
        <3>3. QED
            BY <3>1, <3>2, ToRouterStep
    <2>3. QED
        BY <1>0, <1>5, <2>1, <2>2, WaitFrom
<1>6. ASSUME ~LeaveStarted', h \in subs' \/ (pc'[h] = "wait" /\ Acked(h)')
      PROVE  t \in rSubs' /\ NoUnsub(t)'
    <2>0. ~LeaveStarted
        BY <1>6, LeaveStays
    <2>1. CASE h \in subs \/ (pc[h] = "wait" /\ Acked(h))
        BY <1>1, <1>2, <1>6, <2>0, <2>1, SubscribedKept
    <2>2. CASE h \notin subs /\ ~(pc[h] = "wait" /\ Acked(h))
        <3>1. h \notin subs'
            <4>1. ~TakesHandler(h)
                BY <2>2 DEF TakesHandler, Takes, Acked
            <4>2. QED
                BY <2>2, <4>1, SessionSubs DEF TakesHandler, DropsTopic, DropsHandler
        <3>2. pc'[h] = "wait" /\ Acked(h)'
            BY <1>6, <3>1
        <3>3. pc[h] = "wait" /\ Router /\ Grants(h, "ACK")
            <4>1. CASE Acked(h)
                <5>1. pc[h] # "send"
                    BY <1>0, <4>1, AckedStarted
                <5>2. QED
                    BY <1>0, <2>2, <3>2, <4>1, <5>1, WaitFrom DEF Asks
            <4>2. CASE Router /\ Grants(h, "ACK")
                <5>1. pc' = pc
                    BY <4>2, RouterFrame DEF SessionUnchanged, reqVars
                <5>2. QED
                    BY <3>2, <4>2, <5>1
            <4>3. QED
                BY <1>0, <3>2, <4>1, <4>2, AckedStep
        <3>4. t \in rSubs'
            BY <1>0, <1>1, <3>3, GrantsSubs
        <3>5. /\ toRouter # <<>> /\ toRouter' = Tail(toRouter)
              /\ Head(toRouter).type = "subscribe" /\ Head(toRouter).id = h
            BY <1>0, <3>3 DEF Grants, Handling, RouterHandles
        <3>6. Shorter(toRouter', toRouter, 1) /\ Head(toRouter) = toRouter[1] /\ 1 \in 1..Len(toRouter)
            BY <3>5, HeadOfOrders
        <3>7. ASSUME NEW i \in 1..Len(toRouter')
              PROVE  ~Unsub(toRouter'[i], t)
            <4>1. i + 1 \in 1..Len(toRouter) /\ toRouter'[i] = toRouter[i + 1]
                BY <3>6, Shifted
            <4>2. i \in Nat /\ i > 0
                BY <3>6 DEF Shorter
            <4>3. 1 < i + 1
                BY <4>2
            <4>4. QED
                BY <1>2, <3>3, <3>5, <3>6, <4>1, <4>3
        <3>8. QED
            BY <3>4, <3>7 DEF NoUnsub, Unsub, Topic
    <2>3. QED
        BY <2>1, <2>2
<1>7. QED
    BY <1>1, <1>3, <1>5, <1>6 DEF SubInv, Unsub, Topic

LEMMA SInvKept ==
  ASSUME Shape, TInv, SInv, Next
  PROVE  SInv'
<1>1. load' = load /\ Of("subscribe")' = Of("subscribe") /\ Of("unsubscribe")' = Of("unsubscribe")
    BY DEF Of, Requests, Next
<1>2. ASSUME load.serial
      PROVE  /\ AloneInv' /\ EventInv' /\ HandlerKept'
             /\ \A u \in Of("unsubscribe") : UnsubInv(u)'
             /\ \A h \in Of("subscribe") : SubInv(h)'
    <2>1. /\ AloneInv /\ EventInv /\ HandlerKept
          /\ \A u \in Of("unsubscribe") : UnsubInv(u)
          /\ \A h \in Of("subscribe") : SubInv(h)
        BY <1>2 DEF SInv
    <2>2. QED
        BY <1>2, <2>1, AloneKept, EventKept, HandlerKeptKept, UnsubInvKept, SubInvKept
<1>3. QED
    BY <1>1, <1>2 DEF SInv

-----------------------------------------------------------------------------
(* Invocations: queues, open invocations and handlers                      *)

LEMMA QueueShrinks ==
  ASSUME NEW q, NEW p, NEW k, Shorter(q, p, k), NEW R, NEW S, R \subseteq S, NEW H, ChunkIn(p, S, H)
  PROVE  QueueOK(q, R) /\ OrderOK(q) /\ \A h \in H, i \in 1..Len(q) : NextOK(h[1], h[2], h[3], q[i])
<1>1. QueueOK(q, R)
    <2>1. SUFFICES ASSUME NEW i \in 1..Len(q), q[i].type = "INVOCATION"
                   PROVE  /\ SentOK(R, q[i].id, q[i].chunk, q[i].more)
                          /\ q[i].receive = (q[i].asked /\ q[i].chunk = 0)
        BY DEF QueueOK
    <2>2. i + k \in 1..Len(p) /\ q[i] = p[i + k]
        BY Shifted
    <2>3. QueueOK(p, S)
        BY DEF ChunkIn
    <2>4. /\ SentOK(S, q[i].id, q[i].chunk, q[i].more)
          /\ q[i].receive = (q[i].asked /\ q[i].chunk = 0)
        BY <2>1, <2>2, <2>3, Zenon DEF QueueOK
    <2>5. QED
        BY <2>4, Zenon DEF SentOK
<1>2. OrderOK(q)
    <2>1. SUFFICES ASSUME NEW i \in 1..Len(q), NEW j \in 1..Len(q), i < j, q[i].type = "INVOCATION"
                   PROVE  NextOK(q[i].id, q[i].chunk, q[i].more, q[j])
        BY DEF OrderOK
    <2>2. i + k \in 1..Len(p) /\ q[i] = p[i + k] /\ j + k \in 1..Len(p) /\ q[j] = p[j + k]
        BY Shifted
    <2>3. i + k < j + k
        BY <2>1 DEF Shorter
    <2>4. QED
        BY <2>1, <2>2, <2>3 DEF ChunkIn, OrderOK
<1>3. ASSUME NEW h \in H, NEW i \in 1..Len(q)
      PROVE  NextOK(h[1], h[2], h[3], q[i])
    <2>1. i + k \in 1..Len(p) /\ q[i] = p[i + k]
        BY Shifted
    <2>2. QED
        BY <2>1 DEF ChunkIn, HandlersOK
<1>4. QED
    BY <1>1, <1>2, <1>3

LEMMA ChunkShrinks ==
  ASSUME NEW q, NEW p, NEW k, Shorter(q, p, k), NEW R, NEW S, R \subseteq S, NEW G, NEW H, G \subseteq H,
         ChunkIn(p, S, H)
  PROVE  ChunkIn(q, R, G)
<1>1. QueueOK(q, R) /\ OrderOK(q) /\ \A h \in H, i \in 1..Len(q) : NextOK(h[1], h[2], h[3], q[i])
    BY QueueShrinks
<1>2. OneEach(R)
    BY DEF ChunkIn, OneEach
<1>3. HandlersOK(G, R, q)
    <2>1. \A h \in G : SentOK(R, h[1], h[2], h[3])
        BY DEF ChunkIn, HandlersOK, SentOK
    <2>2. QED
        BY <1>1, <2>1 DEF HandlersOK
<1>4. PairsOK(G)
    BY DEF ChunkIn, PairsOK
<1>5. QED
    BY <1>1, <1>2, <1>3, <1>4 DEF ChunkIn

\* The router adds something else than an INVOCATION.
LEMMA ChunkPlain ==
  ASSUME NEW q, NEW p, NEW m, Longer(q, p, m), m.type # "INVOCATION", NEW R, NEW S, R \subseteq S, NEW H,
         ChunkIn(p, S, H)
  PROVE  ChunkIn(q, R, H)
<1>1. ASSUME NEW i \in 1..Len(q), q[i].type = "INVOCATION"
      PROVE  i \in 1..Len(p) /\ q[i] = p[i]
    BY <1>1, Grown
<1>2. OneEach(R) /\ PairsOK(H)
    BY DEF ChunkIn, OneEach
<1>3. QueueOK(q, R)
    <2>1. SUFFICES ASSUME NEW i \in 1..Len(q), q[i].type = "INVOCATION"
                   PROVE  /\ SentOK(R, q[i].id, q[i].chunk, q[i].more)
                          /\ q[i].receive = (q[i].asked /\ q[i].chunk = 0)
        BY DEF QueueOK
    <2>2. i \in 1..Len(p) /\ q[i] = p[i]
        BY <1>1, <2>1
    <2>3. QueueOK(p, S)
        BY DEF ChunkIn
    <2>4. /\ SentOK(S, q[i].id, q[i].chunk, q[i].more)
          /\ q[i].receive = (q[i].asked /\ q[i].chunk = 0)
        BY <2>1, <2>2, <2>3, Zenon DEF QueueOK
    <2>5. QED
        BY <2>4, Zenon DEF SentOK
<1>4. OrderOK(q)
    <2>1. SUFFICES ASSUME NEW i \in 1..Len(q), NEW j \in 1..Len(q), i < j, q[i].type = "INVOCATION",
                          q[j].type = "INVOCATION"
                   PROVE  NextOK(q[i].id, q[i].chunk, q[i].more, q[j])
        BY DEF OrderOK, NextOK
    <2>2. i \in 1..Len(p) /\ q[i] = p[i] /\ j \in 1..Len(p) /\ q[j] = p[j]
        BY <1>1, <2>1
    <2>3. QED
        BY <2>1, <2>2 DEF ChunkIn, OrderOK
<1>5. HandlersOK(H, R, q)
    <2>1. \A h \in H : SentOK(R, h[1], h[2], h[3])
        BY DEF ChunkIn, HandlersOK, SentOK
    <2>2. ASSUME NEW h \in H, NEW i \in 1..Len(q)
          PROVE  NextOK(h[1], h[2], h[3], q[i])
        <3>1. CASE q[i].type = "INVOCATION"
            BY <1>1, <3>1 DEF ChunkIn, HandlersOK
        <3>2. CASE q[i].type # "INVOCATION"
            BY <3>2 DEF NextOK
        <3>3. QED
            BY <3>1, <3>2
    <2>3. QED
        BY <2>1, <2>2 DEF HandlersOK
<1>6. QED
    BY <1>2, <1>3, <1>4, <1>5 DEF ChunkIn

\* Every chunk of invocation i sent so far is an earlier one than n, and said that more comes.
Behind(q, H, i, n) ==
  /\ \A a \in 1..Len(q) : q[a].type = "INVOCATION" /\ q[a].id = i => q[a].chunk < n /\ q[a].more
  /\ \A h \in H : h[1] = i => h[2] < n /\ h[3]

\* The router adds an INVOCATION: chunk n of invocation i.
LEMMA ChunkInvoke ==
  ASSUME NEW q, NEW p, NEW m, Longer(q, p, m), NEW i, NEW n \in Nat, NEW R, NEW S, NEW H,
         m.type = "INVOCATION", m.id = i, m.chunk = n, m.receive = (m.asked /\ m.chunk = 0),
         \A s \in R : s.id # i => s \in S,
         \A s \in R : s.id = i => s.sent = n /\ m.more,
         \A s, t \in R : s.id = i /\ t.id = i => s = t,
         \A a \in 1..Len(p) : p[a].type = "INVOCATION" => p[a].chunk \in Nat,
         \A h \in H : h[2] \in Nat,
         Behind(p, H, i, n), ChunkIn(p, S, H)
  PROVE  ChunkIn(q, R, H)
<1>1. OneEach(R)
    BY Zenon DEF ChunkIn, OneEach
<1>2. ASSUME NEW a, NEW c \in Nat, NEW more, SentOK(S, a, c, more), a = i => c < n /\ more
      PROVE  SentOK(R, a, c, more) /\ NextOK(a, c, more, m)
    <2>1. a = i => c <= n
        BY <1>2
    <2>2. ASSUME NEW s \in R, s.id = a
          PROVE  c <= s.sent /\ more
        BY <1>2, <2>1, <2>2, Zenon DEF SentOK
    <2>3. QED
        BY <1>2, <2>2, Zenon DEF SentOK, NextOK
<1>3. QueueOK(q, R)
    <2>1. SUFFICES ASSUME NEW a \in 1..Len(q), q[a].type = "INVOCATION"
                   PROVE  /\ SentOK(R, q[a].id, q[a].chunk, q[a].more)
                          /\ q[a].receive = (q[a].asked /\ q[a].chunk = 0)
        BY DEF QueueOK
    <2>2. CASE a \in 1..Len(p) /\ q[a] = p[a]
        <3>1. QueueOK(p, S)
            BY DEF ChunkIn
        <3>2. /\ SentOK(S, q[a].id, q[a].chunk, q[a].more)
              /\ q[a].receive = (q[a].asked /\ q[a].chunk = 0)
            BY <2>1, <2>2, <3>1, Zenon DEF QueueOK
        <3>3. q[a].chunk \in Nat /\ (q[a].id = i => q[a].chunk < n /\ q[a].more)
            BY <2>1, <2>2, Zenon DEF Behind
        <3>4. QED
            BY <1>2, <3>2, <3>3, Zenon
    <2>3. CASE q[a] = m
        <3>1. n <= n
            OBVIOUS
        <3>2. QED
            BY <2>3, <3>1, Zenon DEF SentOK
    <2>4. QED
        BY <2>2, <2>3, Grown
<1>4. OrderOK(q)
    <2>1. SUFFICES ASSUME NEW a \in 1..Len(q), NEW b \in 1..Len(q), a < b, q[a].type = "INVOCATION"
                   PROVE  NextOK(q[a].id, q[a].chunk, q[a].more, q[b])
        BY DEF OrderOK
    <2>2. a \in 1..Len(p) /\ q[a] = p[a]
        <3>1. PICK d \in Nat : d = Len(p) /\ Len(q) = d + 1
            BY DEF Longer
        <3>2. a \in 1..d
            BY <2>1, <3>1
        <3>3. QED
            BY <3>1, <3>2 DEF Longer
    <2>3. CASE b \in 1..Len(p) /\ q[b] = p[b]
        BY <2>1, <2>2, <2>3 DEF ChunkIn, OrderOK
    <2>4. CASE q[b] = m
        <3>1. QueueOK(p, S)
            BY DEF ChunkIn
        <3>2. SentOK(S, q[a].id, q[a].chunk, q[a].more)
            BY <2>1, <2>2, <3>1, Zenon DEF QueueOK
        <3>3. q[a].chunk \in Nat /\ (q[a].id = i => q[a].chunk < n /\ q[a].more)
            BY <2>1, <2>2, Zenon DEF Behind
        <3>4. QED
            BY <1>2, <2>4, <3>2, <3>3, Zenon
    <2>5. QED
        BY <2>3, <2>4, Grown
<1>5. HandlersOK(H, R, q)
    <2>1. SUFFICES ASSUME NEW h \in H
                   PROVE  SentOK(R, h[1], h[2], h[3]) /\ \A a \in 1..Len(q) : NextOK(h[1], h[2], h[3], q[a])
        BY DEF HandlersOK
    <2>2. SentOK(S, h[1], h[2], h[3]) /\ \A a \in 1..Len(p) : NextOK(h[1], h[2], h[3], p[a])
        BY DEF ChunkIn, HandlersOK
    <2>3. h[2] \in Nat /\ (h[1] = i => h[2] < n /\ h[3])
        BY Zenon DEF Behind
    <2>4. SentOK(R, h[1], h[2], h[3]) /\ NextOK(h[1], h[2], h[3], m)
        BY <1>2, <2>2, <2>3, Zenon
    <2>5. QED
        BY <2>2, <2>4, Grown
<1>6. QED
    BY <1>1, <1>3, <1>4, <1>5 DEF ChunkIn

\* The reader starts the handler n of the first message.
LEMMA ChunkRead ==
  ASSUME NEW q, NEW p, Shorter(q, p, 1), NEW n, NEW S, NEW G, NEW H, 1 \in 1..Len(p),
         p[1].type = "INVOCATION", n[1] = p[1].id, n[2] = p[1].chunk, n[3] = p[1].more,
         G \subseteq H \cup {n}, ChunkIn(p, S, H)
  PROVE  ChunkIn(q, S, G)
<1>1. QueueOK(q, S) /\ OrderOK(q) /\ \A h \in H, i \in 1..Len(q) : NextOK(h[1], h[2], h[3], q[i])
    BY QueueShrinks
<1>2. QueueOK(p, S) /\ HandlersOK(H, S, p) /\ PairsOK(H) /\ OneEach(S) /\ OrderOK(p)
    BY DEF ChunkIn
<1>3. SentOK(S, n[1], n[2], n[3])
    BY <1>2, Zenon DEF QueueOK
<1>4. ASSUME NEW i \in 1..Len(q)
      PROVE  NextOK(n[1], n[2], n[3], q[i])
    <2>1. i + 1 \in 1..Len(p) /\ q[i] = p[i + 1]
        BY Shifted
    <2>2. 1 < i + 1
        BY DEF Shorter
    <2>3. QED
        BY <1>2, <2>1, <2>2 DEF OrderOK
<1>5. HandlersOK(G, S, q)
    BY <1>1, <1>2, <1>3, <1>4, Zenon DEF HandlersOK
<1>6. ASSUME NEW h \in H, h[1] = n[1]
      PROVE  h[2] < n[2] /\ h[3]
    BY <1>2, <1>6, Zenon DEF HandlersOK, NextOK
<1>7. PairsOK(G)
    BY <1>2, <1>6, Zenon DEF PairsOK
<1>8. QED
    BY <1>1, <1>2, <1>5, <1>7 DEF ChunkIn

LEMMA StopShrinks ==
  ASSUME NEW q, NEW p, NEW k, Shorter(q, p, k), NEW R, NEW S, R \subseteq S, NEW I, NEW J, I \subseteq J,
         StopIn(p, S, J)
  PROVE  StopIn(q, R, I)
<1>1. ASSUME NEW i \in 1..Len(q), q[i].type = "INTERRUPT"
      PROVE  q[i].id \notin I /\ \A m \in R : m.id # q[i].id
    <2>1. i + k \in 1..Len(p) /\ q[i] = p[i + k]
        BY Shifted
    <2>2. QED
        BY <1>1, <2>1 DEF StopIn
<1>2. ASSUME NEW i \in 1..Len(q), NEW j \in 1..Len(q), i < j, q[i].type = "INTERRUPT"
      PROVE  ~(q[j].type = "INVOCATION" /\ q[j].id = q[i].id)
    <2>1. i + k \in 1..Len(p) /\ q[i] = p[i + k] /\ j + k \in 1..Len(p) /\ q[j] = p[j + k]
        BY Shifted
    <2>2. i + k < j + k
        BY <1>2 DEF Shorter
    <2>3. QED
        BY <1>2, <2>1, <2>2 DEF StopIn
<1>3. QED
    BY <1>1, <1>2 DEF StopIn

\* The router adds a message m: nothing more of what was interrupted.
LEMMA StopGrows ==
  ASSUME NEW q, NEW p, NEW m, Longer(q, p, m), NEW R, NEW S, NEW I, NEW J, StopIn(p, S, J),
         \A i \in 1..Len(p) : p[i].type = "INTERRUPT" =>
           /\ p[i].id \notin I \ J
           /\ \A s \in R : s \in S \/ s.id # p[i].id
           /\ ~(m.type = "INVOCATION" /\ m.id = p[i].id),
         m.type = "INTERRUPT" => m.id \notin I /\ \A s \in R : s.id # m.id
  PROVE  StopIn(q, R, I)
<1>1. ASSUME NEW i \in 1..Len(q), q[i].type = "INTERRUPT"
      PROVE  q[i].id \notin I /\ \A s \in R : s.id # q[i].id
    <2>1. CASE i \in 1..Len(p) /\ q[i] = p[i]
        BY <1>1, <2>1, Zenon DEF StopIn
    <2>2. CASE q[i] = m
        BY <1>1, <2>2
    <2>3. QED
        BY <2>1, <2>2, Grown
<1>2. ASSUME NEW i \in 1..Len(q), NEW j \in 1..Len(q), i < j, q[i].type = "INTERRUPT"
      PROVE  ~(q[j].type = "INVOCATION" /\ q[j].id = q[i].id)
    <2>1. i \in 1..Len(p) /\ q[i] = p[i]
        <3>1. PICK d \in Nat : d = Len(p) /\ Len(q) = d + 1
            BY DEF Longer
        <3>2. i \in 1..d
            BY <1>2, <3>1
        <3>3. QED
            BY <3>1, <3>2 DEF Longer
    <2>2. CASE j \in 1..Len(p) /\ q[j] = p[j]
        BY <1>2, <2>1, <2>2 DEF StopIn
    <2>3. CASE q[j] = m
        BY <1>2, <2>1, <2>3
    <2>4. QED
        BY <2>2, <2>3, Grown
<1>3. QED
    BY <1>1, <1>2 DEF StopIn

\* The send-progress functions F become E, and k messages, none that opens an invocation
\* whose function is not in E, leave the queue.
LEMMA ProgressShrinks ==
  ASSUME NEW q, NEW p, NEW k, Shorter(q, p, k), NEW E, NEW F, ProgressQueue(p, F),
         k = 1 => \A x : Opening(p[1], x) => x \in E,
         \A j \in 1..Len(q) : q[j].type = "INVOCATION" /\ q[j].id \in F => q[j].id \in E
  PROVE  ProgressQueue(q, E)
<1>1. SUFFICES ASSUME NEW j \in 1..Len(q), q[j].type = "INVOCATION", q[j].asked, q[j].chunk > 0
               PROVE  q[j].id \in E \/ \E i \in 1..Len(q) : i < j /\ Opening(q[i], q[j].id)
    BY Zenon DEF ProgressQueue
<1>2. j + k \in 1..Len(p) /\ q[j] = p[j + k]
    BY Shifted
<1>3. q[j].id \in F \/ \E i \in 1..Len(p) : i < j + k /\ Opening(p[i], q[j].id)
    BY <1>1, <1>2, Zenon DEF ProgressQueue
<1>4. ASSUME NEW i \in 1..Len(p), i < j + k, Opening(p[i], q[j].id)
      PROVE  q[j].id \in E \/ \E a \in 1..Len(q) : a < j /\ Opening(q[a], q[j].id)
    <2>1. PICK d \in Nat, e \in Nat : d = Len(p) /\ e = Len(q) /\ e + k <= d
        BY DEF Shorter
    <2>2. CASE k = 0
        <3>1. i \in 1..e /\ i < j /\ i + k = i
            BY <1>4, <2>1, <2>2
        <3>2. q[i] = p[i]
            BY <2>1, <3>1 DEF Shorter
        <3>3. QED
            BY <1>4, <2>1, <3>1, <3>2
    <2>3. CASE k = 1 /\ i = 1
        BY <1>4, <2>3, Zenon
    <2>4. CASE k = 1 /\ i # 1
        <3>1. PICK a \in Nat : i = a + 1
            BY <2>1, <2>4
        <3>2. a \in 1..e /\ a < j
            BY <1>4, <2>1, <2>4, <3>1
        <3>3. q[a] = p[i]
            BY <2>1, <2>4, <3>1, <3>2 DEF Shorter
        <3>4. QED
            BY <1>4, <2>1, <3>2, <3>3
    <2>5. QED
        BY <2>2, <2>3, <2>4 DEF Shorter
<1>5. QED
    BY <1>1, <1>3, <1>4, Zenon

LEMMA ProgressTail ==
  ASSUME NEW q, NEW p, Shorter(q, p, 1), Len(q) + 1 = Len(p), NEW E, NEW F, NEW S, ProgressMore(p, S, F),
         \A x : Opening(p[1], x) => x \in E,
         \A m \in S : m.id \in F => m.id \in E
  PROVE  ProgressMore(q, S, E)
<1>1. SUFFICES ASSUME NEW m \in S, m.asked
               PROVE  m.id \in E \/ \E i \in 1..Len(q) : Opening(q[i], m.id)
    BY Zenon DEF ProgressMore
<1>2. m.id \in F \/ \E i \in 1..Len(p) : Opening(p[i], m.id)
    BY <1>1, Zenon DEF ProgressMore
<1>3. ASSUME NEW i \in 1..Len(p), Opening(p[i], m.id)
      PROVE  m.id \in E \/ \E a \in 1..Len(q) : Opening(q[a], m.id)
    <2>1. PICK d \in Nat, e \in Nat : d = Len(p) /\ e = Len(q) /\ e + 1 = d
        BY DEF Shorter
    <2>2. CASE i = 1
        BY <1>3, <2>2, Zenon
    <2>3. CASE i # 1
        <3>1. PICK a \in Nat : i = a + 1
            BY <2>1, <2>3
        <3>2. a \in 1..e
            BY <2>1, <2>3, <3>1
        <3>3. q[a] = p[i]
            BY <2>1, <3>1, <3>2 DEF Shorter
        <3>4. QED
            BY <1>3, <2>1, <3>2, <3>3
    <2>4. QED
        BY <2>2, <2>3
<1>4. QED
    BY <1>1, <1>2, <1>3, Zenon

LEMMA ProgressGrows ==
  ASSUME NEW q, NEW p, NEW m, Longer(q, p, m), NEW F, NEW R, NEW S, ProgressQueue(p, F), ProgressMore(p, S, F),
         m.type = "INVOCATION" /\ m.asked /\ m.chunk > 0 =>
           m.id \in F \/ \E i \in 1..Len(p) : Opening(p[i], m.id),
         \A s \in R : s.asked =>
           s \in S \/ s.id \in F \/ Opening(m, s.id) \/ \E i \in 1..Len(p) : Opening(p[i], s.id)
  PROVE  ProgressQueue(q, F) /\ ProgressMore(q, R, F)
<1>1. /\ \A i \in 1..Len(p) : i \in 1..Len(q) /\ q[i] = p[i]
      /\ Len(p) + 1 \in 1..Len(q) /\ q[Len(p) + 1] = m
    BY Older
<1>2. ProgressMore(q, R, F)
    BY <1>1, Zenon DEF ProgressMore
<1>3. SUFFICES ASSUME NEW j \in 1..Len(q), q[j].type = "INVOCATION", q[j].asked, q[j].chunk > 0
               PROVE  q[j].id \in F \/ \E i \in 1..Len(q) : i < j /\ Opening(q[i], q[j].id)
    BY <1>2, Zenon DEF ProgressQueue
<1>4. CASE j \in 1..Len(p) /\ q[j] = p[j]
    BY <1>1, <1>3, <1>4, Zenon DEF ProgressQueue
<1>5. CASE j = Len(p) + 1 /\ q[j] = m
    <2>1. \A i \in 1..Len(p) : i < j
        <3>1. PICK d \in Nat : d = Len(p)
            BY DEF Longer
        <3>2. QED
            BY <1>5, <3>1
    <2>2. QED
        BY <1>1, <1>3, <1>5, <2>1, Zenon
<1>6. QED
    BY <1>4, <1>5, Grown

-----------------------------------------------------------------------------
(* Invocations: what each step does                                        *)

LEMMA InvocationTypes ==
  ASSUME Shape
  PROVE  /\ \A h \in running \cup cancels : h[1] \in 1..pushed /\ h[2] \in Nat /\ h[3] \in BOOLEAN
         /\ \A i \in 1..Len(toSession) : toSession[i].type = "INVOCATION" =>
              toSession[i].id \in 1..pushed /\ toSession[i].chunk \in Nat
         /\ \A h \in interrupted : h[1] \in 1..pushed
         /\ pushed \in Nat /\ load.chunks \in Nat
<1>1. pushed \in Nat /\ load.chunks \in Nat
    BY LoadFacts DEF Shape, RouterState
<1>2. ASSUME NEW h \in running \cup cancels
      PROVE  h[1] \in 1..pushed /\ h[2] \in Nat /\ h[3] \in BOOLEAN
    <2>1. h \in (1..load.pushes) \X (0..load.chunks) \X BOOLEAN /\ h[1] \in 1..pushed
        BY DEF Shape, TypeOK, RouterState
    <2>2. h[2] \in 0..load.chunks /\ h[3] \in BOOLEAN
        BY <2>1
    <2>3. QED
        BY <1>1, <2>1, <2>2
<1>3. ASSUME NEW i \in 1..Len(toSession), toSession[i].type = "INVOCATION"
      PROVE  toSession[i].id \in 1..pushed /\ toSession[i].chunk \in Nat
    <2>1. SessionOK(toSession[i])
        BY DEF Shape, Messages
    <2>2. toSession[i].id \in 1..pushed /\ toSession[i].chunk \in 0..load.chunks
        BY <1>3, <2>1 DEF SessionOK
    <2>3. QED
        BY <1>1, <2>2
<1>4. \A h \in interrupted : h[1] \in 1..pushed
    BY DEF Shape, RouterState
<1>5. QED
    BY <1>1, <1>2, <1>3, <1>4

LEMMA TailLength ==
  ASSUME NEW S, NEW q \in Seq(S), q # <<>>
  PROVE  Len(Tail(q)) + 1 = Len(q)
<1>1. PICK n \in Nat \ {0} : n = Len(q)
    OBVIOUS
<1>2. Len(Tail(q)) = n - 1
    BY <1>1
<1>3. QED
    BY <1>1, <1>2

\* What the next message can be when the step is not about an invocation.
QuietQueue ==
  \/ UNCHANGED toSession
  \/ toSession # <<>> /\ Head(toSession).type # "INVOCATION" /\ toSession' = Tail(toSession)
  \/ transport' # "open" /\ Shorter(toSession', toSession, 0)
  \/ \E m \in Message :
       /\ toSession' = Append(toSession, m) /\ m.type # "INVOCATION"
       /\ m.type = "INTERRUPT" => m.id \notin rInvs' /\ \A s \in rMore' : s.id # m.id

LEMMA ProgressQuiet ==
  ASSUME Messages, ProgressInv, UNCHANGED progressFunc, rMore' \subseteq rMore,
         reader' # "panic" => reader # "panic", transport' = "open" => transport = "open", QuietQueue
  PROVE  ProgressInv'
<1>1. SUFFICES ASSUME reader' # "panic"
               PROVE  /\ ProgressQueue(toSession', progressFunc)
                      /\ transport' = "open" => ProgressMore(toSession', rMore', progressFunc)
    BY DEF ProgressInv
<1>2. /\ ProgressQueue(toSession, progressFunc)
      /\ transport' = "open" => ProgressMore(toSession, rMore, progressFunc)
    BY <1>1 DEF ProgressInv
<1>3. SUFFICES /\ ProgressQueue(toSession', progressFunc)
               /\ transport' = "open" => ProgressMore(toSession', rMore, progressFunc)
    BY DEF ProgressMore
<1>4. CASE UNCHANGED toSession
    BY <1>2, <1>4
<1>5. CASE toSession # <<>> /\ Head(toSession).type # "INVOCATION" /\ toSession' = Tail(toSession)
    <2>1. Shorter(toSession', toSession, 1) /\ toSession[1].type # "INVOCATION" /\ Len(toSession') + 1 = Len(toSession)
        BY <1>5, HeadOfMessages, TailLength DEF Messages
    <2>2. \A x : ~Opening(toSession[1], x)
        BY <2>1 DEF Opening
    <2>3. ProgressQueue(toSession', progressFunc)
        BY <1>2, <2>1, <2>2, ProgressShrinks
    <2>4. transport' = "open" => ProgressMore(toSession', rMore, progressFunc)
        BY <1>2, <2>1, <2>2, ProgressTail
    <2>5. QED
        BY <2>3, <2>4
<1>6. CASE transport' # "open" /\ Shorter(toSession', toSession, 0)
    BY <1>2, <1>6, ProgressShrinks
<1>7. CASE \E m \in Message :
             /\ toSession' = Append(toSession, m) /\ m.type # "INVOCATION"
             /\ m.type = "INTERRUPT" => m.id \notin rInvs' /\ \A s \in rMore' : s.id # m.id
    <2>1. PICK m \in Message :
            /\ toSession' = Append(toSession, m) /\ m.type # "INVOCATION"
            /\ m.type = "INTERRUPT" => m.id \notin rInvs' /\ \A s \in rMore' : s.id # m.id
        BY <1>7
    <2>2. Longer(toSession', toSession, m)
        BY <2>1, AppendQueue DEF Messages
    <2>3. ProgressQueue(toSession', progressFunc) /\ ProgressMore(toSession', {}, progressFunc)
        <3>1. ProgressMore(toSession, {}, progressFunc)
            BY DEF ProgressMore
        <3>2. QED
            BY <1>2, <2>1, <2>2, <3>1, ProgressGrows
    <2>4. ASSUME transport' = "open"
          PROVE  ProgressMore(toSession', rMore, progressFunc)
        BY <1>2, <2>1, <2>2, <2>4, ProgressGrows
    <2>5. QED
        BY <2>3, <2>4
<1>8. QED
    BY <1>4, <1>5, <1>6, <1>7 DEF QuietQueue

LEMMA IInvsQuiet ==
  ASSUME Messages, IInvs, UNCHANGED invVars, rMore' \subseteq rMore, rInvs' \subseteq rInvs,
         reader' # "panic" => reader # "panic", transport' = "open" => transport = "open", QuietQueue
  PROVE  IInvs'
<1>1. ProgressInv'
    BY ProgressQuiet DEF IInvs, invVars
<1>2. InterruptReaches'
    BY DEF IInvs, InterruptReaches, invVars
<1> SUFFICES ChunkInv' /\ StopInv'
    BY <1>1, <1>2 DEF IInvs
<1>3. ASSUME NEW k, Shorter(toSession', toSession, k)
      PROVE  ChunkInv' /\ StopInv'
    <2>1. ChunkIn(toSession', rMore', running' \cup cancels')
        BY <1>3, ChunkShrinks DEF IInvs, ChunkInv, invVars
    <2>2. StopIn(toSession', rMore', rInvs')
        BY <1>3, StopShrinks DEF IInvs, StopInv
    <2>3. QED
        BY <2>1, <2>2 DEF ChunkInv, StopInv
<1>4. CASE UNCHANGED toSession
    BY <1>3, <1>4, SameQueue DEF Messages
<1>5. CASE toSession # <<>> /\ Head(toSession).type # "INVOCATION" /\ toSession' = Tail(toSession)
    BY <1>3, <1>5, HeadOfMessages
<1>6. CASE \E m \in Message :
             /\ toSession' = Append(toSession, m) /\ m.type # "INVOCATION"
             /\ m.type = "INTERRUPT" => m.id \notin rInvs' /\ \A s \in rMore' : s.id # m.id
    <2>1. PICK m \in Message :
            /\ toSession' = Append(toSession, m) /\ m.type # "INVOCATION"
            /\ m.type = "INTERRUPT" => m.id \notin rInvs' /\ \A s \in rMore' : s.id # m.id
        BY <1>6
    <2>2. Longer(toSession', toSession, m)
        BY <2>1, AppendQueue DEF Messages
    <2>3. ChunkIn(toSession', rMore', running' \cup cancels')
        BY <2>1, <2>2, ChunkPlain DEF IInvs, ChunkInv, invVars
    <2>4. StopIn(toSession', rMore', rInvs')
        BY <2>1, <2>2, StopGrows DEF IInvs, StopInv
    <2>5. QED
        BY <2>3, <2>4 DEF ChunkInv, StopInv
<1>7. QED
    BY <1>3, <1>4, <1>5, <1>6 DEF QuietQueue

LEMMA ReadInvocationKept ==
  ASSUME Shape, IInvs, ReadInvocation, UNCHANGED load
  PROVE  IInvs'
<1> DEFINE m == Head(toSession)
<1>1. /\ toSession # <<>> /\ m.type = "INVOCATION" /\ toSession' = Tail(toSession) /\ m = toSession[1]
      /\ UNCHANGED <<interrupted, transport, rMore, rInvs>> /\ reader = "reading"
      /\ Shorter(toSession', toSession, 1) /\ 1 \in 1..Len(toSession) /\ Len(toSession') + 1 = Len(toSession)
    BY HeadOfMessages, TailLength DEF ReadInvocation, Receiving, Received, Shape, Messages, routerVars
<1>2. CASE m.reg \notin regs
    <2>1. reader' = "panic" /\ UNCHANGED <<progressFunc, cancels, running>>
        BY <1>2 DEF ReadInvocation
    <2>2. ChunkInv' /\ StopInv'
        BY <1>1, <2>1, ChunkShrinks, StopShrinks DEF IInvs, ChunkInv, StopInv
    <2>3. ProgressInv' /\ InterruptReaches'
        BY <1>1, <2>1 DEF IInvs, ProgressInv, InterruptReaches
    <2>4. QED
        BY <2>2, <2>3 DEF IInvs
<1>3. CASE m.reg \in regs
    <2>1. PICK n : n = HandlerOf(m)
        OBVIOUS
    <2>2. n[1] = m.id /\ n[2] = m.chunk /\ n[3] = m.more
        BY <2>1 DEF HandlerOf
    <2>3. /\ cancels' = (cancels \ OfInvocation(m.id)) \cup {n} /\ running' = running \cup {n}
          /\ UNCHANGED reader /\ StoreProgressFunc(m)
        BY <1>3, <2>1 DEF ReadInvocation
    <2>4. ChunkIn(toSession, rMore, running \cup cancels)
        BY DEF IInvs, ChunkInv
    <2>5. ChunkInv'
        <3>1. running' \cup cancels' \subseteq (running \cup cancels) \cup {n}
            BY <2>3
        <3>2. ChunkIn(toSession', rMore, running' \cup cancels')
            BY <1>1, <2>2, <2>4, <3>1, ChunkRead
        <3>3. QED
            BY <1>1, <3>2 DEF ChunkInv
    <2>6. StopInv'
        BY <1>1, StopShrinks DEF IInvs, StopInv
    <2>7. QueueOK(toSession, rMore) /\ OrderOK(toSession) /\ HandlersOK(running \cup cancels, rMore, toSession)
        BY <2>4 DEF ChunkIn
    <2>8. SentOK(rMore, m.id, m.chunk, m.more) /\ m.receive = (m.asked /\ m.chunk = 0)
        BY <1>1, <2>7, Zenon DEF QueueOK
    <2>9. ProgressInv'
        <3>1. ProgressQueue(toSession, progressFunc) /\ (transport = "open" => ProgressMore(toSession, rMore, progressFunc))
            BY <1>1 DEF IInvs, ProgressInv
        <3>2. \A x : Opening(toSession[1], x) => x \in progressFunc'
            BY <1>1, <2>3, <2>8 DEF Opening, StoreProgressFunc
        <3>3. \A x \in progressFunc : x \in progressFunc' \/ (x = m.id /\ ~m.more)
            BY <2>3 DEF StoreProgressFunc
        <3>4. ASSUME NEW j \in 1..Len(toSession'), toSession'[j].type = "INVOCATION", toSession'[j].id \in progressFunc
              PROVE  toSession'[j].id \in progressFunc'
            <4>1. j + 1 \in 1..Len(toSession) /\ toSession'[j] = toSession[j + 1]
                BY <1>1, Shifted
            <4>2. 1 < j + 1
                BY <1>1 DEF Shorter
            <4>3. NextOK(m.id, m.chunk, m.more, toSession'[j])
                BY <1>1, <2>7, <4>1, <4>2 DEF OrderOK
            <4>4. QED
                BY <3>3, <3>4, <4>3, Zenon DEF NextOK
        <3>5. \A s \in rMore : s.id \in progressFunc => s.id \in progressFunc'
            BY <2>8, <3>3, Zenon DEF SentOK
        <3>6. ProgressQueue(toSession', progressFunc')
            BY <1>1, <3>1, <3>2, <3>4, ProgressShrinks
        <3>7. transport = "open" => ProgressMore(toSession', rMore, progressFunc')
            BY <1>1, <3>1, <3>2, <3>5, ProgressTail
        <3>8. QED
            BY <1>1, <3>6, <3>7 DEF ProgressInv
    <2>10. InterruptReaches'
        <3>0. InterruptReaches
            BY DEF IInvs
        <3>1. ASSUME NEW h \in running' \ interrupted', ~h[3] \/ \E s \in rMore : s.id = h[1] /\ s.sent = h[2]
              PROVE  h \in cancels'
            <4>1. CASE h = n
                BY <2>3, <4>1
            <4>2. CASE h # n
                <5>1. h \in running \ interrupted
                    BY <1>1, <2>3, <4>2
                <5>2. h \in cancels
                    BY <3>0, <3>1, <5>1, Zenon DEF InterruptReaches
                <5>3. ASSUME h[1] = m.id
                      PROVE  FALSE
                    <6>1. NextOK(h[1], h[2], h[3], m)
                        BY <1>1, <2>7, <5>1 DEF HandlersOK
                    <6>2. h[2] < m.chunk /\ h[3]
                        BY <1>1, <5>3, <6>1, Zenon DEF NextOK
                    <6>3. PICK s \in rMore : s.id = h[1] /\ s.sent = h[2]
                        BY <3>1, <6>2, Zenon
                    <6>4. m.chunk <= s.sent
                        BY <2>8, <5>3, <6>3, Zenon DEF SentOK
                    <6>5. h[2] \in Nat /\ m.chunk \in Nat
                        BY <1>1, <5>1, InvocationTypes
                    <6>6. PICK a \in Nat, b \in Nat : a = h[2] /\ b = m.chunk
                        BY <6>5
                    <6>7. QED
                        BY <6>2, <6>3, <6>4, <6>6
                <5>4. QED
                    BY <2>3, <5>2, <5>3 DEF OfInvocation
            <4>3. QED
                BY <4>1, <4>2
        <3>2. \A h \in cancels' : h \in running' \/ h[3]
            BY <2>3, <3>0, Zenon DEF InterruptReaches
        <3>3. \A h \in interrupted' : h[1] \notin rInvs'
            BY <1>1, <3>0 DEF InterruptReaches
        <3>4. QED
            BY <1>1, <3>1, <3>2, <3>3, Zenon DEF InterruptReaches
    <2>11. QED
        BY <2>5, <2>6, <2>9, <2>10 DEF IInvs
<1>4. QED
    BY <1>2, <1>3

LEMMA ReadInterruptKept ==
  ASSUME Shape, IInvs, ReadInterrupt
  PROVE  IInvs'
<1>1. /\ toSession # <<>> /\ Head(toSession).type = "INTERRUPT" /\ toSession' = Tail(toSession)
      /\ UNCHANGED <<progressFunc, running, transport, rMore, rInvs, reader>>
      /\ interrupted' = interrupted \cup OfInvocation(Id) /\ cancels' = cancels \ OfInvocation(Id)
    BY DEF ReadInterrupt, Receiving, Received, routerVars, lifeVars
<1>2. /\ Shorter(toSession', toSession, 1) /\ 1 \in 1..Len(toSession) /\ Head(toSession) = toSession[1]
      /\ QuietQueue /\ Messages
    BY <1>1, HeadOfMessages DEF Shape, QuietQueue
<1>3. ProgressInv'
    BY <1>1, <1>2, ProgressQuiet DEF IInvs
<1>4. StopInv'
    BY <1>1, <1>2, StopShrinks DEF IInvs, StopInv
<1>5. ChunkInv'
    <2>1. running' \cup cancels' \subseteq running \cup cancels
        BY <1>1
    <2>2. QED
        BY <1>1, <1>2, <2>1, ChunkShrinks DEF IInvs, ChunkInv
<1>6. Id \notin rInvs
    BY <1>1, <1>2 DEF IInvs, StopInv, StopIn, Id
<1>7. InterruptReaches'
    <2>0. InterruptReaches
        BY DEF IInvs
    <2>1. ASSUME NEW h \in running \ interrupted', ~h[3] \/ \E s \in rMore : s.id = h[1] /\ s.sent = h[2]
          PROVE  h \in cancels'
        <3>1. h \in cancels
            BY <1>1, <2>0, <2>1, Zenon DEF InterruptReaches
        <3>2. QED
            BY <1>1, <3>1
    <2>2. \A h \in cancels' : h \in running \/ h[3]
        BY <1>1, <2>0, Zenon DEF InterruptReaches
    <2>3. \A h \in interrupted' : h[1] \notin rInvs
        BY <1>1, <1>6, <2>0 DEF InterruptReaches, OfInvocation
    <2>4. QED
        BY <1>1, <2>1, <2>2, <2>3, Zenon DEF InterruptReaches
<1>8. QED
    BY <1>3, <1>4, <1>5, <1>7 DEF IInvs

LEMMA HandlerReturnsKept ==
  ASSUME Shape, IInvs, NEW h \in running, HandlerReturns(h)
  PROVE  IInvs'
<1>1. /\ UNCHANGED <<progressFunc, interrupted, transport, toSession, rMore, rInvs, reader>>
      /\ running' = running \ {h}
      /\ cancels' = IF h[3] THEN cancels ELSE cancels \ OfInvocation(h[1])
    BY DEF HandlerReturns, routerVars, lifeVars
<1>2. Shorter(toSession', toSession, 0) /\ QuietQueue /\ Messages
    BY <1>1, SameQueue DEF Shape, QuietQueue, Messages
<1>3. ProgressInv'
    BY <1>1, <1>2, ProgressQuiet DEF IInvs
<1>4. StopInv'
    BY <1>1 DEF IInvs, StopInv
<1>5. ChunkIn(toSession, rMore, running \cup cancels)
    BY DEF IInvs, ChunkInv
<1>6. ChunkInv'
    <2>1. running' \cup cancels' \subseteq running \cup cancels
        BY <1>1
    <2>2. QED
        BY <1>1, <1>2, <1>5, <2>1, ChunkShrinks DEF ChunkInv
<1>7. InterruptReaches'
    <2>0. InterruptReaches
        BY DEF IInvs
    <2>1. ASSUME NEW k \in running' \ interrupted', ~k[3] \/ \E s \in rMore : s.id = k[1] /\ s.sent = k[2]
          PROVE  k \in cancels'
        <3>1. k \in cancels /\ k \in running /\ k # h
            BY <1>1, <2>0, <2>1, Zenon DEF InterruptReaches
        <3>2. ASSUME ~h[3], k[1] = h[1]
              PROVE  FALSE
            <4>1. PairsOK(running \cup cancels) /\ SentOK(rMore, h[1], h[2], h[3])
                BY <1>5 DEF ChunkIn, HandlersOK
            <4>2. k[3]
                BY <3>1, <3>2, <4>1, Zenon DEF PairsOK
            <4>3. PICK s \in rMore : s.id = k[1]
                BY <2>1, <4>2, Zenon
            <4>4. QED
                BY <3>2, <4>1, <4>3, Zenon DEF SentOK
        <3>3. QED
            BY <1>1, <3>1, <3>2, Zenon DEF OfInvocation
    <2>2. ASSUME NEW k \in cancels'
          PROVE  k \in running' \/ k[3]
        <3>1. k \in cancels /\ (h[3] \/ k[1] # h[1])
            BY <1>1, Zenon DEF OfInvocation
        <3>2. k \in running \/ k[3]
            BY <2>0, <3>1, Zenon DEF InterruptReaches
        <3>3. QED
            BY <1>1, <3>1, <3>2, Zenon
    <2>3. \A k \in interrupted : k[1] \notin rInvs
        BY <2>0 DEF InterruptReaches
    <2>4. QED
        BY <1>1, <2>1, <2>2, <2>3, Zenon DEF InterruptReaches
<1>8. QED
    BY <1>3, <1>4, <1>6, <1>7 DEF IInvs

\* The router sends chunk n of invocation i: the next one, or the first.
LEMMA InvokeKept ==
  ASSUME Shape, IInvs, SessionUnchanged, transport = "open",
         NEW i \in Nat, NEW g \in Of("register"), NEW n \in Nat, NEW asked \in BOOLEAN, Invoke(i, g, n, asked),
         Behind(toSession, running \cup cancels, i, n),
         \A a \in 1..Len(toSession) : toSession[a].type = "INTERRUPT" => toSession[a].id # i,
         rInvs' \subseteq rInvs \cup {i}, \A h \in interrupted : h[1] \notin rInvs',
         n > 0 => \E s \in rMore : s.id = i /\ s.asked = asked
  PROVE  IInvs'
<1>1. PICK more \in BOOLEAN :
        /\ toSession' = Append(toSession, InvocationMsg(i, g, n, more, asked))
        /\ InvocationMsg(i, g, n, more, asked) \in Invocation
        /\ rMore' = (rMore \ Closed(i)) \cup
             (IF more THEN {[id |-> i, reg |-> g, sent |-> n, asked |-> asked]} ELSE {})
    BY InvokeSends DEF Shape
<1>2. PICK m : m = InvocationMsg(i, g, n, more, asked)
    OBVIOUS
<1>3. /\ m.type = "INVOCATION" /\ m.id = i /\ m.chunk = n /\ m.more = more /\ m.asked = asked
      /\ m.receive = (asked /\ n = 0) /\ m \in Message
    BY <1>1, <1>2 DEF InvocationMsg, Message
<1>4. Longer(toSession', toSession, m)
    BY <1>1, <1>2, <1>3, AppendQueue DEF Shape, Messages
<1>5. UNCHANGED <<reader, progressFunc, cancels, running, interrupted, transport>>
    BY DEF SessionUnchanged, lifeVars, invVars
<1>6. PICK e : e = [id |-> i, reg |-> g, sent |-> n, asked |-> asked]
    OBVIOUS
<1>7. e.id = i /\ e.sent = n /\ e.asked = asked
    BY <1>6
<1>8. \A s \in rMore' : (s \in rMore /\ s.id # i) \/ (s = e /\ more)
    BY <1>1, <1>6, Zenon DEF Closed
<1>9. ChunkInv'
    <2>1. m.receive = (m.asked /\ m.chunk = 0)
        BY <1>3, Zenon
    <2>2. /\ \A s \in rMore' : s.id # i => s \in rMore
          /\ \A s \in rMore' : s.id = i => s.sent = n /\ m.more
          /\ \A s, t \in rMore' : s.id = i /\ t.id = i => s = t
        BY <1>3, <1>7, <1>8, Zenon
    <2>3. /\ \A a \in 1..Len(toSession) : toSession[a].type = "INVOCATION" => toSession[a].chunk \in Nat
          /\ \A h \in running \cup cancels : h[2] \in Nat
        BY InvocationTypes
    <2>4. ChunkIn(toSession', rMore', running \cup cancels)
        BY <1>3, <1>4, <2>1, <2>2, <2>3, ChunkInvoke DEF IInvs, ChunkInv
    <2>5. QED
        BY <1>5, <2>4 DEF ChunkInv
<1>10. StopInv'
    <2>1. ASSUME NEW a \in 1..Len(toSession), toSession[a].type = "INTERRUPT"
          PROVE  /\ toSession[a].id \notin rInvs' \ rInvs
                 /\ \A s \in rMore' : s \in rMore \/ s.id # toSession[a].id
                 /\ ~(m.type = "INVOCATION" /\ m.id = toSession[a].id)
        BY <1>3, <1>7, <1>8, <2>1
    <2>2. m.type # "INTERRUPT"
        BY <1>3
    <2>3. QED
        BY <1>4, <2>1, <2>2, StopGrows DEF IInvs, StopInv
<1>11. ProgressInv'
    <2>1. SUFFICES ASSUME reader # "panic"
                   PROVE  ProgressQueue(toSession', progressFunc) /\ ProgressMore(toSession', rMore', progressFunc)
        BY <1>5 DEF ProgressInv
    <2>2. ProgressQueue(toSession, progressFunc) /\ ProgressMore(toSession, rMore, progressFunc)
        BY <2>1 DEF IInvs, ProgressInv
    <2>3. ASSUME n > 0, asked
          PROVE  i \in progressFunc \/ \E a \in 1..Len(toSession) : Opening(toSession[a], i)
        BY <2>2, <2>3, Zenon DEF ProgressMore
    <2>4. n > 0 \/ n = 0
        OBVIOUS
    <2>5. ASSUME NEW s \in rMore', s.asked
          PROVE  s \in rMore \/ s.id \in progressFunc \/ Opening(m, s.id)
                 \/ \E a \in 1..Len(toSession) : Opening(toSession[a], s.id)
        <3>1. CASE s \in rMore
            BY <3>1
        <3>2. CASE s = e /\ more /\ n = 0
            BY <1>3, <1>7, <2>5, <3>2, Zenon DEF Opening
        <3>3. CASE s = e /\ more /\ n > 0
            BY <1>7, <2>3, <2>5, <3>3, Zenon
        <3>4. QED
            BY <1>8, <2>4, <3>1, <3>2, <3>3, Zenon
    <2>6. m.type = "INVOCATION" /\ m.asked /\ m.chunk > 0 =>
            m.id \in progressFunc \/ \E a \in 1..Len(toSession) : Opening(toSession[a], m.id)
        BY <1>3, <2>3, Zenon
    <2>7. QED
        BY <1>4, <2>2, <2>5, <2>6, ProgressGrows
<1>12. InterruptReaches'
    <2>0. InterruptReaches
        BY DEF IInvs
    <2>1. ASSUME NEW h \in running \ interrupted, ~h[3] \/ \E s \in rMore' : s.id = h[1] /\ s.sent = h[2]
          PROVE  h \in cancels
        <3>1. CASE ~h[3] \/ \E s \in rMore : s.id = h[1] /\ s.sent = h[2]
            BY <2>0, <3>1, Zenon DEF InterruptReaches
        <3>2. CASE h[1] = i /\ h[2] = n
            <4>1. h[2] < n
                BY <3>2, Zenon DEF Behind
            <4>2. QED
                BY <3>2, <4>1
        <3>3. QED
            BY <1>7, <1>8, <2>1, <3>1, <3>2, Zenon
    <2>2. (\A h \in cancels : h \in running \/ h[3]) /\ \A h \in interrupted : h[1] \notin rInvs'
        BY <2>0 DEF InterruptReaches
    <2>3. QED
        BY <1>5, <2>1, <2>2, Zenon DEF InterruptReaches
<1>13. QED
    BY <1>9, <1>10, <1>11, <1>12 DEF IInvs

LEMMA NextChunkKept ==
  ASSUME Shape, IInvs, RouterNextChunk
  PROVE  IInvs'
<1>1. PICK m \in rMore : m.sent < load.chunks /\ Invoke(m.id, m.reg, m.sent + 1, m.asked)
    BY DEF RouterNextChunk
<1>2. UNCHANGED rInvs /\ SessionUnchanged /\ transport = "open"
    BY DEF RouterNextChunk
<1>3. /\ m \in [id : 1..pushed, reg : Of("register"), sent : 0..load.chunks, asked : BOOLEAN]
      /\ pushed \in Nat /\ load.chunks \in Nat
    BY InvocationTypes DEF Shape, RouterState
<1>4. m.id \in Nat /\ m.reg \in Of("register") /\ m.sent \in Nat /\ m.asked \in BOOLEAN
    BY <1>3
<1>5. PICK i \in Nat, n \in Nat : i = m.id /\ n = m.sent + 1
    BY <1>4
<1>6. n > 0
    BY <1>4, <1>5
<1>7. Behind(toSession, running \cup cancels, i, n)
    <2>1. \A c \in Nat : c <= m.sent => c < n
        BY <1>4, <1>5
    <2>2. QueueOK(toSession, rMore) /\ HandlersOK(running \cup cancels, rMore, toSession)
        BY DEF IInvs, ChunkInv, ChunkIn
    <2>3. ASSUME NEW a \in 1..Len(toSession), toSession[a].type = "INVOCATION", toSession[a].id = i
          PROVE  toSession[a].chunk < n /\ toSession[a].more
        <3>1. SentOK(rMore, i, toSession[a].chunk, toSession[a].more) /\ toSession[a].chunk \in Nat
            BY <2>2, <2>3, InvocationTypes, Zenon DEF QueueOK
        <3>2. QED
            BY <1>5, <2>1, <3>1, Zenon DEF SentOK
    <2>4. ASSUME NEW h \in running \cup cancels, h[1] = i
          PROVE  h[2] < n /\ h[3]
        <3>1. SentOK(rMore, i, h[2], h[3]) /\ h[2] \in Nat
            BY <2>2, <2>4, InvocationTypes, Zenon DEF HandlersOK
        <3>2. QED
            BY <1>5, <2>1, <3>1, Zenon DEF SentOK
    <2>5. QED
        BY <2>3, <2>4, Zenon DEF Behind
<1>8. \A a \in 1..Len(toSession) : toSession[a].type = "INTERRUPT" => toSession[a].id # i
    BY <1>5 DEF IInvs, StopInv, StopIn
<1>9. \A h \in interrupted : h[1] \notin rInvs'
    BY <1>2 DEF IInvs, InterruptReaches
<1>10. \E s \in rMore : s.id = i /\ s.asked = m.asked
    BY <1>5
<1>11. QED
    BY <1>1, <1>2, <1>4, <1>5, <1>7, <1>8, <1>9, <1>10, InvokeKept

LEMMA PushInvocationKept ==
  ASSUME Shape, IInvs, SessionUnchanged, transport = "open", NEW g \in rRegs, NEW asked \in BOOLEAN,
         Invoke(pushed + 1, g, 0, asked), rInvs' = rInvs \cup {pushed + 1}
  PROVE  IInvs'
<1>1. pushed \in Nat /\ g \in Of("register")
    BY InvocationTypes DEF Shape, RouterState
<1>2. PICK i \in Nat : i = pushed + 1
    BY <1>1
<1>3. i \notin 1..pushed
    BY <1>1, <1>2
<1>4. Behind(toSession, running \cup cancels, i, 0)
    BY <1>3, InvocationTypes, Zenon DEF Behind
<1>5. ASSUME NEW a \in 1..Len(toSession), toSession[a].type = "INTERRUPT"
      PROVE  toSession[a].id # i
    <2>1. SessionOK(toSession[a])
        BY DEF Shape, Messages
    <2>2. QED
        BY <1>3, <1>5, <2>1 DEF SessionOK
<1>6. \A h \in interrupted : h[1] \notin rInvs'
    BY <1>2, <1>3, InvocationTypes DEF IInvs, InterruptReaches
<1>7. 0 \in Nat /\ ~(0 > 0)
    OBVIOUS
<1>8. QED
    BY <1>1, <1>2, <1>4, <1>5, <1>6, <1>7, InvokeKept

LEMMA OtherTakes ==
  ASSUME ReaderState, Reader, ~ReadInvocation, ~ReadInterrupt
  PROVE  \/ UNCHANGED toSession
         \/ toSession # <<>> /\ Head(toSession).type # "INVOCATION" /\ toSession' = Tail(toSession)
<1> USE DEF ReaderState, Received, Receiving, netVars, Replies
<1>1. CASE ReadResult \/ ReadProgress \/ ReadAck \/ ReadError
    BY <1>1 DEF ReadResult, ReadProgress, ReadAck, ReadError
<1>2. CASE ReadBlocks \/ ReadUnblocks \/ ReadEvent \/ EventDispatched
    BY <1>2 DEF ReadBlocks, ReadUnblocks, ReadEvent, EventDispatched
<1>3. CASE ReadGoodbye \/ AfterOnLeave \/ ReadAbort \/ ReadGarbage \/ ReadFails
    BY <1>3 DEF ReadGoodbye, AfterOnLeave, ReadAbort, ReadGarbage, ReadFails
<1>4. QED
    BY <1>1, <1>2, <1>3 DEF Reader

\* What the router does is quiet but for the two INVOCATIONs.
FirstChunk ==
  (\E g \in rRegs, asked \in BOOLEAN : Invoke(pushed + 1, g, 0, asked)) /\ rInvs' = rInvs \cup {pushed + 1}

LEMMA RouterQuiet ==
  ASSUME Shape, \/ RouterHandles \/ \E r \in Requests : RouterAnswers(r)
                \/ RouterPushes /\ ~FirstChunk
  PROVE  QuietQueue /\ rMore' \subseteq rMore /\ rInvs' \subseteq rInvs
<1> USE DEF Shape
<1>1. ASSUME NEW type \in PlainTypes, NEW id \in Ids, toSession' = Append(toSession, Msg(type, id)),
             type = "INTERRUPT" => id \notin rInvs' /\ \A s \in rMore' : s.id # id
      PROVE  QuietQueue
    <2>1. Msg(type, id) \in Message /\ Msg(type, id).type = type /\ Msg(type, id).id = id /\ type # "INVOCATION"
        BY PlainMessage DEF PlainTypes, PushTypes, Replies
    <2>2. QED
        BY <1>1, <2>1 DEF QuietQueue
<1>2. /\ {"ACK", "ERROR", "RESULT", "GOODBYE", "PROGRESS", "EVENT", "INTERRUPT", "ABORT", "UNPARSABLE",
          "UNEXPECTED"} \subseteq PlainTypes
      /\ Requests \subseteq Ids /\ Topics \subseteq Ids /\ 0 \in Ids /\ 1..pushed \subseteq Ids
    <2>1. 1..pushed \subseteq Nat
        BY InvocationTypes
    <2>2. QED
        BY <2>1, LoadFacts DEF PlainTypes, PushTypes, Replies, Ids, Topics, Of, AllTopics
<1>3. CASE RouterHandles
    <2>1. Head(toRouter) \in Order
        BY <1>3, HeadOfOrders DEF RouterHandles
    <2>2. PICK m \in Order : m = Head(toRouter)
        BY <2>1
    <2>3. m.id \in Ids
        BY DEF Order
    <2>4. /\ \/ UNCHANGED toSession
             \/ \E type \in {"ACK", "ERROR", "GOODBYE"} : toSession' = Append(toSession, Msg(type, m.id))
          /\ rMore' \subseteq rMore /\ rInvs' \subseteq rInvs
        BY <1>3, <2>2 DEF RouterHandles, ToSession
    <2>5. QED
        BY <1>1, <1>2, <2>3, <2>4 DEF QuietQueue
<1>4. CASE \E r \in Requests : RouterAnswers(r)
    <2>1. PICK r \in Requests : RouterAnswers(r)
        BY <1>4
    <2>2. /\ \E type \in {"RESULT", "ERROR"} : toSession' = Append(toSession, Msg(type, r))
          /\ rMore' \subseteq rMore /\ rInvs' \subseteq rInvs
        BY <2>1 DEF RouterAnswers, ToSession
    <2>3. QED
        BY <1>1, <1>2, <2>2
<1>5. CASE RouterPushes /\ ~FirstChunk
    <2>1. CASE UNCHANGED <<rInvs, rMore>>
        <3>1. \/ \E r \in rCalls : toSession' = Append(toSession, Msg("PROGRESS", r))
              \/ \E t \in rSubs : toSession' = Append(toSession, Msg("EVENT", t))
              \/ \E i \in rInvs : toSession' = Append(toSession, Msg("INTERRUPT", i)) /\ rInvs' = rInvs \ {i}
              \/ \E type \in {"GOODBYE", "ABORT", "UNPARSABLE", "UNEXPECTED"} :
                    toSession' = Append(toSession, Msg(type, 0))
            BY <1>5 DEF RouterPushes, ToSession, FirstChunk
        <3>2. rCalls \subseteq Requests /\ rSubs \subseteq Topics
            BY DEF RouterState, Of
        <3>3. ~\E i \in rInvs : rInvs' = rInvs \ {i}
            BY <2>1
        <3>4. QED
            BY <1>1, <1>2, <2>1, <3>1, <3>2, <3>3
    <2>2. CASE \E i \in rInvs : /\ toSession' = Append(toSession, Msg("INTERRUPT", i))
                                /\ rInvs' = rInvs \ {i} /\ rMore' = rMore \ Closed(i)
        <3>1. PICK i \in rInvs : /\ toSession' = Append(toSession, Msg("INTERRUPT", i))
                                 /\ rInvs' = rInvs \ {i} /\ rMore' = rMore \ Closed(i)
            BY <2>2
        <3>2. i \in Ids /\ i \notin rInvs' /\ \A s \in rMore' : s.id # i
            BY <1>2, <3>1 DEF Closed, RouterState
        <3>3. QED
            BY <1>1, <1>2, <3>1, <3>2
    <2>3. QED
        BY <1>5, <2>1, <2>2 DEF RouterPushes, ToSession, FirstChunk
<1>6. QED
    BY <1>3, <1>4, <1>5

LEMMA IInvsKept ==
  ASSUME Shape, IInvs, Next
  PROVE  IInvs'
<1>0. UNCHANGED load /\ Messages /\ TypeOK /\ RequestState /\ ReaderState
    BY DEF Next, Shape
<1>1. CASE reader # "panic" /\ \E r \in Requests : Request(r)
    <2>1. UNCHANGED <<invVars, transport, toSession, routerVars>>
        BY <1>0, <1>1, RequestMoves
    <2>2. QED
        BY <1>0, <1>1, <2>1, IInvsQuiet DEF QuietQueue, routerVars
<1>2. CASE Reader
    <2>1. CASE ReadInvocation
        BY <1>0, <2>1, ReadInvocationKept
    <2>2. CASE ReadInterrupt
        BY <2>2, ReadInterruptKept
    <2>3. CASE ~ReadInvocation /\ ~ReadInterrupt
        <3>1. /\ UNCHANGED <<invVars, routerVars>> /\ transport' \in {transport, "lost"} /\ reader # "panic"
              /\ QuietQueue
            BY <1>0, <1>2, <2>3, OtherReads, OtherTakes, ReaderHears DEF QuietQueue
        <3>2. QED
            BY <1>0, <3>1, IInvsQuiet DEF routerVars
    <2>4. QED
        BY <2>1, <2>2, <2>3
<1>3. CASE \E h \in running : HandlerReturns(h)
    BY <1>3, HandlerReturnsKept
<1>4. CASE RouterNextChunk
    BY <1>4, NextChunkKept
<1>5. CASE RouterPushes /\ FirstChunk
    BY <1>5, PushInvocationKept DEF RouterPushes, FirstChunk
<1>6. CASE \/ RouterHandles \/ \E r \in Requests : RouterAnswers(r)
           \/ RouterPushes /\ ~FirstChunk
    <2>1. QuietQueue /\ rMore' \subseteq rMore /\ rInvs' \subseteq rInvs
        BY <1>6, RouterQuiet
    <2>2. UNCHANGED <<invVars, transport, reader>>
        BY <1>6, RouterFrame DEF Router, SessionUnchanged, lifeVars
    <2>3. QED
        BY <1>0, <2>1, <2>2, IInvsQuiet
<1>7. CASE TransportLost
    <2>1. /\ transport' # "open" /\ UNCHANGED <<invVars, reader, rMore, rInvs>>
          /\ \/ toSession' \in {toSession, <<>>}
             \/ reader \in {"blocked", "dispatching"} /\ toSession' = <<Head(toSession)>>
        BY <1>7 DEF TransportLost, lifeVars, routerVars
    <2>2. Shorter(toSession', toSession, 0)
        BY <1>0, <2>1, CutQueue, SameQueue DEF ReaderState, Messages
    <2>3. QuietQueue
        BY <2>1, <2>2 DEF QuietQueue
    <2>4. QED
        BY <1>0, <2>1, <2>3, IInvsQuiet
<1>8. QED
    BY <1>1, <1>2, <1>3, <1>4, <1>5, <1>6, <1>7 DEF Next, Steps, Router

-----------------------------------------------------------------------------
(* The invariant, and the theorems                                         *)

IInv == Shape /\ TInv /\ RInv /\ SInv /\ IInvs

LEMMA InitInv ==
  ASSUME Init
  PROVE  IInv
<1> USE DEF Init
<1>1. load \in Loads /\ load.chunks \in Nat /\ load.pushes \in Nat
    BY LoadAssumption
<1>2. TypeOK
    <2>1. 0 \in 0..load.chunks /\ 0 \in 0..1
        BY <1>1
    <2>2. connected \in BOOLEAN /\ left \in BOOLEAN
        OBVIOUS
    <2>3. chunksLeft \in [Requests -> 0..load.chunks]
        BY <2>1
    <2>4. QED
        BY <1>1, <2>1, <2>2, <2>3 DEF TypeOK
<1>3. Shape
    <2>1. RouterState
        BY <1>1 DEF RouterState
    <2>2. RequestState
        BY DEF RequestState, Of
    <2>3. ReaderState
        BY DEF ReaderState
    <2>4. Orders /\ Messages
        <3>1. toRouter = <<>> /\ toSession = <<>> /\ Len(<<>>) = 0 /\ (\A i \in 1..0 : FALSE)
            OBVIOUS
        <3>2. <<>> \in Seq(Order) /\ <<>> \in Seq(Message)
            OBVIOUS
        <3>3. QED
            BY <3>1, <3>2 DEF Orders, Messages
    <2>5. QED
        BY <1>2, <2>1, <2>2, <2>3, <2>4 DEF Shape
<1>4. /\ toRouter = <<>> /\ toSession = <<>> /\ Len(toRouter) = 0 /\ Len(toSession) = 0
      /\ \A i \in 1..0 : FALSE
      /\ \A T, id : ~Has(toRouter, T, id) /\ ~Has(toSession, T, id)
    <2>1. /\ toRouter = <<>> /\ toSession = <<>> /\ Len(toRouter) = 0 /\ Len(toSession) = 0
          /\ \A i \in 1..0 : FALSE
        OBVIOUS
    <2>2. QED
        BY <2>1 DEF Has
<1>5. TInv
    BY <1>4 DEF TInv, TokenInv, OnceIn, Asked, Answered, Told, Done, Simple
<1>6. RInv
    BY <1>4 DEF RInv, RegInv, UnregInv, Invoked, Acked, Of
<1>7. SInv
    <2>1. AloneInv /\ EventInv /\ HandlerKept
        BY <1>4 DEF AloneInv, EventInv, HandlerKept, Of
    <2>2. ASSUME NEW u \in Of("unsubscribe")
          PROVE  UnsubInv(u)
        BY DEF UnsubInv, Of
    <2>3. ASSUME NEW h \in Of("subscribe")
          PROVE  SubInv(h)
        BY DEF SubInv, Of
    <2>4. QED
        BY <2>1, <2>2, <2>3 DEF SInv
<1>8. IInvs
    <2>1. ChunkInv
        BY <1>4 DEF ChunkInv, ChunkIn, OneEach, QueueOK, OrderOK, HandlersOK, PairsOK
    <2>2. StopInv /\ ProgressInv /\ InterruptReaches
        BY <1>4 DEF StopInv, StopIn, ProgressInv, ProgressQueue, ProgressMore, InterruptReaches
    <2>3. QED
        BY <2>1, <2>2 DEF IInvs
<1>9. QED
    BY <1>3, <1>5, <1>6, <1>7, <1>8 DEF IInv

LEMMA StepInv ==
  ASSUME IInv, Next
  PROVE  IInv'
BY ShapeKept, TInvKept, RInvKept, SInvKept, IInvsKept DEF IInv

LEMMA StutterInv ==
  ASSUME IInv, UNCHANGED <<load, vars>>
  PROVE  IInv'
<1> USE DEF vars, reqVars, lifeVars, subVars, callVars, invVars, netVars, routerVars
<1>0. Requests' = Requests /\ \A k : Of(k)' = Of(k)
    BY DEF Requests, Of
<1>1. TypeOK' <=> TypeOK
    BY DEF TypeOK, Requests, Of, Topics
<1>2. (RouterState' <=> RouterState) /\ (RequestState' <=> RequestState) /\ (ReaderState' <=> ReaderState)
    BY DEF RouterState, RequestState, ReaderState, Requests, Of, Topics, OnlyCalls
<1>3. (Orders' <=> Orders) /\ (Messages' <=> Messages)
    BY DEF Orders, Messages, RouterOK, SessionOK, Requests, Of, Topics
<1>4. TInv' <=> TInv
    BY DEF TInv, TokenInv, OnceIn, Apart, Simple, Asked, Answered, Told, Done, Has, Requests
<1>5. RInv' <=> RInv
    BY DEF RInv, RegInv, UnregInv, Invoked, First, Acked, Errored, Granted, Asked, Done, Has, LeaveStarted, Requests, Of
<1>6. SInv' <=> SInv
    BY DEF SInv, AloneInv, EventInv, HandlerKept, UnsubInv, SubInv, Covered, Gone, Granted, Acked, Errored,
           Asked, Has, NoUnsub, LeaveStarted, OnTopic, Topics, Requests, Of
<1>7. IInvs' <=> IInvs
    BY DEF IInvs, ChunkInv, StopInv, ProgressInv, InterruptReaches
<1>8. QED
    BY <1>1, <1>2, <1>3, <1>4, <1>5, <1>6, <1>7 DEF IInv, Shape

\* The invariant holds of every behaviour of the session, the router and the network.
THEOREM Invariance == Spec => []IInv
<1>1. Init => IInv
    BY InitInv
<1>2. IInv /\ [Next]_<<load, vars>> => IInv'
    BY StepInv, StutterInv
<1>3. QED
    BY <1>1, <1>2, PTL DEF Spec

\* Every variable of the session, of the router and of the network keeps its type, whatever
\* the order of requests, replies, handlers and cuts.
THEOREM TypeCorrect == Spec => []TypeOK
<1>1. IInv => TypeOK
    BY DEF IInv, Shape
<1>2. QED
    BY <1>1, Invariance, PTL

\* No reply stops the reader: in a session that only calls it never ends by itself, and the
\* channel of the request that the next reply is for is empty, because a request is asked,
\* answered and told once.
THEOREM ReaderGoesOn == Spec => []ReaderNotStopped
<1>1. ASSUME IInv
      PROVE  ReaderNotStopped
    <2>1. TypeOK /\ (OnlyCalls => reader # "dead")
        BY <1>1 DEF IInv, Shape, ReaderState
    <2>2. ASSUME toSession # <<>>, Head(toSession).type \in {"RESULT", "ERROR", "ACK"},
                 Head(toSession).id \in table \ Chunked
          PROVE  reply[Head(toSession).id] = <<>>
        <3>1. PICK r : r = Head(toSession).id
            OBVIOUS
        <3>2. r \in Simple
            BY <1>1, <2>2, <3>1 DEF IInv, Shape, RequestState, Simple
        <3>3. Head(toSession) = toSession[1] /\ 1 \in 1..Len(toSession)
            BY <1>1, <2>2, HeadOfMessages DEF IInv, Shape
        <3>4. Answered(r)
            BY <2>2, <3>1, <3>3 DEF Answered, Has, Replies
        <3>5. ~Told(r)
            BY <1>1, <3>2, <3>4 DEF IInv, TInv, TokenInv
        <3>6. QED
            BY <3>1, <3>5 DEF Told
    <2>3. QED
        BY <2>1, <2>2 DEF ReaderNotStopped
<1>2. QED
    BY <1>1, Invariance, PTL

\* An INTERRUPT reaches the handler it is for and no other, and a progressive chunk finds the
\* send-progress function of its invocation, for any number of invocations and of chunks.
THEOREM KeepsInvocationState == Spec => []InvocationStateKept
<1>1. ASSUME IInv
      PROVE  InvocationStateKept
    <2>1. InterruptReaches
        BY <1>1 DEF IInv, IInvs
    <2>2. ASSUME toSession # <<>>, reader = "reading", Head(toSession).type = "INVOCATION",
                 Head(toSession).asked, Head(toSession).chunk > 0
          PROVE  Head(toSession).id \in progressFunc
        <3>1. Head(toSession) = toSession[1] /\ 1 \in 1..Len(toSession)
            BY <1>1, <2>2, HeadOfMessages DEF IInv, Shape
        <3>2. ProgressQueue(toSession, progressFunc)
            BY <1>1, <2>2 DEF IInv, IInvs, ProgressInv
        <3>3. Head(toSession).id \in progressFunc \/ \E i \in 1..Len(toSession) : i < 1
            BY <2>2, <3>1, <3>2, Zenon DEF ProgressQueue
        <3>4. Len(toSession) \in Nat
            BY <1>1 DEF IInv, Shape, Messages
        <3>5. \A i \in 1..Len(toSession) : ~(i < 1)
            BY <3>4
        <3>6. QED
            BY <3>3, <3>5
    <2>3. SendProgressKept
        BY <2>2, Zenon DEF SendProgressKept
    <2>4. QED
        BY <2>1, <2>3 DEF InvocationStateKept
<1>2. QED
    BY <1>1, Invariance, PTL

\* The session's tables of registrations and, where a topic is used from one goroutine at a
\* time, of subscriptions agree with the router's, but for what is on its way or timed out.
THEOREM TablesAgreeAlways == Spec => []TablesAgree
<1>1. ASSUME IInv
      PROVE  TablesAgree
    <2>1. ASSUME NEW r \in Requests, Granted(r)
          PROVE  pc[r] = "wait" \/ outcome[r] = "timeout"
        BY <2>1 DEF Granted
    <2>2. ASSUME NEW g \in Of("register")
          PROVE  /\ g \in regs /\ g \notin rRegs /\ connected =>
                      \/ \E u \in Of("unregister") :
                           Target[u] = g /\ (pc[u] = "wait" \/ outcome[u] = "timeout")
                      \/ \E l \in Of("leave") : pc[l] # "new"
                 /\ outcome[g] = "ok" /\ g \notin regs => g \notin rRegs
        <3>1. RegInv(g) /\ g \in Requests
            BY <1>1 DEF IInv, RInv, Of
        <3>2. pc[g] = "wait" => outcome[g] = "none"
            BY <1>1, <3>1 DEF IInv, Shape, RequestState
        <3>3. QED
            BY <2>1, <3>1, <3>2 DEF RegInv, LeaveStarted, Of
    <2>3. RegistrationsAgree
        BY <2>2 DEF RegistrationsAgree
    <2>4. ASSUME load.serial
          PROVE  HandlerKept /\ SubscriptionsAgree
        <3>1. HandlerKept /\ \A h \in Of("subscribe") : SubInv(h)
            BY <1>1, <2>4 DEF IInv, SInv
        <3>2. subs \subseteq Of("subscribe")
            BY <1>1 DEF IInv, Shape, TypeOK
        <3>3. SubscriptionsAgree
            BY <3>1, <3>2 DEF SubscriptionsAgree, SubInv, LeaveStarted
        <3>4. QED
            BY <3>1, <3>3
    <2>5. QED
        BY <2>3, <2>4 DEF TablesAgree
<1>2. QED
    BY <1>1, Invariance, PTL

\* The reader meets an INVOCATION without its handler, or an EVENT without its entry, only
\* while the goroutine that will store it has still to run, or has given up.
THEOREM MissesOnlyEarly == Spec => []HandlersMissedOnlyEarly
<1>1. ASSUME IInv
      PROVE  HandlersMissedOnlyEarly
    <2>1. ASSUME toSession # <<>>
          PROVE  /\ Head(toSession) = toSession[1] /\ 1 \in 1..Len(toSession)
                 /\ SessionOK(Head(toSession))
        BY <1>1, <2>1, HeadOfMessages DEF IInv, Shape
    <2>2. ASSUME toSession # <<>>, Head(toSession).type = "INVOCATION"
          PROVE  LET g == Head(toSession).reg
                 IN  g \in regs \/ pc[g] = "wait" \/ outcome[g] = "timeout" \/ Head(toSession).chunk > 0
        <3>1. PICK g : g = Head(toSession).reg
            OBVIOUS
        <3>2. g \in Of("register") /\ (Head(toSession).chunk > 0 \/ Head(toSession).chunk = 0)
            BY <1>1, <2>1, <2>2, <3>1, InvocationTypes DEF IInv, SessionOK
        <3>3. CASE Head(toSession).chunk = 0
            <4>1. Invoked(g)
                BY <2>1, <2>2, <3>1, <3>3 DEF Invoked, First
            <4>2. g \in regs \/ Granted(g)
                BY <1>1, <3>2, <4>1 DEF IInv, RInv, RegInv
            <4>3. QED
                BY <3>1, <4>2 DEF Granted
        <3>4. QED
            BY <3>2, <3>3
    <2>3. ASSUME load.serial, toSession # <<>>, Head(toSession).type = "EVENT"
          PROVE  LET t == Head(toSession).id
                 IN  t \in subEntry \/ \E r \in Of("subscribe") :
                                         Topic(r) = t /\ (pc[r] = "wait" \/ outcome[r] = "timeout")
        <3>1. PICK t : t = Head(toSession).id
            OBVIOUS
        <3>2. t \in Topics /\ Has(toSession, {"EVENT"}, t)
            BY <2>1, <2>3, <3>1 DEF SessionOK, Has
        <3>3. Covered(t)
            BY <1>1, <2>3, <3>2 DEF IInv, SInv, EventInv
        <3>4. QED
            BY <3>1, <3>3 DEF Covered, Granted
    <2>4. QED
        BY <2>2, <2>3 DEF HandlersMissedOnlyEarly, HandlerMissingOnlyEarly, EventMissingOnlyEarly
<1>2. QED
    BY <1>1, Invariance, PTL
=============================================================================
