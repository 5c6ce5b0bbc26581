---------------------------- MODULE Realm_proofs ----------------------------
(***************************************************************************)
(* Proofs about Realm, for any finite set of clients, any size of their    *)
(* queues and every workload.                                              *)
(*                                                                         *)
(* The inductive invariant IInv says, besides the types:                   *)
(*  - where each client is listed, by where its goroutine is (Place), and  *)
(*    what Realm.Close has done (Closing);                                 *)
(*  - for the order of deliveries (QInv): a client's unread calls and      *)
(*    publications are in the order of their numbers (InboxInv); a         *)
(*    goroutine delivers what follows from one message it has read         *)
(*    (TodoInv); what was queued for a client is settled, so that nothing  *)
(*    older can still follow it (BoxInv); an open invocation was read      *)
(*    (PendingInv); and the queues are in order (OrderInv). OrderInv alone *)
(*    is not inductive: what is about to be queued must be newer than what *)
(*    is queued, and that depends on the batches and the inboxes;          *)
(*  - for the answers to calls (AInv): how many answers each call has had, *)
(*    is about to get and can still get (Budget); that nobody but its      *)
(*    caller can close a call whose INVOCATION was dropped (LostInv); and  *)
(*    where the ERROR of a cancelled call is (CancelOK).                   *)
(***************************************************************************)
EXTENDS Realm, FiniteSetTheorems, TLAPS

MessageTypes ==
  Types \cup {"REGISTERED", "UNREGISTERED", "REFUSED", "SUBSCRIBED", "UNSUBSCRIBED", "PUBLISHED",
              "EVENT", "INVOCATION", "INTERRUPT", "RESULT"}
Message == [type : MessageTypes, n : Nat]
Delivery == [to : Sessions, msg : Message]
Batch == [mode : {"none", "call", "other", "cancel", "publish", "self", "goodbye", "last"},
          msgs : Seq(Delivery)]

\* What TypeOK does not say of the queues, of what is left to deliver, and of the histories.
Shape ==
  /\ inbox \in [Sessions -> Seq(Message)] /\ outq \in [Sessions -> Seq(Message)]
  /\ seen \in [Sessions -> Seq(Message)]
  /\ todo \in [Sessions -> Batch]
  /\ \A s \in Sessions : hpc[s] = "deliver" <=> todo[s].msgs # <<>>
  /\ origin \in Seq(Sessions) /\ Len(origin) <= load.number
  /\ sentBy \in [Sessions -> Nat]
  /\ \A s \in Sessions : Len(inbox[s]) <= sentBy[s] /\ sentBy[s] <= load.sends[s]

\* Messages are made of their parts.
LEMMA MsgFacts ==
  /\ \A type, n : Msg(type, n).type = type /\ Msg(type, n).n = n
  /\ \A s, type, n : To(s, type, n).to = s /\ To(s, type, n).msg = Msg(type, n)
  /\ \A type \in MessageTypes, n \in Nat : Msg(type, n) \in Message
  /\ \A s \in Sessions, type \in MessageTypes, n \in Nat : To(s, type, n) \in Delivery
  /\ \A m, k : m \in Message /\ k \in Message /\ m.type = k.type /\ m.n = k.n => m = k
BY DEF Msg, To, Message, Delivery

\* The workload's bounds.
LEMMA LoadFacts ==
  ASSUME load \in Loads
  PROVE  /\ load.number \in Nat /\ load.sends \in [Sessions -> Nat]
         /\ load.send \in [Sessions -> SUBSET Types] /\ Numbers = 1..load.number
BY LoadAssumption DEF Numbers

\* The invocation that the dealer finds.
LEMMA PendingFacts ==
  \A n : IsPending(n) => PendingCall(n) \in pending /\ PendingCall(n).n = n
BY DEF IsPending, PendingCall

-----------------------------------------------------------------------------
(* What a goroutine gets to deliver                                        *)

\* What the dealer or the broker answers to message m of client s: an INVOCATION comes
\* alone, for a call, events for a publication, no two for the same subscriber, and an
\* INTERRUPT for a CANCEL or a PROGRESS of an open invocation.
Answer(s, m, msgs) ==
  /\ msgs \in Seq(Delivery)
  /\ \A i \in 1..Len(msgs) :
       /\ msgs[i].msg.type = "INVOCATION" => m.type = "CALL" /\ msgs[i].msg.n = m.n /\ Len(msgs) = 1
       /\ msgs[i].msg.type = "EVENT" => m.type = "PUBLISH" /\ msgs[i].msg.n = m.n
       /\ msgs[i].msg.type = "INTERRUPT" =>
            m.type \in {"CANCEL", "PROGRESS"} /\ msgs[i].msg.n = m.n /\ IsPending(m.n)
  /\ \A i, j \in 1..Len(msgs) :
       i # j /\ msgs[i].msg.type = "EVENT" /\ msgs[j].msg.type = "EVENT" => msgs[i].to # msgs[j].to

\* A goroutine's new batch.
Delivers(s, m) ==
  \E mode \in {"call", "other", "cancel", "publish", "self", "goodbye"} :
    \E msgs : Deliver(s, mode, msgs) /\ Answer(s, m, msgs)

\* Nothing, or one plain message, to deliver.
LEMMA PlainAnswers ==
  /\ \A s, m : Answer(s, m, <<>>)
  /\ \A s, m : \A r \in Sessions, type \in MessageTypes, n \in Nat :
       type \notin {"INVOCATION", "EVENT", "INTERRUPT"} => Answer(s, m, <<To(r, type, n)>>)
<1>1. \A s, m : Answer(s, m, <<>>)
  BY DEF Answer
<1>2. ASSUME NEW s, NEW m, NEW r \in Sessions, NEW type \in MessageTypes, NEW n \in Nat,
             type \notin {"INVOCATION", "EVENT", "INTERRUPT"}
      PROVE  Answer(s, m, <<To(r, type, n)>>)
  <2>1. To(r, type, n) \in Delivery /\ To(r, type, n).msg.type = type
    BY MsgFacts
  <2>2. <<To(r, type, n)>> \in Seq(Delivery) /\ Len(<<To(r, type, n)>>) = 1
    BY <2>1
  <2>3. \A i \in 1..1 : <<To(r, type, n)>>[i] = To(r, type, n)
    OBVIOUS
  <2>4. QED
    BY <1>2, <2>1, <2>2, <2>3 DEF Answer
<1>3. QED
  BY <1>1, <1>2

\* One message in answer to the one that was read.
LEMMA SingleAnswer ==
  ASSUME NEW s, NEW m \in Message, NEW r \in Sessions, NEW type \in MessageTypes,
         type = "INVOCATION" => m.type = "CALL",
         type = "INTERRUPT" => m.type \in {"CANCEL", "PROGRESS"} /\ IsPending(m.n),
         type # "EVENT"
  PROVE  Answer(s, m, <<To(r, type, m.n)>>)
<1>1. m.n \in Nat
  BY DEF Message
<1>2. To(r, type, m.n) \in Delivery /\ To(r, type, m.n).msg.type = type /\ To(r, type, m.n).msg.n = m.n
  BY <1>1, MsgFacts
<1>3. <<To(r, type, m.n)>> \in Seq(Delivery) /\ Len(<<To(r, type, m.n)>>) = 1
  BY <1>2
<1>4. \A i \in 1..1 : <<To(r, type, m.n)>>[i] = To(r, type, m.n)
  OBVIOUS
<1>5. QED
  BY <1>2, <1>3, <1>4 DEF Answer

\* handleCancel: the callee's INTERRUPT and the caller's ERROR.
LEMMA CancelAnswer ==
  ASSUME NEW s \in Sessions, NEW m \in Message, m.type = "CANCEL", IsPending(m.n), NEW r \in Sessions
  PROVE  Answer(s, m, <<To(r, "INTERRUPT", m.n), To(s, "ERROR", m.n)>>)
<1> DEFINE a == To(r, "INTERRUPT", m.n)
           b == To(s, "ERROR", m.n)
<1>1. m.n \in Nat /\ "INTERRUPT" \in MessageTypes /\ "ERROR" \in MessageTypes
  BY DEF Message, MessageTypes, Types
<1>2. /\ a \in Delivery /\ a.msg.type = "INTERRUPT" /\ a.msg.n = m.n
      /\ b \in Delivery /\ b.msg.type = "ERROR"
  BY <1>1, MsgFacts
<1> HIDE DEF a, b
<1>3. <<a, b>> \in Seq(Delivery) /\ Len(<<a, b>>) = 2
  BY <1>2
<1>4. \A i \in 1..2 : <<a, b>>[i] = a \/ (i = 2 /\ <<a, b>>[i] = b)
  OBVIOUS
<1>5. Answer(s, m, <<a, b>>)
  BY <1>2, <1>3, <1>4 DEF Answer
<1>6. QED
  BY <1>5 DEF a, b

\* A publication: an event for each subscriber, in any order, and the acknowledgement.
Events(order, n) == [i \in DOMAIN order |-> To(order[i], "EVENT", n)]
LEMMA PublishAnswer ==
  ASSUME NEW s \in Sessions, NEW m \in Message, m.type = "PUBLISH", NEW S \in SUBSET Sessions,
         NEW order \in SetToSeqs(S), NEW ack \in {<<>>, <<To(s, "PUBLISHED", m.n)>>}
  PROVE  /\ Answer(s, m, Events(order, m.n) \o ack)
         /\ \A i \in 1..Len(Events(order, m.n) \o ack) :
              (Events(order, m.n) \o ack)[i].msg.type \in {"EVENT", "PUBLISHED"}
<1> DEFINE events == [i \in DOMAIN order |-> To(order[i], "EVENT", m.n)]
<1>1. IsFiniteSet(S) /\ Cardinality(S) \in Nat
  BY LoadAssumption, FS_Subset, FS_CardinalityType
<1>2. PICK k \in Nat : k = Cardinality(S)
  BY <1>1
<1>3. /\ order \in [1..k -> S] /\ DOMAIN order = 1..k
      /\ \A i, j \in 1..k : i # j => order[i] # order[j]
  BY <1>2 DEF SetToSeqs
<1>4. m.n \in Nat /\ "EVENT" \in MessageTypes /\ "PUBLISHED" \in MessageTypes
  BY DEF Message, MessageTypes
<1>5. \A i \in 1..k : /\ events[i] = To(order[i], "EVENT", m.n) /\ events[i] \in Delivery
                      /\ events[i].to = order[i] /\ events[i].msg.n = m.n
  <2>1. \A i \in 1..k : events[i] = To(order[i], "EVENT", m.n) /\ order[i] \in Sessions
    BY <1>3
  <2> HIDE DEF events
  <2>2. QED
    BY <1>4, <2>1, MsgFacts
<1>6. events \in Seq(Delivery) /\ Len(events) = k
  <2>1. events = [i \in 1..k |-> To(order[i], "EVENT", m.n)] /\ events \in [1..k -> Delivery]
    BY <1>3, <1>5
  <2> HIDE DEF events
  <2>2. QED
    BY <2>1
<1> HIDE DEF events
<1>7. ack \in Seq(Delivery) /\ \A i \in 1..Len(ack) : ack[i].msg.type = "PUBLISHED"
  <2>1. To(s, "PUBLISHED", m.n) \in Delivery /\ To(s, "PUBLISHED", m.n).msg.type = "PUBLISHED"
    BY <1>4, MsgFacts
  <2>2. CASE ack = <<>>
    BY <2>2
  <2>3. CASE ack = <<To(s, "PUBLISHED", m.n)>>
    BY <2>1, <2>3
  <2>4. QED
    BY <2>2, <2>3
<1>8. /\ events \o ack \in Seq(Delivery) /\ Len(events \o ack) = k + Len(ack)
      /\ \A i \in 1..k : (events \o ack)[i] = events[i]
      /\ \A i \in 1..Len(events \o ack) : i > k => (events \o ack)[i].msg.type = "PUBLISHED"
  <2>1. /\ events \o ack \in Seq(Delivery) /\ Len(events \o ack) = k + Len(ack)
        /\ \A i \in 1..k : (events \o ack)[i] = events[i]
    BY <1>6, <1>7
  <2>2. ASSUME NEW i \in 1..(k + Len(ack)), i > k PROVE (events \o ack)[i].msg.type = "PUBLISHED"
    <3>1. i - k \in 1..Len(ack) /\ (events \o ack)[i] = ack[i - k]
      BY <1>6, <1>7, <2>2
    <3>2. QED
      BY <1>7, <3>1
  <2>3. QED
    BY <2>1, <2>2
<1>9. \A i \in 1..Len(events \o ack) : (events \o ack)[i].msg.type \in {"EVENT", "PUBLISHED"}
  <2>1. \A i \in 1..k : (events \o ack)[i].msg.type = "EVENT"
    BY <1>5, <1>8, MsgFacts
  <2>2. \A i \in 1..(k + Len(ack)) : i \in 1..k \/ i > k
    BY <1>2
  <2>3. QED
    BY <1>8, <2>1, <2>2
<1>10. \A i \in 1..Len(events \o ack) : (events \o ack)[i].msg.type = "EVENT" =>
          i \in 1..k /\ (events \o ack)[i].to = order[i] /\ (events \o ack)[i].msg.n = m.n
  <2>2. \A i \in 1..(k + Len(ack)) : i \in 1..k \/ i > k
    BY <1>2
  <2>3. QED
    BY <1>5, <1>8, <2>2
<1>11. Answer(s, m, events \o ack)
  BY <1>3, <1>8, <1>9, <1>10 DEF Answer
<1>12. events = Events(order, m.n)
  BY DEF events, Events
<1>13. QED
  BY <1>9, <1>11, <1>12

\* What the dealer's and the broker's tables may become when message m of client s is read.
DealerStep(s, m) ==
  /\ registered' = registered \/ registered' \in {s, None}
  /\ \A p \in pending' : p \in pending \/ (m.type = "CALL" /\ registered \in Sessions
                                           /\ p = [n |-> m.n, caller |-> s, callee |-> registered])
  /\ canceled' \subseteq canceled \cup pending
BrokerStep(s) == subscribed' = subscribed \/ subscribed' = subscribed \cup {s} \/ subscribed' = subscribed \ {s}

\* The dealer's part of Receive.
LEMMA DealerFacts ==
  ASSUME TypeOK, NEW s \in Sessions, NEW m \in Message, m.type \in Types,
         \/ DealerReceives(s, m) /\ UNCHANGED canceled
         \/ DealerCancels(s, m)
  PROVE  Delivers(s, m) /\ DealerStep(s, m)
<1>t. /\ registered \in Sessions \cup {None} /\ \A p \in pending : p.caller \in Sessions /\ p.callee \in Sessions
      /\ m.n \in Nat
  BY DEF TypeOK, Message
<1>m. {"ERROR", "INVOCATION", "REGISTERED", "REFUSED", "UNREGISTERED", "RESULT", "PROGRESS", "INTERRUPT"} \subseteq MessageTypes
  BY DEF MessageTypes, Types
<1>p. IsPending(m.n) => /\ PendingCall(m.n) \in pending
                        /\ PendingCall(m.n).caller \in Sessions /\ PendingCall(m.n).callee \in Sessions
  BY <1>t, PendingFacts
<1>0. 0 \in Nat
  OBVIOUS
<1>1. CASE m.type = "CALL" /\ DealerReceives(s, m) /\ UNCHANGED canceled
  <2>1. CASE registered = None
    <3>1. Deliver(s, "call", <<To(s, "ERROR", m.n)>>) /\ UNCHANGED <<pending, registered>>
      BY <1>1, <2>1 DEF DealerReceives
    <3>2. Answer(s, m, <<To(s, "ERROR", m.n)>>)
      BY <1>m, SingleAnswer
    <3>3. QED
      BY <1>1, <3>1, <3>2 DEF Delivers, DealerStep
  <2>2. CASE registered # None
    <3>1. /\ Deliver(s, "call", <<To(registered, "INVOCATION", m.n)>>) /\ UNCHANGED registered
          /\ pending' = pending \cup {[n |-> m.n, caller |-> s, callee |-> registered]}
      BY <1>1, <2>2 DEF DealerReceives
    <3>2. Answer(s, m, <<To(registered, "INVOCATION", m.n)>>)
      BY <1>1, <1>t, <1>m, <2>2, SingleAnswer
    <3>3. DealerStep(s, m)
      BY <1>1, <1>t, <2>2, <3>1 DEF DealerStep
    <3>4. QED
      BY <3>1, <3>2, <3>3 DEF Delivers
  <2>3. QED
    BY <2>1, <2>2
<1>2. CASE m.type \in {"REGISTER", "UNREGISTER"} /\ DealerReceives(s, m) /\ UNCHANGED canceled
  <2>1. PICK type \in {"REGISTERED", "REFUSED", "UNREGISTERED"} : Deliver(s, "other", <<To(s, type, 0)>>)
    BY <1>2 DEF DealerReceives
  <2>2. Answer(s, m, <<To(s, type, 0)>>)
    BY <1>m, <1>0, PlainAnswers
  <2>3. UNCHANGED pending /\ (registered' = registered \/ registered' \in {s, None})
    BY <1>2 DEF DealerReceives
  <2>4. DealerStep(s, m)
    BY <1>2, <2>3 DEF DealerStep
  <2>5. QED
    BY <2>1, <2>2, <2>4 DEF Delivers
<1>3. CASE m.type \in {"YIELD", "ERROR"} /\ DealerReceives(s, m) /\ UNCHANGED canceled
  <2>1. UNCHANGED registered /\ pending' \subseteq pending
    BY <1>3 DEF DealerReceives
  <2>2. \/ Deliver(s, "other", <<>>)
        \/ \E r \in Sessions, type \in {"RESULT", "ERROR"} : Deliver(s, "other", <<To(r, type, m.n)>>)
    BY <1>3, <1>p DEF DealerReceives
  <2>3. \A r \in Sessions, type \in {"RESULT", "ERROR"} : Answer(s, m, <<To(r, type, m.n)>>)
    BY <1>m, SingleAnswer
  <2>4. DealerStep(s, m)
    BY <1>3, <2>1 DEF DealerStep
  <2>5. QED
    BY <2>2, <2>3, <2>4, PlainAnswers DEF Delivers
<1>4. CASE m.type = "PROGRESS" /\ DealerReceives(s, m) /\ UNCHANGED canceled
  <2>1. UNCHANGED registered /\ pending' \subseteq pending
    BY <1>4 DEF DealerReceives
  <2>2. \/ Deliver(s, "other", <<>>)
        \/ IsPending(m.n) /\ \E r \in Sessions, type \in {"PROGRESS", "INTERRUPT"} :
             Deliver(s, "other", <<To(r, type, m.n)>>)
    BY <1>4, <1>p DEF DealerReceives
  <2>3. IsPending(m.n) => \A r \in Sessions, type \in {"PROGRESS", "INTERRUPT"} : Answer(s, m, <<To(r, type, m.n)>>)
    BY <1>m, <1>4, SingleAnswer
  <2>4. DealerStep(s, m)
    BY <1>4, <2>1 DEF DealerStep
  <2>5. QED
    BY <2>2, <2>3, <2>4, PlainAnswers DEF Delivers
<1>5. CASE DealerCancels(s, m)
  <2>1. m.type = "CANCEL" /\ UNCHANGED registered /\ pending' \subseteq pending /\ canceled' \subseteq canceled \cup pending
    BY <1>5, <1>p DEF DealerCancels
  <2>2. \/ Deliver(s, "cancel", <<>>)
        \/ IsPending(m.n) /\ \E r \in Sessions :
             Deliver(s, "cancel", <<To(r, "INTERRUPT", m.n), To(s, "ERROR", m.n)>>)
    BY <1>5, <1>p DEF DealerCancels
  <2>3. IsPending(m.n) => \A r \in Sessions : Answer(s, m, <<To(r, "INTERRUPT", m.n), To(s, "ERROR", m.n)>>)
    BY <2>1, CancelAnswer
  <2>4. DealerStep(s, m)
    BY <2>1 DEF DealerStep
  <2>5. QED
    BY <2>2, <2>3, <2>4, PlainAnswers DEF Delivers
<1>6. QED
  BY <1>1, <1>2, <1>3, <1>4, <1>5 DEF DealerReceives

\* The broker's part of Receive.
LEMMA BrokerFacts ==
  ASSUME TypeOK, NEW s \in Sessions, NEW m \in Message, BrokerReceives(s, m)
  PROVE  Delivers(s, m) /\ BrokerStep(s)
<1>m. {"SUBSCRIBED", "UNSUBSCRIBED", "REFUSED"} \subseteq MessageTypes /\ 0 \in Nat
  BY DEF MessageTypes
<1>1. CASE m.type = "SUBSCRIBE" \/ m.type = "UNSUBSCRIBE"
  <2>1. PICK type \in {"SUBSCRIBED", "UNSUBSCRIBED", "REFUSED"} : Deliver(s, "other", <<To(s, type, 0)>>)
    BY <1>1 DEF BrokerReceives
  <2>2. Answer(s, m, <<To(s, type, 0)>>)
    BY <1>m, PlainAnswers
  <2>3. BrokerStep(s)
    BY <1>1 DEF BrokerReceives, BrokerStep
  <2>4. QED
    BY <2>1, <2>2, <2>3 DEF Delivers
<1>2. CASE m.type = "PUBLISH"
  <2>1. UNCHANGED subscribed /\ subscribed \ {s} \in SUBSET Sessions
    BY <1>2 DEF BrokerReceives, TypeOK
  <2>2. PICK order \in SetToSeqs(subscribed \ {s}), ack \in {<<>>, <<To(s, "PUBLISHED", m.n)>>} :
          Deliver(s, "publish", Events(order, m.n) \o ack)
    BY <1>2 DEF BrokerReceives, Events
  <2>3. Answer(s, m, Events(order, m.n) \o ack)
    BY <1>2, <2>1, PublishAnswer
  <2>4. BrokerStep(s)
    BY <2>1 DEF BrokerStep
  <2>5. QED
    BY <2>2, <2>3, <2>4 DEF Delivers
<1>3. QED
  BY <1>1, <1>2 DEF BrokerReceives

\* The whole of Receive: the message is taken, the answer is ready to be delivered.
LEMMA ReceiveFacts ==
  ASSUME TypeOK, Shape, NEW s \in Sessions, Receive(s)
  PROVE  /\ hpc[s] = "read" /\ inbox[s] # <<>> /\ Head(inbox[s]) \in Message
         /\ inbox' = [inbox EXCEPT ![s] = Tail(inbox[s])]
         /\ Delivers(s, Head(inbox[s])) /\ DealerStep(s, Head(inbox[s])) /\ BrokerStep(s)
         /\ UNCHANGED <<tableVars, peerOpen, outq, routerVars, clientVars, answers, dropped>>
<1> DEFINE m == Head(inbox[s])
<1>1. /\ hpc[s] = "read" /\ inbox[s] # <<>> /\ inbox' = [inbox EXCEPT ![s] = Tail(inbox[s])]
      /\ UNCHANGED <<tableVars, peerOpen, outq, routerVars, clientVars, answers, dropped>>
  BY DEF Receive
<1>2. m \in Message
  <2>1. inbox[s] \in Seq(Message)
    BY DEF Shape
  <2>2. QED
    BY <1>1, <2>1
<1>3. CASE Deliver(s, "other", <<>>) /\ UNCHANGED <<dealerVars, subscribed, canceled>>
  <2>1. Delivers(s, m)
    BY <1>3, PlainAnswers DEF Delivers
  <2>2. QED
    BY <1>1, <1>2, <1>3, <2>1 DEF DealerStep, BrokerStep, dealerVars
<1>4. CASE Refuse(s, m) /\ UNCHANGED <<dealerVars, subscribed, canceled>>
  <2>1. m.n \in Nat /\ {"ERROR", "REFUSED"} \subseteq MessageTypes
    BY <1>2 DEF Message, MessageTypes, Types
  <2>2. \/ Deliver(s, "self", <<>>)
        \/ \E type \in {"ERROR", "REFUSED"} : Deliver(s, "self", <<To(s, type, m.n)>>)
    BY <1>4 DEF Refuse
  <2>3. \A type \in {"ERROR", "REFUSED"} : Answer(s, m, <<To(s, type, m.n)>>)
    BY <2>1, PlainAnswers
  <2>4. Delivers(s, m)
    BY <2>2, <2>3, PlainAnswers DEF Delivers
  <2>5. QED
    BY <1>1, <1>2, <1>4, <2>4 DEF DealerStep, BrokerStep, dealerVars
<1>5. CASE DealerReceives(s, m) /\ UNCHANGED <<subscribed, canceled>>
  <2>1. m.type \in Types
    BY <1>5 DEF DealerReceives, Types
  <2>2. QED
    BY <1>1, <1>2, <1>5, <2>1, DealerFacts DEF BrokerStep
<1>6. CASE DealerCancels(s, m) /\ UNCHANGED subscribed
  <2>1. m.type \in Types
    BY <1>6 DEF DealerCancels, Types
  <2>2. QED
    BY <1>1, <1>2, <1>6, <2>1, DealerFacts DEF BrokerStep
<1>7. CASE BrokerReceives(s, m) /\ UNCHANGED <<dealerVars, canceled>>
  BY <1>1, <1>2, <1>7, BrokerFacts DEF DealerStep, dealerVars
<1>8. CASE Deliver(s, "goodbye", <<To(s, "GOODBYE", 0)>>) /\ UNCHANGED <<dealerVars, subscribed, canceled>>
  <2>1. "GOODBYE" \in MessageTypes /\ 0 \in Nat
    BY DEF MessageTypes, Types
  <2>2. Answer(s, m, <<To(s, "GOODBYE", 0)>>)
    BY <2>1, PlainAnswers
  <2>3. Delivers(s, m)
    BY <1>8, <2>2 DEF Delivers
  <2>4. QED
    BY <1>1, <1>2, <1>8, <2>3 DEF DealerStep, BrokerStep, dealerVars
<1>9. QED
  BY <1>1, <1>3, <1>4, <1>5, <1>6, <1>7, <1>8 DEF Receive

-----------------------------------------------------------------------------
(* What clients send and goroutines deliver                                *)

\* A call or a publication.
Fresh(m) == m.type \in {"CALL", "PUBLISH"}

\* A call or publication has the next number, a CANCEL that of a call of the same client, and
\* an answer that of an INVOCATION the client has received.
LEMMA SendableFacts ==
  ASSUME TypeOK, Shape, NEW s \in Sessions, NEW m \in Sendable(s)
  PROVE  /\ m \in Message
         /\ Fresh(m) => m.n = Len(origin) + 1 /\ m.n <= load.number
         /\ m.type = "CANCEL" => m.n \in 1..Len(origin) /\ origin[m.n] = s
         /\ m.type \in {"YIELD", "PROGRESS", "ERROR"} =>
              \E i \in 1..Len(seen[s]) : seen[s][i] = Msg("INVOCATION", m.n)
<1>t. /\ load.number \in Nat /\ Numbers = 1..load.number /\ origin \in Seq(Sessions) /\ seen[s] \in Seq(Message)
      /\ Len(origin) \in Nat /\ DOMAIN origin = 1..Len(origin) /\ DOMAIN seen[s] = 1..Len(seen[s])
  <2>1. load.number \in Nat /\ Numbers = 1..load.number
    BY LoadFacts DEF TypeOK
  <2>2. origin \in Seq(Sessions) /\ seen[s] \in Seq(Message)
    BY DEF Shape
  <2>3. QED
    BY <2>1, <2>2
<1>m. Types \subseteq MessageTypes /\ 0 \in Nat
  BY DEF MessageTypes
<1>1. CASE \E type \in {"REGISTER", "SUBSCRIBE", "GOODBYE", "GARBAGE", "UNREGISTER", "UNSUBSCRIBE"} :
             m = Msg(type, 0)
  <2>1. PICK type \in {"REGISTER", "SUBSCRIBE", "GOODBYE", "GARBAGE", "UNREGISTER", "UNSUBSCRIBE"} :
          m = Msg(type, 0)
    BY <1>1
  <2>2. type \in MessageTypes /\ m.type = type
    BY <2>1, <1>m, MsgFacts DEF Types
  <2>3. QED
    BY <1>m, <2>1, <2>2, MsgFacts DEF Fresh
<1>2. CASE Len(origin) + 1 <= load.number /\ \E type \in {"CALL", "PUBLISH"} : m = Msg(type, Len(origin) + 1)
  <2>1. PICK type \in {"CALL", "PUBLISH"} : m = Msg(type, Len(origin) + 1)
    BY <1>2
  <2>2. type \in MessageTypes /\ m.type = type /\ m.n = Len(origin) + 1
    BY <2>1, <1>m, MsgFacts DEF Types
  <2>3. m \in Message
    BY <1>t, <2>1, <2>2, MsgFacts
  <2>4. QED
    BY <1>2, <2>2, <2>3 DEF Fresh
<1>3. CASE \E n \in 1..Len(origin) : origin[n] = s /\ m = Msg("CANCEL", n)
  <2>1. PICK n \in 1..Len(origin) : origin[n] = s /\ m = Msg("CANCEL", n)
    BY <1>3
  <2>2. m.type = "CANCEL" /\ m.n = n
    BY <2>1, MsgFacts
  <2>3. m \in Message
    <3>1. "CANCEL" \in MessageTypes
      BY <1>m DEF Types
    <3>2. n \in Nat
      BY <1>t
    <3>3. QED
      BY <2>1, <3>1, <3>2, MsgFacts
  <2>4. QED
    BY <2>1, <2>2, <2>3 DEF Fresh
<1>4. CASE \E type \in {"YIELD", "PROGRESS", "ERROR"}, n \in Numbers :
             Saw(s, "INVOCATION", n) /\ m = Msg(type, n)
  <2>1. PICK type \in {"YIELD", "PROGRESS", "ERROR"}, n \in Numbers : Saw(s, "INVOCATION", n) /\ m = Msg(type, n)
    BY <1>4
  <2>2. m.type = type /\ m.n = n /\ type \in MessageTypes /\ n \in Nat
    BY <1>m, <1>t, <2>1, MsgFacts DEF Types
  <2>3. m \in Message
    BY <2>1, <2>2, MsgFacts
  <2>4. \E i \in 1..Len(seen[s]) : seen[s][i] = Msg("INVOCATION", n)
    BY <1>t, <2>1 DEF Saw, Range
  <2>5. QED
    BY <2>2, <2>3, <2>4 DEF Fresh
<1>5. QED
  BY <1>t, <1>1, <1>2, <1>3, <1>4 DEF Sendable

\* A step of a goroutine that delivers: the first message is queued, dropped or given up; the
\* rest stays, or goes, or, if it was an INVOCATION, becomes the caller's ERROR.
DeliverStep(s) == DeliverQueued(s) \/ DeliverDropped(s) \/ DeliverAbsent(s) \/ DeliverClosed(s)

\* The goroutine has msgs left to deliver.
HasLeft(s, msgs) ==
  \E b \in Batch, where \in {"deliver", "close", "read"} :
    /\ todo' = [todo EXCEPT ![s] = b] /\ hpc' = [hpc EXCEPT ![s] = where]
    /\ where = "deliver" <=> b.msgs # <<>>
    /\ b.msgs = msgs

\* What the four ways to deliver have in common.
LEMMA DeliverFacts ==
  ASSUME TypeOK, Shape, NEW s \in Sessions, DeliverStep(s)
  PROVE  /\ hpc[s] = "deliver" /\ todo[s].msgs \in Seq(Delivery) /\ todo[s].msgs # <<>>
         /\ Head(todo[s].msgs) \in Delivery
         /\ \/ HasLeft(s, Tail(todo[s].msgs))
            \/ UNCHANGED outq /\ (HasLeft(s, <<>>) \/ HasLeft(s, <<To(s, "ERROR", Head(todo[s].msgs).msg.n)>>))
         /\ \/ UNCHANGED outq
            \/ LET d == Head(todo[s].msgs)
               IN Len(outq[d.to]) < OutQueueSize /\ outq' = [outq EXCEPT ![d.to] = Append(outq[d.to], d.msg)]
         /\ UNCHANGED <<tableVars, dealerVars, subscribed, peerOpen, inbox, routerVars, clientVars, canceled>>
<1> DEFINE q == todo[s].msgs
           d == Head(todo[s].msgs)
<1>1. hpc[s] = "deliver"
  BY DEF DeliverStep, DeliverQueued, DeliverDropped, DeliverAbsent, DeliverClosed
<1>2. todo[s] \in Batch /\ q \in Seq(Delivery) /\ q # <<>>
  BY <1>1 DEF Shape, Batch
<1>3. d \in Delivery /\ Tail(q) \in Seq(Delivery)
  BY <1>2
<1>4. d.to \in Sessions /\ d.msg.n \in Nat /\ "ERROR" \in MessageTypes
  BY <1>3 DEF Delivery, Message, MessageTypes, Types
<1>5. UNCHANGED <<tableVars, dealerVars, subscribed, peerOpen, inbox, routerVars, clientVars, canceled>>
  BY DEF DeliverStep, DeliverQueued, DeliverDropped, DeliverAbsent, DeliverClosed, peerVars, histVars
<1>6. ASSUME NEW mode \in {"none", "call", "other", "cancel", "publish", "self", "goodbye", "last"},
             NEW rest \in Seq(Delivery), GoOn(s, mode, rest)
      PROVE  HasLeft(s, rest)
  <2>1. CASE rest = <<>>
    <3>1. Nothing \in Batch /\ Nothing.msgs = rest
      BY <2>1 DEF Nothing, Batch
    <3>2. todo' = [todo EXCEPT ![s] = Nothing] /\ \E where \in {"close", "read"} : hpc' = [hpc EXCEPT ![s] = where]
      BY <1>6, <2>1 DEF GoOn, Goes
    <3>3. QED
      BY <2>1, <3>1, <3>2 DEF HasLeft
  <2>2. CASE rest # <<>>
    <3>1. [mode |-> mode, msgs |-> rest] \in Batch
      BY DEF Batch
    <3>2. todo' = [todo EXCEPT ![s] = [mode |-> mode, msgs |-> rest]] /\ hpc' = [hpc EXCEPT ![s] = "deliver"]
      BY <1>6, <2>2 DEF GoOn, Goes
    <3>3. QED
      BY <2>2, <3>1, <3>2 DEF HasLeft
  <2>3. QED
    BY <2>1, <2>2
<1>7. todo[s].mode \in {"none", "call", "other", "cancel", "publish", "self", "goodbye", "last"}
  BY <1>2 DEF Batch
<1>8. ASSUME GiveUp(s)
      PROVE  HasLeft(s, <<>>)
  <2>1. Nothing \in Batch /\ Nothing.msgs = <<>>
    BY DEF Nothing, Batch
  <2>2. QED
    BY <1>8, <2>1 DEF GiveUp, Goes, HasLeft
<1>9. CASE DeliverQueued(s)
  <2>1. /\ GoOn(s, todo[s].mode, Tail(q)) /\ Len(outq[d.to]) < OutQueueSize
        /\ outq' = [outq EXCEPT ![d.to] = Append(outq[d.to], d.msg)]
    BY <1>9 DEF DeliverQueued, Fits, Queue
  <2>2. QED
    BY <1>1, <1>2, <1>3, <1>5, <1>6, <1>7, <2>1
<1>10. CASE DeliverDropped(s)
  <2>1. UNCHANGED outq /\ (GoOn(s, "last", <<To(s, "ERROR", d.msg.n)>>) \/ GoOn(s, todo[s].mode, Tail(q)))
    BY <1>10 DEF DeliverDropped, peerVars
  <2>2. <<To(s, "ERROR", d.msg.n)>> \in Seq(Delivery)
    BY <1>4, MsgFacts
  <2>3. QED
    BY <1>1, <1>2, <1>3, <1>5, <1>6, <1>7, <2>1, <2>2
<1>11. CASE DeliverAbsent(s) \/ DeliverClosed(s)
  <2>1. UNCHANGED outq /\ (GiveUp(s) \/ GoOn(s, todo[s].mode, Tail(q)))
    BY <1>11 DEF DeliverAbsent, DeliverClosed, peerVars
  <2>2. QED
    BY <1>1, <1>2, <1>3, <1>5, <1>6, <1>7, <1>8, <2>1
<1>12. QED
  BY <1>9, <1>10, <1>11 DEF DeliverStep

-----------------------------------------------------------------------------
(* Type correctness                                                        *)

\* A client's calls and publications are in its inbox in the order of their numbers; what it
\* cancels is its own, and what it answers it has received.
InboxInv ==
  \A s \in Sessions :
    /\ \A i \in 1..Len(inbox[s]) : Fresh(inbox[s][i]) \/ inbox[s][i].type = "CANCEL" =>
         inbox[s][i].n \in 1..Len(origin) /\ origin[inbox[s][i].n] = s
    /\ \A i, j \in 1..Len(inbox[s]) : i < j /\ Fresh(inbox[s][i]) /\ Fresh(inbox[s][j]) =>
         inbox[s][i].n < inbox[s][j].n
    /\ \A i \in 1..Len(inbox[s]) : inbox[s][i].type \in {"YIELD", "PROGRESS", "ERROR"} =>
         \E k \in 1..Len(seen[s]) : seen[s][k] = Msg("INVOCATION", inbox[s][i].n)

\* The goroutines' steps that neither read nor deliver.
OtherStep(s) ==
  \/ ClientDisconnects(s) \/ Attach(s) \/ AddToBroker(s) \/ AddToDealer(s) \/ ReadFails(s) \/ Detach(s)
  \/ DetachBroker(s) \/ DetachDealer(s) \/ DetachClose(s) \/ CloseAfterGoodbye(s) \/ KillCloses(s)

\* Realm.Close or a kill queues a GOODBYE.
SaysGoodbye(s) == CloseClient(s) \/ KillWrites(s)

\* The other steps of Router.Close, and RemoveRealm.
RouterStep ==
  \/ StartClose \/ CloseTransport \/ CloseReturns \/ CloseDetach \/ CloseDetachBroker \/ CloseDetachDealer
  \/ EndClose \/ RemoveRealm

\* The steps other than those of a kill that only finds its client, waits or fails.
Acts == UNCHANGED load /\ (Steps \/ \E s \in Sessions : KillWrites(s) \/ KillCloses(s))

\* They are these.
LEMMA NextCases ==
  ASSUME Acts
  PROVE  /\ UNCHANGED load
         /\ \/ \E s \in Sessions : \/ ClientSends(s) \/ ClientReceives(s) \/ Receive(s) \/ DeliverStep(s)
                                   \/ OtherStep(s) \/ SaysGoodbye(s)
            \/ RouterStep
BY DEF Acts, Steps, HandleClient, Router, DeliverStep, OtherStep, SaysGoodbye, RouterStep

\* The tables and the state of Router.Close.
LEMMA TableType ==
  ASSUME TypeOK, Shape, Acts
  PROVE  /\ load' \in Loads
         /\ clients' \subseteq Sessions /\ brokerHas' \subseteq Sessions /\ dealerHas' \subseteq Sessions
         /\ closer' \in {"idle", "range", "close", "wait", "detach", "broker", "dealer", "done"}
         /\ atClient' \in Sessions \cup {None} /\ toClose' \subseteq Sessions /\ known' \in BOOLEAN
<1>t. /\ load' \in Loads
      /\ clients \subseteq Sessions /\ brokerHas \subseteq Sessions /\ dealerHas \subseteq Sessions
      /\ closer \in {"idle", "range", "close", "wait", "detach", "broker", "dealer", "done"}
      /\ atClient \in Sessions \cup {None} /\ toClose \subseteq Sessions /\ known \in BOOLEAN
  BY NextCases DEF TypeOK
<1>1. CASE \E s \in Sessions : ClientSends(s) \/ ClientReceives(s) \/ Receive(s) \/ DeliverStep(s)
  <2>1. UNCHANGED <<tableVars, routerVars>>
    BY <1>1 DEF ClientSends, ClientReceives, Receive, DeliverStep, DeliverQueued, DeliverDropped,
       DeliverAbsent, DeliverClosed
  <2>2. QED
    BY <1>t, <2>1 DEF tableVars, routerVars
<1>2. CASE \E s \in Sessions : OtherStep(s)
  <2>1. UNCHANGED routerVars
    BY <1>2 DEF OtherStep, ClientDisconnects, Attach, AddToBroker, AddToDealer, ReadFails, Detach,
       DetachBroker, DetachDealer, DetachClose, CloseAfterGoodbye, KillCloses
  <2>2. clients' \subseteq Sessions /\ brokerHas' \subseteq Sessions /\ dealerHas' \subseteq Sessions
    BY <1>t, <1>2 DEF OtherStep, ClientDisconnects, Attach, AddToBroker, AddToDealer, ReadFails, Detach,
       DetachBroker, DetachDealer, DetachClose, CloseAfterGoodbye, KillCloses, RemoveFromBroker,
       RemoveFromDealer, tableVars
  <2>3. QED
    BY <1>t, <2>1, <2>2 DEF routerVars
<1>3. CASE (\E s \in Sessions : SaysGoodbye(s)) \/ CloseDetach \/ CloseDetachBroker \/ CloseDetachDealer
  BY <1>t, <1>3 DEF SaysGoodbye, CloseClient, KillWrites, CloseDetach, CloseDetachBroker, CloseDetachDealer,
     RemoveFromBroker, RemoveFromDealer, tableVars, routerVars
<1>4. CASE StartClose \/ CloseTransport \/ CloseReturns \/ EndClose \/ RemoveRealm
  BY <1>t, <1>4 DEF StartClose, CloseTransport, CloseReturns, EndClose, RemoveRealm, tableVars
<1>5. QED
  BY <1>1, <1>2, <1>3, <1>4, NextCases DEF RouterStep

\* The number of the message that is read.
LEMMA HeadNumber ==
  ASSUME TypeOK, Shape, InboxInv, NEW s \in Sessions, inbox[s] # <<>>
  PROVE  Head(inbox[s]).type = "CALL" => Head(inbox[s]).n \in Numbers
<1>1. inbox[s] \in Seq(Message) /\ origin \in Seq(Sessions) /\ Len(origin) <= load.number
  BY DEF Shape
<1>2. 1 \in 1..Len(inbox[s]) /\ Head(inbox[s]) = inbox[s][1]
  BY <1>1
<1>3. load.number \in Nat /\ Numbers = 1..load.number /\ Len(origin) \in Nat
  BY <1>1, LoadFacts DEF TypeOK
<1>4. Head(inbox[s]).type = "CALL" => Head(inbox[s]).n \in 1..Len(origin)
  BY <1>2 DEF InboxInv, Fresh
<1>5. QED
  BY <1>1, <1>3, <1>4

\* The dealer's and the broker's tables.
LEMMA DealerType ==
  ASSUME TypeOK, Shape, InboxInv, Acts
  PROVE  /\ registered' \in Sessions \cup {None} /\ subscribed' \subseteq Sessions
         /\ pending' \subseteq [n : Numbers, caller : Sessions, callee : Sessions]
         /\ canceled' \subseteq [n : Numbers, caller : Sessions, callee : Sessions]
<1>t. /\ registered \in Sessions \cup {None} /\ subscribed \subseteq Sessions
      /\ pending \subseteq [n : Numbers, caller : Sessions, callee : Sessions]
      /\ canceled \subseteq [n : Numbers, caller : Sessions, callee : Sessions]
  BY DEF TypeOK
<1>1. ASSUME NEW s \in Sessions, Receive(s)
      PROVE  /\ registered' \in Sessions \cup {None} /\ subscribed' \subseteq Sessions
             /\ pending' \subseteq [n : Numbers, caller : Sessions, callee : Sessions]
             /\ canceled' \subseteq [n : Numbers, caller : Sessions, callee : Sessions]
  <2>1. DealerStep(s, Head(inbox[s])) /\ BrokerStep(s) /\ inbox[s] # <<>>
    BY <1>1, ReceiveFacts
  <2>2. registered' \in Sessions \cup {None} /\ subscribed' \subseteq Sessions
    BY <1>t, <2>1 DEF DealerStep, BrokerStep
  <2>3. canceled' \subseteq [n : Numbers, caller : Sessions, callee : Sessions]
    BY <1>t, <2>1 DEF DealerStep
  <2>4. ASSUME NEW p \in pending' PROVE p \in [n : Numbers, caller : Sessions, callee : Sessions]
    <3>1. CASE p \in pending
      BY <1>t, <3>1
    <3>2. CASE /\ Head(inbox[s]).type = "CALL" /\ registered \in Sessions
               /\ p = [n |-> Head(inbox[s]).n, caller |-> s, callee |-> registered]
      <4>1. Head(inbox[s]).n \in Numbers
        BY <2>1, <3>2, HeadNumber
      <4>2. QED
        BY <3>2, <4>1
    <3>3. QED
      BY <2>1, <3>1, <3>2 DEF DealerStep
  <2>5. QED
    BY <2>2, <2>3, <2>4
<1>2. CASE \E s \in Sessions : ClientSends(s) \/ ClientReceives(s) \/ DeliverStep(s) \/ SaysGoodbye(s)
  <2>1. UNCHANGED <<dealerVars, subscribed, canceled>>
    BY <1>2 DEF ClientSends, ClientReceives, DeliverStep, DeliverQueued, DeliverDropped,
       DeliverAbsent, DeliverClosed, SaysGoodbye, CloseClient, KillWrites, histVars
  <2>2. QED
    BY <1>t, <2>1 DEF dealerVars
<1>3. CASE \E s \in Sessions : OtherStep(s)
  <2>1. /\ UNCHANGED canceled /\ subscribed' \subseteq subscribed /\ pending' \subseteq pending
        /\ registered' = registered \/ registered' = None
    BY <1>3 DEF OtherStep, ClientDisconnects, Attach, AddToBroker, AddToDealer, ReadFails, Detach,
       DetachBroker, DetachDealer, DetachClose, CloseAfterGoodbye, KillCloses, RemoveFromBroker,
       RemoveFromDealer, dealerVars, histVars
  <2>2. QED
    BY <1>t, <2>1
<1>4. CASE RouterStep
  <2>1. /\ UNCHANGED canceled /\ subscribed' \subseteq subscribed /\ pending' \subseteq pending
        /\ registered' = registered \/ registered' = None
    BY <1>4 DEF RouterStep, StartClose, CloseTransport, CloseReturns, CloseDetach, CloseDetachBroker,
       CloseDetachDealer, EndClose, RemoveRealm, RemoveFromBroker, RemoveFromDealer, dealerVars, histVars
  <2>2. QED
    BY <1>t, <2>1
<1>5. QED
  BY <1>1, <1>2, <1>3, <1>4, NextCases

Places == {"new", "addBroker", "addDealer", "read", "deliver", "close", "detach", "broker", "dealer", "leave", "gone"}

\* Where a client's goroutine goes.
LEMMA PlaceType ==
  ASSUME TypeOK, Shape, Acts
  PROVE  hpc' \in [Sessions -> Places] /\ peerOpen' \in [Sessions -> BOOLEAN]
<1>t. hpc \in [Sessions -> Places] /\ peerOpen \in [Sessions -> BOOLEAN]
  BY DEF TypeOK, Places
<1>1. CASE \E s \in Sessions : Receive(s)
  <2>1. PICK s \in Sessions : Receive(s)
    BY <1>1
  <2>2. UNCHANGED peerOpen /\ \E where \in {"read", "deliver"} : hpc' = [hpc EXCEPT ![s] = where]
    BY <2>1, ReceiveFacts DEF Delivers, Deliver, Goes
  <2>3. QED
    BY <1>t, <2>2 DEF Places
<1>2. CASE \E s \in Sessions : DeliverStep(s)
  <2>1. PICK s \in Sessions : DeliverStep(s)
    BY <1>2
  <2>2. UNCHANGED peerOpen /\ \E where \in {"read", "close", "deliver"} : hpc' = [hpc EXCEPT ![s] = where]
    BY <2>1, DeliverFacts DEF HasLeft
  <2>3. QED
    BY <1>t, <2>2 DEF Places
<1>3. CASE \E s \in Sessions : OtherStep(s)
  <2>1. PICK s \in Sessions : OtherStep(s)
    BY <1>3
  <2>2. UNCHANGED hpc \/ \E where \in Places : hpc' = [hpc EXCEPT ![s] = where]
    BY <2>1 DEF OtherStep, ClientDisconnects, Attach, AddToBroker, AddToDealer, ReadFails, Detach,
       DetachBroker, DetachDealer, DetachClose, CloseAfterGoodbye, KillCloses, handlerVars, Goes, Places
  <2>3. UNCHANGED peerOpen \/ \E open \in BOOLEAN : peerOpen' = [peerOpen EXCEPT ![s] = open]
    BY <2>1 DEF OtherStep, ClientDisconnects, Attach, AddToBroker, AddToDealer, ReadFails, Detach,
       DetachBroker, DetachDealer, DetachClose, CloseAfterGoodbye, KillCloses, peerVars
  <2>4. hpc' \in [Sessions -> Places]
    BY <1>t, <2>2
  <2>5. QED
    BY <1>t, <2>3, <2>4
<1>4. CASE \/ \E s \in Sessions : ClientSends(s) \/ ClientReceives(s)
           \/ RouterStep
  BY <1>t, <1>4 DEF ClientSends, ClientReceives, RouterStep, StartClose, CloseTransport, CloseReturns,
     CloseDetach, CloseDetachBroker, CloseDetachDealer, EndClose, RemoveRealm, handlerVars, peerVars
<1>5. CASE \E s \in Sessions : SaysGoodbye(s)
  BY <1>t, <1>5 DEF SaysGoodbye, CloseClient, KillWrites, handlerVars
<1>6. QED
  BY <1>1, <1>2, <1>3, <1>4, <1>5, NextCases

\* Steps that touch no queue, no batch and no history.
LEMMA ShapeQuiet ==
  ASSUME TypeOK, Shape, UNCHANGED load,
         \/ \E s \in Sessions : OtherStep(s)
         \/ RouterStep
  PROVE  /\ Shape' /\ UNCHANGED <<inbox, outq, seen, todo, origin>>
<1>1. UNCHANGED <<inbox, outq, seen, todo, origin, sentBy>>
  <2>1. CASE \E s \in Sessions : OtherStep(s)
    BY <2>1 DEF OtherStep, ClientDisconnects, Attach, AddToBroker, AddToDealer, ReadFails, Detach,
       DetachBroker, DetachDealer, DetachClose, CloseAfterGoodbye, KillCloses, peerVars, handlerVars, clientVars
  <2>2. CASE RouterStep
    BY <2>2 DEF RouterStep, StartClose, CloseTransport, CloseReturns, CloseDetach, CloseDetachBroker,
       CloseDetachDealer, EndClose, RemoveRealm, peerVars, handlerVars, clientVars
  <2>3. QED
    BY <2>1, <2>2
<1>2. \A t \in Sessions : hpc'[t] = "deliver" <=> hpc[t] = "deliver"
  <2>t. hpc \in [Sessions -> Places]
    BY DEF TypeOK, Places
  <2>1. CASE \E s \in Sessions : OtherStep(s)
    <3>1. PICK s \in Sessions : OtherStep(s)
      BY <2>1
    <3>2. \/ UNCHANGED hpc
          \/ hpc[s] # "deliver" /\ \E where \in Places \ {"deliver"} : hpc' = [hpc EXCEPT ![s] = where]
      BY <3>1 DEF OtherStep, ClientDisconnects, Attach, AddToBroker, AddToDealer, ReadFails, Detach,
         DetachBroker, DetachDealer, DetachClose, CloseAfterGoodbye, KillCloses, handlerVars, Goes, Places
    <3>3. QED
      BY <2>t, <3>2
  <2>2. CASE RouterStep
    BY <2>2 DEF RouterStep, StartClose, CloseTransport, CloseReturns, CloseDetach, CloseDetachBroker,
       CloseDetachDealer, EndClose, RemoveRealm, handlerVars
  <2>3. QED
    BY <2>1, <2>2
<1>3. QED
  BY <1>1, <1>2 DEF Shape

\* A client sends.
LEMMA ShapeSends ==
  ASSUME TypeOK, Shape, UNCHANGED load, NEW s \in Sessions, ClientSends(s)
  PROVE  Shape'
<1>t. /\ inbox \in [Sessions -> Seq(Message)] /\ origin \in Seq(Sessions) /\ sentBy \in [Sessions -> Nat]
      /\ \A t \in Sessions : Len(inbox[t]) <= sentBy[t] /\ sentBy[t] <= load.sends[t]
      /\ Len(origin) <= load.number
  BY DEF Shape
<1>1. PICK m \in Sendable(s) :
        /\ inbox' = [inbox EXCEPT ![s] = Append(inbox[s], m)]
        /\ origin' = IF m.type \in {"CALL", "PUBLISH"} THEN Append(origin, s) ELSE origin
  BY DEF ClientSends
<1>2. /\ sentBy[s] < load.sends[s] /\ sentBy' = [sentBy EXCEPT ![s] = sentBy[s] + 1]
      /\ UNCHANGED <<outq, hpc, todo, seen>>
  BY DEF ClientSends, handlerVars
<1>3. m \in Message /\ (Fresh(m) => m.n = Len(origin) + 1 /\ m.n <= load.number)
  BY SendableFacts
<1>4. inbox' \in [Sessions -> Seq(Message)]
  BY <1>t, <1>1, <1>3
<1>5. origin' \in Seq(Sessions) /\ Len(origin') <= load.number
  BY <1>t, <1>1, <1>3 DEF Fresh
<1>6. sentBy' \in [Sessions -> Nat]
  BY <1>t, <1>2
<1>7. ASSUME NEW t \in Sessions PROVE Len(inbox'[t]) <= sentBy'[t] /\ sentBy'[t] <= load.sends[t]
  <2>1. CASE t = s
    <3>1. inbox'[s] = Append(inbox[s], m) /\ sentBy'[s] = sentBy[s] + 1
      BY <1>t, <1>1, <1>2
    <3>2. inbox[s] \in Seq(Message) /\ sentBy[s] \in Nat /\ load.sends[s] \in Nat
      BY <1>t, LoadFacts DEF TypeOK
    <3>3. QED
      BY <1>t, <1>2, <1>3, <2>1, <3>1, <3>2
  <2>2. CASE t # s
    BY <1>t, <1>1, <1>2, <2>2
  <2>3. QED
    BY <2>1, <2>2
<1>8. QED
  BY <1>2, <1>4, <1>5, <1>6, <1>7 DEF Shape

\* A queue grows or shrinks.
LEMMA ShapeQueues ==
  ASSUME TypeOK, Shape, UNCHANGED load, NEW s \in Sessions, ClientReceives(s) \/ SaysGoodbye(s)
  PROVE  /\ Shape' /\ \A t \in Sessions : Len(outq'[t]) <= OutQueueSize
<1>t. /\ outq \in [Sessions -> Seq(Message)] /\ seen \in [Sessions -> Seq(Message)]
      /\ \A t \in Sessions : Len(outq[t]) <= OutQueueSize
      /\ OutQueueSize \in Nat
  BY SizeAssumption DEF Shape, TypeOK
<1>1. UNCHANGED <<inbox, hpc, todo, origin, sentBy>>
  BY DEF ClientReceives, SaysGoodbye, CloseClient, KillWrites, handlerVars, clientVars
<1>2. CASE ClientReceives(s)
  <2>1. /\ outq[s] # <<>> /\ seen' = [seen EXCEPT ![s] = Append(seen[s], Head(outq[s]))]
        /\ outq' = [outq EXCEPT ![s] = Tail(outq[s])]
    BY <1>2 DEF ClientReceives
  <2>2. outq[s] \in Seq(Message) /\ seen[s] \in Seq(Message)
    BY <1>t
  <2>3. Head(outq[s]) \in Message /\ Tail(outq[s]) \in Seq(Message) /\ Len(Tail(outq[s])) <= Len(outq[s])
    BY <2>1, <2>2
  <2>4. outq' \in [Sessions -> Seq(Message)] /\ seen' \in [Sessions -> Seq(Message)]
    BY <1>t, <2>1, <2>2, <2>3
  <2>5. \A t \in Sessions : Len(outq'[t]) <= OutQueueSize
    <3>1. outq'[s] = Tail(outq[s]) /\ \A t \in Sessions \ {s} : outq'[t] = outq[t]
      BY <1>t, <2>1
    <3>2. Len(Tail(outq[s])) <= OutQueueSize
      BY <1>t, <2>1, <2>2
    <3>3. QED
      BY <1>t, <3>1, <3>2
  <2>6. QED
    BY <1>1, <2>4, <2>5 DEF Shape
<1>3. CASE SaysGoodbye(s)
  <2>1. /\ UNCHANGED seen
        /\ \/ UNCHANGED outq
           \/ Len(outq[s]) < OutQueueSize /\ outq' = [outq EXCEPT ![s] = Append(outq[s], Msg("GOODBYE", 0))]
    BY <1>3 DEF SaysGoodbye, CloseClient, KillWrites, Fits, Queue, clientVars
  <2>2. CASE UNCHANGED outq
    BY <1>1, <1>t, <2>1, <2>2 DEF Shape
  <2>3. CASE Len(outq[s]) < OutQueueSize /\ outq' = [outq EXCEPT ![s] = Append(outq[s], Msg("GOODBYE", 0))]
    <3>1. Msg("GOODBYE", 0) \in Message
      <4>1. "GOODBYE" \in MessageTypes /\ 0 \in Nat
        BY DEF MessageTypes, Types
      <4>2. QED
        BY <4>1, MsgFacts
    <3>2. outq' \in [Sessions -> Seq(Message)]
      BY <1>t, <2>3, <3>1
    <3>3. outq'[s] = Append(outq[s], Msg("GOODBYE", 0)) /\ \A t \in Sessions \ {s} : outq'[t] = outq[t]
      BY <1>t, <2>3
    <3>4. Len(outq'[s]) <= OutQueueSize
      BY <1>t, <2>3, <3>1, <3>3
    <3>5. QED
      BY <1>1, <1>t, <2>1, <3>2, <3>3, <3>4 DEF Shape
  <2>4. QED
    BY <2>1, <2>2, <2>3
<1>4. QED
  BY <1>2, <1>3

\* A goroutine reads.
LEMMA ShapeReceive ==
  ASSUME TypeOK, Shape, UNCHANGED load, NEW s \in Sessions, Receive(s)
  PROVE  Shape'
<1>t. /\ inbox \in [Sessions -> Seq(Message)] /\ todo \in [Sessions -> Batch] /\ hpc \in [Sessions -> Places]
      /\ \A t \in Sessions : Len(inbox[t]) <= sentBy[t]
      /\ sentBy \in [Sessions -> Nat]
  BY DEF Shape, TypeOK, Places
<1>1. /\ hpc[s] = "read" /\ inbox[s] # <<>> /\ inbox' = [inbox EXCEPT ![s] = Tail(inbox[s])]
      /\ UNCHANGED <<outq, seen, origin, sentBy>>
  BY ReceiveFacts DEF clientVars
<1>2. PICK mode \in {"call", "other", "cancel", "publish", "self", "goodbye"}, msgs \in Seq(Delivery) :
        Deliver(s, mode, msgs)
  BY ReceiveFacts DEF Delivers, Answer
<1>3. inbox[s] \in Seq(Message) /\ Tail(inbox[s]) \in Seq(Message) /\ Len(Tail(inbox[s])) <= Len(inbox[s])
  BY <1>t, <1>1
<1>4. inbox' \in [Sessions -> Seq(Message)]
  BY <1>t, <1>1, <1>3
<1>5. \A t \in Sessions : Len(inbox'[t]) <= sentBy[t]
  <2>1. inbox'[s] = Tail(inbox[s]) /\ \A t \in Sessions \ {s} : inbox'[t] = inbox[t]
    BY <1>t, <1>1
  <2>2. Len(Tail(inbox[s])) <= sentBy[s]
    BY <1>t, <1>1, <1>3
  <2>3. QED
    BY <1>t, <2>1, <2>2
<1>6. [mode |-> mode, msgs |-> msgs] \in Batch
  BY DEF Batch
<1>7. /\ todo' = [todo EXCEPT ![s] = [mode |-> mode, msgs |-> msgs]]
      /\ hpc' = [hpc EXCEPT ![s] = IF msgs = <<>> THEN "read" ELSE "deliver"]
  BY <1>2 DEF Deliver, Goes
<1>8. todo' \in [Sessions -> Batch]
  BY <1>t, <1>6, <1>7
<1>9. ASSUME NEW t \in Sessions PROVE hpc'[t] = "deliver" <=> todo'[t].msgs # <<>>
  <2>1. CASE t = s
    BY <1>t, <1>7, <2>1
  <2>2. CASE t # s
    <3>1. hpc'[t] = hpc[t] /\ todo'[t] = todo[t]
      BY <1>t, <1>7, <2>2
    <3>2. QED
      BY <3>1 DEF Shape
  <2>3. QED
    BY <2>1, <2>2
<1>10. QED
  BY <1>1, <1>4, <1>5, <1>8, <1>9 DEF Shape

\* A goroutine delivers.
LEMMA ShapeDeliver ==
  ASSUME TypeOK, Shape, UNCHANGED load, NEW s \in Sessions, DeliverStep(s)
  PROVE  Shape' /\ \A t \in Sessions : Len(outq'[t]) <= OutQueueSize
<1>t. /\ outq \in [Sessions -> Seq(Message)] /\ todo \in [Sessions -> Batch] /\ hpc \in [Sessions -> Places]
      /\ \A t \in Sessions : Len(outq[t]) <= OutQueueSize
      /\ OutQueueSize \in Nat
  BY SizeAssumption DEF Shape, TypeOK, Places
<1>1. Head(todo[s].msgs) \in Delivery /\ UNCHANGED <<inbox, origin, seen, sentBy>>
  BY DeliverFacts DEF clientVars
<1>2. PICK b \in Batch, where \in {"deliver", "close", "read"} :
        /\ todo' = [todo EXCEPT ![s] = b] /\ hpc' = [hpc EXCEPT ![s] = where]
        /\ where = "deliver" <=> b.msgs # <<>>
  BY DeliverFacts DEF HasLeft
<1>3. todo' \in [Sessions -> Batch]
  BY <1>t, <1>2
<1>4. ASSUME NEW t \in Sessions PROVE hpc'[t] = "deliver" <=> todo'[t].msgs # <<>>
  <2>1. CASE t = s
    BY <1>t, <1>2, <2>1
  <2>2. CASE t # s
    <3>1. hpc'[t] = hpc[t] /\ todo'[t] = todo[t]
      BY <1>t, <1>2, <2>2
    <3>2. QED
      BY <3>1 DEF Shape
  <2>3. QED
    BY <2>1, <2>2
<1>5. outq' \in [Sessions -> Seq(Message)] /\ \A t \in Sessions : Len(outq'[t]) <= OutQueueSize
  <2>1. CASE UNCHANGED outq
    BY <1>t, <2>1
  <2>2. CASE ~UNCHANGED outq
    <3>1. PICK d \in Delivery : /\ Len(outq[d.to]) < OutQueueSize
                                /\ outq' = [outq EXCEPT ![d.to] = Append(outq[d.to], d.msg)]
      BY <1>1, <2>2, DeliverFacts
    <3>2. d.to \in Sessions /\ d.msg \in Message
      BY DEF Delivery
    <3>3. outq' \in [Sessions -> Seq(Message)]
      BY <1>t, <3>1, <3>2
    <3>4. outq'[d.to] = Append(outq[d.to], d.msg) /\ \A t \in Sessions \ {d.to} : outq'[t] = outq[t]
      BY <1>t, <3>1, <3>2
    <3>5. Len(outq'[d.to]) <= OutQueueSize
      BY <1>t, <3>1, <3>2, <3>4
    <3>6. QED
      BY <1>t, <3>3, <3>4, <3>5
  <2>3. QED
    BY <2>1, <2>2
<1>6. QED
  BY <1>1, <1>3, <1>4, <1>5 DEF Shape

\* Where killSession is.
KillerPlaces == {"idle", "write", "parked", "locked", "close", "done"}

\* Every step keeps it there.
LEMMA KillerType ==
  ASSUME TypeOK, Next
  PROVE  killer' \in [Sessions -> KillerPlaces]
<1>t. killer \in [Sessions -> KillerPlaces]
  BY DEF TypeOK, KillerPlaces
<1>1. CASE UNCHANGED killer
  BY <1>t, <1>1
<1>2. CASE \E s \in Sessions : Kill(s)
  <2>1. PICK s \in Sessions : Kill(s)
    BY <1>2
  <2>2. \E where \in KillerPlaces : killer' = [killer EXCEPT ![s] = where]
    BY <2>1 DEF Kill, KillFinds, KillFails, KillWaits, KillWrites, KillCloses, KillGoes, KillerPlaces
  <2>3. QED
    BY <1>t, <2>2
<1>3. QED
  BY <1>1, <1>2 DEF Next

\* Every step keeps the types.
LEMMA TypeInv ==
  ASSUME TypeOK, Shape, InboxInv, Acts, killer' \in [Sessions -> KillerPlaces]
  PROVE  TypeOK' /\ Shape'
<1>1. UNCHANGED load
  BY NextCases
<1>2. Shape'
  BY <1>1, NextCases, ShapeQuiet, ShapeSends, ShapeQueues, ShapeReceive, ShapeDeliver
<1>3. \A t \in Sessions : Len(outq'[t]) <= OutQueueSize
  <2>1. CASE UNCHANGED outq
    BY <2>1 DEF TypeOK
  <2>2. CASE \E s \in Sessions : ClientReceives(s) \/ SaysGoodbye(s) \/ DeliverStep(s)
    BY <1>1, <2>2, ShapeQueues, ShapeDeliver
  <2>3. ASSUME NEW s \in Sessions, ClientSends(s) \/ Receive(s)
        PROVE  UNCHANGED outq
    BY <2>3 DEF ClientSends, Receive
  <2>4. QED
    BY <1>1, <2>1, <2>2, <2>3, NextCases, ShapeQuiet
<1>4. \A t \in Sessions : Len(inbox'[t]) <= load'.sends[t]
  <2>1. ASSUME NEW t \in Sessions PROVE Len(inbox'[t]) <= load'.sends[t]
    <3>1. /\ Len(inbox'[t]) <= sentBy'[t] /\ sentBy'[t] <= load'.sends[t] /\ sentBy'[t] \in Nat
          /\ inbox'[t] \in Seq(Message)
      BY <1>2 DEF Shape
    <3>2. load'.sends[t] \in Nat /\ Len(inbox'[t]) \in Nat
      BY <1>1, <3>1, LoadFacts DEF TypeOK
    <3>3. QED
      BY <3>1, <3>2
  <2>2. QED
    BY <2>1
<1>5. Numbers' = Numbers
  BY <1>1 DEF Numbers
<1>6. QED
  BY <1>2, <1>3, <1>4, <1>5, TableType, DealerType, PlaceType DEF TypeOK, Places, KillerPlaces

-----------------------------------------------------------------------------
(* Attach, detach and Router.Close                                         *)

\* The router knows the realm and nobody is closing it.
Serving == known /\ closer = "idle"

\* A client that is attaching, attached or detaching is where its goroutine put it, as long as
\* the realm is served or the router has not closed its transport: only Realm.Close, which
\* closes the transport first, takes it away. And its goroutine leaves nothing behind.
Place(s) ==
  /\ hpc[s] = "new" => s \notin clients \cup toClose
  /\ Serving \/ peerOpen[s] =>
       /\ hpc[s] \in {"addBroker", "addDealer", "read", "deliver", "close", "detach"} => s \in clients
       /\ hpc[s] \in {"addDealer", "read", "deliver", "close", "detach", "broker"} => s \in brokerHas
       /\ hpc[s] \in {"read", "deliver", "close", "detach", "broker", "dealer"} => s \in dealerHas
       /\ hpc[s] = "gone" => s \in clients \/ s \notin toClose
  /\ Serving =>
       /\ hpc[s] \in {"broker", "dealer", "leave", "gone"} => s \notin clients
       /\ hpc[s] \in {"new", "addBroker", "dealer", "leave", "gone"} => s \notin brokerHas \cup subscribed
       /\ hpc[s] \in {"new", "addBroker", "addDealer", "leave", "gone"} => s \notin dealerHas /\ registered # s

\* Realm.Close is at a client whose transport it has closed; in the end none is left.
Closing ==
  /\ closer = "idle" => toClose = {}
  /\ closer \in {"close", "wait", "detach", "broker", "dealer"} => atClient \in Sessions
  /\ closer \in {"wait", "detach", "broker", "dealer"} => ~peerOpen[atClient]
  /\ closer = "done" => toClose \cap clients = {}

\* What others do to a client in passing.
Same(t) ==
  /\ hpc'[t] = hpc[t] /\ (peerOpen'[t] => peerOpen[t])
  /\ (t \in clients' <=> t \in clients) /\ (t \in brokerHas' <=> t \in brokerHas)
  /\ (t \in dealerHas' <=> t \in dealerHas) /\ (t \in toClose' <=> t \in toClose)
  /\ (t \in subscribed' => t \in subscribed) /\ (registered' = t => registered = t)

\* A client to whom nothing happens stays in its place.
LEMMA PlaceSame ==
  ASSUME NEW t \in Sessions, Place(t), Same(t), Serving' => Serving
  PROVE  Place(t)'
BY DEF Place, Same

\* A step of the client's own goroutine, or of the client itself.
LEMMA PlaceOther ==
  ASSUME TypeOK, Closing, NEW s \in Sessions, Place(s), OtherStep(s)
  PROVE  Place(s)' /\ (Serving' <=> Serving) /\ \A t \in Sessions \ {s} : Same(t)
<1>t. hpc \in [Sessions -> Places] /\ peerOpen \in [Sessions -> BOOLEAN]
  BY DEF TypeOK, Places
<1>r. UNCHANGED routerVars
  BY DEF OtherStep, ClientDisconnects, Attach, AddToBroker, AddToDealer, ReadFails, Detach,
     DetachBroker, DetachDealer, DetachClose, CloseAfterGoodbye, KillCloses
<1>s. (Serving' <=> Serving) /\ UNCHANGED <<toClose, known>>
  BY <1>r DEF Serving, routerVars
<1>1. CASE ClientDisconnects(s) \/ DetachClose(s) \/ CloseAfterGoodbye(s) \/ KillCloses(s)
  <2>1. UNCHANGED <<clients, brokerHas, dealerHas, subscribed, registered>> /\ peerOpen' = [peerOpen EXCEPT ![s] = FALSE]
    BY <1>1 DEF ClientDisconnects, DetachClose, CloseAfterGoodbye, KillCloses, tableVars, dealerVars
  <2>2. \/ hpc' = hpc
        \/ hpc[s] = "close" /\ hpc' = [hpc EXCEPT ![s] = "read"]
        \/ hpc[s] = "leave" /\ hpc' = [hpc EXCEPT ![s] = "gone"]
    BY <1>1 DEF ClientDisconnects, DetachClose, CloseAfterGoodbye, KillCloses, handlerVars, Goes
  <2>3. Serving => toClose' = {}
    BY <1>s DEF Closing, Serving
  <2>4. QED
    BY <1>t, <1>s, <2>1, <2>2, <2>3 DEF Place, Same
<1>2. CASE Attach(s)
  <2>1. /\ UNCHANGED <<brokerHas, dealerHas, subscribed, registered, peerOpen>> /\ hpc[s] = "new"
        /\ hpc' = [hpc EXCEPT ![s] = IF known THEN "addBroker" ELSE "gone"]
        /\ clients' = IF known THEN clients \cup {s} ELSE clients
    BY <1>2 DEF Attach, dealerVars, peerVars, Goes
  <2>2. QED
    BY <1>t, <1>s, <2>1 DEF Place, Same, Serving
<1>3. CASE AddToBroker(s) \/ AddToDealer(s)
  <2>1. CASE AddToBroker(s)
    <3>1. /\ UNCHANGED <<clients, dealerHas, subscribed, registered, peerOpen>> /\ hpc[s] = "addBroker"
          /\ hpc' = [hpc EXCEPT ![s] = "addDealer"] /\ brokerHas' = brokerHas \cup {s}
      BY <2>1 DEF AddToBroker, dealerVars, peerVars, Goes
    <3>2. QED
      BY <1>t, <1>s, <3>1 DEF Place, Same
  <2>2. CASE AddToDealer(s)
    <3>1. /\ UNCHANGED <<clients, brokerHas, subscribed, registered, peerOpen>> /\ hpc[s] = "addDealer"
          /\ hpc' = [hpc EXCEPT ![s] = "read"] /\ dealerHas' = dealerHas \cup {s}
      BY <2>2 DEF AddToDealer, dealerVars, peerVars, Goes
    <3>2. QED
      BY <1>t, <1>s, <3>1 DEF Place, Same
  <2>3. QED
    BY <1>3, <2>1, <2>2
<1>4. CASE ReadFails(s)
  <2>1. /\ UNCHANGED <<clients, brokerHas, dealerHas, subscribed, registered, peerOpen>> /\ hpc[s] = "read"
        /\ hpc' = [hpc EXCEPT ![s] = IF known THEN "detach" ELSE "gone"]
    BY <1>4 DEF ReadFails, tableVars, dealerVars, peerVars, Goes
  <2>2. QED
    BY <1>t, <1>s, <2>1 DEF Place, Same, Serving
<1>5. CASE Detach(s)
  <2>1. /\ UNCHANGED <<brokerHas, dealerHas, subscribed, registered, peerOpen>> /\ hpc[s] = "detach"
        /\ hpc' = [hpc EXCEPT ![s] = "broker"] /\ clients' = clients \ {s}
    BY <1>5 DEF Detach, dealerVars, peerVars, Goes
  <2>2. QED
    BY <1>t, <1>s, <2>1 DEF Place, Same
<1>6. CASE DetachBroker(s)
  <2>1. /\ UNCHANGED <<clients, dealerHas, registered, peerOpen>> /\ hpc[s] = "broker"
        /\ hpc' = [hpc EXCEPT ![s] = IF s \in brokerHas THEN "dealer" ELSE "gone"]
        /\ brokerHas' = brokerHas \ {s} /\ subscribed' = subscribed \ {s}
    BY <1>6 DEF DetachBroker, RemoveFromBroker, dealerVars, peerVars, Goes
  <2>2. QED
    BY <1>t, <1>s, <2>1 DEF Place, Same
<1>7. CASE DetachDealer(s)
  <2>1. /\ UNCHANGED <<clients, brokerHas, subscribed, peerOpen>> /\ hpc[s] = "dealer"
        /\ hpc' = [hpc EXCEPT ![s] = IF s \in dealerHas THEN "leave" ELSE "gone"]
        /\ dealerHas' = dealerHas \ {s}
        /\ registered' = IF registered = s THEN None ELSE registered
    BY <1>7 DEF DetachDealer, RemoveFromDealer, Goes, peerVars
  <2>2. None \notin Sessions
    BY LoadAssumption
  <2>3. \A t \in Sessions \ {s} : Same(t)
    BY <1>t, <1>s, <2>1, <2>2 DEF Same
  <2>4. hpc'[s] = IF s \in dealerHas THEN "leave" ELSE "gone"
    BY <1>t, <2>1
  <2>5. registered' # s /\ s \notin dealerHas'
    BY <2>1, <2>2
  <2>6. Serving => toClose' = {}
    BY <1>s DEF Closing, Serving
  <2>7. Place(s)'
    BY <1>s, <2>1, <2>4, <2>5, <2>6 DEF Place
  <2>8. QED
    BY <1>s, <2>3, <2>7
<1>8. QED
  BY <1>1, <1>2, <1>3, <1>4, <1>5, <1>6, <1>7 DEF OtherStep

\* Reading and delivering change the place of nobody, except that the reader may become the
\* callee or a subscriber.
LEMMA PlaceServe ==
  ASSUME TypeOK, Shape, NEW s \in Sessions, Place(s),
         ClientSends(s) \/ ClientReceives(s) \/ Receive(s) \/ DeliverStep(s)
  PROVE  Place(s)' /\ (Serving' <=> Serving) /\ \A t \in Sessions \ {s} : Same(t)
<1>t. hpc \in [Sessions -> Places]
  BY DEF TypeOK, Places
<1>1. CASE ClientSends(s) \/ ClientReceives(s)
  <2>1. UNCHANGED <<hpc, peerOpen, clients, brokerHas, dealerHas, toClose, subscribed, registered, known, closer>>
    BY <1>1 DEF ClientSends, ClientReceives, tableVars, dealerVars, handlerVars, routerVars
  <2>2. QED
    BY <2>1, PlaceSame DEF Same, Serving
<1>2. CASE Receive(s) \/ DeliverStep(s)
  <2>1. UNCHANGED <<peerOpen, clients, brokerHas, dealerHas, toClose, known, closer>>
    <3>1. UNCHANGED <<tableVars, peerOpen, routerVars>>
      BY <1>2, ReceiveFacts, DeliverFacts
    <3>2. QED
      BY <3>1 DEF tableVars, routerVars
  <2>2. \E where \in {"read", "deliver", "close"} : hpc' = [hpc EXCEPT ![s] = where]
    <3>1. CASE Receive(s)
      BY <3>1, ReceiveFacts DEF Delivers, Deliver, Goes
    <3>2. CASE DeliverStep(s)
      BY <3>2, DeliverFacts DEF HasLeft
    <3>3. QED
      BY <1>2, <3>1, <3>2
  <2>3. hpc[s] \in {"read", "deliver"}
    BY <1>2, ReceiveFacts, DeliverFacts
  <2>4. \A t \in Sessions \ {s} : (t \in subscribed' => t \in subscribed) /\ (registered' = t => registered = t)
    <3>1. CASE Receive(s)
      <4>1. DealerStep(s, Head(inbox[s])) /\ BrokerStep(s)
        BY <3>1, ReceiveFacts
      <4>2. QED
        BY <4>1, LoadAssumption DEF DealerStep, BrokerStep
    <3>2. CASE DeliverStep(s)
      BY <3>2, DeliverFacts DEF dealerVars
    <3>3. QED
      BY <1>2, <3>1, <3>2
  <2>5. hpc'[s] \in {"read", "deliver", "close"} /\ \A t \in Sessions \ {s} : hpc'[t] = hpc[t]
    BY <1>t, <2>2
  <2>6. Place(s)'
    BY <2>1, <2>3, <2>5 DEF Place, Serving
  <2>7. QED
    BY <2>1, <2>4, <2>5, <2>6 DEF Same, Serving
<1>3. QED
  BY <1>1, <1>2

\* Router.Close takes away only clients whose transport it has closed.
LEMMA PlaceRouter ==
  ASSUME TypeOK, Closing, NEW t \in Sessions, Place(t),
         \/ \E s \in Sessions : SaysGoodbye(s)
         \/ RouterStep
  PROVE  Place(t)'
<1>t. peerOpen \in [Sessions -> BOOLEAN]
  BY DEF TypeOK
<1>1. CASE \E s \in Sessions : SaysGoodbye(s)
  <2>1. PICK s \in Sessions : SaysGoodbye(s)
    BY <1>1
  <2>2. /\ UNCHANGED <<hpc, peerOpen, clients, brokerHas, dealerHas, toClose, subscribed, registered>>
        /\ (closer' = "close" \/ UNCHANGED closer) /\ UNCHANGED known
    BY <2>1 DEF SaysGoodbye, CloseClient, KillWrites, tableVars, dealerVars, handlerVars, routerVars
  <2>3. QED
    BY <1>t, <2>2, PlaceSame DEF Same, Serving
<1>2. CASE StartClose
  <2>1. /\ UNCHANGED <<hpc, peerOpen, clients, brokerHas, dealerHas, subscribed, registered>>
        /\ closer = "idle" /\ known /\ closer' = "range" /\ toClose' = clients
    BY <1>2 DEF StartClose, tableVars, dealerVars, handlerVars, peerVars
  <2>2. QED
    BY <2>1 DEF Place, Serving
<1>3. CASE CloseDetach \/ CloseDetachBroker \/ CloseDetachDealer
  <2>1. /\ UNCHANGED <<hpc, peerOpen, toClose>> /\ closer # "idle" /\ closer' # "idle"
        /\ atClient \in Sessions /\ ~peerOpen[atClient]
        /\ clients' \in {clients, clients \ {atClient}}
        /\ brokerHas' \in {brokerHas, brokerHas \ {atClient}}
        /\ dealerHas' \in {dealerHas, dealerHas \ {atClient}}
    BY <1>3 DEF CloseDetach, CloseDetachBroker, CloseDetachDealer, RemoveFromBroker, RemoveFromDealer, tableVars,
       handlerVars, peerVars, Closing
  <2>2. peerOpen'[t] => /\ (t \in clients' <=> t \in clients) /\ (t \in brokerHas' <=> t \in brokerHas)
                        /\ (t \in dealerHas' <=> t \in dealerHas)
    BY <2>1
  <2>3. QED
    BY <2>1, <2>2 DEF Place, Serving
<1>4. CASE CloseTransport \/ CloseReturns
  <2>1. /\ UNCHANGED <<hpc, clients, brokerHas, dealerHas, toClose, subscribed, registered>> /\ closer' # "idle"
        /\ UNCHANGED peerOpen \/ peerOpen' = [peerOpen EXCEPT ![atClient] = FALSE]
    BY <1>4 DEF CloseTransport, CloseReturns, tableVars, dealerVars, handlerVars, peerVars
  <2>2. QED
    BY <1>t, <2>1, PlaceSame DEF Same, Serving
<1>5. CASE EndClose \/ RemoveRealm
  <2>1. /\ UNCHANGED <<hpc, peerOpen, clients, brokerHas, dealerHas, toClose, subscribed, registered>> /\ ~known'
    BY <1>5 DEF EndClose, RemoveRealm, tableVars, dealerVars, handlerVars, peerVars
  <2>2. QED
    BY <2>1, PlaceSame DEF Same, Serving
<1>6. QED
  BY <1>1, <1>2, <1>3, <1>4, <1>5 DEF RouterStep

\* Every step keeps every client in its place.
LEMMA PlaceInv ==
  ASSUME TypeOK, Shape, Closing, \A s \in Sessions : Place(s), Acts
  PROVE  \A s \in Sessions : Place(s)'
<1>1. CASE \E s \in Sessions : ClientSends(s) \/ ClientReceives(s) \/ Receive(s) \/ DeliverStep(s) \/ OtherStep(s)
  <2>1. PICK s \in Sessions : ClientSends(s) \/ ClientReceives(s) \/ Receive(s) \/ DeliverStep(s) \/ OtherStep(s)
    BY <1>1
  <2>2. Place(s)' /\ (Serving' <=> Serving) /\ \A t \in Sessions \ {s} : Same(t)
    BY <2>1, PlaceOther, PlaceServe
  <2>3. QED
    BY <2>2, PlaceSame
<1>2. CASE \/ \E s \in Sessions : SaysGoodbye(s)
           \/ RouterStep
  BY <1>2, PlaceRouter
<1>3. QED
  BY <1>1, <1>2, NextCases

\* Every step keeps what is said of Realm.Close.
LEMMA ClosingInv ==
  ASSUME TypeOK, Shape, Closing, \A s \in Sessions : Place(s), Acts
  PROVE  Closing'
<1>t. peerOpen \in [Sessions -> BOOLEAN] /\ toClose \subseteq Sessions
  BY DEF TypeOK
<1>1. ASSUME NEW s \in Sessions, ClientSends(s) \/ ClientReceives(s) \/ Receive(s) \/ DeliverStep(s) \/ OtherStep(s)
      PROVE  Closing'
  <2>1. UNCHANGED <<closer, atClient, toClose>>
    <3>1. UNCHANGED routerVars
      BY <1>1 DEF ClientSends, ClientReceives, Receive, DeliverStep, DeliverQueued, DeliverDropped, DeliverAbsent,
         DeliverClosed, OtherStep, ClientDisconnects, Attach, AddToBroker, AddToDealer, ReadFails, Detach,
         DetachBroker, DetachDealer, DetachClose, CloseAfterGoodbye, KillCloses
    <3>2. QED
      BY <3>1 DEF routerVars
  <2>2. \A t \in Sessions : peerOpen'[t] => peerOpen[t]
    <3>1. CASE OtherStep(s)
      <4>1. peerOpen' = peerOpen \/ peerOpen' = [peerOpen EXCEPT ![s] = FALSE]
        BY <3>1 DEF OtherStep, ClientDisconnects, Attach, AddToBroker, AddToDealer, ReadFails, Detach,
           DetachBroker, DetachDealer, DetachClose, CloseAfterGoodbye, KillCloses, peerVars
      <4>2. QED
        BY <1>t, <4>1
    <3>2. CASE ~OtherStep(s)
      BY <1>1, <3>2, ReceiveFacts, DeliverFacts DEF ClientSends, ClientReceives
    <3>3. QED
      BY <3>1, <3>2
  <2>3. clients' \subseteq clients \/ (hpc[s] = "new" /\ clients' = clients \cup {s})
    <3>1. CASE OtherStep(s)
      BY <3>1 DEF OtherStep, ClientDisconnects, Attach, AddToBroker, AddToDealer, ReadFails, Detach,
         DetachBroker, DetachDealer, DetachClose, CloseAfterGoodbye, KillCloses, tableVars
    <3>2. CASE ~OtherStep(s)
      BY <1>1, <3>2, ReceiveFacts, DeliverFacts DEF ClientSends, ClientReceives, tableVars
    <3>3. QED
      BY <3>1, <3>2
  <2>4. hpc[s] = "new" => s \notin toClose
    BY DEF Place
  <2>5. closer' = "done" => toClose' \cap clients' = {}
    BY <2>1, <2>3, <2>4 DEF Closing
  <2>6. QED
    BY <2>1, <2>2, <2>5 DEF Closing
<1>2. ASSUME NEW s \in Sessions, SaysGoodbye(s)
      PROVE  Closing'
  BY <1>t, <1>2 DEF SaysGoodbye, CloseClient, KillWrites, Closing, tableVars, routerVars
<1>3. CASE RouterStep
  BY <1>t, <1>3 DEF RouterStep, StartClose, CloseTransport, CloseReturns, CloseDetach, CloseDetachBroker,
     CloseDetachDealer, EndClose, RemoveRealm, Closing, peerVars, tableVars
<1>4. QED
  BY <1>1, <1>2, <1>3, NextCases

-----------------------------------------------------------------------------
(* The order of deliveries                                                 *)

\* Everything that was ever queued for a client.
Box(r) == seen[r] \o outq[r]

\* The goroutine of whoever made call or publication n has read it.
Passed(n) ==
  /\ n \in 1..Len(origin)
  /\ \A i \in 1..Len(inbox[origin[n]]) : Fresh(inbox[origin[n]][i]) => n < inbox[origin[n]][i].n

\* ... and is done with the INVOCATION; or with the EVENT for client r.
Settled(n) ==
  /\ Passed(n)
  /\ \A i \in 1..Len(todo[origin[n]].msgs) :
       ~(todo[origin[n]].msgs[i].msg.type = "INVOCATION" /\ todo[origin[n]].msgs[i].msg.n = n)
Told(r, n) ==
  /\ Passed(n)
  /\ \A i \in 1..Len(todo[origin[n]].msgs) :
       todo[origin[n]].msgs[i].to = r /\ todo[origin[n]].msgs[i].msg.type = "EVENT" =>
         n < todo[origin[n]].msgs[i].msg.n

\* A batch holds what follows from one message of the client, an INVOCATION alone.
BatchOK(s, d) ==
  /\ d.msg.type \in {"INVOCATION", "EVENT"} => Passed(d.msg.n) /\ origin[d.msg.n] = s
  /\ d.msg.type = "INVOCATION" => Len(todo[s].msgs) = 1
  /\ d.msg.type = "INTERRUPT" => Settled(d.msg.n)
TodoInv ==
  \A s \in Sessions :
    /\ \A i \in 1..Len(todo[s].msgs) : BatchOK(s, todo[s].msgs[i])
    /\ \A i, j \in 1..Len(todo[s].msgs) :
         i # j /\ todo[s].msgs[i].msg.type = "EVENT" /\ todo[s].msgs[j].msg.type = "EVENT" =>
           todo[s].msgs[i].to # todo[s].msgs[j].to

\* What a client was sent is settled.
BoxOK(r, m) ==
  /\ m.type \in {"INVOCATION", "INTERRUPT"} => Settled(m.n)
  /\ m.type = "EVENT" => Told(r, m.n)
BoxInv == \A r \in Sessions : \A i \in 1..Len(Box(r)) : BoxOK(r, Box(r)[i])

\* a may come before b.
Before(a, b) ==
  /\ a.type = "INTERRUPT" => ~(b.type = "INVOCATION" /\ b.n = a.n)
  /\ a.type = "EVENT" /\ b.type = "EVENT" /\ origin[a.n] = origin[b.n] => a.n < b.n
OrderInv == \A r \in Sessions : \A i, j \in 1..Len(Box(r)) : i < j => Before(Box(r)[i], Box(r)[j])

PendingInv == \A p \in pending : Passed(p.n)

QInv == InboxInv /\ TodoInv /\ BoxInv /\ OrderInv /\ PendingInv

\* A message that moves from the queue to the client; one that is queued.
LEMMA Concat ==
  ASSUME NEW a \in Seq(Message), NEW b \in Seq(Message), NEW m \in Message
  PROVE  /\ a \o b \in Seq(Message) /\ a \o Append(b, m) = Append(a \o b, m)
         /\ b # <<>> => Append(a, Head(b)) \o Tail(b) = a \o b
<1>1. a \o Append(b, m) = Append(a \o b, m)
  <2> DEFINE p == a \o Append(b, m)
             q == Append(a \o b, m)
  <2>1. p \in Seq(Message) /\ q \in Seq(Message) /\ Len(p) = Len(a) + Len(b) + 1 /\ Len(q) = Len(a) + Len(b) + 1
    OBVIOUS
  <2>2. ASSUME NEW i \in 1..(Len(a) + Len(b) + 1) PROVE p[i] = q[i]
    <3>1. CASE i <= Len(a)
      BY <3>1
    <3>2. CASE i > Len(a) /\ i <= Len(a) + Len(b)
      <4>1. i - Len(a) \in 1..Len(b)
        BY <3>2
      <4>2. q[i] = b[i - Len(a)] /\ p[i] = Append(b, m)[i - Len(a)]
        BY <3>2, <4>1
      <4>3. QED
        BY <4>1, <4>2
    <3>3. CASE i = Len(a) + Len(b) + 1
      <4>1. q[i] = m /\ p[i] = Append(b, m)[Len(b) + 1]
        BY <3>3
      <4>2. QED
        BY <4>1
    <3>4. QED
      BY <3>1, <3>2, <3>3
  <2> HIDE DEF p, q
  <2>3. p = q
    BY <2>1, <2>2
  <2>4. QED
    BY <2>3 DEF p, q
<1>2. ASSUME b # <<>> PROVE Append(a, Head(b)) \o Tail(b) = a \o b
  <2> DEFINE h == Append(a, Head(b))
             w == Tail(b)
             p == h \o w
             q == a \o b
  <2>1. /\ Head(b) \in Message /\ h \in Seq(Message) /\ w \in Seq(Message)
        /\ Len(h) = Len(a) + 1 /\ Len(w) = Len(b) - 1 /\ Len(b) \in Nat \ {0}
    BY <1>2
  <2>2. p \in Seq(Message) /\ q \in Seq(Message) /\ Len(p) = Len(a) + Len(b) /\ Len(q) = Len(a) + Len(b)
    BY <2>1
  <2>3. ASSUME NEW i \in 1..(Len(a) + Len(b)) PROVE p[i] = q[i]
    <3>1. CASE i <= Len(a)
      <4>1. p[i] = h[i] /\ h[i] = a[i] /\ q[i] = a[i]
        BY <2>1, <3>1
      <4>2. QED
        BY <4>1
    <3>2. CASE i = Len(a) + 1
      <4>1. p[i] = h[i] /\ h[i] = Head(b) /\ q[i] = b[1] /\ Head(b) = b[1]
        BY <1>2, <2>1, <3>2
      <4>2. QED
        BY <4>1
    <3>3. CASE i > Len(a) + 1
      <4>1. i - Len(h) \in 1..Len(w) /\ i - Len(a) = i - Len(h) + 1
        BY <2>1, <3>3
      <4>2. p[i] = w[i - Len(h)] /\ q[i] = b[i - Len(a)] /\ w[i - Len(h)] = b[i - Len(h) + 1]
        BY <1>2, <2>1, <3>3, <4>1
      <4>3. QED
        BY <4>1, <4>2
    <3>4. Len(a) \in Nat /\ Len(b) \in Nat
      OBVIOUS
    <3>5. i <= Len(a) \/ i = Len(a) + 1 \/ i > Len(a) + 1
      BY <3>4
    <3>6. QED
      BY <3>1, <3>2, <3>3, <3>5
  <2> HIDE DEF p, q
  <2>4. p = q
    BY <2>2, <2>3
  <2>5. QED
    BY <2>4 DEF p, q
<1>3. a \o b \in Seq(Message)
  OBVIOUS
<1>4. QED
  BY <1>1, <1>2, <1>3

\* Calls and publications keep their makers; what is new in an inbox is newer than them all;
\* and what is new in a batch is newer than what its goroutine has read before.
OriginKept == \A k \in 1..Len(origin) : k \in 1..Len(origin') /\ origin'[k] = origin[k]
InboxKept ==
  \A s \in Sessions : \A j \in 1..Len(inbox'[s]) : Fresh(inbox'[s][j]) =>
    \/ inbox'[s][j].n \in Nat /\ inbox'[s][j].n > Len(origin)
    \/ \E i \in 1..Len(inbox[s]) : inbox'[s][j] = inbox[s][i]
TodoKept ==
  \A s \in Sessions : \A j \in 1..Len(todo'[s].msgs) :
    \/ \E i \in 1..Len(todo[s].msgs) : todo'[s].msgs[j] = todo[s].msgs[i]
    \/ todo'[s].msgs[j].msg.type \notin {"INVOCATION", "EVENT"}
    \/ /\ todo'[s].msgs[j].msg.n \in Nat
       /\ \A k \in 1..Len(origin) : Passed(k) /\ origin[k] = s => k < todo'[s].msgs[j].msg.n

\* Then what is read, settled and told stays so.
LEMMA KeptFacts ==
  ASSUME Shape, OriginKept, InboxKept, TodoKept
  PROVE  /\ \A n : Passed(n) => Passed(n)'
         /\ \A n : Settled(n) => Settled(n)'
         /\ \A r, n : Told(r, n) => Told(r, n)'
<1>t. origin \in Seq(Sessions) /\ Len(origin) \in Nat
  BY DEF Shape
<1>1. ASSUME NEW n, Passed(n) PROVE Passed(n)' /\ origin'[n] = origin[n] /\ origin[n] \in Sessions /\ n \in 1..Len(origin)
  <2>1. n \in 1..Len(origin) /\ n \in 1..Len(origin') /\ origin'[n] = origin[n] /\ origin[n] \in Sessions
    BY <1>t, <1>1 DEF Passed, OriginKept
  <2>2. ASSUME NEW j \in 1..Len(inbox'[origin[n]]), Fresh(inbox'[origin[n]][j])
        PROVE  n < inbox'[origin[n]][j].n
    <3>1. CASE inbox'[origin[n]][j].n \in Nat /\ inbox'[origin[n]][j].n > Len(origin)
      BY <1>t, <2>1, <3>1
    <3>2. CASE \E i \in 1..Len(inbox[origin[n]]) : inbox'[origin[n]][j] = inbox[origin[n]][i]
      BY <1>1, <2>2, <3>2 DEF Passed
    <3>3. QED
      BY <2>1, <2>2, <3>1, <3>2 DEF InboxKept
  <2>3. QED
    BY <2>1, <2>2 DEF Passed, Fresh
<1>2. ASSUME NEW n, Settled(n) PROVE Settled(n)'
  <2>1. /\ Passed(n) /\ Passed(n)' /\ origin'[n] = origin[n] /\ origin[n] \in Sessions /\ n \in 1..Len(origin)
    BY <1>1, <1>2 DEF Settled
  <2>2. ASSUME NEW j \in 1..Len(todo'[origin[n]].msgs), todo'[origin[n]].msgs[j].msg.type = "INVOCATION",
               todo'[origin[n]].msgs[j].msg.n = n
        PROVE  FALSE
    <3>1. CASE \E i \in 1..Len(todo[origin[n]].msgs) : todo'[origin[n]].msgs[j] = todo[origin[n]].msgs[i]
      BY <1>2, <2>2, <3>1 DEF Settled
    <3>2. CASE \A k \in 1..Len(origin) : Passed(k) /\ origin[k] = origin[n] => k < todo'[origin[n]].msgs[j].msg.n
      BY <1>t, <2>1, <2>2, <3>2
    <3>3. QED
      BY <2>1, <2>2, <3>1, <3>2 DEF TodoKept
  <2>3. QED
    BY <2>1, <2>2 DEF Settled
<1>3. ASSUME NEW r, NEW n, Told(r, n) PROVE Told(r, n)'
  <2>1. /\ Passed(n) /\ Passed(n)' /\ origin'[n] = origin[n] /\ origin[n] \in Sessions /\ n \in 1..Len(origin)
    BY <1>1, <1>3 DEF Told
  <2>2. ASSUME NEW j \in 1..Len(todo'[origin[n]].msgs), todo'[origin[n]].msgs[j].msg.type = "EVENT",
               todo'[origin[n]].msgs[j].to = r
        PROVE  n < todo'[origin[n]].msgs[j].msg.n
    <3>1. CASE \E i \in 1..Len(todo[origin[n]].msgs) : todo'[origin[n]].msgs[j] = todo[origin[n]].msgs[i]
      BY <1>3, <2>2, <3>1 DEF Told
    <3>2. CASE \A k \in 1..Len(origin) : Passed(k) /\ origin[k] = origin[n] => k < todo'[origin[n]].msgs[j].msg.n
      BY <2>1, <3>2
    <3>3. QED
      BY <2>1, <2>2, <3>1, <3>2 DEF TodoKept
  <2>3. QED
    BY <2>1, <2>2 DEF Told
<1>4. QED
  BY <1>1, <1>2, <1>3

Kept == OriginKept /\ InboxKept /\ TodoKept

\* What a goroutine had to deliver before is still in order.
LEMMA BatchKept ==
  ASSUME Shape, Kept, NEW t \in Sessions, NEW d, BatchOK(t, d),
         d.msg.type = "INVOCATION" => Len(todo'[t].msgs) = Len(todo[t].msgs)
  PROVE  BatchOK(t, d)'
<1>1. Passed(d.msg.n) => Passed(d.msg.n)' /\ origin'[d.msg.n] = origin[d.msg.n]
  BY KeptFacts DEF Kept, Passed, OriginKept
<1>2. Settled(d.msg.n) => Settled(d.msg.n)'
  BY KeptFacts DEF Kept
<1>3. QED
  BY <1>1, <1>2 DEF BatchOK

\* So is what the queues hold.
LEMMA BoxKept ==
  ASSUME Shape, Kept
  PROVE  /\ \A r, m : BoxOK(r, m) => BoxOK(r, m)'
         /\ \A r, q, a, b : BoxOK(r, a) /\ BoxOK(q, b) /\ Before(a, b) => Before(a, b)'
<1>1. /\ \A n : Settled(n) => Settled(n)'
      /\ \A r, n : Told(r, n) => Told(r, n)'
      /\ \A n : Passed(n) => origin'[n] = origin[n]
  BY KeptFacts DEF Kept, Passed, OriginKept
<1>2. \A r, m : BoxOK(r, m) => BoxOK(r, m)'
  BY <1>1 DEF BoxOK
<1>3. \A r, m : BoxOK(r, m) /\ m.type = "EVENT" => origin'[m.n] = origin[m.n]
  BY <1>1 DEF BoxOK, Told
<1>4. \A r, q, a, b : BoxOK(r, a) /\ BoxOK(q, b) /\ Before(a, b) => Before(a, b)'
  BY <1>3 DEF Before
<1>5. QED
  BY <1>2, <1>4

\* A step that queues nothing.
LEMMA BoxSame ==
  ASSUME Shape, Kept, BoxInv, OrderInv, \A r \in Sessions : Box(r)' = Box(r)
  PROVE  BoxInv' /\ OrderInv'
<1>1. BoxInv'
  BY BoxKept DEF BoxInv
<1>2. ASSUME NEW r \in Sessions, NEW i \in 1..Len(Box(r)), NEW j \in 1..Len(Box(r)), i < j
      PROVE  Before(Box(r)[i], Box(r)[j])'
  <2>1. BoxOK(r, Box(r)[i]) /\ BoxOK(r, Box(r)[j]) /\ Before(Box(r)[i], Box(r)[j])
    BY <1>2 DEF BoxInv, OrderInv
  <2> DEFINE a == Box(r)[i]
             b == Box(r)[j]
  <2>2. (Box(r)[i])' = a /\ (Box(r)[j])' = b
    OBVIOUS
  <2> HIDE DEF a, b
  <2>3. QED
    BY <2>1, <2>2, BoxKept DEF a, b, Before
<1>3. QED
  BY <1>1, <1>2 DEF OrderInv

\* A step that queues one message for one client.
LEMMA BoxGrows ==
  ASSUME Shape, Kept, UNCHANGED origin, BoxInv, OrderInv, NEW r \in Sessions, NEW m \in Message,
         Box(r)' = Append(Box(r), m), \A t \in Sessions \ {r} : Box(t)' = Box(t),
         BoxOK(r, m)', \A i \in 1..Len(Box(r)) : Before(Box(r)[i], m)
  PROVE  BoxInv' /\ OrderInv'
<1>t. \A t \in Sessions : Box(t) \in Seq(Message)
  BY DEF Shape, Box
<1>1. /\ Box(r) \in Seq(Message) /\ Len(Box(r)') = Len(Box(r)) + 1 /\ Len(Box(r)) \in Nat
      /\ Box(r)'[Len(Box(r)) + 1] = m
      /\ \A i \in 1..Len(Box(r)) : Box(r)'[i] = Box(r)[i]
  BY <1>t
<1>2. ASSUME NEW t \in Sessions, NEW i \in 1..Len(Box(t))
      PROVE  BoxOK(t, Box(t)[i]) /\ \E x : x = Box(t)[i] /\ x = Box(t)'[i] /\ BoxOK(t, x)'
  <2>1. PICK x : x = Box(t)[i]
    OBVIOUS
  <2>2. x = Box(t)'[i]
    BY <1>1, <2>1
  <2>3. BoxOK(t, x)
    BY <2>1 DEF BoxInv
  <2>4. BoxOK(t, x)'
    BY <2>3, BoxKept
  <2>5. QED
    BY <2>1, <2>2, <2>3, <2>4
<1>3. ASSUME NEW t \in Sessions, NEW i \in 1..Len(Box(t)')
      PROVE  BoxOK(t, Box(t)[i])'
  <2>1. CASE i \in 1..Len(Box(t))
    BY <1>2, <2>1
  <2>2. CASE i \notin 1..Len(Box(t))
    <3>1. t = r /\ i = Len(Box(r)) + 1
      BY <1>1, <2>2
    <3>2. QED
      BY <1>1, <3>1
  <2>3. QED
    BY <2>1, <2>2
<1>4. ASSUME NEW t \in Sessions, NEW i \in 1..Len(Box(t)'), NEW j \in 1..Len(Box(t)'), i < j
      PROVE  Before(Box(t)[i], Box(t)[j])'
  <2>i. i \in 1..Len(Box(t))
    <3>1. CASE t = r
      BY <1>1, <1>4, <3>1
    <3>2. CASE t # r
      BY <3>2
    <3>3. QED
      BY <3>1, <3>2
  <2>1. PICK a : a = Box(t)[i] /\ a = Box(t)'[i] /\ BoxOK(t, a)'
    BY <1>2, <2>i
  <2>a. BoxOK(t, a)
    BY <1>2, <2>i, <2>1
  <2>2. CASE j \in 1..Len(Box(t))
    <3>1. PICK b : b = Box(t)[j] /\ b = Box(t)'[j]
      BY <1>2, <2>2
    <3>2. BoxOK(t, b)
      BY <1>2, <2>2, <3>1
    <3>3. Before(a, b)
      BY <1>4, <2>i, <2>1, <2>2, <3>1 DEF OrderInv
    <3>4. Before(a, b)'
      BY <2>a, <3>2, <3>3, BoxKept
    <3>5. QED
      BY <2>1, <3>1, <3>4
  <2>3. CASE j \notin 1..Len(Box(t))
    <3>1. t = r /\ j = Len(Box(r)) + 1
      BY <1>1, <2>3
    <3>2. Before(a, m)
      BY <2>i, <2>1, <3>1
    <3>3. Before(a, m)'
      BY <3>2 DEF Before
    <3>4. Box(t)'[j] = m
      BY <1>1, <3>1
    <3>5. QED
      BY <2>1, <3>3, <3>4
  <2>4. QED
    BY <2>2, <2>3
<1>5. QED
  BY <1>3, <1>4 DEF BoxInv, OrderInv

\* Steps that touch no queue.
LEMMA OrderQuiet ==
  ASSUME QInv, UNCHANGED <<inbox, outq, seen, todo, origin>>, pending' \subseteq pending
  PROVE  QInv'
<1>1. \A n : (Passed(n)' <=> Passed(n)) /\ (Settled(n)' <=> Settled(n))
  BY DEF Settled, Passed
<1>2. \A r, n : Told(r, n)' <=> Told(r, n)
  BY DEF Told, Passed
<1>3. InboxInv' /\ PendingInv'
  BY <1>1 DEF QInv, InboxInv, PendingInv
<1>4. TodoInv'
  BY <1>1 DEF QInv, TodoInv, BatchOK
<1>5. \A r \in Sessions : Box(r)' = Box(r)
  BY DEF Box
<1>6. BoxInv' /\ OrderInv'
  BY <1>1, <1>2, <1>5 DEF QInv, BoxInv, BoxOK, OrderInv, Before
<1>7. QED
  BY <1>3, <1>4, <1>6 DEF QInv

\* A client sends.
LEMMA OrderSends ==
  ASSUME TypeOK, Shape, QInv, NEW s \in Sessions, ClientSends(s)
  PROVE  QInv' /\ Kept
<1>t. inbox \in [Sessions -> Seq(Message)] /\ origin \in Seq(Sessions) /\ Len(origin) \in Nat
  BY DEF Shape
<1>1. PICK m \in Sendable(s) :
        /\ inbox' = [inbox EXCEPT ![s] = Append(inbox[s], m)]
        /\ origin' = IF m.type \in {"CALL", "PUBLISH"} THEN Append(origin, s) ELSE origin
  BY DEF ClientSends
<1>2. UNCHANGED <<outq, todo, seen, pending>>
  BY DEF ClientSends, handlerVars, dealerVars
<1>3. /\ m \in Message
      /\ Fresh(m) => m.n = Len(origin) + 1
      /\ m.type = "CANCEL" => m.n \in 1..Len(origin) /\ origin[m.n] = s
      /\ m.type \in {"YIELD", "PROGRESS", "ERROR"} => \E i \in 1..Len(seen[s]) : seen[s][i] = Msg("INVOCATION", m.n)
  BY SendableFacts
<1>4. OriginKept /\ Len(origin') >= Len(origin) /\ (Fresh(m) => m.n \in 1..Len(origin') /\ origin'[m.n] = s)
  <2>1. CASE Fresh(m)
    <3>1. origin' = Append(origin, s)
      BY <1>1, <2>1 DEF Fresh
    <3>2. QED
      BY <1>t, <1>3, <2>1, <3>1 DEF OriginKept
  <2>2. CASE ~Fresh(m)
    <3>1. origin' = origin
      BY <1>1, <2>2 DEF Fresh
    <3>2. QED
      BY <1>t, <2>2, <3>1 DEF OriginKept
  <2>3. QED
    BY <2>1, <2>2
<1>5. /\ inbox'[s] = Append(inbox[s], m) /\ \A t \in Sessions \ {s} : inbox'[t] = inbox[t]
      /\ Len(inbox'[s]) = Len(inbox[s]) + 1 /\ Len(inbox[s]) \in Nat
      /\ \A i \in 1..Len(inbox[s]) : inbox'[s][i] = inbox[s][i]
      /\ inbox'[s][Len(inbox[s]) + 1] = m
  <2>1. inbox'[s] = Append(inbox[s], m) /\ \A t \in Sessions \ {s} : inbox'[t] = inbox[t]
    BY <1>t, <1>1
  <2>2. inbox[s] \in Seq(Message)
    BY <1>t
  <2>3. QED
    BY <1>3, <2>1, <2>2
<1>6. \A t \in Sessions : \A j \in 1..Len(inbox'[t]) :
        \/ j \in 1..Len(inbox[t]) /\ inbox'[t][j] = inbox[t][j]
        \/ t = s /\ j = Len(inbox[s]) + 1 /\ inbox'[t][j] = m
  BY <1>5
<1>7. InboxKept
  BY <1>t, <1>3, <1>6 DEF InboxKept
<1>8. TodoKept
  BY <1>2 DEF TodoKept
<1>9. Kept
  BY <1>4, <1>7, <1>8 DEF Kept
<1>10. InboxInv'
  <2>1. ASSUME NEW t \in Sessions, NEW i \in 1..Len(inbox'[t])
        PROVE  /\ Fresh(inbox'[t][i]) \/ inbox'[t][i].type = "CANCEL" =>
                    inbox'[t][i].n \in 1..Len(origin') /\ origin'[inbox'[t][i].n] = t
               /\ inbox'[t][i].type \in {"YIELD", "PROGRESS", "ERROR"} =>
                    \E k \in 1..Len(seen'[t]) : seen'[t][k] = Msg("INVOCATION", inbox'[t][i].n)
    <3>1. CASE i \in 1..Len(inbox[t]) /\ inbox'[t][i] = inbox[t][i]
      <4>1. Fresh(inbox[t][i]) \/ inbox[t][i].type = "CANCEL" =>
              inbox[t][i].n \in 1..Len(origin) /\ origin[inbox[t][i].n] = t
        BY <3>1 DEF QInv, InboxInv
      <4>2. inbox[t][i].type \in {"YIELD", "PROGRESS", "ERROR"} =>
              \E k \in 1..Len(seen[t]) : seen[t][k] = Msg("INVOCATION", inbox[t][i].n)
        BY <3>1 DEF QInv, InboxInv
      <4>3. QED
        BY <1>2, <1>4, <3>1, <4>1, <4>2 DEF OriginKept
    <3>2. CASE t = s /\ inbox'[t][i] = m
      BY <1>2, <1>3, <1>4, <3>2 DEF OriginKept
    <3>3. QED
      BY <1>6, <3>1, <3>2
  <2>2. ASSUME NEW t \in Sessions, NEW i \in 1..Len(inbox'[t]), NEW j \in 1..Len(inbox'[t]), i < j,
               Fresh(inbox'[t][i]), Fresh(inbox'[t][j])
        PROVE  inbox'[t][i].n < inbox'[t][j].n
    <3>1. i \in 1..Len(inbox[t]) /\ inbox'[t][i] = inbox[t][i]
      BY <1>5, <1>6, <2>2
    <3>2. CASE j \in 1..Len(inbox[t]) /\ inbox'[t][j] = inbox[t][j]
      BY <2>2, <3>1, <3>2 DEF QInv, InboxInv
    <3>3. CASE t = s /\ inbox'[t][j] = m
      <4>1. inbox[t][i].n \in 1..Len(origin)
        BY <2>2, <3>1 DEF QInv, InboxInv
      <4>2. QED
        BY <1>t, <1>3, <2>2, <3>1, <3>3, <4>1
    <3>4. QED
      BY <1>6, <3>2, <3>3
  <2>3. QED
    BY <2>1, <2>2 DEF InboxInv, Fresh
<1>11. PendingInv'
  BY <1>2, <1>9, KeptFacts DEF QInv, PendingInv, Kept
<1>12. TodoInv'
  <2>1. ASSUME NEW t \in Sessions, NEW i \in 1..Len(todo[t].msgs), NEW d, d = todo[t].msgs[i]
        PROVE  BatchOK(t, d)'
    BY <1>2, <1>9, <2>1, BatchKept DEF QInv, TodoInv
  <2>2. QED
    BY <1>2, <2>1 DEF QInv, TodoInv
<1>13. BoxInv' /\ OrderInv'
  <2>1. \A r \in Sessions : Box(r)' = Box(r)
    BY <1>2 DEF Box
  <2>2. QED
    BY <1>9, <2>1, BoxSame DEF QInv
<1>14. QED
  BY <1>9, <1>10, <1>11, <1>12, <1>13 DEF QInv

\* When neither inboxes nor batches change, everything is kept.
LEMMA KeptSame ==
  ASSUME UNCHANGED <<inbox, todo, origin>>
  PROVE  Kept
BY DEF Kept, OriginKept, InboxKept, TodoKept

\* A client receives: what it has seen grows.
LEMMA OrderReceives ==
  ASSUME Shape, QInv, NEW s \in Sessions, ClientReceives(s)
  PROVE  QInv' /\ Kept /\ \A r \in Sessions : Box(r)' = Box(r)
<1>1. /\ outq[s] # <<>> /\ seen' = [seen EXCEPT ![s] = Append(seen[s], Head(outq[s]))]
      /\ outq' = [outq EXCEPT ![s] = Tail(outq[s])]
      /\ UNCHANGED <<inbox, todo, origin, pending>>
  BY DEF ClientReceives, handlerVars, dealerVars
<1>t. /\ outq \in [Sessions -> Seq(Message)] /\ seen \in [Sessions -> Seq(Message)]
      /\ outq[s] \in Seq(Message) /\ seen[s] \in Seq(Message)
  BY DEF Shape
<1>2. Kept
  BY <1>1, KeptSame
<1>3. \A t \in Sessions : \A k \in 1..Len(seen[t]) : k \in 1..Len(seen'[t]) /\ seen'[t][k] = seen[t][k]
  <2>1. seen'[s] = Append(seen[s], Head(outq[s])) /\ \A t \in Sessions \ {s} : seen'[t] = seen[t]
    BY <1>t, <1>1
  <2>2. Head(outq[s]) \in Message
    BY <1>t, <1>1
  <2>3. \A k \in 1..Len(seen[s]) : k \in 1..Len(seen'[s]) /\ seen'[s][k] = seen[s][k]
    BY <1>t, <2>1, <2>2
  <2>4. QED
    BY <2>1, <2>3
<1>4. InboxInv'
  <2>1. ASSUME NEW t \in Sessions, NEW i \in 1..Len(inbox[t]), inbox[t][i].type \in {"YIELD", "PROGRESS", "ERROR"}
        PROVE  \E k \in 1..Len(seen'[t]) : seen'[t][k] = Msg("INVOCATION", inbox[t][i].n)
    <3>1. PICK k \in 1..Len(seen[t]) : seen[t][k] = Msg("INVOCATION", inbox[t][i].n)
      BY <2>1 DEF QInv, InboxInv
    <3>2. QED
      BY <1>3, <3>1
  <2>2. QED
    BY <1>1, <2>1 DEF QInv, InboxInv
<1>5. PendingInv' /\ TodoInv'
  <2>1. \A n : (Passed(n)' <=> Passed(n)) /\ (Settled(n)' <=> Settled(n))
    BY <1>1 DEF Settled, Passed
  <2>2. QED
    BY <1>1, <2>1 DEF QInv, PendingInv, TodoInv, BatchOK
<1>6. \A r \in Sessions : Box(r)' = Box(r)
  <2>1. \A r \in Sessions \ {s} : seen'[r] = seen[r] /\ outq'[r] = outq[r]
    BY <1>t, <1>1
  <2>2. seen'[s] = Append(seen[s], Head(outq[s])) /\ outq'[s] = Tail(outq[s])
    BY <1>t, <1>1
  <2>3. seen'[s] \o outq'[s] = seen[s] \o outq[s]
    <3>1. Head(outq[s]) \in Message
      BY <1>t, <1>1
    <3>2. QED
      BY <1>t, <1>1, <2>2, <3>1, Concat
  <2>4. QED
    BY <2>1, <2>3 DEF Box
<1>7. BoxInv' /\ OrderInv'
  BY <1>2, <1>6, BoxSame DEF QInv
<1>8. QED
  BY <1>2, <1>4, <1>5, <1>6, <1>7 DEF QInv

\* A queue that grows.
LEMMA BoxAppend ==
  ASSUME Shape, NEW r \in Sessions, NEW m \in Message, UNCHANGED seen,
         outq' = [outq EXCEPT ![r] = Append(outq[r], m)]
  PROVE  Box(r)' = Append(Box(r), m) /\ \A t \in Sessions \ {r} : Box(t)' = Box(t)
<1>1. outq \in [Sessions -> Seq(Message)] /\ outq[r] \in Seq(Message) /\ seen[r] \in Seq(Message)
  BY DEF Shape
<1>2. outq'[r] = Append(outq[r], m) /\ \A t \in Sessions \ {r} : outq'[t] = outq[t]
  BY <1>1
<1>3. seen[r] \o Append(outq[r], m) = Append(seen[r] \o outq[r], m)
  BY <1>1, Concat
<1>4. QED
  BY <1>2, <1>3 DEF Box

\* Realm.Close queues a GOODBYE.
LEMMA OrderClose ==
  ASSUME Shape, QInv, NEW s \in Sessions, SaysGoodbye(s)
  PROVE  QInv' /\ Kept
<1>1. /\ UNCHANGED <<inbox, todo, origin, pending, seen>>
      /\ UNCHANGED outq \/ outq' = [outq EXCEPT ![s] = Append(outq[s], Msg("GOODBYE", 0))]
  BY DEF SaysGoodbye, CloseClient, KillWrites, Queue, handlerVars, dealerVars, clientVars
<1>2. CASE UNCHANGED outq
  BY <1>1, <1>2, OrderQuiet, KeptSame
<1>3. CASE outq' = [outq EXCEPT ![s] = Append(outq[s], Msg("GOODBYE", 0))]
  <2>1. PICK m \in Message : m = Msg("GOODBYE", 0) /\ m.type = "GOODBYE"
    <3>1. "GOODBYE" \in MessageTypes /\ 0 \in Nat
      BY DEF MessageTypes, Types
    <3>2. QED
      BY <3>1, MsgFacts
  <2>2. Box(s)' = Append(Box(s), m) /\ \A t \in Sessions \ {s} : Box(t)' = Box(t)
    BY <1>1, <1>3, <2>1, BoxAppend
  <2>3. BoxOK(s, m)' /\ \A i \in 1..Len(Box(s)) : Before(Box(s)[i], m)
    BY <2>1 DEF BoxOK, Before
  <2>4. BoxInv' /\ OrderInv'
    BY <1>1, <2>2, <2>3, KeptSame, BoxGrows DEF QInv
  <2>5. \A n : (Passed(n)' <=> Passed(n)) /\ (Settled(n)' <=> Settled(n))
    BY <1>1 DEF Settled, Passed
  <2>6. InboxInv' /\ PendingInv'
    BY <1>1, <2>5 DEF QInv, InboxInv, PendingInv
  <2>7. TodoInv'
    BY <1>1, <2>5 DEF QInv, TodoInv, BatchOK
  <2>8. QED
    BY <1>1, <2>4, <2>6, <2>7, KeptSame DEF QInv
<1>4. QED
  BY <1>1, <1>2, <1>3

\* What is left of a sequence without its head, and the first part of a concatenation.
LEMMA TailFacts ==
  ASSUME NEW S, NEW q \in Seq(S), q # <<>>
  PROVE  /\ Len(q) \in Nat \ {0} /\ Head(q) = q[1] /\ 1 \in 1..Len(q) /\ Head(q) \in S
         /\ Tail(q) \in Seq(S) /\ Len(Tail(q)) = Len(q) - 1
         /\ \A j \in 1..Len(Tail(q)) : Tail(q)[j] = q[j + 1] /\ j + 1 \in 1..Len(q)
OBVIOUS

LEMMA PrefixFacts ==
  ASSUME NEW a \in Seq(Message), NEW b \in Seq(Message), NEW k \in 1..Len(a)
  PROVE  k \in 1..Len(a \o b) /\ (a \o b)[k] = a[k]
OBVIOUS

\* A goroutine reads the next message of its client.
LEMMA OrderReceive ==
  ASSUME TypeOK, Shape, QInv, NEW s \in Sessions, Receive(s)
  PROVE  /\ QInv' /\ Kept
         /\ \A m : m = Head(inbox[s]) /\ Fresh(m) => Passed(m.n)' /\ ~Passed(m.n) /\ origin[m.n] = s
<1>t. /\ inbox \in [Sessions -> Seq(Message)] /\ origin \in Seq(Sessions) /\ Len(origin) \in Nat
      /\ todo \in [Sessions -> Batch]
  BY DEF Shape
<1>1. /\ inbox[s] # <<>> /\ Head(inbox[s]) \in Message /\ inbox' = [inbox EXCEPT ![s] = Tail(inbox[s])]
      /\ Delivers(s, Head(inbox[s])) /\ DealerStep(s, Head(inbox[s]))
      /\ UNCHANGED <<outq, seen, origin>>
  BY ReceiveFacts DEF clientVars
<1>2. PICK m \in Message : m = Head(inbox[s])
  BY <1>1
<1>3. PICK mode, msgs : Deliver(s, mode, msgs) /\ Answer(s, m, msgs)
  BY <1>1, <1>2 DEF Delivers
<1>4. todo'[s].msgs = msgs /\ \A t \in Sessions \ {s} : todo'[t] = todo[t]
  <2>1. todo' = [todo EXCEPT ![s] = [mode |-> mode, msgs |-> msgs]]
    BY <1>3 DEF Deliver
  <2>2. QED
    BY <1>t, <2>1
<1>5. /\ inbox[s] \in Seq(Message) /\ Len(inbox[s]) \in Nat \ {0} /\ m = inbox[s][1]
      /\ Len(inbox'[s]) = Len(inbox[s]) - 1 /\ \A j \in 1..Len(inbox'[s]) : inbox'[s][j] = inbox[s][j + 1]
      /\ \A t \in Sessions \ {s} : inbox'[t] = inbox[t]
  <2>1. inbox'[s] = Tail(inbox[s]) /\ \A t \in Sessions \ {s} : inbox'[t] = inbox[t]
    BY <1>t, <1>1
  <2>2. inbox[s] \in Seq(Message)
    BY <1>t
  <2>3. /\ Len(inbox[s]) \in Nat \ {0} /\ Head(inbox[s]) = inbox[s][1]
        /\ Len(Tail(inbox[s])) = Len(inbox[s]) - 1
        /\ \A j \in 1..Len(Tail(inbox[s])) : Tail(inbox[s])[j] = inbox[s][j + 1]
    BY <1>1, <2>2, TailFacts
  <2>4. QED
    BY <1>2, <2>1, <2>2, <2>3
<1>6. \A j \in 1..Len(inbox'[s]) : j + 1 \in 1..Len(inbox[s]) /\ 1 < j + 1
  BY <1>5
<1>7. \A t \in Sessions : \A j \in 1..Len(inbox'[t]) : \E i \in 1..Len(inbox[t]) : inbox'[t][j] = inbox[t][i]
  BY <1>5, <1>6
<1>8. ASSUME Fresh(m)
      PROVE  /\ m.n \in 1..Len(origin) /\ origin[m.n] = s
             /\ \A k \in 1..Len(origin) : Passed(k) /\ origin[k] = s => k < m.n
             /\ \A j \in 1..Len(inbox'[s]) : Fresh(inbox'[s][j]) => m.n < inbox'[s][j].n
  <2>1. 1 \in 1..Len(inbox[s]) /\ Fresh(inbox[s][1])
    BY <1>5, <1>8
  <2>2. m.n \in 1..Len(origin) /\ origin[m.n] = s
    BY <1>5, <2>1 DEF QInv, InboxInv
  <2>3. \A k \in 1..Len(origin) : Passed(k) /\ origin[k] = s => k < m.n
    BY <1>5, <2>1 DEF Passed
  <2>4. ASSUME NEW j \in 1..Len(inbox'[s]), Fresh(inbox'[s][j]) PROVE m.n < inbox'[s][j].n
    <3>1. j + 1 \in 1..Len(inbox[s]) /\ 1 < j + 1 /\ inbox'[s][j] = inbox[s][j + 1]
      BY <1>5, <1>6
    <3>2. inbox[s][1].n < inbox[s][j + 1].n
      BY <2>1, <2>4, <3>1 DEF QInv, InboxInv
    <3>3. QED
      BY <1>5, <3>1, <3>2
  <2>5. QED
    BY <2>2, <2>3, <2>4
<1>9. Passed(m.n)' \/ ~Fresh(m)
  BY <1>1, <1>8 DEF Passed
<1>10. OriginKept /\ InboxKept
  BY <1>1, <1>7 DEF OriginKept, InboxKept
<1>11. \A j \in 1..Len(msgs) : msgs[j].msg.type \in {"INVOCATION", "EVENT"} => Fresh(m) /\ msgs[j].msg.n = m.n
  BY <1>3 DEF Answer, Fresh
<1>12. TodoKept
  <2>1. ASSUME NEW j \in 1..Len(msgs), msgs[j].msg.type \in {"INVOCATION", "EVENT"}
        PROVE  /\ msgs[j].msg.n \in Nat
               /\ \A k \in 1..Len(origin) : Passed(k) /\ origin[k] = s => k < msgs[j].msg.n
    BY <1>t, <1>8, <1>11, <2>1
  <2>2. QED
    BY <1>4, <2>1 DEF TodoKept
<1>13. Kept
  BY <1>10, <1>12 DEF Kept
<1>14. InboxInv'
  <2>1. \A t \in Sessions : \A j \in 1..Len(inbox'[t]) :
          /\ Fresh(inbox'[t][j]) \/ inbox'[t][j].type = "CANCEL" =>
               inbox'[t][j].n \in 1..Len(origin) /\ origin[inbox'[t][j].n] = t
          /\ inbox'[t][j].type \in {"YIELD", "PROGRESS", "ERROR"} =>
               \E k \in 1..Len(seen[t]) : seen[t][k] = Msg("INVOCATION", inbox'[t][j].n)
    <3>1. ASSUME NEW t \in Sessions, NEW j \in 1..Len(inbox'[t])
          PROVE  /\ Fresh(inbox'[t][j]) \/ inbox'[t][j].type = "CANCEL" =>
                      inbox'[t][j].n \in 1..Len(origin) /\ origin[inbox'[t][j].n] = t
                 /\ inbox'[t][j].type \in {"YIELD", "PROGRESS", "ERROR"} =>
                      \E k \in 1..Len(seen[t]) : seen[t][k] = Msg("INVOCATION", inbox'[t][j].n)
      <4>1. PICK i \in 1..Len(inbox[t]) : inbox'[t][j] = inbox[t][i]
        BY <1>7
      <4>2. QED
        BY <4>1 DEF QInv, InboxInv
    <3>2. QED
      BY <3>1
  <2>2. \A t \in Sessions : \A i, j \in 1..Len(inbox'[t]) : i < j /\ Fresh(inbox'[t][i]) /\ Fresh(inbox'[t][j]) =>
          inbox'[t][i].n < inbox'[t][j].n
    <3>1. ASSUME NEW i \in 1..Len(inbox'[s]), NEW j \in 1..Len(inbox'[s]), i < j,
                 Fresh(inbox'[s][i]), Fresh(inbox'[s][j])
          PROVE  inbox'[s][i].n < inbox'[s][j].n
      <4>1. i + 1 \in 1..Len(inbox[s]) /\ j + 1 \in 1..Len(inbox[s]) /\ i + 1 < j + 1
        BY <1>5, <3>1
      <4>2. QED
        BY <1>5, <3>1, <4>1 DEF QInv, InboxInv
    <3>2. \A t \in Sessions \ {s} : \A i, j \in 1..Len(inbox'[t]) :
            i < j /\ Fresh(inbox'[t][i]) /\ Fresh(inbox'[t][j]) => inbox'[t][i].n < inbox'[t][j].n
      BY <1>5 DEF QInv, InboxInv
    <3>3. QED
      BY <3>1, <3>2
  <2>3. ASSUME NEW t \in Sessions, NEW j \in 1..Len(inbox'[t])
        PROVE  /\ Fresh(inbox'[t][j]) \/ inbox'[t][j].type = "CANCEL" =>
                    inbox'[t][j].n \in 1..Len(origin') /\ origin'[inbox'[t][j].n] = t
               /\ inbox'[t][j].type \in {"YIELD", "PROGRESS", "ERROR"} =>
                    \E k \in 1..Len(seen'[t]) : seen'[t][k] = Msg("INVOCATION", inbox'[t][j].n)
    <3>1. origin' = origin /\ seen' = seen
      BY <1>1
    <3>2. QED
      BY <2>1, <3>1
  <2>4. QED
    BY <2>2, <2>3 DEF InboxInv, Fresh
<1>15. PendingInv'
  <2>1. ASSUME NEW p \in pending' PROVE Passed(p.n)'
    <3>1. CASE p \in pending
      BY <1>13, <3>1, KeptFacts DEF QInv, PendingInv, Kept
    <3>2. CASE m.type = "CALL" /\ p.n = m.n
      BY <1>9, <3>2 DEF Fresh
    <3>3. QED
      BY <1>1, <1>2, <3>1, <3>2 DEF DealerStep
  <2>2. QED
    BY <2>1 DEF PendingInv
<1>16. IsPending(m.n) /\ m.type \in {"CANCEL", "PROGRESS"} => Settled(m.n)'
  <2>1. CASE m.type = "PROGRESS"
    <3>1. 1 \in 1..Len(inbox[s]) /\ inbox[s][1].type = "PROGRESS"
      BY <1>5, <2>1
    <3>2. PICK k \in 1..Len(seen[s]) : seen[s][k] = Msg("INVOCATION", m.n)
      BY <1>5, <3>1 DEF QInv, InboxInv
    <3>3. seen[s] \in Seq(Message) /\ outq[s] \in Seq(Message)
      BY DEF Shape
    <3>4. k \in 1..Len(Box(s)) /\ Box(s)[k] = Msg("INVOCATION", m.n)
      BY <3>2, <3>3, PrefixFacts DEF Box
    <3>5. BoxOK(s, Msg("INVOCATION", m.n))
      BY <3>4 DEF QInv, BoxInv
    <3>6. Settled(m.n)
      BY <3>5, MsgFacts DEF BoxOK
    <3>7. QED
      BY <1>13, <3>6, KeptFacts DEF Kept
  <2>2. CASE m.type = "CANCEL" /\ IsPending(m.n)
    <3>1. origin[m.n] = s
      <4>1. 1 \in 1..Len(inbox[s]) /\ inbox[s][1].type = "CANCEL"
        BY <1>5, <2>2
      <4>2. QED
        BY <1>5, <4>1 DEF QInv, InboxInv
    <3>2. Passed(m.n)
      <4>1. PICK p \in pending : p.n = m.n
        BY <2>2 DEF IsPending
      <4>2. QED
        BY <4>1 DEF QInv, PendingInv
    <3>3. Passed(m.n)'
      BY <1>13, <3>2, KeptFacts DEF Kept
    <3>4. \A i \in 1..Len(msgs) : msgs[i].msg.type # "INVOCATION"
      BY <1>11, <2>2 DEF Fresh
    <3>5. QED
      BY <1>1, <1>4, <3>1, <3>3, <3>4 DEF Settled
  <2>3. QED
    BY <2>1, <2>2
<1>17. TodoInv'
  <2>1. ASSUME NEW t \in Sessions \ {s}, NEW i \in 1..Len(todo[t].msgs), NEW d, d = todo[t].msgs[i]
        PROVE  BatchOK(t, d)'
    BY <1>4, <1>13, <2>1, BatchKept DEF QInv, TodoInv
  <2>2. ASSUME NEW i \in 1..Len(msgs), NEW d, d = msgs[i]
        PROVE  BatchOK(s, d)'
    <3>1. d.msg.type \in {"INVOCATION", "EVENT"} => Passed(d.msg.n)' /\ origin'[d.msg.n] = s
      BY <1>1, <1>8, <1>9, <1>11, <2>2
    <3>2. d.msg.type = "INVOCATION" => Len(todo'[s].msgs) = 1
      BY <1>3, <1>4, <2>2 DEF Answer
    <3>3. d.msg.type = "INTERRUPT" => Settled(d.msg.n)'
      BY <1>3, <1>16, <2>2 DEF Answer
    <3>4. QED
      BY <3>1, <3>2, <3>3 DEF BatchOK
  <2>3. \A i, j \in 1..Len(msgs) :
          i # j /\ msgs[i].msg.type = "EVENT" /\ msgs[j].msg.type = "EVENT" => msgs[i].to # msgs[j].to
    BY <1>3 DEF Answer
  <2>4. ASSUME NEW t \in Sessions, NEW i \in 1..Len(todo'[t].msgs)
        PROVE  BatchOK(t, todo[t].msgs[i])'
    <3>1. CASE t = s
      BY <1>4, <2>2, <3>1
    <3>2. CASE t # s
      BY <1>4, <2>1, <3>2
    <3>3. QED
      BY <3>1, <3>2
  <2>5. ASSUME NEW t \in Sessions, NEW i \in 1..Len(todo'[t].msgs), NEW j \in 1..Len(todo'[t].msgs), i # j,
               todo'[t].msgs[i].msg.type = "EVENT", todo'[t].msgs[j].msg.type = "EVENT"
        PROVE  todo'[t].msgs[i].to # todo'[t].msgs[j].to
    <3>1. CASE t = s
      BY <1>4, <2>3, <2>5, <3>1
    <3>2. CASE t # s
      <4>1. todo'[t] = todo[t]
        BY <1>4, <3>2
      <4>2. QED
        BY <2>5, <4>1 DEF QInv, TodoInv
    <3>3. QED
      BY <3>1, <3>2
  <2>6. QED
    BY <2>4, <2>5 DEF TodoInv
<1>18. BoxInv' /\ OrderInv'
  <2>1. \A r \in Sessions : Box(r)' = Box(r)
    BY <1>1 DEF Box
  <2>2. QED
    BY <1>13, <2>1, BoxSame DEF QInv
<1>19. Fresh(m) => Passed(m.n)' /\ ~Passed(m.n) /\ origin[m.n] = s
  <2>1. Fresh(m) => ~(m.n < m.n)
    BY <1>t, <1>8
  <2>2. QED
    BY <1>8, <1>9, <2>1
<1>20. QED
  BY <1>2, <1>13, <1>14, <1>15, <1>17, <1>18, <1>19 DEF QInv

\* A goroutine delivers one message, or gives up.
LEMMA OrderDeliver ==
  ASSUME TypeOK, Shape, QInv, NEW s \in Sessions, DeliverStep(s)
  PROVE  QInv' /\ Kept
<1> DEFINE q == todo[s].msgs
<1>1. /\ q \in Seq(Delivery) /\ q # <<>>
      /\ \/ HasLeft(s, Tail(q))
         \/ UNCHANGED outq /\ (HasLeft(s, <<>>) \/ HasLeft(s, <<To(s, "ERROR", Head(q).msg.n)>>))
      /\ \/ UNCHANGED outq
         \/ outq' = [outq EXCEPT ![Head(q).to] = Append(outq[Head(q).to], Head(q).msg)]
      /\ UNCHANGED <<inbox, seen, origin, pending>>
  BY DeliverFacts DEF clientVars, dealerVars
<1>t. todo \in [Sessions -> Batch]
  BY DEF Shape
<1>2. /\ 1 \in 1..Len(q) /\ Head(q) = q[1] /\ Head(q) \in Delivery /\ Len(q) \in Nat
      /\ Len(Tail(q)) = Len(q) - 1
      /\ \A j \in 1..Len(Tail(q)) : Tail(q)[j] = q[j + 1] /\ j + 1 \in 1..Len(q)
  BY <1>1, TailFacts
<1>3. PICK d \in Delivery : d = q[1]
  BY <1>2
<1>4. PICK left : /\ todo'[s].msgs = left /\ \A t \in Sessions \ {s} : todo'[t] = todo[t]
                  /\ \/ left = Tail(q)
                     \/ UNCHANGED outq /\ \A j \in 1..Len(left) : left[j].msg.type = "ERROR"
  <2>1. ASSUME NEW left, HasLeft(s, left)
        PROVE  todo'[s].msgs = left /\ \A t \in Sessions \ {s} : todo'[t] = todo[t]
    BY <1>t, <2>1 DEF HasLeft
  <2>2. CASE HasLeft(s, Tail(q))
    BY <2>1, <2>2
  <2>3. CASE UNCHANGED outq /\ HasLeft(s, <<>>)
    <3>1. \A j \in 1..Len(<<>>) : FALSE
      OBVIOUS
    <3>2. todo'[s].msgs = <<>> /\ \A t \in Sessions \ {s} : todo'[t] = todo[t]
      BY <2>1, <2>3
    <3>3. QED
      BY <2>3, <3>1, <3>2
  <2>4. CASE UNCHANGED outq /\ HasLeft(s, <<To(s, "ERROR", Head(q).msg.n)>>)
    <3>1. PICK e : e = To(s, "ERROR", Head(q).msg.n) /\ e.msg.type = "ERROR"
      BY MsgFacts
    <3>2. \A j \in 1..Len(<<e>>) : <<e>>[j].msg.type = "ERROR"
      BY <3>1
    <3>3. todo'[s].msgs = <<e>> /\ \A t \in Sessions \ {s} : todo'[t] = todo[t]
      BY <2>1, <2>4, <3>1
    <3>4. QED
      BY <2>4, <3>2, <3>3
  <2>5. QED
    BY <1>1, <2>2, <2>3, <2>4
<1>5. \A j \in 1..Len(left) : \/ left[j].msg.type = "ERROR"
                              \/ /\ left = Tail(q) /\ left[j] = q[j + 1] /\ j + 1 \in 1..Len(q)
                                 /\ left[j].msg.type # "INVOCATION"
  <2>1. ASSUME NEW j \in 1..Len(Tail(q)) PROVE Tail(q)[j].msg.type # "INVOCATION"
    <3>1. j + 1 \in 1..Len(q) /\ Tail(q)[j] = q[j + 1] /\ Len(q) # 1
      BY <1>2, <2>1
    <3>2. BatchOK(s, q[j + 1])
      BY <3>1 DEF QInv, TodoInv
    <3>3. QED
      BY <3>1, <3>2 DEF BatchOK
  <2>2. QED
    BY <1>2, <1>4, <2>1
<1> HIDE DEF q
<1>6. \A j \in 1..Len(left) : left[j].msg.type # "INVOCATION"
  BY <1>5
<1>7. Kept
  <2>1. OriginKept /\ InboxKept
    BY <1>1 DEF OriginKept, InboxKept
  <2>2. ASSUME NEW j \in 1..Len(left)
        PROVE  (\E i \in 1..Len(q) : left[j] = q[i]) \/ left[j].msg.type \notin {"INVOCATION", "EVENT"}
    BY <1>5, <2>2
  <2>3. ASSUME NEW t \in Sessions, NEW j \in 1..Len(todo'[t].msgs)
        PROVE  \/ \E i \in 1..Len(todo[t].msgs) : todo'[t].msgs[j] = todo[t].msgs[i]
               \/ todo'[t].msgs[j].msg.type \notin {"INVOCATION", "EVENT"}
    <3>1. CASE t = s
      BY <1>4, <2>2, <3>1 DEF q
    <3>2. CASE t # s
      BY <1>4, <3>2
    <3>3. QED
      BY <3>1, <3>2
  <2>4. TodoKept
    BY <2>3 DEF TodoKept
  <2>5. QED
    BY <2>1, <2>4 DEF Kept
<1>8. TodoInv'
  <2>1. ASSUME NEW t \in Sessions \ {s}, NEW i \in 1..Len(todo[t].msgs), NEW e, e = todo[t].msgs[i]
        PROVE  BatchOK(t, e)'
    BY <1>4, <1>7, <2>1, BatchKept DEF QInv, TodoInv
  <2>2. ASSUME NEW i \in 1..Len(left), NEW e, e = left[i]
        PROVE  BatchOK(s, e)'
    <3>1. CASE e.msg.type = "ERROR"
      BY <3>1 DEF BatchOK
    <3>2. CASE e = q[i + 1] /\ i + 1 \in 1..Len(q) /\ e.msg.type # "INVOCATION"
      <4>1. BatchOK(s, e)
        BY <3>2 DEF QInv, TodoInv, q
      <4>2. QED
        BY <1>7, <3>2, <4>1, BatchKept
    <3>3. QED
      BY <1>5, <2>2, <3>1, <3>2
  <2>3. ASSUME NEW i \in 1..Len(left), NEW j \in 1..Len(left), i # j,
               left[i].msg.type = "EVENT", left[j].msg.type = "EVENT"
        PROVE  left[i].to # left[j].to
    <3>1. left[i] = q[i + 1] /\ i + 1 \in 1..Len(q)
      BY <1>5, <2>3
    <3>2. left[j] = q[j + 1] /\ j + 1 \in 1..Len(q)
      BY <1>5, <2>3
    <3>3. i + 1 # j + 1
      BY <2>3
    <3>4. QED
      BY <2>3, <3>1, <3>2, <3>3 DEF QInv, TodoInv, q
  <2>4. ASSUME NEW t \in Sessions, NEW i \in 1..Len(todo'[t].msgs)
        PROVE  BatchOK(t, todo[t].msgs[i])'
    <3>1. CASE t = s
      BY <1>4, <2>2, <3>1
    <3>2. CASE t # s
      BY <1>4, <2>1, <3>2
    <3>3. QED
      BY <3>1, <3>2
  <2>5. ASSUME NEW t \in Sessions, NEW i \in 1..Len(todo'[t].msgs), NEW j \in 1..Len(todo'[t].msgs), i # j,
               todo'[t].msgs[i].msg.type = "EVENT", todo'[t].msgs[j].msg.type = "EVENT"
        PROVE  todo'[t].msgs[i].to # todo'[t].msgs[j].to
    <3>1. CASE t = s
      BY <1>4, <2>3, <2>5, <3>1
    <3>2. CASE t # s
      <4>1. todo'[t] = todo[t]
        BY <1>4, <3>2
      <4>2. QED
        BY <2>5, <4>1 DEF QInv, TodoInv
    <3>3. QED
      BY <3>1, <3>2
  <2>6. QED
    BY <2>4, <2>5 DEF TodoInv
<1>9. InboxInv'
  BY <1>1 DEF QInv, InboxInv
<1>10. PendingInv'
  BY <1>1, <1>7, KeptFacts DEF QInv, PendingInv, Kept
<1>11. CASE UNCHANGED outq
  <2>1. \A r \in Sessions : Box(r)' = Box(r)
    BY <1>1, <1>11 DEF Box
  <2>2. QED
    BY <1>7, <1>8, <1>9, <1>10, <2>1, BoxSame DEF QInv
<1>12. CASE outq' = [outq EXCEPT ![d.to] = Append(outq[d.to], d.msg)] /\ left = Tail(q)
  <2>1. d.to \in Sessions /\ d.msg \in Message
    BY DEF Delivery
  <2>2. BatchOK(s, d)
    BY <1>2, <1>3 DEF QInv, TodoInv, q
  <2>3. BoxOK(d.to, d.msg)'
    <3>1. Passed(d.msg.n) => Passed(d.msg.n)' /\ origin'[d.msg.n] = origin[d.msg.n]
      BY <1>1, <1>7, KeptFacts DEF Kept
    <3>2. CASE d.msg.type = "INVOCATION"
      <4>1. Passed(d.msg.n)' /\ origin'[d.msg.n] = s
        BY <2>2, <3>1, <3>2 DEF BatchOK
      <4>2. Settled(d.msg.n)'
        BY <1>4, <1>6, <4>1 DEF Settled
      <4>3. QED
        BY <3>2, <4>2 DEF BoxOK
    <3>3. CASE d.msg.type = "INTERRUPT"
      <4>1. Settled(d.msg.n)'
        BY <1>7, <2>2, <3>3, KeptFacts DEF BatchOK, Kept
      <4>2. QED
        BY <3>3, <4>1 DEF BoxOK
    <3>4. CASE d.msg.type = "EVENT"
      <4>1. Passed(d.msg.n)' /\ origin'[d.msg.n] = s
        BY <2>2, <3>1, <3>4 DEF BatchOK
      <4>2. ASSUME NEW j \in 1..Len(left), left[j].msg.type = "EVENT"
            PROVE  left[j].to # d.to
        <5>1. left[j] = q[j + 1] /\ j + 1 \in 1..Len(q) /\ j + 1 # 1
          BY <1>5, <4>2
        <5>2. QED
          BY <1>2, <1>3, <3>4, <4>2, <5>1 DEF QInv, TodoInv, q
      <4>3. Told(d.to, d.msg.n)'
        BY <1>4, <4>1, <4>2 DEF Told
      <4>4. QED
        BY <3>4, <4>3 DEF BoxOK
    <3>5. QED
      BY <3>2, <3>3, <3>4 DEF BoxOK
  <2>4. ASSUME NEW i \in 1..Len(Box(d.to)), NEW a, a = Box(d.to)[i]
        PROVE  Before(a, d.msg)
    <3>1. BoxOK(d.to, a)
      BY <2>1, <2>4 DEF QInv, BoxInv
    <3>2. ASSUME a.type = "INTERRUPT", d.msg.type = "INVOCATION", d.msg.n = a.n
          PROVE  FALSE
      <4>1. origin[a.n] = s /\ Settled(a.n)
        BY <2>2, <3>1, <3>2 DEF BatchOK, BoxOK
      <4>2. QED
        BY <1>2, <1>3, <3>2, <4>1 DEF Settled, q
    <3>3. ASSUME a.type = "EVENT", d.msg.type = "EVENT", origin[a.n] = origin[d.msg.n]
          PROVE  a.n < d.msg.n
      <4>1. origin[a.n] = s /\ Told(d.to, a.n)
        BY <2>2, <3>1, <3>3 DEF BatchOK, BoxOK
      <4>2. QED
        BY <1>2, <1>3, <3>3, <4>1 DEF Told, q
    <3>4. QED
      BY <3>2, <3>3 DEF Before
  <2>5. Box(d.to)' = Append(Box(d.to), d.msg) /\ \A t \in Sessions \ {d.to} : Box(t)' = Box(t)
    BY <1>1, <1>12, <2>1, BoxAppend
  <2>6. BoxInv' /\ OrderInv'
    <3>1. PICK r \in Sessions, m \in Message : r = d.to /\ m = d.msg
      BY <2>1
    <3>2. BoxOK(r, m)' /\ \A i \in 1..Len(Box(r)) : Before(Box(r)[i], m)
      BY <2>3, <2>4, <3>1
    <3>3. Box(r)' = Append(Box(r), m) /\ \A t \in Sessions \ {r} : Box(t)' = Box(t)
      BY <2>5, <3>1
    <3>4. QED
      BY <1>1, <1>7, <3>2, <3>3, BoxGrows DEF QInv
  <2>7. QED
    BY <1>7, <1>8, <1>9, <1>10, <2>6 DEF QInv
<1>13. QED
  BY <1>1, <1>2, <1>3, <1>4, <1>11, <1>12 DEF q

\* Every step keeps the order of deliveries, and what is settled.
LEMMA OrderInvStep ==
  ASSUME TypeOK, Shape, QInv, Acts
  PROVE  QInv' /\ Kept
<1>1. ASSUME NEW s \in Sessions,
             ClientSends(s) \/ ClientReceives(s) \/ Receive(s) \/ DeliverStep(s) \/ SaysGoodbye(s)
      PROVE  QInv' /\ Kept
  BY <1>1, OrderSends, OrderReceives, OrderReceive, OrderDeliver, OrderClose
<1>2. CASE \/ \E s \in Sessions : OtherStep(s)
           \/ RouterStep
  <2>1. UNCHANGED <<inbox, outq, seen, todo, origin>>
    BY <1>2, NextCases, ShapeQuiet
  <2>2. pending' \subseteq pending
    <3>1. CASE \E s \in Sessions : OtherStep(s)
      BY <3>1 DEF OtherStep, ClientDisconnects, Attach, AddToBroker, AddToDealer, ReadFails, Detach,
         DetachBroker, DetachDealer, DetachClose, CloseAfterGoodbye, KillCloses, RemoveFromDealer, dealerVars
    <3>2. CASE RouterStep
      BY <3>2 DEF RouterStep, StartClose, CloseTransport, CloseReturns, CloseDetach, CloseDetachBroker,
         CloseDetachDealer, EndClose, RemoveRealm, RemoveFromDealer, dealerVars
    <3>3. QED
      BY <1>2, <3>1, <3>2
  <2>3. QED
    BY <2>1, <2>2, OrderQuiet, KeptSame
<1>3. QED
  BY <1>1, <1>2, NextCases


-----------------------------------------------------------------------------
(* The answers to calls                                                    *)

\* Client s's goroutine has an answer to call n to deliver; some goroutine has.
HasAnswer(s, n) ==
  \E i \in 1..Len(todo[s].msgs) : IsAnswer(todo[s].msgs[i]) /\ todo[s].msgs[i].msg.n = n
Answering(n) == \E s \in Sessions : HasAnswer(s, n)

\* The INVOCATION of call n was dropped; the call was cancelled.
Lost(n) == <<"INVOCATION", n>> \in dropped
Cancelled(n) == \E p \in canceled : p.n = n

\* A call is answered by the dealer once, when it is opened or when it is closed, and once
\* more by the goroutine that drops its INVOCATION: that one leaves it open, but nobody can
\* close it then except its caller, by a CANCEL.
Budget(n) ==
  /\ \A s, t \in Sessions : HasAnswer(s, n) /\ HasAnswer(t, n) => s = t
  /\ ~Settled(n) => ~Answering(n) /\ answers[n] = <<>> /\ ~Cancelled(n) /\ ~Lost(n)
  /\ Cancelled(n) => ~IsPending(n)
  /\ IsPending(n) /\ ~Lost(n) => ~Answering(n) /\ answers[n] = <<>>
  /\ Answering(n) /\ answers[n] # <<>> => Lost(n) /\ Cancelled(n) /\ Len(answers[n]) = 1
  /\ Len(answers[n]) <= 2 /\ (Len(answers[n]) = 2 => Lost(n) /\ Cancelled(n))

\* What was dropped did not reach anybody, so nobody but the caller's goroutine has an answer.
Sent(n) == \E r \in Sessions : \E i \in 1..Len(Box(r)) : Box(r)[i].type = "INVOCATION" /\ Box(r)[i].n = n
LostInv(n) == Lost(n) => ~Sent(n) /\ \A s \in Sessions : HasAnswer(s, n) => s = origin[n]

\* A batch holds at most one answer, and the batch of a call one message.
Single(s) ==
  /\ \A i, j \in 1..Len(todo[s].msgs) : IsAnswer(todo[s].msgs[i]) /\ IsAnswer(todo[s].msgs[j]) => i = j
  /\ todo[s].mode = "call" => \A i \in 1..Len(todo[s].msgs) : i = 1 /\ todo[s].msgs[i].msg.type \in {"INVOCATION", "ERROR"}

\* Open invocations have different numbers and know their callers.
OpenCalls ==
  /\ \A p \in pending : origin[p.n] = p.caller
  /\ \A p, q \in pending : p.n = q.n => p = q

\* A cancelled call: its caller's goroutine has the ERROR to deliver, or has delivered it, or
\* why it could not.
CancelBatches(p) == {<<To(p.callee, "INTERRUPT", p.n), To(p.caller, "ERROR", p.n)>>, <<To(p.caller, "ERROR", p.n)>>}
CancelOK(p) ==
  /\ hpc[p.caller] # "new"
  /\ \/ answers[p.n] # <<>> \/ <<"ERROR", p.n>> \in dropped
     \/ ~peerOpen[p.callee] \/ ~peerOpen[p.caller] \/ p.caller \notin clients
     \/ todo[p.caller].mode = "cancel" /\ todo[p.caller].msgs \in CancelBatches(p)

AInv ==
  /\ answers \in [Numbers -> Seq({"RESULT", "ERROR"})]
  /\ \A n \in Numbers : Budget(n) /\ LostInv(n)
  /\ \A s \in Sessions : Single(s)
  /\ OpenCalls
  /\ \A p \in canceled : CancelOK(p)

\* Nobody comes back: transports stay closed, and only a new client is attached.
Shrinks(t) ==
  /\ peerOpen'[t] => peerOpen[t]
  /\ t \in clients' => t \in clients \/ hpc[t] = "new"
  /\ hpc'[t] = "new" => hpc[t] = "new"

\* Every step is such.
LEMMA ShrinksFacts ==
  ASSUME TypeOK, Shape, Acts
  PROVE  \A t \in Sessions : Shrinks(t)
<1>t. peerOpen \in [Sessions -> BOOLEAN] /\ hpc \in [Sessions -> Places]
  BY DEF TypeOK, Places
<1>1. ASSUME NEW s \in Sessions, OtherStep(s) PROVE \A t \in Sessions : Shrinks(t)
  <2>1. peerOpen' = peerOpen \/ peerOpen' = [peerOpen EXCEPT ![s] = FALSE]
    BY <1>1 DEF OtherStep, ClientDisconnects, Attach, AddToBroker, AddToDealer, ReadFails, Detach,
       DetachBroker, DetachDealer, DetachClose, CloseAfterGoodbye, KillCloses, peerVars
  <2>2. \A t \in Sessions : peerOpen'[t] => peerOpen[t]
    BY <1>t, <2>1
  <2>3. clients' \subseteq clients \/ (hpc[s] = "new" /\ clients' = clients \cup {s})
    BY <1>1 DEF OtherStep, ClientDisconnects, Attach, AddToBroker, AddToDealer, ReadFails, Detach,
       DetachBroker, DetachDealer, DetachClose, CloseAfterGoodbye, KillCloses, tableVars
  <2>4. UNCHANGED hpc \/ \E where \in Places \ {"new"} : hpc' = [hpc EXCEPT ![s] = where]
    BY <1>1 DEF OtherStep, ClientDisconnects, Attach, AddToBroker, AddToDealer, ReadFails, Detach,
       DetachBroker, DetachDealer, DetachClose, CloseAfterGoodbye, KillCloses, handlerVars, Goes, Places
  <2>5. \A t \in Sessions : hpc'[t] = "new" => hpc[t] = "new"
    BY <1>t, <2>4
  <2>6. QED
    BY <2>2, <2>3, <2>5 DEF Shrinks
<1>2. ASSUME NEW s \in Sessions, ClientSends(s) \/ ClientReceives(s) PROVE \A t \in Sessions : Shrinks(t)
  BY <1>2 DEF ClientSends, ClientReceives, Shrinks, tableVars, handlerVars
<1>3. ASSUME NEW s \in Sessions, Receive(s) PROVE \A t \in Sessions : Shrinks(t)
  <2>1. UNCHANGED <<clients, peerOpen>> /\ \E where \in {"read", "deliver"} : hpc' = [hpc EXCEPT ![s] = where]
    BY <1>3, ReceiveFacts DEF tableVars, Delivers, Deliver, Goes
  <2>2. QED
    BY <1>t, <2>1 DEF Shrinks
<1>4. ASSUME NEW s \in Sessions, DeliverStep(s) PROVE \A t \in Sessions : Shrinks(t)
  <2>1. UNCHANGED <<clients, peerOpen>> /\ \E where \in {"deliver", "close", "read"} : hpc' = [hpc EXCEPT ![s] = where]
    BY <1>4, DeliverFacts DEF tableVars, HasLeft
  <2>2. QED
    BY <1>t, <2>1 DEF Shrinks
<1>5. ASSUME NEW s \in Sessions, SaysGoodbye(s) PROVE \A t \in Sessions : Shrinks(t)
  <2>1. UNCHANGED <<clients, hpc, peerOpen>>
    BY <1>5 DEF SaysGoodbye, CloseClient, KillWrites, tableVars, handlerVars
  <2>2. QED
    BY <2>1 DEF Shrinks
<1>6. CASE RouterStep
  BY <1>t, <1>6 DEF RouterStep, StartClose, CloseTransport, CloseReturns, CloseDetach, CloseDetachBroker,
     CloseDetachDealer, EndClose, RemoveRealm, Shrinks, peerVars, tableVars, handlerVars
<1>7. QED
  BY <1>1, <1>2, <1>3, <1>4, <1>5, <1>6, NextCases

\* Nothing happens to call n.
LEMMA BudgetKept ==
  ASSUME Shape, Kept, NEW n, Budget(n), LostInv(n),
         \A s \in Sessions : HasAnswer(s, n)' => HasAnswer(s, n),
         IsPending(n)' => IsPending(n), answers'[n] = answers[n], Sent(n)' => Sent(n),
         Lost(n)' <=> Lost(n), Cancelled(n)' <=> Cancelled(n)
  PROVE  Budget(n)' /\ LostInv(n)'
<1>1. Settled(n) => Settled(n)'
  BY KeptFacts DEF Kept
<1>2. Answering(n)' => Answering(n)
  BY DEF Answering
<1>3. Budget(n)'
  BY <1>1, <1>2 DEF Budget
<1>4. Lost(n) => origin'[n] = origin[n]
  BY DEF Budget, Settled, Passed, Kept, OriginKept
<1>5. LostInv(n)'
  BY <1>4 DEF LostInv
<1>6. QED
  BY <1>3, <1>5

\* Nothing happens to the cancelled call p.
LEMMA CancelKept ==
  ASSUME NEW p, CancelOK(p), Shrinks(p.caller), Shrinks(p.callee), dropped \subseteq dropped',
         answers[p.n] # <<>> => answers'[p.n] # <<>>,
         todo'[p.caller] = todo[p.caller] \/ todo[p.caller].msgs = <<>>
  PROVE  CancelOK(p)'
<1>1. todo[p.caller].msgs \in CancelBatches(p) => todo[p.caller].msgs # <<>>
  <2>1. \A x, y : <<x, y>> # <<>> /\ <<x>> # <<>>
    <3>1. \A x, y : Len(<<x, y>>) = 2 /\ Len(<<x>>) = 1 /\ Len(<<>>) = 0
      OBVIOUS
    <3>2. QED
      BY <3>1
  <2>2. QED
    BY <2>1 DEF CancelBatches
<1>2. QED
  BY <1>1 DEF CancelOK, Shrinks, CancelBatches

\* The six ways in which a message m of client s is answered, as far as calls go: no answer
\* to a call; an answer to a call of s that is not opened, or to one that s closes; a call is
\* opened; a call is cancelled.
Silent(mode, msgs) ==
  /\ mode # "call" /\ \A i \in 1..Len(msgs) : ~IsAnswer(msgs[i])
  /\ pending' \subseteq pending /\ UNCHANGED canceled
Fails(s, m, mode, msgs) ==
  m.type = "CALL" /\ msgs = <<To(s, "ERROR", m.n)>> /\ UNCHANGED <<pending, canceled>>
Replies(m, mode, msgs) ==
  /\ m.type \in {"YIELD", "ERROR"} /\ IsPending(m.n) /\ mode # "call"
  /\ \E r \in Sessions, type \in {"RESULT", "ERROR"} : msgs = <<To(r, type, m.n)>>
  /\ pending' = pending \ {PendingCall(m.n)} /\ UNCHANGED canceled
Opens(s, m, mode, msgs) ==
  /\ m.type = "CALL" /\ registered \in Sessions /\ msgs = <<To(registered, "INVOCATION", m.n)>>
  /\ pending' = pending \cup {[n |-> m.n, caller |-> s, callee |-> registered]} /\ UNCHANGED canceled
Cancels(s, m, mode, msgs) ==
  /\ m.type = "CANCEL" /\ IsPending(m.n) /\ mode = "cancel"
  /\ msgs = <<To(PendingCall(m.n).callee, "INTERRUPT", m.n), To(s, "ERROR", m.n)>>
  /\ pending' = pending \ {PendingCall(m.n)} /\ canceled' = canceled \cup {PendingCall(m.n)}
Reaction(s, m, mode, msgs) ==
  \/ Silent(mode, msgs) \/ Fails(s, m, mode, msgs) \/ Replies(m, mode, msgs)
  \/ Opens(s, m, mode, msgs) \/ Cancels(s, m, mode, msgs)

\* Batches without an answer.
LEMMA SilentFacts ==
  /\ \A i \in 1..Len(<<>>) : ~IsAnswer(<<>>[i])
  /\ \A s, type, n : type \notin {"RESULT", "ERROR"} => \A i \in 1..Len(<<To(s, type, n)>>) : ~IsAnswer(<<To(s, type, n)>>[i])
<1>1. \A i \in 1..Len(<<>>) : ~IsAnswer(<<>>[i])
  OBVIOUS
<1>2. ASSUME NEW s, NEW type, NEW n, type \notin {"RESULT", "ERROR"}
      PROVE  \A i \in 1..Len(<<To(s, type, n)>>) : ~IsAnswer(<<To(s, type, n)>>[i])
  <2>1. PICK d : d = To(s, type, n) /\ d.msg.type = type
    BY MsgFacts
  <2>2. \A i \in 1..Len(<<d>>) : <<d>>[i] = d
    OBVIOUS
  <2>3. QED
    BY <1>2, <2>1, <2>2 DEF IsAnswer
<1>3. QED
  BY <1>1, <1>2

\* The dealer's part.
LEMMA DealerReacts ==
  ASSUME TypeOK, NEW s \in Sessions, NEW m \in Message,
         \/ DealerReceives(s, m) /\ UNCHANGED canceled
         \/ DealerCancels(s, m)
  PROVE  \E mode, msgs : Deliver(s, mode, msgs) /\ Reaction(s, m, mode, msgs)
<1>t. registered \in Sessions \cup {None} /\ \A p \in pending : p.caller \in Sessions /\ p.callee \in Sessions
  BY DEF TypeOK
<1>p. IsPending(m.n) => PendingCall(m.n) \in pending /\ PendingCall(m.n).caller \in Sessions
  BY <1>t, PendingFacts
<1>1. CASE m.type = "CALL" /\ DealerReceives(s, m) /\ UNCHANGED canceled
  <2>1. CASE registered = None
    <3>1. Deliver(s, "call", <<To(s, "ERROR", m.n)>>) /\ UNCHANGED pending
      BY <1>1, <2>1 DEF DealerReceives
    <3>2. QED
      BY <1>1, <3>1 DEF Reaction, Fails
  <2>2. CASE registered # None
    <3>1. /\ Deliver(s, "call", <<To(registered, "INVOCATION", m.n)>>)
          /\ pending' = pending \cup {[n |-> m.n, caller |-> s, callee |-> registered]}
      BY <1>1, <2>2 DEF DealerReceives
    <3>2. QED
      BY <1>t, <1>1, <2>2, <3>1 DEF Reaction, Opens
  <2>3. QED
    BY <2>1, <2>2
<1>2. CASE m.type \in {"REGISTER", "UNREGISTER"} /\ DealerReceives(s, m) /\ UNCHANGED canceled
  <2>1. PICK type \in {"REGISTERED", "REFUSED", "UNREGISTERED"} : Deliver(s, "other", <<To(s, type, 0)>>)
    BY <1>2 DEF DealerReceives
  <2>2. UNCHANGED pending
    BY <1>2 DEF DealerReceives
  <2>3. Silent("other", <<To(s, type, 0)>>)
    BY <1>2, <2>2, SilentFacts DEF Silent
  <2>4. QED
    BY <2>1, <2>3 DEF Reaction
<1>3. CASE m.type \in {"YIELD", "ERROR"} /\ DealerReceives(s, m) /\ UNCHANGED canceled
  <2>1. CASE IsPending(m.n) /\ PendingCall(m.n).caller \in dealerHas
    <3>1. PICK type \in {"RESULT", "ERROR"} : Deliver(s, "other", <<To(PendingCall(m.n).caller, type, m.n)>>)
      BY <1>3, <2>1 DEF DealerReceives
    <3>2. pending' = pending \ {PendingCall(m.n)}
      BY <1>3, <2>1 DEF DealerReceives
    <3>3. Replies(m, "other", <<To(PendingCall(m.n).caller, type, m.n)>>)
      BY <1>3, <1>p, <2>1, <3>2 DEF Replies
    <3>4. QED
      BY <3>1, <3>3 DEF Reaction
  <2>2. CASE ~(IsPending(m.n) /\ PendingCall(m.n).caller \in dealerHas)
    <3>1. Deliver(s, "other", <<>>) /\ pending' \subseteq pending
      BY <1>3, <2>2 DEF DealerReceives
    <3>2. Silent("other", <<>>)
      BY <1>3, <3>1, SilentFacts DEF Silent
    <3>3. QED
      BY <3>1, <3>2 DEF Reaction
  <2>3. QED
    BY <2>1, <2>2
<1>4. CASE m.type = "PROGRESS" /\ DealerReceives(s, m) /\ UNCHANGED canceled
  <2>1. pending' \subseteq pending
    BY <1>4 DEF DealerReceives
  <2>2. \/ Deliver(s, "other", <<>>)
        \/ \E r \in Sessions, type \in {"PROGRESS", "INTERRUPT"} : Deliver(s, "other", <<To(r, type, m.n)>>)
    BY <1>4, <1>p DEF DealerReceives
  <2>3. Silent("other", <<>>) /\ \A r \in Sessions, type \in {"PROGRESS", "INTERRUPT"} : Silent("other", <<To(r, type, m.n)>>)
    BY <1>4, <2>1, SilentFacts DEF Silent
  <2>4. QED
    BY <2>2, <2>3 DEF Reaction
<1>5. CASE DealerCancels(s, m)
  <2>1. CASE IsPending(m.n)
    <3>1. /\ Deliver(s, "cancel", <<To(PendingCall(m.n).callee, "INTERRUPT", m.n), To(s, "ERROR", m.n)>>)
          /\ pending' = pending \ {PendingCall(m.n)} /\ canceled' = canceled \cup {PendingCall(m.n)} /\ m.type = "CANCEL"
      BY <1>5, <2>1 DEF DealerCancels
    <3>2. QED
      BY <2>1, <3>1 DEF Reaction, Cancels
  <2>2. CASE ~IsPending(m.n)
    <3>1. Deliver(s, "cancel", <<>>) /\ UNCHANGED <<pending, canceled>>
      BY <1>5, <2>2 DEF DealerCancels
    <3>2. Silent("cancel", <<>>)
      BY <3>1, SilentFacts DEF Silent
    <3>3. QED
      BY <3>1, <3>2 DEF Reaction
  <2>3. QED
    BY <2>1, <2>2
<1>6. QED
  BY <1>1, <1>2, <1>3, <1>4, <1>5 DEF DealerReceives

\* The broker's part: events and acknowledgements are no answers to calls.
LEMMA BrokerReacts ==
  ASSUME TypeOK, NEW s \in Sessions, NEW m \in Message, BrokerReceives(s, m), UNCHANGED <<pending, canceled>>
  PROVE  \E mode, msgs : Deliver(s, mode, msgs) /\ Reaction(s, m, mode, msgs)
<1>1. CASE m.type = "SUBSCRIBE" \/ m.type = "UNSUBSCRIBE"
  <2>1. PICK type \in {"SUBSCRIBED", "UNSUBSCRIBED", "REFUSED"} : Deliver(s, "other", <<To(s, type, 0)>>)
    BY <1>1 DEF BrokerReceives
  <2>2. Silent("other", <<To(s, type, 0)>>)
    BY SilentFacts DEF Silent
  <2>3. QED
    BY <2>1, <2>2 DEF Reaction
<1>2. CASE m.type = "PUBLISH"
  <2>1. subscribed \ {s} \in SUBSET Sessions
    BY DEF TypeOK
  <2>2. PICK order \in SetToSeqs(subscribed \ {s}), ack \in {<<>>, <<To(s, "PUBLISHED", m.n)>>} :
          Deliver(s, "publish", Events(order, m.n) \o ack)
    BY <1>2 DEF BrokerReceives, Events
  <2>3. PICK msgs : msgs = Events(order, m.n) \o ack
    OBVIOUS
  <2>4. \A i \in 1..Len(msgs) : msgs[i].msg.type \in {"EVENT", "PUBLISHED"}
    BY <1>2, <2>1, <2>3, PublishAnswer
  <2>5. Silent("publish", msgs)
    BY <2>4 DEF Silent, IsAnswer
  <2>6. QED
    BY <2>2, <2>3, <2>5 DEF Reaction
<1>3. QED
  BY <1>1, <1>2 DEF BrokerReceives

\* The whole of Receive.
LEMMA ReceiveReacts ==
  ASSUME TypeOK, Shape, NEW s \in Sessions, Receive(s), NEW m \in Message, m = Head(inbox[s])
  PROVE  \E mode, msgs : Deliver(s, mode, msgs) /\ Reaction(s, m, mode, msgs)
<1>1. CASE Deliver(s, "other", <<>>) /\ UNCHANGED <<dealerVars, subscribed, canceled>>
  <2>1. Silent("other", <<>>)
    BY <1>1, SilentFacts DEF Silent, dealerVars
  <2>2. QED
    BY <1>1, <2>1 DEF Reaction
<1>2. CASE Refuse(s, m) /\ UNCHANGED <<dealerVars, subscribed, canceled>>
  <2>1. CASE m.type = "CALL" /\ Deliver(s, "self", <<To(s, "ERROR", m.n)>>)
    BY <1>2, <2>1 DEF Reaction, Fails, dealerVars
  <2>2. CASE Deliver(s, "self", <<>>) \/ Deliver(s, "self", <<To(s, "REFUSED", m.n)>>)
    <3>1. Silent("self", <<>>) /\ Silent("self", <<To(s, "REFUSED", m.n)>>)
      BY <1>2, SilentFacts DEF Silent, dealerVars
    <3>2. QED
      BY <2>2, <3>1 DEF Reaction
  <2>3. QED
    BY <1>2, <2>1, <2>2 DEF Refuse
<1>3. CASE (DealerReceives(s, m) /\ UNCHANGED <<subscribed, canceled>>) \/ DealerCancels(s, m)
  BY <1>3, DealerReacts
<1>4. CASE BrokerReceives(s, m) /\ UNCHANGED <<dealerVars, canceled>>
  BY <1>4, BrokerReacts DEF dealerVars
<1>5. CASE Deliver(s, "goodbye", <<To(s, "GOODBYE", 0)>>) /\ UNCHANGED <<dealerVars, subscribed, canceled>>
  <2>1. Silent("goodbye", <<To(s, "GOODBYE", 0)>>)
    BY <1>5, SilentFacts DEF Silent, dealerVars
  <2>2. QED
    BY <1>5, <2>1 DEF Reaction
<1>6. QED
  BY <1>1, <1>2, <1>3, <1>4, <1>5 DEF Receive

\* A new answer to call n: there was none under way.
LEMMA BudgetAnswers ==
  ASSUME NEW n \in Numbers, NEW s \in Sessions, answers \in [Numbers -> Seq({"RESULT", "ERROR"})],
         Settled(n)', ~IsPending(n)', \A t \in Sessions : HasAnswer(t, n)' => t = s,
         answers'[n] = answers[n], Lost(n)' <=> Lost(n),
         answers[n] # <<>> => Lost(n) /\ Cancelled(n)' /\ Len(answers[n]) = 1,
         Lost(n) => ~Sent(n)' /\ s = origin'[n]
  PROVE  Budget(n)' /\ LostInv(n)'
<1>1. Len(answers[n]) \in {0, 1}
  <2>1. Len(<<>>) = 0
    OBVIOUS
  <2>2. answers[n] = <<>> \/ Len(answers[n]) = 1
    OBVIOUS
  <2>3. QED
    BY <2>1, <2>2
<1>2. Budget(n)'
  <2>1. Len(answers'[n]) <= 2 /\ Len(answers'[n]) # 2
    <3>1. PICK k \in {0, 1} : k = Len(answers'[n])
      BY <1>1
    <3>2. k <= 2 /\ k # 2
      OBVIOUS
    <3>3. QED
      BY <3>1, <3>2
  <2>2. Lost(n) /\ answers'[n] # <<>> => Lost(n)' /\ Cancelled(n)' /\ Len(answers'[n]) = 1
    OBVIOUS
  <2>3. QED
    BY <2>1, <2>2 DEF Budget
<1>3. LostInv(n)'
  BY DEF LostInv
<1>4. QED
  BY <1>2, <1>3

\* Which answers a goroutine has after a message was read.
LEMMA NewAnswers ==
  ASSUME Shape, NEW s \in Sessions, hpc[s] = "read", NEW mode, NEW msgs, Deliver(s, mode, msgs)
  PROVE  /\ todo'[s].msgs = msgs /\ todo'[s].mode = mode /\ todo[s].msgs = <<>>
         /\ \A t \in Sessions \ {s} : todo'[t] = todo[t]
         /\ \A n : ~HasAnswer(s, n)
         /\ \A n : HasAnswer(s, n)' <=> \E i \in 1..Len(msgs) : IsAnswer(msgs[i]) /\ msgs[i].msg.n = n
         /\ \A t \in Sessions \ {s} : \A n : HasAnswer(t, n)' <=> HasAnswer(t, n)
<1>1. todo \in [Sessions -> Batch] /\ todo[s].msgs = <<>>
  BY DEF Shape
<1>2. todo' = [todo EXCEPT ![s] = [mode |-> mode, msgs |-> msgs]]
  BY DEF Deliver
<1>3. todo'[s].msgs = msgs /\ todo'[s].mode = mode /\ \A t \in Sessions \ {s} : todo'[t] = todo[t]
  BY <1>1, <1>2
<1>4. \A n : ~HasAnswer(s, n)
  <2>1. Len(<<>>) = 0
    OBVIOUS
  <2>2. QED
    BY <1>1, <2>1 DEF HasAnswer
<1>5. \A n : HasAnswer(s, n)' <=> \E i \in 1..Len(msgs) : IsAnswer(msgs[i]) /\ msgs[i].msg.n = n
  BY <1>3 DEF HasAnswer, IsAnswer
<1>6. \A t \in Sessions \ {s} : \A n : HasAnswer(t, n)' <=> HasAnswer(t, n)
  BY <1>3 DEF HasAnswer, IsAnswer
<1>7. QED
  BY <1>1, <1>3, <1>4, <1>5, <1>6

\* What batches hold in answer to a call.
LEMMA ReactionFacts ==
  ASSUME NEW s, NEW m, NEW mode, NEW msgs, Reaction(s, m, mode, msgs)
  PROVE  /\ \A i \in 1..Len(msgs) : IsAnswer(msgs[i]) =>
              /\ msgs[i].msg.n = m.n
              /\ Fails(s, m, mode, msgs) \/ Replies(m, mode, msgs) \/ Cancels(s, m, mode, msgs)
         /\ \A i, j \in 1..Len(msgs) : IsAnswer(msgs[i]) /\ IsAnswer(msgs[j]) => i = j
         /\ mode = "call" => \A i \in 1..Len(msgs) : i = 1 /\ msgs[i].msg.type \in {"INVOCATION", "ERROR"}
         /\ Fails(s, m, mode, msgs) \/ Replies(m, mode, msgs) \/ Cancels(s, m, mode, msgs) =>
              \A i \in 1..Len(msgs) : msgs[i].msg.type # "INVOCATION"
<1>1. ASSUME NEW r, NEW type
      PROVE  /\ Len(<<To(r, type, m.n)>>) = 1
             /\ \A i \in 1..Len(<<To(r, type, m.n)>>) :
                  i = 1 /\ <<To(r, type, m.n)>>[i].msg.type = type /\ <<To(r, type, m.n)>>[i].msg.n = m.n
  <2>1. PICK d : d = To(r, type, m.n) /\ d.msg.type = type /\ d.msg.n = m.n
    BY MsgFacts
  <2>2. Len(<<d>>) = 1 /\ \A i \in 1..Len(<<d>>) : i = 1 /\ <<d>>[i] = d
    OBVIOUS
  <2>3. QED
    BY <2>1, <2>2
<1>2. CASE Silent(mode, msgs)
  <2>1. /\ mode # "call" /\ \A i \in 1..Len(msgs) : ~IsAnswer(msgs[i])
    BY <1>2 DEF Silent
  <2>2. Fails(s, m, mode, msgs) \/ Replies(m, mode, msgs) \/ Cancels(s, m, mode, msgs) =>
              \A i \in 1..Len(msgs) : msgs[i].msg.type # "INVOCATION"
    <3>1. \A r, type : type \in {"RESULT", "ERROR"} => msgs # <<To(r, type, m.n)>>
      <4>1. ASSUME NEW r, NEW type, type \in {"RESULT", "ERROR"}, msgs = <<To(r, type, m.n)>> PROVE FALSE
        <5>1. 1 \in 1..Len(msgs) /\ msgs[1].msg.type = type
          BY <1>1, <4>1
        <5>2. QED
          BY <2>1, <4>1, <5>1 DEF IsAnswer
      <4>2. QED
        BY <4>1
    <3>2. ASSUME NEW r, msgs = <<To(r, "INTERRUPT", m.n), To(s, "ERROR", m.n)>> PROVE FALSE
      <4>1. PICK a, b : msgs = <<a, b>> /\ b = To(s, "ERROR", m.n) /\ b.msg.type = "ERROR"
        BY <3>2, MsgFacts
      <4>2. 2 \in 1..Len(msgs) /\ msgs[2] = b
        BY <4>1
      <4>3. QED
        BY <2>1, <4>1, <4>2 DEF IsAnswer
    <3>3. QED
      BY <3>1, <3>2 DEF Fails, Replies, Cancels
  <2>3. QED
    BY <2>1, <2>2
<1>3. CASE Fails(s, m, mode, msgs) \/ Replies(m, mode, msgs)
  <2>1. PICK r, type : /\ type \in {"RESULT", "ERROR"} /\ msgs = <<To(r, type, m.n)>>
                       /\ mode = "call" => type = "ERROR"
    BY <1>3 DEF Fails, Replies
  <2>2. \A i \in 1..Len(msgs) : i = 1 /\ msgs[i].msg.type = type /\ msgs[i].msg.n = m.n
    BY <1>1, <2>1
  <2>3. QED
    BY <1>3, <2>1, <2>2
<1>4. CASE Opens(s, m, mode, msgs)
  <2>1. \A i \in 1..Len(msgs) : i = 1 /\ msgs[i].msg.type = "INVOCATION" /\ msgs[i].msg.n = m.n
    BY <1>1, <1>4 DEF Opens
  <2>2. msgs = <<To(registered, "INVOCATION", m.n)>> /\ m.type = "CALL"
    BY <1>4 DEF Opens
  <2>3. ~Fails(s, m, mode, msgs)
    <3>1. 1 \in 1..Len(msgs)
      BY <1>1, <2>2
    <3>2. msgs # <<To(s, "ERROR", m.n)>>
      BY <1>1, <2>1, <3>1
    <3>3. QED
      BY <3>2 DEF Fails
  <2>4. ~Replies(m, mode, msgs) /\ ~Cancels(s, m, mode, msgs)
    BY <2>2 DEF Replies, Cancels
  <2>5. QED
    BY <2>1, <2>3, <2>4 DEF IsAnswer
<1>5. CASE Cancels(s, m, mode, msgs)
  <2>1. PICK a, b : /\ msgs = <<a, b>> /\ a.msg.type = "INTERRUPT" /\ b.msg.type = "ERROR" /\ b.msg.n = m.n
    BY <1>5, MsgFacts DEF Cancels
  <2>2. \A i \in 1..Len(msgs) : (i = 1 /\ msgs[i] = a) \/ (i = 2 /\ msgs[i] = b)
    BY <2>1
  <2>3. \A i \in 1..Len(msgs) : /\ msgs[i].msg.type # "INVOCATION"
                                /\ IsAnswer(msgs[i]) => i = 2 /\ msgs[i].msg.n = m.n
    BY <2>1, <2>2 DEF IsAnswer
  <2>4. mode # "call"
    BY <1>5 DEF Cancels
  <2>5. QED
    BY <1>5, <2>3, <2>4
<1>6. QED
  BY <1>2, <1>3, <1>4, <1>5 DEF Reaction

\* What the message that is read says about its call: a call is new, a CANCEL comes from the
\* caller, and an answer from a client that was sent the INVOCATION.
LEMMA HeadFacts ==
  ASSUME Shape, QInv, NEW s \in Sessions, inbox[s] # <<>>, NEW m, m = Head(inbox[s])
  PROVE  /\ m.type = "CANCEL" => origin[m.n] = s
         /\ m.type \in {"YIELD", "ERROR"} => Sent(m.n) /\ Settled(m.n)
<1>t. inbox[s] \in Seq(Message) /\ seen[s] \in Seq(Message) /\ outq[s] \in Seq(Message)
  BY DEF Shape
<1>1. 1 \in 1..Len(inbox[s]) /\ m = inbox[s][1]
  BY <1>t, TailFacts
<1>2. m.type = "CANCEL" => origin[m.n] = s
  BY <1>1 DEF QInv, InboxInv
<1>3. ASSUME m.type \in {"YIELD", "ERROR"} PROVE Sent(m.n) /\ Settled(m.n)
  <2>1. PICK k \in 1..Len(seen[s]) : seen[s][k] = Msg("INVOCATION", m.n)
    BY <1>1, <1>3 DEF QInv, InboxInv
  <2>2. k \in 1..Len(Box(s)) /\ Box(s)[k] = Msg("INVOCATION", m.n)
    BY <1>t, <2>1, PrefixFacts DEF Box
  <2>3. Box(s)[k].type = "INVOCATION" /\ Box(s)[k].n = m.n
    BY <2>2, MsgFacts
  <2>4. BoxOK(s, Box(s)[k])
    BY <2>2 DEF QInv, BoxInv
  <2>5. QED
    BY <2>2, <2>3, <2>4 DEF Sent, BoxOK
<1>4. QED
  BY <1>2, <1>3

\* A goroutine reads the next message of its client.
LEMMA AnswersReceive ==
  ASSUME TypeOK, Shape, QInv, AInv, UNCHANGED load, NEW s \in Sessions, Receive(s),
         \A t \in Sessions : Shrinks(t)
  PROVE  AInv'
<1>1. /\ hpc[s] = "read" /\ inbox[s] # <<>> /\ Head(inbox[s]) \in Message
      /\ UNCHANGED <<outq, seen, origin, answers, dropped>>
  BY ReceiveFacts DEF clientVars
<1>2. PICK m \in Message : m = Head(inbox[s])
  BY <1>1
<1>3. PICK mode, msgs : Deliver(s, mode, msgs) /\ Reaction(s, m, mode, msgs)
  BY <1>2, ReceiveReacts
<1>4. /\ todo'[s].msgs = msgs /\ todo'[s].mode = mode /\ todo[s].msgs = <<>>
      /\ \A t \in Sessions \ {s} : todo'[t] = todo[t]
      /\ \A n : ~HasAnswer(s, n)
      /\ \A n : HasAnswer(s, n)' <=> \E i \in 1..Len(msgs) : IsAnswer(msgs[i]) /\ msgs[i].msg.n = n
      /\ \A t \in Sessions \ {s} : \A n : HasAnswer(t, n)' <=> HasAnswer(t, n)
  BY <1>1, <1>3, NewAnswers
<1>5. /\ \A i \in 1..Len(msgs) : IsAnswer(msgs[i]) =>
           /\ msgs[i].msg.n = m.n
           /\ Fails(s, m, mode, msgs) \/ Replies(m, mode, msgs) \/ Cancels(s, m, mode, msgs)
      /\ \A i, j \in 1..Len(msgs) : IsAnswer(msgs[i]) /\ IsAnswer(msgs[j]) => i = j
      /\ mode = "call" => \A i \in 1..Len(msgs) : i = 1 /\ msgs[i].msg.type \in {"INVOCATION", "ERROR"}
      /\ Fails(s, m, mode, msgs) \/ Replies(m, mode, msgs) \/ Cancels(s, m, mode, msgs) =>
           \A i \in 1..Len(msgs) : msgs[i].msg.type # "INVOCATION"
  BY <1>3, ReactionFacts
<1>6. Kept /\ (Fresh(m) => Passed(m.n)' /\ ~Passed(m.n) /\ origin[m.n] = s)
  BY <1>2, OrderReceive
<1>7. /\ \A n : Lost(n)' <=> Lost(n)
      /\ \A n : Sent(n)' <=> Sent(n)
      /\ Numbers' = Numbers
  BY <1>1 DEF Lost, Sent, Box, Numbers
<1>8. /\ answers \in [Numbers -> Seq({"RESULT", "ERROR"})]
      /\ \A n \in Numbers : Budget(n) /\ LostInv(n)
      /\ OpenCalls
  BY DEF AInv
<1>9. /\ m.type = "CANCEL" => origin[m.n] = s
      /\ m.type \in {"YIELD", "ERROR"} => Sent(m.n) /\ Settled(m.n)
  BY <1>1, <1>2, HeadFacts
<1>10. ASSUME pending' = pending \ {PendingCall(m.n)}, IsPending(m.n)
       PROVE  ~IsPending(m.n)'
  <2>1. PendingCall(m.n) \in pending /\ PendingCall(m.n).n = m.n
    BY <1>10, PendingFacts
  <2>2. \A p \in pending : p.n = m.n => p = PendingCall(m.n)
    BY <1>8, <2>1 DEF OpenCalls
  <2>3. QED
    BY <1>10, <2>2 DEF IsPending
<1>11. ASSUME NEW n \in Numbers, n # m.n \/ Silent(mode, msgs)
       PROVE  Budget(n)' /\ LostInv(n)'
  <2>1. ~HasAnswer(s, n)'
    <3>1. \A i \in 1..Len(msgs) : ~(IsAnswer(msgs[i]) /\ msgs[i].msg.n = n)
      BY <1>5, <1>11 DEF Silent
    <3>2. QED
      BY <1>4, <3>1
  <2>2. \A t \in Sessions : HasAnswer(t, n)' => HasAnswer(t, n)
    BY <1>4, <2>1
  <2>3. IsPending(n)' => IsPending(n)
    <3>1. \A p \in pending' : p \in pending \/ (p.n = m.n /\ ~Silent(mode, msgs))
      BY <1>3 DEF Reaction, Silent, Fails, Replies, Opens, Cancels
    <3>2. QED
      BY <1>11, <3>1 DEF IsPending
  <2>4. Cancelled(n)' <=> Cancelled(n)
    <3>1. canceled \subseteq canceled' /\ \A p \in canceled' : p \in canceled \/ (p.n = m.n /\ ~Silent(mode, msgs))
      BY <1>3, PendingFacts DEF Reaction, Silent, Fails, Replies, Opens, Cancels
    <3>2. QED
      BY <1>11, <3>1 DEF Cancelled
  <2>5. answers'[n] = answers[n]
    BY <1>1
  <2>6. QED
    BY <1>6, <1>7, <1>8, <2>2, <2>3, <2>4, <2>5, BudgetKept
<1>12. ASSUME NEW n \in Numbers, n = m.n, Opens(s, m, mode, msgs)
       PROVE  Budget(n)' /\ LostInv(n)'
  <2>1. ~Settled(n)
    BY <1>6, <1>12 DEF Opens, Fresh, Settled
  <2>2. ~Answering(n) /\ answers[n] = <<>> /\ ~Cancelled(n) /\ ~Lost(n)
    BY <1>8, <2>1 DEF Budget
  <2>3. ~Answering(n)'
    <3>1. \A i \in 1..Len(msgs) : ~IsAnswer(msgs[i])
      <4>1. PICK d : msgs = <<d>> /\ d.msg.type = "INVOCATION"
        BY <1>12, MsgFacts DEF Opens
      <4>2. QED
        BY <4>1 DEF IsAnswer
    <3>2. QED
      BY <1>4, <2>2, <3>1 DEF Answering
  <2>4. ~Cancelled(n)'
    BY <1>12, <2>2 DEF Opens, Cancelled
  <2>5. answers'[n] = <<>> /\ ~Lost(n)'
    BY <1>1, <1>7, <2>2
  <2>6. Len(<<>>) = 0
    OBVIOUS
  <2>7. QED
    BY <2>3, <2>4, <2>5, <2>6 DEF Budget, LostInv, Answering
<1>13. ASSUME NEW n \in Numbers, n = m.n,
              Fails(s, m, mode, msgs) \/ Replies(m, mode, msgs) \/ Cancels(s, m, mode, msgs)
       PROVE  Budget(n)' /\ LostInv(n)'
  <2>1. answers'[n] = answers[n]
    BY <1>1
  <2>2. CASE Fails(s, m, mode, msgs)
    <3>1. Passed(n)' /\ ~Passed(n) /\ origin[n] = s
      BY <1>6, <1>13, <2>2 DEF Fails, Fresh
    <3>2. ~Answering(n) /\ answers[n] = <<>> /\ ~Cancelled(n) /\ ~Lost(n)
      BY <1>8, <3>1 DEF Budget, Settled
    <3>3. Settled(n)'
      BY <1>1, <1>4, <1>5, <2>2, <3>1 DEF Settled
    <3>4. ~IsPending(n)'
      <4>1. ~IsPending(n)
        BY <3>1 DEF IsPending, QInv, PendingInv
      <4>2. QED
        BY <2>2, <4>1 DEF Fails, IsPending
    <3>5. \A t \in Sessions : HasAnswer(t, n)' => t = s
      BY <1>4, <3>2 DEF Answering
    <3>6. QED
      BY <1>7, <1>8, <2>1, <3>2, <3>3, <3>4, <3>5, BudgetAnswers
  <2>3. CASE Replies(m, mode, msgs)
    <3>1. IsPending(n) /\ Sent(n) /\ Settled(n)
      BY <1>9, <1>13, <2>3 DEF Replies
    <3>2. ~Lost(n) /\ ~Answering(n) /\ answers[n] = <<>>
      BY <1>8, <3>1 DEF Budget, LostInv
    <3>3. Settled(n)'
      BY <1>6, <3>1, KeptFacts DEF Kept
    <3>4. ~IsPending(n)'
      BY <1>10, <1>13, <2>3 DEF Replies
    <3>5. \A t \in Sessions : HasAnswer(t, n)' => t = s
      BY <1>4, <3>2 DEF Answering
    <3>6. QED
      BY <1>7, <1>8, <2>1, <3>2, <3>3, <3>4, <3>5, BudgetAnswers
  <2>4. CASE Cancels(s, m, mode, msgs)
    <3>1. IsPending(n) /\ origin[n] = s
      BY <1>9, <1>13, <2>4 DEF Cancels
    <3>2. Passed(n)' /\ origin'[n] = s
      <4>1. Passed(n)
        BY <3>1 DEF IsPending, QInv, PendingInv
      <4>2. QED
        BY <1>1, <1>6, <3>1, <4>1, KeptFacts DEF Kept
    <3>3. Settled(n)'
      BY <1>4, <1>5, <2>4, <3>2 DEF Settled
    <3>4. ~IsPending(n)'
      BY <1>10, <1>13, <2>4 DEF Cancels
    <3>5. ~Answering(n)
      <4>1. CASE Lost(n)
        BY <1>4, <1>8, <3>1, <4>1 DEF Answering, LostInv
      <4>2. CASE ~Lost(n)
        BY <1>8, <3>1, <4>2 DEF Budget
      <4>3. QED
        BY <4>1, <4>2
    <3>6. \A t \in Sessions : HasAnswer(t, n)' => t = s
      BY <1>4, <3>5 DEF Answering
    <3>7. Cancelled(n)'
      BY <1>13, <2>4, PendingFacts DEF Cancels, Cancelled
    <3>8. answers[n] # <<>> => Lost(n) /\ Len(answers[n]) = 1
      <4>1. ~Cancelled(n) /\ (answers[n] # <<>> => Lost(n)) /\ Len(answers[n]) <= 2 /\ Len(answers[n]) # 2
        BY <1>8, <3>1 DEF Budget
      <4>2. answers[n] \in Seq({"RESULT", "ERROR"})
        BY <1>8
      <4>3. answers[n] # <<>> => Len(answers[n]) \in Nat \ {0}
        BY <4>2
      <4>4. \A k \in Nat \ {0} : k <= 2 /\ k # 2 => k = 1
        OBVIOUS
      <4>5. QED
        BY <4>1, <4>3, <4>4
    <3>9. Lost(n) => ~Sent(n)' /\ s = origin'[n]
      BY <1>7, <1>8, <3>2 DEF LostInv
    <3>10. QED
      BY <1>7, <1>8, <2>1, <3>3, <3>4, <3>6, <3>7, <3>8, <3>9, BudgetAnswers
  <2>5. QED
    BY <1>13, <2>2, <2>3, <2>4
<1>14. \A n \in Numbers' : Budget(n)' /\ LostInv(n)'
  BY <1>3, <1>7, <1>11, <1>12, <1>13 DEF Reaction
<1>15. \A t \in Sessions : Single(t)'
  <2>1. Single(s)'
    BY <1>4, <1>5 DEF Single, IsAnswer
  <2>2. \A t \in Sessions \ {s} : Single(t)'
    BY <1>4 DEF AInv, Single, IsAnswer
  <2>3. QED
    BY <2>1, <2>2
<1>16. OpenCalls'
  <2>1. CASE Opens(s, m, mode, msgs)
    <3>1. PICK c : /\ c = [n |-> m.n, caller |-> s, callee |-> registered] /\ c.n = m.n /\ c.caller = s
                   /\ pending' = pending \cup {c}
      BY <2>1 DEF Opens
    <3>2. origin'[c.n] = c.caller /\ ~Passed(c.n)
      BY <1>1, <1>6, <2>1, <3>1 DEF Opens, Fresh
    <3>3. \A p \in pending : p.n # c.n
      BY <3>2 DEF QInv, PendingInv
    <3>4. QED
      BY <1>1, <1>8, <3>1, <3>2, <3>3 DEF OpenCalls
  <2>2. CASE pending' \subseteq pending
    BY <1>1, <1>8, <2>2 DEF OpenCalls
  <2>3. QED
    BY <1>3, <2>1, <2>2 DEF Reaction, Silent, Fails, Replies, Cancels
<1>17. \A p \in canceled' : CancelOK(p)'
  <2>1. ASSUME NEW p \in canceled PROVE CancelOK(p)'
    <3>1. p.caller \in Sessions /\ p.callee \in Sessions /\ CancelOK(p)
      BY DEF TypeOK, AInv
    <3>2. todo'[p.caller] = todo[p.caller] \/ todo[p.caller].msgs = <<>>
      BY <1>4, <3>1
    <3>3. QED
      BY <1>1, <3>1, <3>2, CancelKept
  <2>2. ASSUME NEW p, p = PendingCall(m.n), Cancels(s, m, mode, msgs) PROVE CancelOK(p)'
    <3>1. p \in pending /\ p.n = m.n /\ origin[m.n] = s
      BY <1>9, <2>2, PendingFacts DEF Cancels
    <3>2. p.caller = s
      BY <1>8, <3>1 DEF OpenCalls
    <3>3. todo'[s].mode = "cancel" /\ todo'[s].msgs \in CancelBatches(p)
      BY <1>4, <2>2, <3>1, <3>2 DEF Cancels, CancelBatches
    <3>4. hpc'[s] # "new"
      BY <1>1 DEF Shrinks
    <3>5. QED
      BY <3>2, <3>3, <3>4 DEF CancelOK, CancelBatches
  <2>3. \A p \in canceled' : p \in canceled \/ (p = PendingCall(m.n) /\ Cancels(s, m, mode, msgs))
    BY <1>3 DEF Reaction, Silent, Fails, Replies, Opens, Cancels
  <2>4. QED
    BY <2>1, <2>2, <2>3
<1>18. QED
  BY <1>1, <1>7, <1>8, <1>14, <1>15, <1>16, <1>17 DEF AInv

\* The ways to deliver message d, the first of what client s's goroutine has in q: what
\* becomes of the batch, the answers and what is dropped.
Left(s, msgs) == todo'[s].msgs = msgs /\ (msgs # <<>> => todo'[s].mode = todo[s].mode)
Queued(s, q, d) ==
  /\ Left(s, Tail(q)) /\ UNCHANGED dropped
  /\ answers' = IF IsAnswer(d) THEN [answers EXCEPT ![d.msg.n] = Append(answers[d.msg.n], d.msg.type)]
                               ELSE answers
Dropped(s, q, d) ==
  /\ UNCHANGED <<outq, answers>> /\ dropped' = dropped \cup {<<d.msg.type, d.msg.n>>}
  /\ \/ Left(s, Tail(q))
     \/ todo[s].mode = "call" /\ todo'[s].mode = "last" /\ todo'[s].msgs = <<To(s, "ERROR", d.msg.n)>>
Skipped(s, q, d) ==
  /\ UNCHANGED <<outq, answers, dropped>> /\ (d.to \notin clients \/ ~peerOpen[d.to])
  /\ \/ Left(s, Tail(q))
     \/ todo'[s].msgs = <<>> /\ (d.to \notin clients => todo[s].mode # "cancel" \/ ~peerOpen[d.to])

LEMMA DeliverCases ==
  ASSUME Shape, NEW s \in Sessions, DeliverStep(s), NEW q, q = todo[s].msgs, NEW d, d = Head(q)
  PROVE  /\ \A t \in Sessions \ {s} : todo'[t] = todo[t]
         /\ Queued(s, q, d) \/ Dropped(s, q, d) \/ Skipped(s, q, d)
<1>t. todo \in [Sessions -> Batch]
  BY DEF Shape
<1>1. ASSUME NEW mode, NEW rest, GoOn(s, mode, rest)
      PROVE  todo'[s].msgs = rest /\ (rest # <<>> => todo'[s].mode = mode) /\ \A t \in Sessions \ {s} : todo'[t] = todo[t]
  <2>1. CASE rest = <<>>
    <3>1. todo' = [todo EXCEPT ![s] = Nothing]
      BY <1>1, <2>1 DEF GoOn
    <3>2. todo'[s] = Nothing /\ \A t \in Sessions \ {s} : todo'[t] = todo[t]
      BY <1>t, <3>1
    <3>3. QED
      BY <2>1, <3>2 DEF Nothing
  <2>2. CASE rest # <<>>
    <3>1. todo' = [todo EXCEPT ![s] = [mode |-> mode, msgs |-> rest]]
      BY <1>1, <2>2 DEF GoOn
    <3>2. todo'[s] = [mode |-> mode, msgs |-> rest] /\ \A t \in Sessions \ {s} : todo'[t] = todo[t]
      BY <1>t, <3>1
    <3>3. QED
      BY <2>2, <3>2
  <2>3. QED
    BY <2>1, <2>2
<1>2. ASSUME GiveUp(s)
      PROVE  todo'[s].msgs = <<>> /\ \A t \in Sessions \ {s} : todo'[t] = todo[t]
  BY <1>t, <1>2 DEF GiveUp, Nothing
<1>3. CASE DeliverQueued(s)
  <2>1. /\ GoOn(s, todo[s].mode, Tail(q)) /\ UNCHANGED dropped
        /\ answers' = IF IsAnswer(d) THEN [answers EXCEPT ![d.msg.n] = Append(answers[d.msg.n], d.msg.type)] ELSE answers
    BY <1>3 DEF DeliverQueued
  <2>2. QED
    BY <1>1, <2>1 DEF Queued, Left
<1>4. CASE DeliverDropped(s)
  <2>1. /\ UNCHANGED <<outq, answers>> /\ dropped' = dropped \cup {<<d.msg.type, d.msg.n>>}
        /\ \/ todo[s].mode = "call" /\ GoOn(s, "last", <<To(s, "ERROR", d.msg.n)>>)
           \/ GoOn(s, todo[s].mode, Tail(q))
    BY <1>4 DEF DeliverDropped, peerVars
  <2>2. <<To(s, "ERROR", d.msg.n)>> # <<>>
    OBVIOUS
  <2>3. CASE todo[s].mode = "call" /\ GoOn(s, "last", <<To(s, "ERROR", d.msg.n)>>)
    BY <1>1, <2>1, <2>2, <2>3 DEF Dropped
  <2>4. CASE GoOn(s, todo[s].mode, Tail(q))
    BY <1>1, <2>1, <2>4 DEF Dropped, Left
  <2>5. QED
    BY <2>1, <2>3, <2>4
<1>5. CASE DeliverAbsent(s)
  <2>1. /\ UNCHANGED <<outq, answers, dropped>> /\ d.to \notin clients
        /\ GoOn(s, todo[s].mode, Tail(q)) \/ (GiveUp(s) /\ todo[s].mode # "cancel")
    BY <1>5 DEF DeliverAbsent, peerVars, histVars
  <2>2. CASE GoOn(s, todo[s].mode, Tail(q))
    BY <1>1, <2>1, <2>2 DEF Skipped, Left
  <2>3. CASE GiveUp(s) /\ todo[s].mode # "cancel"
    BY <1>2, <2>1, <2>3 DEF Skipped
  <2>4. QED
    BY <2>1, <2>2, <2>3
<1>6. CASE DeliverClosed(s)
  <2>1. /\ UNCHANGED <<outq, answers, dropped>> /\ ~peerOpen[d.to]
        /\ GoOn(s, todo[s].mode, Tail(q)) \/ GiveUp(s)
    BY <1>6 DEF DeliverClosed, peerVars, histVars
  <2>2. CASE GoOn(s, todo[s].mode, Tail(q))
    BY <1>1, <2>1, <2>2 DEF Skipped, Left
  <2>3. CASE GiveUp(s)
    BY <1>2, <2>1, <2>3 DEF Skipped
  <2>4. QED
    BY <2>1, <2>2, <2>3
<1>7. QED
  BY <1>3, <1>4, <1>5, <1>6 DEF DeliverStep

\* Only a queued INVOCATION is newly sent.
LEMMA SentAppend ==
  ASSUME Shape, NEW r \in Sessions, NEW m \in Message, UNCHANGED seen,
         outq' = [outq EXCEPT ![r] = Append(outq[r], m)]
  PROVE  \A n : Sent(n)' => Sent(n) \/ (m.type = "INVOCATION" /\ m.n = n)
<1>1. Box(r)' = Append(Box(r), m) /\ \A t \in Sessions \ {r} : Box(t)' = Box(t)
  BY BoxAppend
<1>2. Box(r) \in Seq(Message)
  BY DEF Shape, Box
<1>3. ASSUME NEW i \in 1..Len(Append(Box(r), m))
      PROVE  Append(Box(r), m)[i] = m \/ (i \in 1..Len(Box(r)) /\ Append(Box(r), m)[i] = Box(r)[i])
  BY <1>2
<1>4. ASSUME NEW n, NEW t \in Sessions, NEW i \in 1..Len(Box(t)'), Box(t)'[i].type = "INVOCATION", Box(t)'[i].n = n
      PROVE  Sent(n) \/ (m.type = "INVOCATION" /\ m.n = n)
  <2>1. CASE t = r
    BY <1>1, <1>3, <1>4, <2>1 DEF Sent
  <2>2. CASE t # r
    BY <1>1, <1>4, <2>2 DEF Sent
  <2>3. QED
    BY <2>1, <2>2
<1>5. QED
  BY <1>4 DEF Sent

\* A goroutine delivers one message, or gives up.
LEMMA AnswersDeliver ==
  ASSUME TypeOK, Shape, QInv, AInv, UNCHANGED load, NEW s \in Sessions, DeliverStep(s),
         \A t \in Sessions : Shrinks(t)
  PROVE  AInv'
<1>1. PICK q \in Seq(Delivery) : q = todo[s].msgs /\ q # <<>>
  BY DeliverFacts
<1>2. PICK d \in Delivery : d = Head(q)
  BY <1>1
<1>3. /\ UNCHANGED <<pending, canceled, origin, seen, peerOpen, clients>>
      /\ UNCHANGED outq \/ outq' = [outq EXCEPT ![d.to] = Append(outq[d.to], d.msg)]
  BY <1>1, <1>2, DeliverFacts DEF dealerVars, clientVars, tableVars
<1>4. /\ d = q[1] /\ 1 \in 1..Len(q) /\ Len(q) \in Nat /\ Len(Tail(q)) = Len(q) - 1
      /\ \A j \in 1..Len(Tail(q)) : Tail(q)[j] = q[j + 1] /\ j + 1 \in 1..Len(q)
  BY <1>1, <1>2, TailFacts
<1>5. (Queued(s, q, d) \/ Dropped(s, q, d) \/ Skipped(s, q, d)) /\ \A t \in Sessions \ {s} : todo'[t] = todo[t]
  BY <1>1, <1>2, DeliverCases
<1> USE DEF Left, Queued, Dropped, Skipped
<1>6. Kept
  BY OrderDeliver
<1>7. /\ answers \in [Numbers -> Seq({"RESULT", "ERROR"})] /\ Numbers' = Numbers
      /\ \A n \in Numbers : Budget(n) /\ LostInv(n)
      /\ OpenCalls /\ \A t \in Sessions : Single(t)
      /\ \A p \in canceled : CancelOK(p)
  BY DEF AInv, Numbers
<1>8. \A t \in Sessions \ {s} : \A n : HasAnswer(t, n)' <=> HasAnswer(t, n)
  BY <1>5 DEF HasAnswer, IsAnswer
<1>9. /\ \A i, j \in 1..Len(q) : IsAnswer(q[i]) /\ IsAnswer(q[j]) => i = j
      /\ todo[s].mode = "call" => \A i \in 1..Len(q) : i = 1 /\ q[i].msg.type \in {"INVOCATION", "ERROR"}
      /\ \A n : HasAnswer(s, n) <=> \E i \in 1..Len(q) : IsAnswer(q[i]) /\ q[i].msg.n = n
  BY <1>1, <1>7 DEF Single, HasAnswer
<1>10. PICK e : e = To(s, "ERROR", d.msg.n) /\ e.msg.type = "ERROR" /\ e.msg.n = d.msg.n /\ IsAnswer(e)
  BY MsgFacts DEF IsAnswer
<1>11. Len(<<e>>) = 1 /\ (\A i \in 1..Len(<<e>>) : i = 1 /\ <<e>>[i] = e) /\ \A i \in 1..Len(<<>>) : FALSE
  OBVIOUS
<1>12. ASSUME Left(s, Tail(q)), IsAnswer(d) PROVE \A n : ~HasAnswer(s, n)'
  <2>1. \A j \in 1..Len(Tail(q)) : j + 1 # 1
    BY <1>4
  <2>2. \A j \in 1..Len(Tail(q)) : ~IsAnswer(Tail(q)[j])
    BY <1>4, <1>9, <1>12, <2>1
  <2>3. QED
    BY <1>12, <2>2 DEF HasAnswer, IsAnswer
<1>13. \A n : HasAnswer(s, n)' => \/ HasAnswer(s, n) \/ (Dropped(s, q, d) /\ d.msg.n = n /\ todo[s].mode = "call")
  <2>1. CASE todo'[s].msgs = Tail(q)
    <3>1. ASSUME NEW n, NEW j \in 1..Len(Tail(q)), IsAnswer(Tail(q)[j]), Tail(q)[j].msg.n = n
          PROVE  HasAnswer(s, n)
      BY <1>4, <1>9, <3>1
    <3>2. QED
      BY <2>1, <3>1 DEF HasAnswer, IsAnswer
  <2>2. CASE todo'[s].msgs = <<>>
    BY <1>11, <2>2 DEF HasAnswer
  <2>3. CASE Dropped(s, q, d) /\ todo[s].mode = "call" /\ todo'[s].msgs = <<e>>
    BY <1>10, <1>11, <2>3 DEF HasAnswer
  <2>4. QED
    BY <1>5, <1>10, <2>1, <2>2, <2>3
<1>14. \A n : Sent(n)' => Sent(n) \/ (Queued(s, q, d) /\ d.msg.type = "INVOCATION" /\ d.msg.n = n)
  <2>1. CASE UNCHANGED outq
    BY <1>3, <2>1 DEF Sent, Box
  <2>2. CASE outq' = [outq EXCEPT ![d.to] = Append(outq[d.to], d.msg)] /\ Queued(s, q, d)
    <3>1. PICK r \in Sessions, m \in Message : r = d.to /\ m = d.msg
      BY DEF Delivery
    <3>2. QED
      BY <1>3, <2>2, <3>1, SentAppend
  <2>3. QED
    BY <1>3, <1>5, <2>1, <2>2
<1>15. ASSUME d.msg.type = "INVOCATION"
       PROVE  /\ ~Settled(d.msg.n) /\ Settled(d.msg.n)' /\ origin[d.msg.n] = s /\ Tail(q) = <<>>
              /\ ~IsAnswer(d) /\ ~Sent(d.msg.n)
  <2>1. Passed(d.msg.n) /\ origin[d.msg.n] = s /\ Len(q) = 1
    BY <1>1, <1>4, <1>15 DEF QInv, TodoInv, BatchOK
  <2>2. ~Settled(d.msg.n)
    BY <1>1, <1>4, <1>15, <2>1 DEF Settled
  <2>3. Tail(q) = <<>>
    BY <1>1, <1>4, <2>1
  <2>4. \A i \in 1..Len(todo'[s].msgs) : todo'[s].msgs[i].msg.type # "INVOCATION"
    <3>1. CASE todo'[s].msgs = <<>>
      BY <1>11, <3>1
    <3>2. CASE todo'[s].msgs = <<e>>
      BY <1>10, <1>11, <3>2
    <3>3. QED
      BY <1>5, <1>10, <2>3, <3>1, <3>2
  <2>5. Settled(d.msg.n)'
    <3>1. Passed(d.msg.n)' /\ origin'[d.msg.n] = s
      BY <1>3, <1>6, <2>1, KeptFacts DEF Kept
    <3>2. QED
      BY <2>4, <3>1 DEF Settled
  <2>6. ~Sent(d.msg.n)
    BY <2>2 DEF Sent, QInv, BoxInv, BoxOK
  <2>7. QED
    BY <1>15, <2>1, <2>2, <2>3, <2>5, <2>6 DEF IsAnswer
<1>16. ASSUME NEW n \in Numbers, ~(d.msg.type = "INVOCATION" /\ d.msg.n = n), answers'[n] = answers[n]
       PROVE  Budget(n)' /\ LostInv(n)'
  <2>1. \A t \in Sessions : HasAnswer(t, n)' => HasAnswer(t, n)
    <3>1. ASSUME HasAnswer(s, n)', ~HasAnswer(s, n) PROVE FALSE
      <4>1. d.msg.n = n /\ todo[s].mode = "call"
        BY <1>13, <3>1
      <4>2. d.msg.type = "ERROR"
        BY <1>4, <1>9, <1>16, <4>1
      <4>3. QED
        BY <1>4, <1>9, <3>1, <4>1, <4>2 DEF IsAnswer
    <3>2. QED
      BY <1>8, <3>1
  <2>2. IsPending(n)' => IsPending(n)
    BY <1>3 DEF IsPending
  <2>3. Cancelled(n)' <=> Cancelled(n)
    BY <1>3 DEF Cancelled
  <2>4. Lost(n)' <=> Lost(n)
    <3>1. \A type, k : <<type, k>> = <<"INVOCATION", n>> => type = "INVOCATION" /\ k = n
      OBVIOUS
    <3>2. dropped' = dropped \/ dropped' = dropped \cup {<<d.msg.type, d.msg.n>>}
      BY <1>5
    <3>3. QED
      BY <1>16, <3>1, <3>2 DEF Lost
  <2>5. Sent(n)' => Sent(n)
    BY <1>14, <1>16
  <2>6. QED
    BY <1>6, <1>7, <1>16, <2>1, <2>2, <2>3, <2>4, <2>5, BudgetKept
<1>17. ASSUME NEW n \in Numbers, d.msg.type = "INVOCATION", d.msg.n = n
       PROVE  Budget(n)' /\ LostInv(n)'
  <2>1. ~Settled(n) /\ Settled(n)' /\ origin[n] = s /\ ~IsAnswer(d) /\ ~Sent(n)
    BY <1>15, <1>17
  <2>2. ~Answering(n) /\ answers[n] = <<>> /\ ~Cancelled(n) /\ ~Lost(n)
    BY <1>7, <2>1 DEF Budget
  <2>3. answers'[n] = <<>> /\ ~Cancelled(n)' /\ Len(<<>>) = 0
    <3>1. answers' = answers
      BY <1>5, <2>1
    <3>2. QED
      BY <1>3, <2>2, <3>1 DEF Cancelled
  <2>4. \A t \in Sessions : HasAnswer(t, n)' => t = s /\ Dropped(s, q, d)
    BY <1>8, <1>13, <2>2 DEF Answering
  <2>5. CASE Dropped(s, q, d)
    <3>1. Lost(n)' /\ ~Sent(n)' /\ origin'[n] = s
      <4>1. UNCHANGED outq
        BY <2>5
      <4>2. QED
        BY <1>3, <1>17, <2>1, <2>5, <4>1 DEF Lost, Sent, Box
    <3>2. LostInv(n)'
      BY <2>4, <3>1 DEF LostInv
    <3>3. Budget(n)'
      BY <2>1, <2>3, <2>4, <3>1 DEF Budget
    <3>4. QED
      BY <3>2, <3>3
  <2>6. CASE ~Dropped(s, q, d)
    <3>1. ~Answering(n)'
      BY <2>4, <2>6 DEF Answering
    <3>2. ~Lost(n)'
      BY <1>5, <2>2, <2>6 DEF Lost
    <3>3. QED
      BY <2>1, <2>3, <3>1, <3>2 DEF Budget, LostInv, Answering
  <2>7. QED
    BY <2>5, <2>6
<1>18. ASSUME NEW n \in Numbers, IsAnswer(d), d.msg.n = n, Queued(s, q, d)
       PROVE  Budget(n)' /\ LostInv(n)'
  <2>1. HasAnswer(s, n) /\ Answering(n)
    BY <1>4, <1>9, <1>18 DEF Answering
  <2>2. ~Answering(n)'
    <3>1. \A t \in Sessions \ {s} : ~HasAnswer(t, n)
      BY <1>7, <2>1 DEF Budget
    <3>2. QED
      BY <1>8, <1>12, <1>18, <3>1 DEF Answering
  <2>3. Settled(n) /\ Settled(n)'
    BY <1>6, <1>7, <2>1, KeptFacts DEF Budget, Kept
  <2>4. /\ IsPending(n)' <=> IsPending(n)
        /\ Cancelled(n)' <=> Cancelled(n)
        /\ Lost(n)' <=> Lost(n)
        /\ Sent(n)' => Sent(n)
    BY <1>3, <1>14, <1>18 DEF IsPending, Cancelled, Lost, IsAnswer
  <2>5. IsPending(n) => Lost(n)
    BY <1>7, <2>1 DEF Budget
  <2>6. /\ answers[n] \in Seq({"RESULT", "ERROR"}) /\ d.msg.type \in {"RESULT", "ERROR"}
        /\ answers'[n] = Append(answers[n], d.msg.type)
    BY <1>7, <1>18 DEF IsAnswer
  <2>7. Len(answers'[n]) = Len(answers[n]) + 1 /\ Len(answers[n]) \in Nat /\ Len(<<>>) = 0
    BY <2>6
  <2>8. Len(answers'[n]) <= 2 /\ (Len(answers'[n]) = 2 => Lost(n) /\ Cancelled(n))
    <3>1. CASE answers[n] = <<>>
      BY <2>7, <3>1
    <3>2. CASE answers[n] # <<>>
      <4>1. Lost(n) /\ Cancelled(n) /\ Len(answers[n]) = 1
        BY <1>7, <2>1, <3>2 DEF Budget
      <4>2. QED
        BY <2>7, <4>1
    <3>3. QED
      BY <3>1, <3>2
  <2>9. Cancelled(n) => ~IsPending(n)
    BY <1>7 DEF Budget
  <2>10. Budget(n)'
    BY <2>2, <2>3, <2>4, <2>5, <2>8, <2>9 DEF Budget, Answering
  <2>11. LostInv(n)'
    BY <1>7, <2>2, <2>4 DEF LostInv, Answering
  <2>12. QED
    BY <2>10, <2>11
<1>19. \A n \in Numbers' : Budget(n)' /\ LostInv(n)'
  <2>1. ASSUME NEW n \in Numbers, ~(IsAnswer(d) /\ d.msg.n = n /\ Queued(s, q, d)) PROVE answers'[n] = answers[n]
    BY <1>5, <1>7, <2>1
  <2>2. QED
    BY <1>7, <1>16, <1>17, <1>18, <2>1
<1>20. answers' \in [Numbers' -> Seq({"RESULT", "ERROR"})]
  <2>1. CASE answers' = answers
    BY <1>7, <2>1
  <2>2. CASE /\ answers' = [answers EXCEPT ![d.msg.n] = Append(answers[d.msg.n], d.msg.type)]
             /\ d.msg.type \in {"RESULT", "ERROR"}
    <3>1. ASSUME NEW a \in Seq({"RESULT", "ERROR"}) PROVE Append(a, d.msg.type) \in Seq({"RESULT", "ERROR"})
      BY <2>2
    <3>2. d.msg.n \in Numbers => Append(answers[d.msg.n], d.msg.type) \in Seq({"RESULT", "ERROR"})
      BY <1>7, <3>1
    <3>3. QED
      BY <1>7, <2>2, <3>2
  <2>3. QED
    BY <1>5, <2>1, <2>2 DEF IsAnswer
<1>21. \A t \in Sessions : Single(t)'
  <2>1. CASE Left(s, Tail(q))
    <3>1. ASSUME NEW i \in 1..Len(Tail(q)), NEW j \in 1..Len(Tail(q)), IsAnswer(Tail(q)[i]), IsAnswer(Tail(q)[j])
          PROVE  i = j
      <4>1. i + 1 = j + 1
        BY <1>4, <1>9, <3>1
      <4>2. QED
        BY <3>1, <4>1
    <3>2. ASSUME todo'[s].mode = "call", NEW i \in 1..Len(Tail(q)) PROVE FALSE
      <4>1. i + 1 \in 1..Len(q) /\ i + 1 # 1
        BY <1>4, <3>2
      <4>2. Tail(q) # <<>>
        BY <1>11, <3>2
      <4>3. QED
        BY <1>9, <2>1, <3>2, <4>1, <4>2 DEF Left
    <3>3. Single(s)'
      BY <2>1, <3>1, <3>2 DEF Single, IsAnswer
    <3>4. QED
      BY <1>5, <1>7, <3>3 DEF Single, IsAnswer
  <2>2. CASE todo'[s].msgs = <<>>
    <3>1. Single(s)'
      BY <1>11, <2>2 DEF Single
    <3>2. QED
      BY <1>5, <1>7, <3>1 DEF Single, IsAnswer
  <2>3. CASE todo'[s].mode = "last" /\ todo'[s].msgs = <<e>>
    <3>1. Single(s)'
      BY <1>11, <2>3 DEF Single
    <3>2. QED
      BY <1>5, <1>7, <3>1 DEF Single, IsAnswer
  <2>4. QED
    BY <1>5, <1>10, <2>1, <2>2, <2>3
<1>22. OpenCalls'
  BY <1>3, <1>7 DEF OpenCalls
<1>23. ASSUME NEW p \in canceled PROVE CancelOK(p)'
  <2>1. p.caller \in Sessions /\ p.callee \in Sessions /\ p.n \in Numbers /\ CancelOK(p)
    BY <1>7 DEF TypeOK
  <2>2. dropped \subseteq dropped' /\ (answers[p.n] # <<>> => answers'[p.n] # <<>>)
    <3>1. ASSUME NEW a \in Seq({"RESULT", "ERROR"}), NEW x PROVE Append(a, x) # <<>>
      OBVIOUS
    <3>2. answers[p.n] \in Seq({"RESULT", "ERROR"})
      BY <1>7, <2>1
    <3>3. answers'[p.n] = answers[p.n] \/ answers'[p.n] = Append(answers[p.n], d.msg.type)
      BY <1>5, <1>7, <2>1
    <3>4. QED
      BY <1>5, <3>1, <3>2, <3>3
  <2>3. CASE p.caller # s
    <3>1. todo'[p.caller] = todo[p.caller]
      BY <1>5, <2>1, <2>3
    <3>2. QED
      BY <2>1, <2>2, <3>1, CancelKept
  <2>4. CASE p.caller = s /\ todo[s].mode = "cancel" /\ q \in CancelBatches(p)
    <3>1. hpc'[s] # "new"
      BY <2>1, <2>4 DEF CancelOK, Shrinks
    <3>2. CASE q = <<To(p.callee, "INTERRUPT", p.n), To(p.caller, "ERROR", p.n)>>
      <4>1. PICK a, b : /\ a = To(p.callee, "INTERRUPT", p.n) /\ b = To(p.caller, "ERROR", p.n) /\ q = <<a, b>>
                        /\ a.to = p.callee
        BY <3>2, MsgFacts
      <4>2. d = a /\ Tail(q) = <<b>> /\ <<b>> # <<>>
        BY <1>2, <4>1
      <4>3. CASE Left(s, Tail(q))
        <5>1. todo'[s].mode = "cancel" /\ todo'[s].msgs \in CancelBatches(p)
          BY <2>4, <4>1, <4>2, <4>3 DEF CancelBatches
        <5>2. QED
          BY <2>4, <3>1, <5>1 DEF CancelOK, CancelBatches
      <4>4. CASE Skipped(s, q, d) /\ ~Left(s, Tail(q))
        <5>1. ~peerOpen[p.callee]
          BY <2>4, <4>1, <4>2, <4>4
        <5>2. QED
          BY <1>3, <2>4, <3>1, <5>1 DEF CancelOK
      <4>5. QED
        BY <1>5, <2>4, <4>3, <4>4
    <3>3. CASE q = <<To(p.caller, "ERROR", p.n)>>
      <4>1. d.to = s /\ d.msg.type = "ERROR" /\ d.msg.n = p.n
        <5>1. d = To(p.caller, "ERROR", p.n)
          BY <1>2, <3>3
        <5>2. QED
          BY <2>4, <5>1, MsgFacts
      <4>2. CASE Queued(s, q, d)
        <5>1. answers'[p.n] = Append(answers[p.n], d.msg.type) /\ answers[p.n] \in Seq({"RESULT", "ERROR"})
          BY <1>7, <2>1, <4>1, <4>2 DEF IsAnswer
        <5>2. answers'[p.n] # <<>>
          <6>1. ASSUME NEW a \in Seq({"RESULT", "ERROR"}), NEW x PROVE Append(a, x) # <<>>
            OBVIOUS
          <6>2. QED
            BY <5>1, <6>1
        <5>3. QED
          BY <2>4, <3>1, <5>2 DEF CancelOK
      <4>3. CASE Dropped(s, q, d)
        BY <2>4, <3>1, <4>1, <4>3 DEF CancelOK
      <4>4. CASE Skipped(s, q, d)
        BY <1>3, <2>4, <3>1, <4>1, <4>4 DEF CancelOK
      <4>5. QED
        BY <1>5, <4>2, <4>3, <4>4
    <3>4. QED
      BY <2>4, <3>2, <3>3 DEF CancelBatches
  <2>5. CASE p.caller = s /\ ~(todo[s].mode = "cancel" /\ q \in CancelBatches(p))
    BY <1>1, <1>3, <2>1, <2>2, <2>5 DEF CancelOK, Shrinks
  <2>6. QED
    BY <2>3, <2>4, <2>5
<1>24. QED
  BY <1>3, <1>19, <1>20, <1>21, <1>22, <1>23 DEF AInv

\* A step that neither reads nor delivers; it may close calls (those of a callee that leaves).
LEMMA AnswersQuiet ==
  ASSUME TypeOK, Shape, QInv, AInv, UNCHANGED load, Kept, \A t \in Sessions : Shrinks(t),
         UNCHANGED <<todo, answers, dropped, canceled>>, pending' \subseteq pending, \A n : Sent(n)' => Sent(n)
  PROVE  AInv'
<1>1. \A s \in Sessions : \A n : HasAnswer(s, n)' <=> HasAnswer(s, n)
  BY DEF HasAnswer, IsAnswer
<1>2. \A n : (IsPending(n)' => IsPending(n)) /\ (Lost(n)' <=> Lost(n)) /\ (Cancelled(n)' <=> Cancelled(n))
  BY DEF IsPending, Lost, Cancelled
<1>3. ASSUME NEW n \in Numbers PROVE Budget(n)' /\ LostInv(n)'
  BY <1>1, <1>2, BudgetKept DEF AInv
<1>4. \A s \in Sessions : Single(s)'
  BY DEF AInv, Single, IsAnswer
<1>5. OpenCalls'
  BY DEF AInv, OpenCalls, QInv, PendingInv, Passed, Kept, OriginKept
<1>6. ASSUME NEW p \in canceled PROVE CancelOK(p)'
  <2>1. p.caller \in Sessions /\ p.callee \in Sessions /\ CancelOK(p)
    BY DEF TypeOK, AInv
  <2>2. QED
    BY <2>1, CancelKept
<1>7. Numbers' = Numbers /\ answers' \in [Numbers' -> Seq({"RESULT", "ERROR"})]
  BY DEF AInv, Numbers
<1>8. QED
  BY <1>3, <1>4, <1>5, <1>6, <1>7 DEF AInv

\* Every step keeps the account of the answers.
LEMMA AnswersInv ==
  ASSUME TypeOK, Shape, QInv, AInv, Acts
  PROVE  AInv'
<1>1. UNCHANGED load /\ Kept /\ \A t \in Sessions : Shrinks(t)
  BY NextCases, OrderInvStep, ShrinksFacts
<1>2. ASSUME NEW s \in Sessions, Receive(s) \/ DeliverStep(s) PROVE AInv'
  BY <1>1, <1>2, AnswersReceive, AnswersDeliver
<1>3. ASSUME NEW s \in Sessions, ClientSends(s) PROVE AInv'
  <2>1. UNCHANGED <<todo, answers, dropped, canceled, pending, outq, seen>>
    BY <1>3 DEF ClientSends, handlerVars, histVars, dealerVars
  <2>2. \A n : Sent(n)' => Sent(n)
    BY <2>1 DEF Sent, Box
  <2>3. QED
    BY <1>1, <2>1, <2>2, AnswersQuiet
<1>4. ASSUME NEW s \in Sessions, ClientReceives(s) PROVE AInv'
  <2>1. UNCHANGED <<todo, answers, dropped, canceled, pending>>
    BY <1>4 DEF ClientReceives, handlerVars, histVars, dealerVars
  <2>2. \A n : Sent(n)' => Sent(n)
    BY <1>4, OrderReceives DEF Sent
  <2>3. QED
    BY <1>1, <2>1, <2>2, AnswersQuiet
<1>5. ASSUME NEW s \in Sessions, SaysGoodbye(s) PROVE AInv'
  <2>1. /\ UNCHANGED <<todo, answers, dropped, canceled, pending, seen>>
        /\ UNCHANGED outq \/ outq' = [outq EXCEPT ![s] = Append(outq[s], Msg("GOODBYE", 0))]
    BY <1>5 DEF SaysGoodbye, CloseClient, KillWrites, Queue, handlerVars, histVars, dealerVars, clientVars
  <2>2. PICK m \in Message : m = Msg("GOODBYE", 0) /\ m.type = "GOODBYE"
    <3>1. "GOODBYE" \in MessageTypes /\ 0 \in Nat
      BY DEF MessageTypes, Types
    <3>2. QED
      BY <3>1, MsgFacts
  <2>3. \A n : Sent(n)' => Sent(n)
    <3>1. CASE UNCHANGED outq
      BY <2>1, <3>1 DEF Sent, Box
    <3>2. CASE outq' = [outq EXCEPT ![s] = Append(outq[s], m)]
      BY <2>1, <2>2, <3>2, SentAppend
    <3>3. QED
      BY <2>1, <2>2, <3>1, <3>2
  <2>4. QED
    BY <1>1, <2>1, <2>3, AnswersQuiet
<1>6. CASE \/ \E s \in Sessions : OtherStep(s)
           \/ RouterStep
  <2>1. UNCHANGED <<outq, seen, todo>>
    BY <1>1, <1>6, ShapeQuiet
  <2>2. pending' \subseteq pending /\ UNCHANGED <<answers, dropped, canceled>>
    <3>1. CASE \E s \in Sessions : OtherStep(s)
      BY <3>1 DEF OtherStep, ClientDisconnects, Attach, AddToBroker, AddToDealer, ReadFails, Detach,
         DetachBroker, DetachDealer, DetachClose, CloseAfterGoodbye, KillCloses, RemoveFromDealer,
         dealerVars, histVars
    <3>2. CASE RouterStep
      BY <3>2 DEF RouterStep, StartClose, CloseTransport, CloseReturns, CloseDetach, CloseDetachBroker,
         CloseDetachDealer, EndClose, RemoveRealm, RemoveFromDealer, dealerVars, histVars
    <3>3. QED
      BY <1>6, <3>1, <3>2
  <2>3. \A n : Sent(n)' => Sent(n)
    BY <2>1 DEF Sent, Box
  <2>4. QED
    BY <1>1, <2>1, <2>2, <2>3, AnswersQuiet
<1>7. QED
  BY <1>2, <1>3, <1>4, <1>5, <1>6, NextCases

-----------------------------------------------------------------------------
(* The invariant and what follows from it                                  *)

IInv == TypeOK /\ Shape /\ QInv /\ AInv /\ Closing /\ \A s \in Sessions : Place(s)

\* The initial states are in order: no client is attached and nothing is queued.
LEMMA InitInv ==
  ASSUME Init
  PROVE  IInv
<1>l. load.number \in Nat /\ load.sends \in [Sessions -> Nat] /\ load \in Loads
  BY LoadFacts DEF Init
<1>e. <<>> \in Seq(Message) /\ Len(<<>>) = 0 /\ <<>> \in Seq(Sessions) /\ OutQueueSize \in Nat
  BY SizeAssumption
<1>1. \A s \in Sessions : inbox[s] = <<>> /\ outq[s] = <<>> /\ seen[s] = <<>> /\ todo[s] = Nothing
  BY DEF Init
<1>2. TypeOK
  <2>1. \A s \in Sessions : Len(outq[s]) <= OutQueueSize /\ Len(inbox[s]) <= load.sends[s]
    BY <1>l, <1>e, <1>1
  <2>2. QED
    BY <1>l, <2>1 DEF Init, TypeOK
<1>3. Shape
  <2>1. Nothing \in Batch /\ Nothing.msgs = <<>>
    BY DEF Nothing, Batch
  <2>2. todo \in [Sessions -> Batch] /\ \A s \in Sessions : hpc[s] = "deliver" <=> todo[s].msgs # <<>>
    BY <1>1, <2>1 DEF Init
  <2>3. inbox \in [Sessions -> Seq(Message)] /\ outq \in [Sessions -> Seq(Message)] /\ seen \in [Sessions -> Seq(Message)]
    BY <1>e DEF Init
  <2>4. /\ sentBy \in [Sessions -> Nat] /\ origin \in Seq(Sessions) /\ Len(origin) <= load.number
        /\ \A s \in Sessions : Len(inbox[s]) <= sentBy[s] /\ sentBy[s] <= load.sends[s]
    BY <1>l, <1>e, <1>1 DEF Init
  <2>5. QED
    BY <2>2, <2>3, <2>4 DEF Shape
<1>4. QInv
  <2>1. \A s \in Sessions : Len(inbox[s]) = 0 /\ Len(todo[s].msgs) = 0
    BY <1>e, <1>1 DEF Nothing
  <2>2. \A s \in Sessions : Len(Box(s)) = 0
    <3>1. \A a, b \in Seq(Message) : Len(a) = 0 /\ Len(b) = 0 => Len(a \o b) = 0
      OBVIOUS
    <3>2. QED
      BY <1>e, <1>1, <3>1 DEF Box
  <2>3. InboxInv /\ TodoInv
    BY <2>1 DEF InboxInv, TodoInv
  <2>4. BoxInv /\ OrderInv
    BY <2>2 DEF BoxInv, OrderInv
  <2>5. PendingInv
    BY DEF Init, PendingInv
  <2>6. QED
    BY <2>3, <2>4, <2>5 DEF QInv
<1>5. Closing /\ \A s \in Sessions : Place(s)
  BY LoadAssumption DEF Init, Closing, Place, Serving
<1>6. AInv
  <2>1. \A s \in Sessions : Len(todo[s].msgs) = 0
    BY <1>e, <1>1 DEF Nothing
  <2>2. \A n : ~Answering(n) /\ ~Lost(n) /\ ~Cancelled(n) /\ ~IsPending(n)
    BY <2>1 DEF Init, Answering, HasAnswer, Lost, Cancelled, IsPending
  <2>3. ASSUME NEW n \in Numbers PROVE answers[n] = <<>> /\ Len(answers[n]) = 0
    BY <1>e DEF Init
  <2>4. ASSUME NEW n \in Numbers PROVE Budget(n) /\ LostInv(n)
    <3>1. Len(answers[n]) <= 2 /\ Len(answers[n]) # 2
      BY <2>3
    <3>2. \A s \in Sessions : ~HasAnswer(s, n)
      BY <2>2 DEF Answering
    <3>3. Budget(n)
      BY <2>2, <2>3, <3>1, <3>2 DEF Budget
    <3>4. QED
      BY <2>2, <3>3 DEF LostInv
  <2>5. answers \in [Numbers -> Seq({"RESULT", "ERROR"})]
    <3>1. <<>> \in Seq({"RESULT", "ERROR"})
      OBVIOUS
    <3>2. QED
      BY <3>1 DEF Init
  <2>6. \A s \in Sessions : Single(s)
    BY <2>1 DEF Single
  <2>7. QED
    BY <2>4, <2>5, <2>6 DEF Init, AInv, OpenCalls
<1>7. QED
  BY <1>2, <1>3, <1>4, <1>5, <1>6 DEF IInv

\* A step that changes nothing, or only where a kill is.
LEMMA StutterInv ==
  ASSUME IInv, UNCHANGED <<load, vars>>, killer' \in [Sessions -> KillerPlaces]
  PROVE  IInv'
<1>1. /\ UNCHANGED load /\ UNCHANGED <<clients, brokerHas, dealerHas, registered, pending, subscribed, peerOpen>>
      /\ UNCHANGED <<inbox, outq, hpc, todo, closer, atClient, toClose, known, sentBy, seen, origin>>
      /\ UNCHANGED <<answers, dropped, canceled>>
  BY DEF vars, tableVars, dealerVars, peerVars, handlerVars, routerVars, clientVars, histVars
<1>2. TypeOK' /\ Shape'
  BY <1>1 DEF IInv, TypeOK, Shape, Numbers, KillerPlaces
<1>3. QInv'
  BY <1>1, OrderQuiet DEF IInv
<1>4. Closing' /\ \A s \in Sessions : Place(s)'
  BY <1>1 DEF IInv, Closing, Place, Serving
<1>5. AInv'
  <2>1. Kept /\ \A t \in Sessions : Shrinks(t)
    BY <1>1, KeptSame DEF Shrinks
  <2>2. \A n : Sent(n)' => Sent(n)
    BY <1>1 DEF Sent, Box
  <2>3. QED
    BY <1>1, <2>1, <2>2, AnswersQuiet DEF IInv
<1>6. QED
  BY <1>2, <1>3, <1>4, <1>5 DEF IInv

\* IInv is inductive, so it holds of every behaviour of the realm, and with it the type
\* invariant.
THEOREM Invariance == Spec => []IInv
<1>1. Init => IInv
  BY InitInv
<1>2. IInv /\ [Next]_<<load, killer, vars>> => IInv'
  <2>t. ASSUME IInv, [Next]_<<load, killer, vars>>
        PROVE  killer' \in [Sessions -> KillerPlaces]
    BY <2>t, KillerType DEF IInv, TypeOK, KillerPlaces
  <2>1. ASSUME IInv, Acts, killer' \in [Sessions -> KillerPlaces] PROVE IInv'
    <3>1. TypeOK' /\ Shape'
      BY <2>1, TypeInv DEF IInv, QInv
    <3>2. QInv'
      BY <2>1, OrderInvStep DEF IInv
    <3>3. Closing' /\ \A s \in Sessions : Place(s)'
      BY <2>1, PlaceInv, ClosingInv DEF IInv
    <3>4. AInv'
      BY <2>1, AnswersInv DEF IInv
    <3>5. QED
      BY <3>1, <3>2, <3>3, <3>4 DEF IInv
  <2>2. Next => Acts \/ UNCHANGED <<load, vars>>
    BY DEF Next, Acts, Kill, KillFinds, KillFails, KillWaits
  <2>3. QED
    BY <2>t, <2>1, <2>2, StutterInv
<1>3. QED
  BY <1>1, <1>2, PTL DEF Spec

\* What a client's goroutine queues for another client arrives in the order in which the
\* client sent what it follows from: for any number of clients and publications, an INTERRUPT
\* never comes before its INVOCATION, and the events of one publisher come in order, once.
THEOREM DeliversInOrder == Spec => []DeliveredInOrder
<1>1. IInv => DeliveredInOrder
  <2> SUFFICES ASSUME IInv PROVE DeliveredInOrder
    OBVIOUS
  <2>1. ASSUME NEW s \in Sessions, NEW j \in DOMAIN Box(s), NEW i \in 1..(j - 1)
        PROVE  /\ Box(s)[i].type = "INTERRUPT" => Box(s)[j] # Msg("INVOCATION", Box(s)[i].n)
               /\ Box(s)[i].type = "EVENT" /\ Box(s)[j].type = "EVENT"
                  /\ origin[Box(s)[i].n] = origin[Box(s)[j].n] => Box(s)[i].n < Box(s)[j].n
    <3>1. Box(s) \in Seq(Message)
      BY DEF IInv, Shape, Box
    <3>2. i \in 1..Len(Box(s)) /\ j \in 1..Len(Box(s)) /\ i < j
      BY <3>1
    <3>3. Before(Box(s)[i], Box(s)[j])
      BY <3>2 DEF IInv, QInv, OrderInv
    <3>4. QED
      BY <3>3, MsgFacts DEF Before
  <2>2. QED
    BY <2>1 DEF DeliveredInOrder, IInv, Box
<1>2. QED
  BY <1>1, Invariance, PTL

\* No call is answered twice, except one whose INVOCATION was dropped and that was cancelled
\* as well; and a cancelled call is answered, unless its ERROR did not fit, its caller is gone,
\* or its callee's transport is closed: for any number of clients and calls, however their
\* goroutines interleave (handleCancel, and ReceiveMessage of a CALL whose INVOCATION does not
\* fit).
THEOREM AnswersOnce == Spec => []CallsAnsweredOnce
<1>1. IInv => CallsAnsweredOnce
  <2> SUFFICES ASSUME IInv PROVE CallsAnsweredOnce
    OBVIOUS
  <2>1. ASSUME NEW n \in Numbers
        PROVE  /\ Len(answers[n]) <= 2
               /\ Len(answers[n]) = 2 => <<"INVOCATION", n>> \in dropped /\ \E p \in canceled : p.n = n
    BY DEF IInv, AInv, Budget, Lost, Cancelled
  <2>2. ASSUME NEW p \in canceled, hpc[p.caller] = "read", p.caller \in clients, peerOpen[p.caller],
               <<"ERROR", p.n>> \notin dropped
        PROVE  answers[p.n] # <<>> \/ ~peerOpen[p.callee]
    <3>1. p.caller \in Sessions /\ CancelOK(p)
      BY DEF IInv, TypeOK, AInv
    <3>2. todo[p.caller].msgs = <<>>
      BY <2>2, <3>1 DEF IInv, Shape
    <3>3. \A x, y : <<x, y>> # <<>> /\ <<x>> # <<>>
      OBVIOUS
    <3>4. todo[p.caller].msgs \notin CancelBatches(p)
      BY <3>2, <3>3 DEF CancelBatches
    <3>5. QED
      BY <2>2, <3>1, <3>4 DEF CancelOK
  <2>3. QED
    BY <2>1, <2>2 DEF CallsAnsweredOnce
<1>2. QED
  BY <1>1, Invariance, PTL

\* A client whose goroutine has ended is forgotten by the map, the broker and the dealer as
\* long as the realm is served, whatever the others do meanwhile.
THEOREM DetachesForget == Spec => []DetachForgets
<1>1. IInv => DetachForgets
  BY DEF IInv, DetachForgets, Place, Serving
<1>2. QED
  BY <1>1, Invariance, PTL

\* When Realm.Close is over, every client that was attached when it began is disconnected, or
\* is about to disconnect itself.
THEOREM ShutdownDisconnectsAll == Spec => []ShutdownDisconnects
<1>1. IInv => ShutdownDisconnects
  <2> SUFFICES ASSUME IInv, closer = "done", NEW s \in toClose, peerOpen[s]
               PROVE  hpc[s] \in {"broker", "dealer", "leave"}
    BY DEF ShutdownDisconnects
  <2>1. s \in Sessions /\ s \notin clients
    BY DEF IInv, TypeOK, Closing
  <2>2. hpc[s] \in Places
    BY <2>1 DEF IInv, TypeOK, Places
  <2>3. QED
    BY <2>1, <2>2 DEF IInv, Place, Places
<1>2. QED
  BY <1>1, Invariance, PTL
=============================================================================
