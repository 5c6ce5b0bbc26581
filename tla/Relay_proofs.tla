---------------------------- MODULE Relay_proofs ----------------------------
(***************************************************************************)
(* Proofs about Relay, for any queue capacity, any marks and any number of *)
(* messages and frames. The inductive invariant says what the queue, the   *)
(* writer's hand and the connection hold of the accepted messages, who can *)
(* have closed the connection, and that the writer, unless cut off, ends   *)
(* only after the channel's close.                                         *)
(***************************************************************************)
EXTENDS Relay, TLAPS

Msgs == 1..MaxUp
Held == IF hand = 0 THEN <<>> ELSE <<hand>>

\* acc is w, then h, then q.
Chain(acc, w, h, q) ==
    /\ Len(acc) = Len(w) + Len(h) + Len(q)
    /\ \A i \in 1..Len(w) : acc[i] = w[i]
    /\ \A i \in 1..Len(h) : acc[Len(w) + i] = h[i]
    /\ \A i \in 1..Len(q) : acc[Len(w) + Len(h) + i] = q[i]
Queued == Chain(accepted, written, Held, msgCh)

\* The accepted messages are those that came since OnMessage was set; only a close makes
\* the callback give up the one it has.
Pending == IF callback = 0 THEN 0 ELSE 1
Counted ==
    /\ closed => told
    /\ missed + Len(accepted) + Pending <= arrived
    /\ ~closed \/ callback # 0 => missed + Len(accepted) + Pending = arrived
    /\ callback # 0 => callback = arrived
    /\ \A i \in 1..Len(accepted) : accepted[i] = missed + i

\* Before the writer starts there is nothing to write.
Starting ==
    /\ main \in {"dial", "header", "first"} => up = "off"
    /\ main \in {"header", "first"} => conn
    /\ up = "off" => callback = 0 /\ hand = 0 /\ msgCh = <<>> /\ accepted = <<>>

\* Under a running writer only main closes the connection, by returning.
OwnConn ==
    /\ up \in {"run", "drain"} /\ ~conn => cut
    /\ cut => main = "done"

\* The messages before the close are all written by a writer that ends in its own time.
Ended ==
    /\ before <= Len(accepted)
    /\ up = "drain" => closed
    /\ up = "done" /\ app /\ ~cut => closed /\ Len(written) >= before

IInv == TypeOK /\ Queued /\ Counted /\ Starting /\ OwnConn /\ Ended

-----------------------------------------------------------------------------
(* The chain of accepted messages                                          *)

\* The callback's send on msgCh.
LEMMA ChainAccept ==
    ASSUME NEW acc \in Seq(Msgs), NEW w \in Seq(Msgs), NEW h \in Seq(Msgs), NEW q \in Seq(Msgs),
           NEW m \in Msgs, Chain(acc, w, h, q)
    PROVE  /\ Chain(Append(acc, m), w, h, Append(q, m))
           /\ Append(acc, m) \in Seq(Msgs) /\ Append(q, m) \in Seq(Msgs)
           /\ Len(Append(acc, m)) = Len(acc) + 1 /\ Len(Append(q, m)) = Len(q) + 1
<1> DEFINE acc2 == Append(acc, m)
           q2 == Append(q, m)
<1>1. /\ acc2 \in Seq(Msgs) /\ q2 \in Seq(Msgs) /\ Len(acc2) = Len(acc) + 1 /\ Len(q2) = Len(q) + 1
      /\ Len(acc) \in Nat /\ Len(w) \in Nat /\ Len(h) \in Nat /\ Len(q) \in Nat
    OBVIOUS
<1>2. \A i \in 1..Len(acc) : acc2[i] = acc[i]
    OBVIOUS
<1>3. /\ Len(acc) = Len(w) + Len(h) + Len(q)
      /\ \A i \in 1..Len(w) : acc[i] = w[i]
      /\ \A i \in 1..Len(h) : acc[Len(w) + i] = h[i]
      /\ \A i \in 1..Len(q) : acc[Len(w) + Len(h) + i] = q[i]
    BY DEF Chain
<1>4. ASSUME NEW i \in 1..Len(q2)
      PROVE  acc2[Len(w) + Len(h) + i] = q2[i]
    <2>1. CASE i \in 1..Len(q)
        <3>1. q2[i] = q[i] /\ Len(w) + Len(h) + i \in 1..Len(acc)
            BY <1>1, <1>3, <2>1
        <3>2. QED
            BY <1>2, <1>3, <2>1, <3>1
    <2>2. CASE i = Len(q) + 1
        <3>1. q2[i] = m /\ acc2[Len(acc) + 1] = m
            BY <2>2
        <3>2. Len(w) + Len(h) + i = Len(acc) + 1
            BY <1>1, <1>3, <2>2
        <3>3. QED
            BY <3>1, <3>2
    <2>3. i \in 1..Len(q) \/ i = Len(q) + 1
        <3>1. \A l \in Nat : \A j \in 1..(l + 1) : j \in 1..l \/ j = l + 1
            OBVIOUS
        <3>2. QED
            BY <1>1, <3>1
    <2>4. QED
        BY <2>1, <2>2, <2>3
<1>5. /\ \A i \in 1..Len(w) : acc2[i] = w[i]
      /\ \A i \in 1..Len(h) : acc2[Len(w) + i] = h[i]
    BY <1>1, <1>2, <1>3
<1>6. Chain(acc2, w, h, q2)
    <2> HIDE DEF acc2, q2
    <2>1. QED
        BY <1>1, <1>3, <1>4, <1>5 DEF Chain
<1>7. QED
    BY <1>1, <1>6

\* The writer's receive.
LEMMA ChainTake ==
    ASSUME NEW acc \in Seq(Msgs), NEW w \in Seq(Msgs), NEW q \in Seq(Msgs), q # <<>>,
           Chain(acc, w, <<>>, q)
    PROVE  /\ Chain(acc, w, <<Head(q)>>, Tail(q)) /\ Head(q) \in Msgs
           /\ Tail(q) \in Seq(Msgs) /\ Len(Tail(q)) = Len(q) - 1
<1>1. /\ Head(q) \in Msgs /\ Tail(q) \in Seq(Msgs) /\ Len(Tail(q)) = Len(q) - 1 /\ Len(q) \in Nat \ {0}
      /\ Head(q) = q[1] /\ \A i \in 1..Len(Tail(q)) : Tail(q)[i] = q[i + 1]
      /\ Len(w) \in Nat /\ Len(<<>>) = 0 /\ Len(<<Head(q)>>) = 1 /\ <<Head(q)>>[1] = Head(q)
    OBVIOUS
<1>2. /\ Len(acc) = Len(w) + Len(q)
      /\ \A i \in 1..Len(w) : acc[i] = w[i]
      /\ \A i \in 1..Len(q) : acc[Len(w) + i] = q[i]
    BY <1>1 DEF Chain
<1>3. \A i \in 1..Len(Tail(q)) : acc[Len(w) + 1 + i] = Tail(q)[i]
    <2> SUFFICES ASSUME NEW i \in 1..Len(Tail(q)) PROVE acc[Len(w) + 1 + i] = Tail(q)[i]
        OBVIOUS
    <2>1. i + 1 \in 1..Len(q) /\ Len(w) + 1 + i = Len(w) + (i + 1)
        BY <1>1
    <2>2. QED
        BY <1>1, <1>2, <2>1
<1>4. \A i \in 1..1 : acc[Len(w) + i] = <<Head(q)>>[i]
    BY <1>1, <1>2
<1>5. Len(acc) = Len(w) + 1 + Len(Tail(q))
    BY <1>1, <1>2
<1>6. QED
    BY <1>1, <1>2, <1>3, <1>4, <1>5 DEF Chain

\* The writer's WriteFrame.
LEMMA ChainWrite ==
    ASSUME NEW acc \in Seq(Msgs), NEW w \in Seq(Msgs), NEW m \in Msgs, NEW q \in Seq(Msgs),
           Chain(acc, w, <<m>>, q)
    PROVE  /\ Chain(acc, Append(w, m), <<>>, q)
           /\ Append(w, m) \in Seq(Msgs) /\ Len(Append(w, m)) = Len(w) + 1
<1> DEFINE w2 == Append(w, m)
<1>1. /\ w2 \in Seq(Msgs) /\ Len(w2) = Len(w) + 1 /\ Len(w) \in Nat /\ Len(q) \in Nat
      /\ \A i \in 1..Len(w) : w2[i] = w[i]
      /\ w2[Len(w) + 1] = m
      /\ Len(<<>>) = 0 /\ Len(<<m>>) = 1 /\ <<m>>[1] = m
    OBVIOUS
<1>2. /\ Len(acc) = Len(w) + 1 + Len(q)
      /\ \A i \in 1..Len(w) : acc[i] = w[i]
      /\ acc[Len(w) + 1] = m
      /\ \A i \in 1..Len(q) : acc[Len(w) + 1 + i] = q[i]
    BY <1>1 DEF Chain
<1> HIDE DEF w2
<1>3. \A i \in 1..Len(w2) : acc[i] = w2[i]
    <2> SUFFICES ASSUME NEW i \in 1..Len(w2) PROVE acc[i] = w2[i]
        OBVIOUS
    <2>1. i \in 1..Len(w) \/ i = Len(w) + 1
        BY <1>1
    <2>2. QED
        BY <1>1, <1>2, <2>1
<1>4. Chain(acc, w2, <<>>, q)
    <2>1. Len(w2) + 0 = Len(w) + 1
        BY <1>1
    <2>2. QED
        BY <1>1, <1>2, <1>3, <2>1 DEF Chain
<1>5. QED
    BY <1>1, <1>4 DEF w2

-----------------------------------------------------------------------------
(* The inductive invariant                                                 *)

\* A relay before its dial satisfies the invariant.
LEMMA InitInv == Init => IInv
<1> SUFFICES ASSUME Init PROVE IInv
    OBVIOUS
<1>1. TypeOK
    <2>1. <<>> \in Seq(1..MaxUp) /\ Len(<<>>) <= Capacity
        BY RelayAssumption
    <2>2. 0 \in 0..MaxUp /\ 0 \in 0..MaxDown
        BY RelayAssumption
    <2>3. QED
        BY <2>1, <2>2 DEF Init, TypeOK
<1>2. Queued
    <2>1. Chain(<<>>, <<>>, <<>>, <<>>)
        BY DEF Chain
    <2>2. QED
        BY <2>1 DEF Init, Queued, Held
<1>3. Counted /\ Ended
    <2>1. Len(<<>>) = 0 /\ 1..0 = {}
        OBVIOUS
    <2>2. QED
        BY <2>1 DEF Init, Counted, Pending, Ended
<1>4. Starting /\ OwnConn
    BY DEF Init, Starting, OwnConn
<1>5. QED
    BY <1>1, <1>2, <1>3, <1>4 DEF IInv

\* What the proofs below need of TypeOK.
LEMMA Types ==
    ASSUME TypeOK
    PROVE  /\ accepted \in Seq(Msgs) /\ written \in Seq(Msgs) /\ msgCh \in Seq(Msgs) /\ Held \in Seq(Msgs)
           /\ Len(accepted) \in Nat /\ Len(written) \in Nat /\ Len(msgCh) \in Nat
           /\ arrived \in Nat /\ missed \in Nat /\ before \in Nat /\ MaxUp \in Nat
           /\ hand # 0 => hand \in Msgs
           /\ callback # 0 => callback \in Msgs
<1>1. /\ accepted \in Seq(Msgs) /\ written \in Seq(Msgs) /\ msgCh \in Seq(Msgs)
      /\ arrived \in Nat /\ missed \in Nat /\ before \in Nat /\ MaxUp \in Nat
      /\ hand # 0 => hand \in Msgs
      /\ callback # 0 => callback \in Msgs
    BY RelayAssumption DEF TypeOK, Msgs
<1>2. Held \in Seq(Msgs)
    BY <1>1 DEF Held
<1>3. QED
    BY <1>1, <1>2

\* Steps that leave the messages alone.
LEMMA SameMessages ==
    ASSUME Queued, Counted, UNCHANGED <<told, closed, msgCh, accepted, hand, written, arrived, missed, callback>>
    PROVE  Queued' /\ Counted'
BY DEF Queued, Held, Counted, Pending

\* The channel, the app and the remote side.
LEMMA OutsideInv ==
    ASSUME IInv, ChannelCloses \/ SignalClosed \/ AppCloses \/ RemoteReads
    PROVE  IInv'
<1>i. TypeOK /\ Queued /\ Counted /\ Starting /\ OwnConn /\ Ended
    BY DEF IInv
<1>w. UNCHANGED <<main, conn, cut, up, msgCh, accepted, hand, written, arrived, missed, callback>>
    BY DEF ChannelCloses, SignalClosed, AppCloses, RemoteReads, upVars
<1>1. TypeOK'
    <2>1. Len(accepted) \in 0..MaxUp
        <3>1. Len(accepted) <= arrived
            BY <1>i, Types DEF Counted, Pending
        <3>2. arrived \in 0..MaxUp
            BY <1>i DEF TypeOK
        <3>3. QED
            BY <1>i, <3>1, <3>2, Types
    <2>2. before' \in 0..MaxUp
        BY <1>i, <2>1 DEF ChannelCloses, SignalClosed, AppCloses, RemoteReads, TypeOK
    <2>3. buffered' \in Nat
        BY <1>i DEF ChannelCloses, SignalClosed, AppCloses, RemoteReads, TypeOK, downVars
    <2>4. channel' \in BOOLEAN /\ told' \in BOOLEAN /\ closed' \in BOOLEAN /\ app' \in BOOLEAN /\ ready' \in BOOLEAN
        BY <1>i DEF ChannelCloses, SignalClosed, AppCloses, RemoteReads, TypeOK, downVars
    <2>5. UNCHANGED <<frame, frames>>
        BY DEF ChannelCloses, SignalClosed, AppCloses, RemoteReads, downVars
    <2>6. QED
        BY <1>i, <1>w, <2>2, <2>3, <2>4, <2>5 DEF TypeOK
<1>2. Queued' /\ Counted'
    <2>1. Queued'
        BY <1>i, <1>w DEF Queued, Held
    <2>2. CASE SignalClosed
        <3>1. told' = TRUE /\ (~closed' => ~closed)
            BY <1>i, <2>2 DEF SignalClosed, Counted
        <3>2. QED
            BY <1>i, <1>w, <2>1, <3>1 DEF Counted, Pending
    <2>3. CASE ChannelCloses \/ AppCloses \/ RemoteReads
        BY <1>i, <1>w, <2>3, SameMessages DEF ChannelCloses, AppCloses, RemoteReads
    <2>4. QED
        BY <2>2, <2>3
<1>3. Starting' /\ OwnConn'
    BY <1>i, <1>w DEF Starting, OwnConn
<1>4. Ended'
    <2>1. CASE SignalClosed
        <3>1. closed => closed'
            BY <1>i, <2>1 DEF SignalClosed, Counted
        <3>2. before' <= Len(accepted')
            BY <1>i, <1>w, <2>1, Types DEF SignalClosed, Ended
        <3>3. up = "drain" => closed'
            BY <1>i, <3>1 DEF Ended
        <3>4. up = "done" /\ app /\ ~cut => FALSE
            BY <1>i, <2>1 DEF SignalClosed, Ended, Counted
        <3>5. QED
            BY <1>w, <2>1, <3>2, <3>3, <3>4 DEF SignalClosed, Ended
    <2>2. CASE ChannelCloses \/ AppCloses \/ RemoteReads
        BY <1>i, <1>w, <2>2 DEF ChannelCloses, AppCloses, RemoteReads, Ended
    <2>3. QED
        BY <2>1, <2>2
<1>5. QED
    BY <1>1, <1>2, <1>3, <1>4 DEF IInv

\* The channel's callback.
LEMMA CallbackInv ==
    ASSUME IInv, Arrive \/ Deliver \/ GiveUp
    PROVE  IInv'
<1>i. TypeOK /\ Queued /\ Counted /\ Starting /\ OwnConn /\ Ended
    BY DEF IInv
<1>w. UNCHANGED <<before, main, channel, told, closed, conn, app, cut, up, hand, written, frame, frames, buffered, ready>>
    BY DEF Arrive, Deliver, GiveUp, downVars
<1>o. OwnConn'
    BY <1>i, <1>w DEF OwnConn
<1>1. CASE Arrive
    <2>1. /\ UNCHANGED <<msgCh, accepted>> /\ arrived' = arrived + 1
          /\ callback = 0 /\ arrived < MaxUp /\ ~told
          /\ \/ up = "off" /\ missed' = missed + 1 /\ callback' = 0
             \/ up # "off" /\ missed' = missed /\ callback' = arrived + 1
        BY <1>1 DEF Arrive
    <2>2. ~closed /\ missed + Len(accepted) = arrived
        BY <1>i, <2>1, Types DEF Counted, Pending
    <2>3. arrived' \in 0..MaxUp /\ missed' \in 0..MaxUp /\ callback' \in 0..MaxUp
        BY <1>i, <2>1, <2>2, Types
    <2>4. TypeOK'
        BY <1>i, <1>w, <2>1, <2>3 DEF TypeOK
    <2>5. Queued'
        BY <1>i, <1>w, <2>1 DEF Queued, Held
    <2>6. Counted'
        <3>1. CASE up = "off"
            <4>1. accepted = <<>> /\ Len(accepted) = 0 /\ 1..0 = {}
                BY <1>i, <3>1 DEF Starting
            <4>2. QED
                BY <1>i, <1>w, <2>1, <2>2, <3>1, <4>1, Types DEF Counted, Pending
        <3>2. CASE up # "off"
            <4>1. callback' # 0 /\ missed' = missed /\ callback' = arrived'
                <5>1. arrived \in Nat
                    BY <1>i, Types
                <5>2. QED
                    BY <2>1, <3>2, <5>1
            <4>2. QED
                BY <1>i, <1>w, <2>1, <2>2, <4>1, Types DEF Counted, Pending
        <3>3. QED
            BY <3>1, <3>2
    <2>7. Starting' /\ Ended'
        BY <1>i, <1>w, <2>1 DEF Starting, Ended
    <2>8. QED
        BY <1>o, <2>4, <2>5, <2>6, <2>7 DEF IInv
<1>2. CASE Deliver
    <2>1. /\ msgCh' = Append(msgCh, callback) /\ accepted' = Append(accepted, callback)
          /\ callback' = 0 /\ callback # 0 /\ UNCHANGED <<arrived, missed>> /\ Len(msgCh) < Capacity
        BY <1>2 DEF Deliver
    <2>2. callback \in Msgs
        BY <1>i, <2>1, Types
    <2>3. /\ Chain(accepted', written, Held, msgCh')
          /\ accepted' \in Seq(Msgs) /\ msgCh' \in Seq(Msgs)
          /\ Len(accepted') = Len(accepted) + 1 /\ Len(msgCh') = Len(msgCh) + 1
        BY <1>i, <2>1, <2>2, Types, ChainAccept DEF Queued
    <2>4. Queued'
        BY <1>w, <2>3 DEF Queued, Held
    <2>5. TypeOK'
        <3>1. Len(msgCh') <= Capacity
            BY <1>i, <2>1, <2>3, Types, RelayAssumption
        <3>2. callback' \in 0..MaxUp
            BY <2>1, RelayAssumption
        <3>3. accepted' \in Seq(1..MaxUp) /\ msgCh' \in Seq(1..MaxUp)
            BY <2>3 DEF Msgs
        <3>4. QED
            BY <1>i, <1>w, <2>1, <3>1, <3>2, <3>3 DEF TypeOK
    <2>6. Counted'
        <3>1. callback = missed + Len(accepted) + 1 /\ arrived = missed + Len(accepted) + 1
            BY <1>i, <2>1, Types DEF Counted, Pending
        <3>2. \A i \in 1..Len(accepted) : accepted'[i] = accepted[i] /\ accepted[i] = missed + i
            BY <1>i, <2>1, <2>2, Types DEF Counted
        <3>3. accepted'[Len(accepted) + 1] = callback
            BY <1>i, <2>1, <2>2, Types
        <3>4. \A i \in 1..Len(accepted') : accepted'[i] = missed + i
            <4> SUFFICES ASSUME NEW i \in 1..Len(accepted') PROVE accepted'[i] = missed + i
                OBVIOUS
            <4>1. i \in 1..Len(accepted) \/ i = Len(accepted) + 1
                BY <1>i, <2>3, Types
            <4>2. CASE i \in 1..Len(accepted)
                BY <3>2, <4>2
            <4>3. CASE i = Len(accepted) + 1
                <5>1. accepted'[i] = missed + Len(accepted) + 1
                    BY <3>1, <3>3, <4>3
                <5>2. missed \in Nat /\ Len(accepted) \in Nat
                    BY <1>i, Types
                <5>3. QED
                    BY <4>3, <5>1, <5>2
            <4>4. QED
                BY <4>1, <4>2, <4>3
        <3>5. missed' + Len(accepted') + 0 = arrived'
            BY <1>i, <2>1, <2>3, <3>1, Types
        <3>6. QED
            BY <1>i, <1>w, <2>1, <3>4, <3>5 DEF Counted, Pending
    <2>7. Starting'
        BY <1>i, <1>w, <2>1 DEF Starting
    <2>8. Ended'
        <3>1. before' <= Len(accepted')
            BY <1>i, <1>w, <2>3, Types DEF Ended
        <3>2. QED
            BY <1>i, <1>w, <3>1 DEF Ended
    <2>9. QED
        BY <1>o, <2>4, <2>5, <2>6, <2>7, <2>8 DEF IInv
<1>3. CASE GiveUp
    <2>1. UNCHANGED <<msgCh, accepted, arrived, missed>> /\ callback' = 0 /\ callback # 0 /\ closed
        BY <1>3 DEF GiveUp
    <2>2. callback' \in 0..MaxUp
        BY <2>1, RelayAssumption
    <2>3. TypeOK'
        BY <1>i, <1>w, <2>1, <2>2 DEF TypeOK
    <2>4. Queued' /\ Starting' /\ Ended'
        BY <1>i, <1>w, <2>1 DEF Queued, Held, Starting, Ended
    <2>5. Counted'
        <3>1. missed + Len(accepted) + 0 <= arrived
            BY <1>i, <2>1, Types DEF Counted, Pending
        <3>2. QED
            BY <1>i, <1>w, <2>1, <3>1 DEF Counted, Pending
    <2>6. QED
        BY <1>o, <2>3, <2>4, <2>5 DEF IInv
<1>4. QED
    BY <1>1, <1>2, <1>3

\* The goroutine that writes to the connection.
LEMMA WriterInv ==
    ASSUME IInv, Writer
    PROVE  IInv'
<1>i. TypeOK /\ Queued /\ Counted /\ Starting /\ OwnConn /\ Ended
    BY DEF IInv
<1>w. UNCHANGED <<before, main, told, closed, app, cut, accepted, arrived, missed, callback, frame, frames, buffered, ready>>
    BY DEF Writer, WriterRuns, Take, StartDrain, WriteFrame, WriteFrameFails, Drained, downVars
<1>c. Counted'
    BY <1>i, <1>w DEF Counted, Pending
<1>1. CASE Take
    <2>1. /\ hand = 0 /\ hand' = Head(msgCh) /\ msgCh' = Tail(msgCh) /\ msgCh # <<>>
          /\ up # "off" /\ UNCHANGED <<channel, conn, up, written>>
        BY <1>1 DEF Take
    <2>2. Chain(accepted, written, <<>>, msgCh)
        BY <1>i, <2>1 DEF Queued, Held
    <2>3. /\ Chain(accepted, written, <<Head(msgCh)>>, Tail(msgCh)) /\ Head(msgCh) \in Msgs
          /\ Tail(msgCh) \in Seq(Msgs) /\ Len(Tail(msgCh)) = Len(msgCh) - 1
        BY <1>i, <2>1, <2>2, Types, ChainTake
    <2>4. hand' \in Msgs /\ msgCh' \in Seq(Msgs) /\ Len(msgCh') <= Capacity
        BY <1>i, <2>1, <2>3, Types, RelayAssumption DEF TypeOK
    <2>5. hand' # 0 /\ hand' \in 0..MaxUp
        BY <2>4, RelayAssumption DEF Msgs
    <2>6. TypeOK'
        BY <1>i, <1>w, <2>1, <2>4, <2>5 DEF TypeOK, Msgs
    <2>7. Queued'
        BY <1>w, <2>1, <2>3, <2>5 DEF Queued, Held
    <2>8. Starting' /\ OwnConn' /\ Ended'
        BY <1>i, <1>w, <2>1 DEF Starting, OwnConn, Ended
    <2>9. QED
        BY <1>c, <2>6, <2>7, <2>8 DEF IInv
<1>2. CASE StartDrain
    <2>1. UNCHANGED <<channel, conn, msgCh, hand, written>> /\ up = "run" /\ up' = "drain" /\ closed
        BY <1>2 DEF StartDrain
    <2>2. TypeOK'
        BY <1>i, <1>w, <2>1 DEF TypeOK
    <2>3. Queued' /\ Starting' /\ OwnConn' /\ Ended'
        BY <1>i, <1>w, <2>1 DEF Queued, Held, Starting, OwnConn, Ended
    <2>4. QED
        BY <1>c, <2>2, <2>3 DEF IInv
<1>3. CASE WriteFrame
    <2>1. /\ hand # 0 /\ hand' = 0 /\ written' = Append(written, hand) /\ up # "done"
          /\ UNCHANGED <<channel, conn, up, msgCh>>
        BY <1>3 DEF WriteFrame
    <2>2. hand \in Msgs /\ Chain(accepted, written, <<hand>>, msgCh)
        BY <1>i, <2>1, Types DEF Queued, Held
    <2>3. /\ Chain(accepted, written', <<>>, msgCh)
          /\ written' \in Seq(Msgs)
        BY <1>i, <2>1, <2>2, Types, ChainWrite
    <2>4. hand' \in 0..MaxUp
        BY <2>1, RelayAssumption
    <2>5. TypeOK'
        BY <1>i, <1>w, <2>1, <2>3, <2>4 DEF TypeOK, Msgs
    <2>6. Queued'
        BY <1>w, <2>1, <2>3 DEF Queued, Held
    <2>7. Starting' /\ OwnConn' /\ Ended'
        BY <1>i, <1>w, <2>1 DEF Starting, OwnConn, Ended
    <2>8. QED
        BY <1>c, <2>5, <2>6, <2>7 DEF IInv
<1>4. CASE WriteFrameFails
    <2>1. /\ hand # 0 /\ up # "done" /\ up' = "done" /\ (~conn \/ ~app)
          /\ UNCHANGED <<msgCh, hand, written>>
        BY <1>4 DEF WriteFrameFails, Writable
    <2>2. channel' \in BOOLEAN /\ conn' \in BOOLEAN
        BY <1>4 DEF WriteFrameFails
    <2>3. TypeOK'
        BY <1>i, <1>w, <2>1, <2>2 DEF TypeOK
    <2>4. up \in {"run", "drain"}
        BY <1>i, <2>1 DEF Starting, TypeOK
    <2>5. main \notin {"dial", "header", "first"}
        BY <1>i, <2>4 DEF Starting
    <2>6. Queued' /\ Starting' /\ OwnConn'
        BY <1>i, <1>w, <2>1, <2>5 DEF Queued, Held, Starting, OwnConn
    <2>7. Ended'
        BY <1>i, <1>w, <2>1, <2>4 DEF Ended, OwnConn
    <2>8. QED
        BY <1>c, <2>3, <2>6, <2>7 DEF IInv
<1>5. CASE Drained
    <2>1. /\ up = "drain" /\ hand = 0 /\ msgCh = <<>> /\ up' = "done" /\ conn' = FALSE
          /\ UNCHANGED <<channel, msgCh, hand, written>>
        BY <1>5 DEF Drained
    <2>2. TypeOK'
        BY <1>i, <1>w, <2>1 DEF TypeOK
    <2>3. Queued' /\ Starting' /\ OwnConn'
        BY <1>i, <1>w, <2>1 DEF Queued, Held, Starting, OwnConn
    <2>4. Len(written) = Len(accepted)
        <3>1. Chain(accepted, written, <<>>, <<>>)
            BY <1>i, <2>1 DEF Queued, Held
        <3>2. Len(<<>>) = 0 /\ Len(accepted) = Len(written) + Len(<<>>) + Len(<<>>)
            BY <3>1 DEF Chain
        <3>3. QED
            BY <1>i, <3>2, Types
    <2>5. Ended'
        BY <1>i, <1>w, <2>1, <2>4, Types DEF Ended
    <2>6. QED
        BY <1>c, <2>2, <2>3, <2>5 DEF IInv
<1>6. QED
    BY <1>1, <1>2, <1>3, <1>4, <1>5 DEF Writer, WriterRuns

\* The goroutine of relayDataChannel.
LEMMA MainInv ==
    ASSUME IInv, Main
    PROVE  IInv'
<1>i. TypeOK /\ Queued /\ Counted /\ Starting /\ OwnConn /\ Ended
    BY DEF IInv
<1>w. UNCHANGED <<before, told, closed, app, msgCh, accepted, hand, written, arrived, missed, callback>>
    BY DEF Main, MainRuns, Dial, WriteHeader, WriteFirst, StartFails, ReadFails, CheckBuffer, Pause, Resume,
           PauseEnds, Send, SendFails, ReadFrame, upVars
<1>q. Queued' /\ Counted'
    BY <1>i, <1>w, SameMessages
<1>1. CASE Dial \/ WriteHeader \/ StartFails
    <2>1. UNCHANGED <<cut, up, frame, frames, buffered, ready>>
        BY <1>1 DEF Dial, WriteHeader, StartFails, upVars, downVars
    <2>2. TypeOK'
        BY <1>i, <1>1, <1>w, <2>1 DEF Dial, WriteHeader, StartFails, TypeOK
    <2>3. Starting' /\ OwnConn' /\ Ended'
        BY <1>i, <1>1, <1>w, <2>1 DEF Dial, WriteHeader, StartFails, Starting, OwnConn, Ended
    <2>4. QED
        BY <1>q, <2>2, <2>3 DEF IInv
<1>2. CASE WriteFirst
    <2>1. /\ UNCHANGED <<channel, conn, cut, frame, frames, buffered, ready>>
          /\ main = "first" /\ up = "off" /\ conn /\ main' = "read" /\ up' = "run"
        BY <1>i, <1>2 DEF WriteFirst, downVars, Starting
    <2>2. TypeOK'
        BY <1>i, <1>w, <2>1 DEF TypeOK
    <2>3. Starting' /\ OwnConn' /\ Ended'
        BY <1>i, <1>w, <2>1 DEF Starting, OwnConn, Ended
    <2>4. QED
        BY <1>q, <2>2, <2>3 DEF IInv
<1>3. CASE ReadFails \/ PauseEnds \/ SendFails
    <2>1. /\ UNCHANGED <<up, frame, frames, buffered, ready>> /\ main' = "done" /\ conn' = FALSE
          /\ channel' \in BOOLEAN /\ cut' = (up # "done") /\ main # "done"
        BY <1>3 DEF ReadFails, PauseEnds, SendFails, Return, upVars, downVars
    <2>2. TypeOK'
        BY <1>i, <1>w, <2>1 DEF TypeOK
    <2>3. Starting' /\ OwnConn' /\ Ended'
        BY <1>i, <1>w, <2>1 DEF Starting, OwnConn, Ended
    <2>4. QED
        BY <1>q, <2>2, <2>3 DEF IInv
<1>4. CASE ReadFrame \/ CheckBuffer \/ Pause \/ Resume \/ Send
    <2>1. /\ UNCHANGED <<channel, conn, cut, up>> /\ main # "done"
          /\ main \in {"read", "check", "pausing", "paused", "send"}
          /\ main' \in {"read", "check", "pausing", "paused", "send"}
        BY <1>4 DEF ReadFrame, CheckBuffer, Pause, Resume, Send, upVars
    <2>2. frame' \in FrameSizes \cup {0}
        BY <1>i, <1>4 DEF ReadFrame, CheckBuffer, Pause, Resume, Send, TypeOK, downVars
    <2>3. frames' \in 0..MaxDown
        BY <1>i, <1>4, RelayAssumption DEF ReadFrame, CheckBuffer, Pause, Resume, Send, TypeOK, downVars
    <2>4. buffered' \in Nat
        <3>1. frame \in Nat /\ buffered \in Nat
            BY <1>i, RelayAssumption DEF TypeOK
        <3>2. QED
            BY <1>4, <3>1 DEF ReadFrame, CheckBuffer, Pause, Resume, Send, downVars
    <2>5. ready' \in BOOLEAN
        BY <1>i, <1>4 DEF ReadFrame, CheckBuffer, Pause, Resume, Send, TypeOK, downVars
    <2>6. TypeOK'
        BY <1>i, <1>w, <2>1, <2>2, <2>3, <2>4, <2>5 DEF TypeOK
    <2>7. Starting' /\ OwnConn' /\ Ended'
        BY <1>i, <1>w, <2>1 DEF Starting, OwnConn, Ended
    <2>8. QED
        BY <1>q, <2>6, <2>7 DEF IInv
<1>5. QED
    BY <1>1, <1>2, <1>3, <1>4 DEF Main, MainRuns

\* Every step keeps the invariant.
LEMMA NextInv == IInv /\ [Next]_vars => IInv'
<1> SUFFICES ASSUME IInv, [Next]_vars PROVE IInv'
    OBVIOUS
<1>1. CASE UNCHANGED vars
    <2>1. /\ UNCHANGED <<main, channel, told, closed, conn, app, cut, before, up, msgCh, accepted, hand>>
          /\ UNCHANGED <<written, arrived, missed, callback, frame, frames, buffered, ready>>
        BY <1>1 DEF vars, upVars, downVars
    <2>2. QED
        BY <2>1 DEF IInv, TypeOK, Queued, Held, Counted, Pending, Starting, OwnConn, Ended
<1>2. QED
    BY <1>1, OutsideInv, CallbackInv, WriterInv, MainInv DEF Next

\* The inductive invariant holds in every reachable state.
THEOREM Invariance == Spec => []IInv
<1>1. Init => IInv
    BY InitInv
<1>2. IInv /\ [Next]_vars => IInv'
    BY NextInv
<1>3. QED
    BY <1>1, <1>2, PTL DEF Spec

\* A chain's written part is a prefix of what was accepted.
LEMMA ChainPrefix ==
    ASSUME NEW acc \in Seq(Msgs), NEW w \in Seq(Msgs), NEW h \in Seq(Msgs), NEW q \in Seq(Msgs),
           Chain(acc, w, h, q)
    PROVE  w = SubSeq(acc, 1, Len(w))
<1>1. /\ Len(w) \in Nat /\ Len(w) <= Len(acc)
      /\ \A i \in 1..Len(w) : acc[i] = w[i]
    BY DEF Chain
<1> DEFINE p == SubSeq(acc, 1, Len(w))
<1>2. p \in Seq(Msgs) /\ Len(p) = Len(w) /\ \A i \in 1..Len(w) : p[i] = acc[i]
    BY <1>1
<1>3. QED
    <2> HIDE DEF p
    <2>1. Len(p) = Len(w) /\ \A i \in 1..Len(w) : p[i] = w[i]
        BY <1>1, <1>2
    <2>2. p = w
        BY <1>2, <2>1
    <2>3. QED
        BY <2>2 DEF p

\* The messages that the data channel dispatches once OnMessage is set, up to the close, are
\* all taken over and reach the app in the order in which they came, none twice and none left
\* out; those from before the close all do, unless the app is gone or main has closed the
\* connection under the writer.
THEOREM RelaysInOrder == Spec => []RelayedInOrder
<1>1. ASSUME IInv
      PROVE  RelayedInOrder
    <2>1. TypeOK /\ Chain(accepted, written, Held, msgCh) /\ Counted /\ Ended
        BY <1>1 DEF IInv, Queued
    <2>2. written = SubSeq(accepted, 1, Len(written))
        BY <2>1, Types, ChainPrefix
    <2>3. /\ \A i \in 1..Len(accepted) : accepted[i] = missed + i
          /\ closed \/ missed + Len(accepted) + (IF callback = 0 THEN 0 ELSE 1) = arrived
        BY <2>1 DEF Counted, Pending
    <2>4. QED
        BY <2>1, <2>2, <2>3 DEF RelayedInOrder, Ended
<1>2. QED
    BY <1>1, Invariance, PTL
=============================================================================
