-------------------------- MODULE LocalPeer_proofs --------------------------
(***************************************************************************)
(* Proofs about LocalPeer, for any number of callers and closers on each   *)
(* side and any queue size. The inductive invariant adds to the checked    *)
(* invariants that a closer waiting for the writer has marked the side     *)
(* closed, and, for each direction, the numbers that queue, writer and     *)
(* reader hold.                                                            *)
(***************************************************************************)
EXTENDS LocalPeer, TLAPS

WaiterClosed == \A s \in Side, k \in Closers : closing[s][k] = "wait" => closed[s]

\* r messages are received; the writer's hand and then the queue hold the next ones, up to n.
Fifo(r, hand, q, n) ==
  /\ n = r + Len(hand) + Len(q)
  /\ \A i \in 1..Len(hand) : hand[i] = r + i
  /\ \A i \in 1..Len(q) : q[i] = r + Len(hand) + i
Numbered(s) == Fifo(Len(received[Other(s)]), inHand[s], writeChan[s], accepted[s])

\* Side s's writer holds a message exactly while it writes or after it failed to.
Hands(s) ==
  /\ Len(inHand[s]) <= 1
  /\ wpc[s] = "range" => inHand[s] = <<>>
  /\ wpc[s] = "write" => inHand[s] # <<>>

\* A writer ends after Close and with an empty queue, or by a failed write.
Drained(s) ==
  wpc[s] = "done" /\ ~failed[s] => closed[s] /\ writeChan[s] = <<>> /\ inHand[s] = <<>>

Direction(s) == Numbered(s) /\ Hands(s) /\ Drained(s)

IInv == NoSendOnClosedChannel /\ WaiterClosed /\ \A s \in Side : Direction(s)

\* There are two sides.
LEMMA Sides ==
  /\ "client" \in Side /\ "router" \in Side
  /\ \A s \in Side : Other(s) \in Side /\ Other(s) # s /\ Other(Other(s)) = s
  /\ \A s, t \in Side : t # s => t = Other(s)
BY DEF Side, Other

\* What the rest of the proof needs of TypeOK, for one side.
LEMMA SideType ==
  ASSUME TypeOK, NEW s \in Side
  PROVE  /\ writeChan[s] \in Seq(Nat) /\ Len(writeChan[s]) <= OutQueueSize
         /\ inHand[s] \in Seq(Nat) /\ received[s] \in Seq(Nat) /\ accepted[s] \in Nat
         /\ Len(writeChan[s]) \in Nat /\ Len(inHand[s]) \in Nat /\ Len(received[s]) \in Nat
         /\ closed[s] \in BOOLEAN /\ failed[s] \in BOOLEAN
BY DEF TypeOK

\* A step that leaves a direction's state alone keeps its invariant.
LEMMA SameDirection ==
  ASSUME NEW s \in Side, Direction(s),
         accepted'[s] = accepted[s], received'[Other(s)] = received[Other(s)],
         inHand'[s] = inHand[s], writeChan'[s] = writeChan[s],
         wpc'[s] = wpc[s], closed[s] => closed'[s], failed'[s] = failed[s]
  PROVE  Direction(s)'
BY DEF Direction, Numbered, Hands, Drained

-----------------------------------------------------------------------------
(* The queue discipline                                                    *)

\* Queueing the next number (the send on writeChan).
LEMMA FifoAppend ==
  ASSUME NEW r \in Nat, NEW hand \in Seq(Nat), NEW q \in Seq(Nat), NEW n \in Nat, Fifo(r, hand, q, n)
  PROVE  /\ Fifo(r, hand, Append(q, n + 1), n + 1)
         /\ Append(q, n + 1) \in Seq(Nat) /\ Len(Append(q, n + 1)) = Len(q) + 1
<1> DEFINE q2 == Append(q, n + 1)
<1>1. q2 \in Seq(Nat) /\ Len(q2) = Len(q) + 1
  OBVIOUS
<1>2. ASSUME NEW i \in 1..Len(q2)
      PROVE  q2[i] = r + Len(hand) + i
  <2>1. CASE i \in 1..Len(q)
    BY <2>1 DEF Fifo
  <2>2. CASE i = Len(q) + 1
    BY <2>2 DEF Fifo
  <2>3. QED
    BY <1>1, <2>1, <2>2
<1>3. n + 1 = r + Len(hand) + Len(q2)
  BY <1>1 DEF Fifo
<1>4. Fifo(r, hand, q2, n + 1)
  <2> HIDE DEF q2
  <2>1. QED
    BY <1>2, <1>3 DEF Fifo
<1>5. QED
  BY <1>1, <1>4

\* Taking the head of the queue into an empty hand (a round of the writer's range).
LEMMA FifoTake ==
  ASSUME NEW r \in Nat, NEW q \in Seq(Nat), NEW n \in Nat, q # <<>>, Fifo(r, <<>>, q, n)
  PROVE  /\ Fifo(r, <<Head(q)>>, Tail(q), n)
         /\ <<Head(q)>> \in Seq(Nat) /\ Tail(q) \in Seq(Nat)
         /\ Len(<<Head(q)>>) = 1 /\ Len(Tail(q)) = Len(q) - 1
BY DEF Fifo

\* Handing over what is in hand (the write meets the read).
LEMMA FifoHandOver ==
  ASSUME NEW out \in Seq(Nat), NEW hand \in Seq(Nat), NEW q \in Seq(Nat), NEW n \in Nat,
         Fifo(Len(out), hand, q, n)
  PROVE  Fifo(Len(out \o hand), <<>>, q, n) /\ out \o hand \in Seq(Nat)
<1>1. out \o hand \in Seq(Nat) /\ Len(out \o hand) = Len(out) + Len(hand) /\ Len(<<>>) = 0
  OBVIOUS
<1>2. QED
  BY <1>1 DEF Fifo

-----------------------------------------------------------------------------
(* The steps of one direction                                              *)

\* The send on writeChan (Write, TryWrite) while the side is open.
LEMMA EnqueueDirection ==
  ASSUME TypeOK, NEW s \in Side, \A t \in Side : Direction(t), ~closed[s], Enqueue(s),
         UNCHANGED <<closed, inHand, wpc, received, failed>>
  PROVE  /\ \A t \in Side : Direction(t)'
         /\ writeChan' \in [Side -> Seq(Nat)] /\ accepted' \in [Side -> Nat]
         /\ \A t \in Side : Len(writeChan'[t]) <= OutQueueSize
<1> DEFINE q == Append(writeChan[s], accepted[s] + 1)
<1>1. /\ Fifo(Len(received[Other(s)]), inHand[s], writeChan[s], accepted[s])
      /\ writeChan[s] \in Seq(Nat) /\ inHand[s] \in Seq(Nat) /\ accepted[s] \in Nat
      /\ Len(received[Other(s)]) \in Nat /\ Len(writeChan[s]) \in Nat
      /\ Len(writeChan[s]) < OutQueueSize
  BY Sides, SideType DEF Direction, Numbered, Enqueue
<1>2. /\ Fifo(Len(received[Other(s)]), inHand[s], q, accepted[s] + 1)
      /\ q \in Seq(Nat) /\ Len(q) = Len(writeChan[s]) + 1
  BY <1>1, FifoAppend
<1>3. writeChan' = [writeChan EXCEPT ![s] = q] /\ accepted' = [accepted EXCEPT ![s] = accepted[s] + 1]
  BY DEF Enqueue, TypeOK
<1> HIDE DEF q
<1>4. Len(q) <= OutQueueSize /\ accepted[s] + 1 \in Nat
  BY <1>1, <1>2, SizeAssumption
<1>5. /\ writeChan'[s] = q /\ accepted'[s] = accepted[s] + 1
      /\ \A t \in Side \ {s} : writeChan'[t] = writeChan[t] /\ accepted'[t] = accepted[t]
  BY <1>3 DEF TypeOK
<1>6. writeChan' \in [Side -> Seq(Nat)] /\ accepted' \in [Side -> Nat]
  BY <1>2, <1>3, <1>4 DEF TypeOK
<1>7. \A t \in Side : Len(writeChan'[t]) <= OutQueueSize
  BY <1>4, <1>5 DEF TypeOK
<1>8. Numbered(s)'
  BY <1>2, <1>5 DEF Numbered
<1>9. Hands(s)' /\ Drained(s)'
  BY DEF Direction, Hands, Drained
<1>10. \A t \in Side \ {s} : Direction(t)'
  BY <1>5, SameDirection
<1>11. QED
  BY <1>6, <1>7, <1>8, <1>9, <1>10 DEF Direction

\* One round of the writer's range.
LEMMA TakeDirection ==
  ASSUME TypeOK, NEW s \in Side, \A t \in Side : Direction(t), WriterTake(s)
  PROVE  (\A t \in Side : Direction(t)') /\ TypeOK'
<1>1. CASE writeChan[s] # <<>> /\ wpc' = [wpc EXCEPT ![s] = "write"]
  <2> DEFINE q == Tail(writeChan[s])
             h == <<Head(writeChan[s])>>
  <2>1. /\ Fifo(Len(received[Other(s)]), <<>>, writeChan[s], accepted[s])
        /\ writeChan[s] \in Seq(Nat) /\ accepted[s] \in Nat /\ Len(received[Other(s)]) \in Nat
        /\ Len(writeChan[s]) \in Nat /\ Len(writeChan[s]) <= OutQueueSize
    <3>1. inHand[s] = <<>>
      BY DEF WriterTake, Direction, Hands
    <3>2. QED
      BY <3>1, Sides, SideType DEF Direction, Numbered
  <2>2. /\ Fifo(Len(received[Other(s)]), h, q, accepted[s])
        /\ h \in Seq(Nat) /\ q \in Seq(Nat) /\ Len(h) = 1 /\ Len(q) = Len(writeChan[s]) - 1
    BY <1>1, <2>1, FifoTake
  <2>3. inHand' = [inHand EXCEPT ![s] = h] /\ writeChan' = [writeChan EXCEPT ![s] = q]
    BY <1>1 DEF WriterTake, TypeOK
  <2>h. h # <<>>
    OBVIOUS
  <2> HIDE DEF q, h
  <2>4. Len(q) <= OutQueueSize
    BY <2>1, <2>2, SizeAssumption
  <2>5. /\ inHand'[s] = h /\ writeChan'[s] = q /\ wpc'[s] = "write"
        /\ \A t \in Side \ {s} : /\ writeChan'[t] = writeChan[t] /\ inHand'[t] = inHand[t]
                                 /\ wpc'[t] = wpc[t]
    BY <1>1, <2>3 DEF TypeOK
  <2>6. UNCHANGED <<wmu, closed, call, closing, rpc, connOpen, accepted, received, failed>>
    BY DEF WriterTake, procVars, histVars
  <2>7. TypeOK'
    <3>1. writeChan' \in [Side -> Seq(Nat)] /\ inHand' \in [Side -> Seq(Nat)]
      BY <2>2, <2>3 DEF TypeOK
    <3>2. \A t \in Side : Len(writeChan'[t]) <= OutQueueSize
      BY <2>4, <2>5 DEF TypeOK
    <3>3. wpc' \in [Side -> {"range", "write", "done"}]
      BY <1>1 DEF TypeOK
    <3>4. QED
      BY <2>6, <3>1, <3>2, <3>3 DEF TypeOK
  <2>8. Numbered(s)'
    BY <2>2, <2>5, <2>6 DEF Numbered
  <2>9. Hands(s)' /\ Drained(s)'
    <3>1. Len(inHand'[s]) = 1 /\ inHand'[s] # <<>>
      BY <2>2, <2>h, <2>5
    <3>2. QED
      BY <2>5, <3>1 DEF Hands, Drained
  <2>10. \A t \in Side \ {s} : Direction(t)'
    BY <2>5, <2>6, SameDirection
  <2>11. QED
    BY <2>7, <2>8, <2>9, <2>10 DEF Direction
<1>2. CASE /\ writeChan[s] = <<>> /\ closed[s] /\ wpc' = [wpc EXCEPT ![s] = "done"]
           /\ UNCHANGED <<writeChan, inHand>>
  <2>1. /\ UNCHANGED <<wmu, closed, writeChan, inHand, call, closing, rpc, connOpen>>
        /\ UNCHANGED <<accepted, received, failed>>
    BY <1>2 DEF WriterTake, procVars, histVars
  <2>2. wpc'[s] = "done" /\ wpc[s] = "range" /\ \A t \in Side \ {s} : wpc'[t] = wpc[t]
    BY <1>2 DEF WriterTake, TypeOK
  <2>3. TypeOK'
    BY <1>2, <2>1 DEF TypeOK
  <2>4. Numbered(s)'
    BY <2>1 DEF Direction, Numbered
  <2>5. Hands(s)' /\ Drained(s)'
    BY <1>2, <2>1, <2>2 DEF Direction, Hands, Drained
  <2>6. \A t \in Side \ {s} : Direction(t)'
    BY <2>1, <2>2, SameDirection
  <2>7. QED
    BY <2>3, <2>4, <2>5, <2>6 DEF Direction
<1>3. QED
  BY <1>1, <1>2 DEF WriterTake

\* The writer of one side and the reader of the other meet at the pipe.
LEMMA TransferDirection ==
  ASSUME TypeOK, NEW s \in Side, \A t \in Side : Direction(t), Transfer(s)
  PROVE  (\A t \in Side : Direction(t)') /\ TypeOK'
<1> DEFINE o == Other(s)
           r == received[o] \o inHand[s]
<1>1. /\ Fifo(Len(received[o]), inHand[s], writeChan[s], accepted[s])
      /\ received[o] \in Seq(Nat) /\ inHand[s] \in Seq(Nat) /\ o \in Side /\ o # s
      /\ writeChan[s] \in Seq(Nat) /\ accepted[s] \in Nat
  BY Sides, SideType DEF Direction, Numbered
<1>2. Fifo(Len(r), <<>>, writeChan[s], accepted[s]) /\ r \in Seq(Nat)
  BY <1>1, FifoHandOver
<1>3. received' = [received EXCEPT ![o] = r] /\ inHand' = [inHand EXCEPT ![s] = <<>>]
  BY <1>1 DEF Transfer, TypeOK
<1>4. UNCHANGED <<wmu, closed, writeChan, call, closing, connOpen, accepted, failed>>
  BY DEF Transfer
<1> HIDE DEF r
<1>5. /\ received'[o] = r /\ inHand'[s] = <<>> /\ wpc'[s] = "range"
      /\ received'[s] = received[s] /\ inHand'[o] = inHand[o] /\ wpc'[o] = wpc[o]
  BY <1>1, <1>3 DEF Transfer, TypeOK
<1>6. TypeOK'
  <2>1. received' \in [Side -> Seq(Nat)]
    BY <1>2, <1>3 DEF TypeOK
  <2>2. inHand' \in [Side -> Seq(Nat)]
    <3>1. <<>> \in Seq(Nat)
      OBVIOUS
    <3>2. QED
      BY <1>3, <3>1 DEF TypeOK
  <2>3. wpc' \in [Side -> {"range", "write", "done"}] /\ rpc' \in [Side -> {"read", "busy", "returned"}]
    BY DEF Transfer, TypeOK
  <2>4. QED
    BY <1>4, <2>1, <2>2, <2>3 DEF TypeOK
<1>7. Numbered(s)'
  BY <1>2, <1>4, <1>5 DEF Numbered
<1>8. Hands(s)' /\ Drained(s)'
  BY <1>5 DEF Hands, Drained
<1>9. Direction(o)'
  BY <1>1, <1>4, <1>5, Sides, SameDirection
<1>10. QED
  BY <1>6, <1>7, <1>8, <1>9, Sides DEF Direction

-----------------------------------------------------------------------------
(* The inductive invariant                                                 *)

\* A new pair (newLocalPeer on both ends of a pipe) satisfies the invariant.
LEMMA InitInv == Init => IInv
<1> SUFFICES ASSUME Init PROVE IInv
  OBVIOUS
<1>1. ASSUME NEW s \in Side
      PROVE  /\ wmu[s] = Free /\ closed[s] = FALSE /\ writeChan[s] = <<>> /\ inHand[s] = <<>>
             /\ wpc[s] = "range" /\ accepted[s] = 0 /\ received[s] = <<>>
             /\ \A c \in Callers : call[s][c] = "idle"
             /\ \A k \in Closers : closing[s][k] = "idle"
  BY DEF Init
<1>2. TypeOK
  <2>1. writeChan \in [Side -> Seq(Nat)] /\ inHand \in [Side -> Seq(Nat)] /\ received \in [Side -> Seq(Nat)]
    BY DEF Init
  <2>2. \A s \in Side : Len(writeChan[s]) <= OutQueueSize
    <3>1. Len(<<>>) = 0 /\ 0 <= OutQueueSize
      BY SizeAssumption
    <3>2. QED
      BY <1>1, <3>1
  <2>3. /\ call \in [Side -> [Callers -> {"idle", "Write", "TryWrite", "send"}]]
        /\ closing \in [Side -> [Closers -> {"idle", "Close", "wait", "returned"}]]
    BY DEF Init
  <2>4. QED
    BY <2>1, <2>2, <2>3 DEF TypeOK, Init
<1>3. NoSendOnClosedChannel /\ WaiterClosed
  BY <1>1, <1>2 DEF NoSendOnClosedChannel, WaiterClosed
<1>4. \A s \in Side : Direction(s)
  <2>1. Len(<<>>) = 0 /\ Fifo(0, <<>>, <<>>, 0)
    BY DEF Fifo
  <2>2. ASSUME NEW s \in Side
        PROVE  Direction(s)
    <3>1. /\ received[Other(s)] = <<>> /\ inHand[s] = <<>> /\ writeChan[s] = <<>>
          /\ accepted[s] = 0 /\ wpc[s] = "range"
      BY <1>1, Sides
    <3>2. Numbered(s)
      BY <2>1, <3>1 DEF Numbered
    <3>3. QED
      BY <2>1, <3>1, <3>2 DEF Direction, Hands, Drained
  <2>3. QED
    BY <2>2
<1>5. QED
  BY <1>3, <1>4 DEF IInv

\* The steps of a caller on one side.
LEMMA CallInv ==
  ASSUME IInv, NEW s \in Side, NEW c \in Callers, Call(s, c) \/ \E op \in Ops[s] : StartCall(s, c, op)
  PROVE  IInv'
<1>i. /\ TypeOK /\ WaiterClosed /\ \A t \in Side : Direction(t)
      /\ \A t \in Side, d \in Callers : call[t][d] = "send" => ~closed[t] /\ wmu[t] = d
  BY DEF IInv, NoSendOnClosedChannel
<1>c. \A pc : call' = [call EXCEPT ![s][c] = pc] =>
        call'[s][c] = pc /\ \A t \in Side, d \in Callers : t # s \/ d # c => call'[t][d] = call[t][d]
  BY <1>i DEF TypeOK
<1>p. \A pc \in {"idle", "Write", "TryWrite", "send"} : call' = [call EXCEPT ![s][c] = pc] =>
        call' \in [Side -> [Callers -> {"idle", "Write", "TryWrite", "send"}]]
  BY <1>i DEF TypeOK
<1>w. UNCHANGED <<closed, inHand, wpc, closing, rpc, connOpen, received, failed>>
  BY DEF Call, StartCall, TryWrite, WriteLock, WriteSend, peerVars, histVars
<1>1. CASE \E op \in Ops[s] : StartCall(s, c, op)
  <2>1. PICK op \in {"Write", "TryWrite"} : StartCall(s, c, op)
    BY <1>1, OpsAssumption
  <2>2. call' = [call EXCEPT ![s][c] = op] /\ UNCHANGED <<wmu, writeChan, accepted>>
    BY <2>1 DEF StartCall, peerVars, histVars
  <2>3. TypeOK'
    BY <1>i, <1>w, <1>p, <2>2 DEF TypeOK
  <2>4. NoSendOnClosedChannel'
    BY <1>i, <1>c, <1>w, <2>2, <2>3 DEF NoSendOnClosedChannel
  <2>5. QED
    BY <1>i, <1>w, <2>2, <2>4, SameDirection DEF IInv, WaiterClosed
<1>2. CASE TryWrite(s, c)
  <2>1. call' = [call EXCEPT ![s][c] = "idle"] /\ UNCHANGED wmu
    BY <1>2 DEF TryWrite, Return
  <2>2. /\ \A t \in Side : Direction(t)'
        /\ writeChan' \in [Side -> Seq(Nat)] /\ accepted' \in [Side -> Nat]
        /\ \A t \in Side : Len(writeChan'[t]) <= OutQueueSize
    <3>1. CASE ~closed[s] /\ Enqueue(s)
      BY <1>i, <1>w, <3>1, EnqueueDirection
    <3>2. CASE UNCHANGED <<writeChan, accepted>>
      BY <1>i, <1>w, <3>2, SameDirection DEF TypeOK
    <3>3. QED
      BY <1>2, <3>1, <3>2 DEF TryWrite
  <2>3. TypeOK'
    BY <1>i, <1>w, <1>p, <2>1, <2>2 DEF TypeOK
  <2>4. NoSendOnClosedChannel'
    BY <1>i, <1>c, <1>w, <2>1, <2>3 DEF NoSendOnClosedChannel
  <2>5. QED
    BY <1>i, <1>w, <2>2, <2>4 DEF IInv, WaiterClosed
<1>3. CASE WriteLock(s, c)
  <2>1. UNCHANGED <<writeChan, accepted>>
    BY <1>3 DEF WriteLock, histVars
  <2>2. NoSendOnClosedChannel'
    <3>1. CASE call' = [call EXCEPT ![s][c] = "idle"] /\ UNCHANGED wmu
      <4>1. TypeOK'
        BY <1>i, <1>w, <1>p, <2>1, <3>1 DEF TypeOK
      <4>2. QED
        BY <1>i, <1>c, <1>w, <3>1, <4>1 DEF NoSendOnClosedChannel
    <3>2. CASE ~closed[s] /\ wmu' = [wmu EXCEPT ![s] = c] /\ call' = [call EXCEPT ![s][c] = "send"]
      <4>1. wmu' \in [Side -> Callers \cup Closers \cup {Free}]
        BY <1>i, <3>2 DEF TypeOK
      <4>2. TypeOK'
        BY <1>i, <1>w, <1>p, <2>1, <3>2, <4>1 DEF TypeOK
      <4>3. wmu[s] = Free /\ wmu'[s] = c /\ \A t \in Side \ {s} : wmu'[t] = wmu[t]
        BY <1>i, <1>3, <3>2 DEF WriteLock, TypeOK
      <4>4. \A d \in Callers : d # Free
        BY ProcsAssumption
      <4>5. ASSUME NEW t \in Side, NEW d \in Callers, call'[t][d] = "send"
            PROVE  ~closed'[t] /\ wmu'[t] = d
        BY <1>i, <1>c, <1>w, <3>2, <4>3, <4>4, <4>5
      <4>6. QED
        BY <4>2, <4>5 DEF NoSendOnClosedChannel
    <3>3. QED
      BY <1>3, <3>1, <3>2 DEF WriteLock, Return
  <2>3. QED
    BY <1>i, <1>w, <2>1, <2>2, SameDirection DEF IInv, WaiterClosed
<1>4. CASE WriteSend(s, c)
  <2>1. /\ call' = [call EXCEPT ![s][c] = "idle"] /\ wmu' = [wmu EXCEPT ![s] = Free]
        /\ ~closed[s] /\ wmu[s] = c /\ Enqueue(s)
    BY <1>i, <1>4 DEF WriteSend, Return
  <2>2. /\ \A t \in Side : Direction(t)'
        /\ writeChan' \in [Side -> Seq(Nat)] /\ accepted' \in [Side -> Nat]
        /\ \A t \in Side : Len(writeChan'[t]) <= OutQueueSize
    BY <1>i, <1>w, <2>1, EnqueueDirection
  <2>3. wmu' \in [Side -> Callers \cup Closers \cup {Free}] /\ \A t \in Side \ {s} : wmu'[t] = wmu[t]
    BY <1>i, <2>1 DEF TypeOK
  <2>4. TypeOK'
    BY <1>i, <1>w, <1>p, <2>1, <2>2, <2>3 DEF TypeOK
  <2>5. ASSUME NEW t \in Side, NEW d \in Callers, call'[t][d] = "send"
        PROVE  ~closed'[t] /\ wmu'[t] = d
    <3>1. call'[s][c] = "idle" /\ \A e \in Callers \ {c} : call[s][e] # "send"
      BY <1>i, <1>c, <2>1
    <3>2. t # s \/ d # c
      BY <2>5, <3>1
    <3>3. call[t][d] = "send"
      BY <1>c, <2>1, <2>5, <3>2
    <3>4. t # s
      BY <3>1, <3>2, <3>3
    <3>5. QED
      BY <1>i, <1>w, <2>3, <3>3, <3>4
  <2>6. NoSendOnClosedChannel'
    BY <2>4, <2>5 DEF NoSendOnClosedChannel
  <2>7. QED
    BY <1>i, <1>w, <2>2, <2>6 DEF IInv, WaiterClosed
<1>5. QED
  BY <1>1, <1>2, <1>3, <1>4 DEF Call

\* The steps of a goroutine in Close on one side.
LEMMA CloseInv ==
  ASSUME IInv, NEW s \in Side, NEW k \in Closers, Close(s, k) \/ StartClose(s, k)
  PROVE  IInv'
<1>i. /\ TypeOK /\ WaiterClosed /\ \A t \in Side : Direction(t)
      /\ \A t \in Side, d \in Callers : call[t][d] = "send" => ~closed[t] /\ wmu[t] = d
  BY DEF IInv, NoSendOnClosedChannel
<1>c. \A pc : closing' = [closing EXCEPT ![s][k] = pc] =>
        /\ closing'[s][k] = pc
        /\ \A t \in Side, j \in Closers : t # s \/ j # k => closing'[t][j] = closing[t][j]
  BY <1>i DEF TypeOK
<1>p. \A pc \in {"idle", "Close", "wait", "returned"} : closing' = [closing EXCEPT ![s][k] = pc] =>
        closing' \in [Side -> [Closers -> {"idle", "Close", "wait", "returned"}]]
  BY <1>i DEF TypeOK
<1>w. UNCHANGED <<writeChan, inHand, wpc, call, rpc, accepted, received, failed>>
  BY DEF Close, CloseLock, CloseConn, StartClose, peerVars, histVars
<1>1. CASE UNCHANGED <<wmu, closed, connOpen>> /\ \E pc \in {"Close", "returned"} : closing' = [closing EXCEPT ![s][k] = pc]
  <2>1. TypeOK'
    BY <1>i, <1>w, <1>p, <1>1 DEF TypeOK
  <2>2. NoSendOnClosedChannel'
    BY <1>i, <1>w, <1>1, <2>1 DEF NoSendOnClosedChannel
  <2>3. WaiterClosed'
    BY <1>i, <1>c, <1>1 DEF WaiterClosed
  <2>4. QED
    BY <1>i, <1>w, <1>1, <2>2, <2>3, SameDirection DEF IInv
<1>2. CASE CloseLock(s, k) /\ ~closed[s]
  <2>1. /\ closed' = [closed EXCEPT ![s] = TRUE] /\ closing' = [closing EXCEPT ![s][k] = "wait"]
        /\ wmu' = [wmu EXCEPT ![s] = k] /\ UNCHANGED connOpen /\ wmu[s] = Free
    BY <1>2 DEF CloseLock
  <2>2. /\ closed' \in [Side -> BOOLEAN] /\ wmu' \in [Side -> Callers \cup Closers \cup {Free}]
        /\ closed'[s] /\ \A t \in Side \ {s} : closed'[t] = closed[t] /\ wmu'[t] = wmu[t]
    BY <1>i, <2>1 DEF TypeOK
  <2>3. TypeOK'
    BY <1>i, <1>w, <1>p, <2>1, <2>2 DEF TypeOK
  <2>4. \A d \in Callers : call[s][d] # "send"
    BY <1>i, <2>1, ProcsAssumption
  <2>5. NoSendOnClosedChannel'
    BY <1>i, <1>w, <2>2, <2>3, <2>4 DEF NoSendOnClosedChannel
  <2>6. WaiterClosed'
    BY <1>i, <1>c, <2>1, <2>2 DEF WaiterClosed
  <2>7. \A t \in Side : closed[t] => closed'[t]
    BY <2>2
  <2>8. QED
    BY <1>i, <1>w, <2>5, <2>6, <2>7, SameDirection DEF IInv
<1>3. CASE CloseConn(s, k)
  <2>1. /\ closing' = [closing EXCEPT ![s][k] = "returned"] /\ wmu' = [wmu EXCEPT ![s] = Free]
        /\ connOpen' = [connOpen EXCEPT ![s] = FALSE] /\ UNCHANGED closed /\ closing[s][k] = "wait"
    BY <1>3 DEF CloseConn
  <2>2. /\ connOpen' \in [Side -> BOOLEAN] /\ wmu' \in [Side -> Callers \cup Closers \cup {Free}]
        /\ \A t \in Side \ {s} : wmu'[t] = wmu[t]
    BY <1>i, <2>1 DEF TypeOK
  <2>3. TypeOK'
    BY <1>i, <1>w, <1>p, <2>1, <2>2 DEF TypeOK
  <2>4. \A d \in Callers : call[s][d] # "send"
    BY <1>i, <2>1 DEF WaiterClosed
  <2>5. NoSendOnClosedChannel'
    BY <1>i, <1>w, <2>1, <2>2, <2>3, <2>4 DEF NoSendOnClosedChannel
  <2>6. WaiterClosed'
    BY <1>i, <1>c, <2>1 DEF WaiterClosed
  <2>7. QED
    BY <1>i, <1>w, <2>1, <2>5, <2>6, SameDirection DEF IInv
<1>4. QED
  BY <1>1, <1>2, <1>3 DEF Close, CloseLock, StartClose, peerVars

\* The writer, the reader and the pipe.
LEMMA PipeInv ==
  ASSUME IInv, NEW s \in Side, Writer(s) \/ ReadAgain(s) \/ ReadError(s)
  PROVE  IInv'
<1>i. /\ TypeOK /\ WaiterClosed /\ \A t \in Side : Direction(t)
      /\ \A t \in Side, d \in Callers : call[t][d] = "send" => ~closed[t] /\ wmu[t] = d
  BY DEF IInv, NoSendOnClosedChannel
<1>w. UNCHANGED <<wmu, closed, call, closing>>
  BY DEF Writer, WriterTake, Transfer, WriteFails, ReadAgain, ReadError, peerVars, procVars
<1>1. WaiterClosed'
  BY <1>i, <1>w DEF WaiterClosed
<1>2. TypeOK' => NoSendOnClosedChannel'
  BY <1>i, <1>w DEF NoSendOnClosedChannel
<1>3. CASE WriterTake(s) \/ Transfer(s)
  BY <1>i, <1>1, <1>2, <1>3, TakeDirection, TransferDirection DEF IInv
<1>4. CASE WriteFails(s)
  <2>1. /\ UNCHANGED <<writeChan, inHand, rpc, accepted, received>>
        /\ wpc' = [wpc EXCEPT ![s] = "done"] /\ failed' = [failed EXCEPT ![s] = TRUE]
        /\ connOpen' \in [Side -> BOOLEAN]
    BY <1>i, <1>4, Sides DEF WriteFails, procVars, TypeOK
  <2>2. /\ wpc'[s] = "done" /\ failed'[s]
        /\ \A t \in Side \ {s} : wpc'[t] = wpc[t] /\ failed'[t] = failed[t]
    BY <1>i, <2>1 DEF TypeOK
  <2>3. wpc' \in [Side -> {"range", "write", "done"}] /\ failed' \in [Side -> BOOLEAN]
    BY <1>i, <2>1 DEF TypeOK
  <2>4. TypeOK'
    BY <1>i, <1>w, <2>1, <2>3 DEF TypeOK
  <2>5. Numbered(s)'
    BY <1>i, <2>1 DEF Direction, Numbered
  <2>6. Hands(s)' /\ Drained(s)'
    BY <1>i, <2>1, <2>2 DEF Direction, Hands, Drained
  <2>7. \A t \in Side \ {s} : Direction(t)'
    BY <1>i, <1>w, <2>1, <2>2, SameDirection
  <2>8. QED
    BY <1>1, <1>2, <2>4, <2>5, <2>6, <2>7 DEF IInv, Direction
<1>5. CASE ReadAgain(s) \/ ReadError(s)
  <2>1. UNCHANGED <<writeChan, inHand, wpc, accepted, received, failed>>
    BY <1>5 DEF ReadAgain, ReadError, peerVars, histVars
  <2>2. rpc' \in [Side -> {"read", "busy", "returned"}] /\ connOpen' \in [Side -> BOOLEAN]
    BY <1>i, <1>5, Sides DEF ReadAgain, ReadError, TypeOK
  <2>3. TypeOK'
    BY <1>i, <1>w, <2>1, <2>2 DEF TypeOK
  <2>4. QED
    BY <1>i, <1>w, <1>1, <1>2, <2>1, <2>3, SameDirection DEF IInv
<1>6. QED
  BY <1>3, <1>4, <1>5 DEF Writer

\* Every step of the pair keeps the invariant.
LEMMA NextInv == IInv /\ [Next]_vars => IInv'
<1> SUFFICES ASSUME IInv, [Next]_vars PROVE IInv'
  OBVIOUS
<1>1. CASE Next
  BY <1>1, CallInv, CloseInv, PipeInv DEF Next
<1>2. CASE UNCHANGED vars
  <2>1. /\ UNCHANGED <<wmu, closed, writeChan, inHand, wpc, call, closing, rpc, connOpen>>
        /\ UNCHANGED <<accepted, received, failed>>
    BY <1>2 DEF vars, peerVars, procVars, histVars
  <2>2. NoSendOnClosedChannel' /\ WaiterClosed'
    BY <2>1 DEF IInv, NoSendOnClosedChannel, TypeOK, WaiterClosed
  <2>3. QED
    BY <2>1, <2>2, SameDirection DEF IInv
<1>3. QED
  BY <1>1, <1>2

\* The inductive invariant holds in every reachable state.
THEOREM Invariance == Spec => []IInv
<1>1. Init => IInv
  BY InitInv
<1>2. IInv /\ [Next]_vars => IInv'
  BY NextInv
<1>3. QED
  BY <1>1, <1>2, PTL DEF Spec

\* A Write that waits for room holds wmu and finds its side open, so that no close of the
\* channel can come between its check and its send: the send on a closed channel cannot happen.
THEOREM SendsOnOpenChannel == Spec => []NoSendOnClosedChannel
<1>1. IInv => NoSendOnClosedChannel
  BY DEF IInv
<1>2. QED
  BY <1>1, Invariance, PTL

\* A writer that ended without a failed write has handed over every accepted message, the
\* GOODBYE queued just before Close included.
THEOREM DrainsOnClose == Spec => []CloseDrains
<1>1. ASSUME IInv
      PROVE  CloseDrains
  <2>1. ASSUME NEW s \in Side, wpc[s] = "done", ~failed[s]
        PROVE  Len(received[Other(s)]) = accepted[s]
    <3>1. /\ writeChan[s] = <<>> /\ inHand[s] = <<>>
          /\ Fifo(Len(received[Other(s)]), inHand[s], writeChan[s], accepted[s])
      BY <1>1, <2>1 DEF IInv, Direction, Drained, Numbered
    <3>2. Len(received[Other(s)]) \in Nat
      BY <1>1, Sides, SideType DEF IInv, NoSendOnClosedChannel
    <3>3. Len(<<>>) = 0
      OBVIOUS
    <3>4. QED
      BY <3>1, <3>2, <3>3 DEF Fifo
  <2>2. QED
    BY <2>1 DEF CloseDrains
<1>2. QED
  BY <1>1, Invariance, PTL

-----------------------------------------------------------------------------
(* Refinement: each direction implements OutQueue                          *)

\* What a step may do to the direction from side s, in OutQueue's terms.
SameStop(s) == (wpc'[s] = "done") <=> (wpc[s] = "done")
Accepts(s) ==
  /\ accepted[s] - Len(received[Other(s)]) < OutQueueSize + 1
  /\ accepted'[s] = accepted[s] + 1
  /\ received'[Other(s)] = received[Other(s)] /\ SameStop(s)
Transmits(s) ==
  /\ wpc[s] # "done" /\ SameStop(s)
  /\ Len(received[Other(s)]) < accepted[s]
  /\ received'[Other(s)] = Append(received[Other(s)], Len(received[Other(s)]) + 1)
  /\ accepted'[s] = accepted[s]
Stops(s) ==
  /\ wpc[s] # "done" /\ wpc'[s] = "done"
  /\ accepted'[s] = accepted[s] /\ received'[Other(s)] = received[Other(s)]
Stutters(s) ==
  accepted'[s] = accepted[s] /\ received'[Other(s)] = received[Other(s)] /\ SameStop(s)

\* No more messages wait than the queue and the writer can hold; the writer's is the next.
LEMMA Backlog ==
  ASSUME IInv, NEW s \in Side
  PROVE  /\ Len(writeChan[s]) < OutQueueSize => accepted[s] - Len(received[Other(s)]) < OutQueueSize + 1
         /\ wpc[s] = "write" => /\ inHand[s] = <<Len(received[Other(s)]) + 1>>
                                /\ Len(received[Other(s)]) < accepted[s]
<1> DEFINE r == Len(received[Other(s)])
           h == inHand[s]
           q == writeChan[s]
           n == accepted[s]
<1>1. /\ r \in Nat /\ h \in Seq(Nat) /\ q \in Seq(Nat) /\ n \in Nat /\ Fifo(r, h, q, n)
      /\ Len(h) <= 1 /\ Len(h) \in Nat /\ Len(q) \in Nat /\ (wpc[s] = "write" => h # <<>>)
  BY Sides, SideType DEF IInv, NoSendOnClosedChannel, Direction, Numbered, Hands
<1> HIDE DEF r, h, q, n
<1>2. n = r + Len(h) + Len(q) /\ \A i \in 1..Len(h) : h[i] = r + i
  BY <1>1 DEF Fifo
<1>3. Len(q) < OutQueueSize => n - r < OutQueueSize + 1
  BY <1>1, <1>2, SizeAssumption
<1>4. ASSUME h # <<>>
      PROVE  h = <<r + 1>> /\ r < n
  <2>1. Len(h) # 0
    BY <1>1, <1>4
  <2>2. Len(h) = 1
    <3>1. \A l \in Nat : l <= 1 /\ l # 0 => l = 1
      OBVIOUS
    <3>2. QED
      BY <1>1, <2>1, <3>1
  <2>3. h[1] = r + 1 /\ h = <<h[1]>>
    BY <1>1, <1>2, <2>2
  <2>4. r < n
    BY <1>1, <1>2, <2>2
  <2>5. QED
    BY <2>3, <2>4
<1>5. QED
  BY <1>1, <1>3, <1>4 DEF r, h, q, n

\* Every step of the pair is one of these for each direction.
LEMMA DirectionStep ==
  ASSUME IInv, [Next]_vars, NEW s \in Side
  PROVE  Accepts(s) \/ Transmits(s) \/ Stops(s) \/ Stutters(s)
<1>t. TypeOK
  BY DEF IInv, NoSendOnClosedChannel
<1>s. ASSUME UNCHANGED <<accepted, received, wpc>>
      PROVE  Stutters(s)
  BY <1>s DEF Stutters, SameStop
<1>1. ASSUME NEW t \in Side, NEW c \in Callers, Call(t, c) \/ \E op \in Ops[t] : StartCall(t, c, op)
      PROVE  Accepts(s) \/ Stutters(s)
  <2>1. UNCHANGED <<received, wpc>> /\ (Enqueue(t) \/ UNCHANGED accepted)
    BY <1>1 DEF Call, TryWrite, WriteLock, WriteSend, StartCall, peerVars, histVars
  <2>2. CASE Enqueue(t) /\ t = s
    <3>1. accepted'[s] = accepted[s] + 1 /\ Len(writeChan[s]) < OutQueueSize
      BY <1>t, <2>2 DEF Enqueue, TypeOK
    <3>2. QED
      BY <2>1, <3>1, Backlog DEF Accepts, SameStop
  <2>3. CASE Enqueue(t) /\ t # s
    <3>1. accepted'[s] = accepted[s]
      BY <1>t, <2>3 DEF Enqueue, TypeOK
    <3>2. QED
      BY <2>1, <3>1 DEF Stutters, SameStop
  <2>4. QED
    BY <1>s, <2>1, <2>2, <2>3
<1>2. ASSUME NEW t \in Side, WriterTake(t) \/ WriteFails(t)
      PROVE  Stops(s) \/ Stutters(s)
  <2>1. UNCHANGED <<accepted, received>>
    BY <1>2 DEF WriterTake, WriteFails, histVars
  <2>2. /\ wpc[t] # "done" /\ \E pc : wpc' = [wpc EXCEPT ![t] = pc]
    BY <1>2 DEF WriterTake, WriteFails
  <2>3. t # s => wpc'[s] = wpc[s]
    BY <1>t, <2>2 DEF TypeOK
  <2>4. QED
    BY <2>1, <2>2, <2>3 DEF Stops, Stutters, SameStop
<1>3. ASSUME NEW t \in Side, Transfer(t)
      PROVE  Transmits(s) \/ Stutters(s)
  <2>1. /\ UNCHANGED accepted /\ wpc[t] = "write" /\ wpc' = [wpc EXCEPT ![t] = "range"]
        /\ received' = [received EXCEPT ![Other(t)] = received[Other(t)] \o inHand[t]]
    BY <1>3, <1>t, Sides DEF Transfer, TypeOK
  <2>2. CASE t = s
    <3>1. wpc'[s] = "range" /\ received'[Other(s)] = received[Other(s)] \o inHand[s]
      BY <1>t, <2>1, <2>2, Sides DEF TypeOK
    <3>2. received[Other(s)] \in Seq(Nat)
      BY <1>t, Sides DEF TypeOK
    <3>3. inHand[s] = <<Len(received[Other(s)]) + 1>> /\ Len(received[Other(s)]) < accepted[s]
      BY <2>1, <2>2, Backlog
    <3>4. \A r \in Seq(Nat) : r \o <<Len(r) + 1>> = Append(r, Len(r) + 1)
      OBVIOUS
    <3>5. received'[Other(s)] = Append(received[Other(s)], Len(received[Other(s)]) + 1)
      BY <3>1, <3>2, <3>3, <3>4
    <3>6. QED
      BY <2>1, <2>2, <3>1, <3>3, <3>5 DEF Transmits, SameStop
  <2>3. CASE t # s
    <3>1. wpc'[s] = wpc[s] /\ received'[Other(s)] = received[Other(s)]
      BY <1>t, <2>1, <2>3, Sides DEF TypeOK
    <3>2. QED
      BY <2>1, <3>1 DEF Stutters, SameStop
  <2>4. QED
    BY <2>2, <2>3
<1>4. ASSUME NEW t \in Side, \/ \E k \in Closers : Close(t, k) \/ StartClose(t, k)
                             \/ ReadAgain(t) \/ ReadError(t)
      PROVE  Stutters(s)
  BY <1>s, <1>4 DEF Close, CloseLock, CloseConn, StartClose, ReadAgain, ReadError, peerVars, histVars
<1>5. CASE UNCHANGED vars
  BY <1>s, <1>5 DEF vars, peerVars, histVars
<1>6. QED
  BY <1>1, <1>2, <1>3, <1>4, <1>5 DEF Next, Writer

\* Each direction of the pair is one that OutQueue allows: what one side accepts the other
\* side's reader gets in order, the backlog is bounded, and transmission never resumes.
THEOREM RefinesOutQueue == Spec => ImplementsOutQueue
<1>1. Init => ToRouter!Init /\ ToClient!Init
  BY DEF Init, ToRouter!Init, ToClient!Init, Side
<1>2. ASSUME IInv, [Next]_vars
      PROVE  [ToRouter!Next]_(ToRouter!vars)
  <2>1. Accepts("client") \/ Transmits("client") \/ Stops("client") \/ Stutters("client")
    BY <1>2, Sides, DirectionStep
  <2>2. Other("client") = "router"
    BY DEF Other
  <2>3. QED
    BY <2>1, <2>2 DEF Accepts, Transmits, Stops, Stutters, SameStop, ToRouter!Next,
              ToRouter!Accept, ToRouter!Transmit, ToRouter!Stop, ToRouter!vars
<1>3. ASSUME IInv, [Next]_vars
      PROVE  [ToClient!Next]_(ToClient!vars)
  <2>1. Accepts("router") \/ Transmits("router") \/ Stops("router") \/ Stutters("router")
    BY <1>3, Sides, DirectionStep
  <2>2. Other("router") = "client"
    BY DEF Other
  <2>3. QED
    BY <2>1, <2>2 DEF Accepts, Transmits, Stops, Stutters, SameStop, ToClient!Next,
              ToClient!Accept, ToClient!Transmit, ToClient!Stop, ToClient!vars
<1>4. QED
  BY <1>1, <1>2, <1>3, Invariance, PTL DEF Spec, ImplementsOutQueue, ToRouter!Spec, ToClient!Spec
=============================================================================
