------------------------ MODULE RawSocketPeer_proofs ------------------------
(***************************************************************************)
(* Proofs about RawSocketPeer, for any number of callers and closers, any  *)
(* queue sizes and any bounds. The inductive invariant adds to the checked *)
(* invariants what they need to be preserved: the writer's hands are empty *)
(* when it selects, a torn frame has stopped it, and whoever waits for it  *)
(* in Close has marked the peer closed.                                    *)
(***************************************************************************)
EXTENDS RawSocketPeer, TLAPS

HandsEmpty == wpc = "select" => inHand = <<>> /\ ctrlInHand = <<>>
TornStops == torn => wpc \in {"failed", "done"}
WaiterClosed == \A k \in Closers : closing[k] = "wait" => closed

Inv ==
  /\ TypeOK /\ InOrder /\ ClosedOnce /\ ConnOutlivesWriter /\ SenderHoldsMutex
  /\ HandsEmpty /\ TornStops /\ WaiterClosed

-----------------------------------------------------------------------------
(* The queue discipline                                                    *)

\* Queueing the next number keeps the order (the send on writeChan or ctrlChan).
LEMMA FifoAppend ==
  ASSUME NEW out \in Seq(Nat), NEW hand \in Seq(Nat), NEW q \in Seq(Nat), NEW n \in Nat,
         Fifo(out, hand, q, n)
  PROVE  /\ Fifo(out, hand, Append(q, n + 1), n + 1)
         /\ Append(q, n + 1) \in Seq(Nat) /\ Len(Append(q, n + 1)) = Len(q) + 1
<1> DEFINE q2 == Append(q, n + 1)
<1>1. q2 \in Seq(Nat) /\ Len(q2) = Len(q) + 1
  OBVIOUS
<1>2. ASSUME NEW i \in 1..Len(q2)
      PROVE  q2[i] = Len(out) + Len(hand) + i
  <2>1. CASE i \in 1..Len(q)
    BY <2>1 DEF Fifo
  <2>2. CASE i = Len(q) + 1
    BY <2>2 DEF Fifo
  <2>3. QED
    BY <1>1, <2>1, <2>2
<1>3. n + 1 = Len(out) + Len(hand) + Len(q2)
  BY <1>1 DEF Fifo
<1>4. QED
  <2> HIDE DEF q2
  <2>1. Fifo(out, hand, q2, n + 1)
    BY <1>2, <1>3 DEF Fifo
  <2>2. QED
    BY <2>1, <1>1 DEF q2

\* Taking the head of the queue into an empty hand keeps it (the writer's receive).
LEMMA FifoTake ==
  ASSUME NEW out \in Seq(Nat), NEW q \in Seq(Nat), NEW n \in Nat, q # <<>>,
         Fifo(out, <<>>, q, n)
  PROVE  /\ Fifo(out, <<Head(q)>>, Tail(q), n)
         /\ <<Head(q)>> \in Seq(Nat) /\ Tail(q) \in Seq(Nat)
         /\ Len(<<Head(q)>>) = 1 /\ Len(Tail(q)) = Len(q) - 1
BY DEF Fifo

\* Writing what is in hand keeps it (the writer's writeFull).
LEMMA FifoWrite ==
  ASSUME NEW out \in Seq(Nat), NEW hand \in Seq(Nat), NEW q \in Seq(Nat), NEW n \in Nat,
         Len(hand) <= 1, Fifo(out, hand, q, n)
  PROVE  /\ Fifo(out \o hand, <<>>, q, n)
         /\ out \o hand \in Seq(Nat)
<1>1. out \o hand \in Seq(Nat) /\ Len(out \o hand) = Len(out) + Len(hand)
  OBVIOUS
<1>2. \A i \in 1..Len(out \o hand) : (out \o hand)[i] = i
  BY <1>1 DEF Fifo
<1>3. QED
  BY <1>1, <1>2 DEF Fifo

-----------------------------------------------------------------------------
(* The inductive invariant                                                 *)

\* A new peer (NewRawSocketPeer) satisfies the invariant.
LEMMA InitInv == Init => Inv
<1> SUFFICES ASSUME Init PROVE Inv
  OBVIOUS
<1> USE DEF Init
<1>1. TypeOK
  <2>1. /\ mutex \in Callers \cup {Free} /\ closed \in BOOLEAN /\ connOpen \in BOOLEAN
        /\ link \in {"up", "stalled", "broken"} /\ torn \in BOOLEAN
        /\ call \in [Callers -> {"idle", "Write", "TryWrite", "send"}]
        /\ closing \in [Closers -> {"idle", "Close", "wait", "returned"}]
    OBVIOUS
  <2>2. /\ writeChan \in Seq(Nat) /\ Len(writeChan) <= OutQueueSize
        /\ ctrlChan \in Seq(Nat) /\ Len(ctrlChan) <= CtrlCap
        /\ inHand \in Seq(Nat) /\ Len(inHand) <= 1
        /\ ctrlInHand \in Seq(Nat) /\ Len(ctrlInHand) <= 1
        /\ sent \in Seq(Nat) /\ ponged \in Seq(Nat)
    BY SizeAssumption
  <2>3. QED
    BY <2>1, <2>2 DEF TypeOK
<1>2. InOrder
  BY DEF InOrder, Fifo
<1>3. ClosedOnce /\ ConnOutlivesWriter /\ SenderHoldsMutex
  BY DEF ClosedOnce, ConnOutlivesWriter, SenderHoldsMutex
<1>4. HandsEmpty /\ TornStops /\ WaiterClosed
  BY DEF HandsEmpty, TornStops, WaiterClosed
<1>5. QED
  BY <1>1, <1>2, <1>3, <1>4 DEF Inv

\* A step that leaves the queues and the histories alone keeps the order.
LEMMA SameQueues ==
  InOrder /\ UNCHANGED <<sent, inHand, writeChan, accepted, ponged, ctrlInHand, ctrlChan, pinged>>
    => InOrder'
BY DEF InOrder

\* The steps of a caller: StartCall, TryWrite, WriteLock and WriteSend.
LEMMA CallInv ==
  ASSUME Inv, NEW c \in Callers, Call(c)
  PROVE  Inv'
<1> USE DEF Inv
<1>q. ASSUME Enqueue, UNCHANGED <<sent, inHand, ponged, ctrlInHand, ctrlChan, pinged>>
      PROVE  /\ InOrder'
             /\ accepted' \in Nat /\ writeChan' \in Seq(Nat) /\ Len(writeChan') <= OutQueueSize
  <2>1. /\ Fifo(sent, inHand, Append(writeChan, accepted + 1), accepted + 1)
        /\ Append(writeChan, accepted + 1) \in Seq(Nat)
        /\ Len(Append(writeChan, accepted + 1)) = Len(writeChan) + 1
    BY FifoAppend DEF TypeOK, InOrder
  <2>2. writeChan' = Append(writeChan, accepted + 1) /\ accepted' = accepted + 1
    BY <1>q DEF Enqueue
  <2>3. Len(writeChan') <= OutQueueSize
    BY <1>q, <2>1, <2>2, SizeAssumption DEF Enqueue, TypeOK
  <2>4. QED
    BY <1>q, <2>1, <2>2, <2>3 DEF InOrder, TypeOK
<1>1. ASSUME NEW op \in Ops, StartCall(c, op)
      PROVE  Inv'
  <2>1. TypeOK'
    BY <1>1, CallersAssumption DEF TypeOK, StartCall, peerVars, connVars, histVars
  <2>2. InOrder'
    BY <1>1, SameQueues DEF StartCall, peerVars, histVars
  <2>3. SenderHoldsMutex'
    BY <1>1, CallersAssumption DEF SenderHoldsMutex, StartCall, TypeOK, peerVars
  <2>4. (ClosedOnce /\ ConnOutlivesWriter /\ HandsEmpty /\ TornStops /\ WaiterClosed)'
    BY <1>1 DEF ClosedOnce, ConnOutlivesWriter, HandsEmpty, TornStops, WaiterClosed, StartCall,
                peerVars, connVars, histVars
  <2>5. QED
    BY <2>1, <2>2, <2>3, <2>4
<1>2. ASSUME TryWrite(c)
      PROVE  Inv'
  <2>1. CASE Enqueue
    <3>1. InOrder' /\ accepted' \in Nat /\ writeChan' \in Seq(Nat) /\ Len(writeChan') <= OutQueueSize
      BY <1>q, <1>2, <2>1 DEF TryWrite
    <3>2. TypeOK'
      BY <1>2, <3>1 DEF TypeOK, TryWrite, Return, connVars
    <3>3. QED
      BY <1>2, <3>1, <3>2 DEF SenderHoldsMutex, ClosedOnce, ConnOutlivesWriter, HandsEmpty,
                TornStops, WaiterClosed, TryWrite, Return, TypeOK, connVars
  <2>2. CASE UNCHANGED <<writeChan, accepted>>
    <3>1. InOrder'
      BY <1>2, <2>2, SameQueues DEF TryWrite
    <3>2. TypeOK'
      BY <1>2, <2>2 DEF TypeOK, TryWrite, Return, connVars
    <3>3. QED
      BY <1>2, <3>1, <3>2 DEF SenderHoldsMutex, ClosedOnce, ConnOutlivesWriter, HandsEmpty,
                TornStops, WaiterClosed, TryWrite, Return, TypeOK, connVars
  <2>3. QED
    BY <1>2, <2>1, <2>2 DEF TryWrite
<1>3. ASSUME WriteLock(c)
      PROVE  Inv'
  <2>1. TypeOK'
    BY <1>3 DEF TypeOK, WriteLock, Return, connVars, histVars
  <2>2. InOrder'
    BY <1>3, SameQueues DEF WriteLock, histVars
  <2>3. SenderHoldsMutex'
    BY <1>3, CallersAssumption DEF SenderHoldsMutex, WriteLock, Return, TypeOK
  <2>4. (ClosedOnce /\ ConnOutlivesWriter /\ HandsEmpty /\ TornStops /\ WaiterClosed)'
    BY <1>3 DEF ClosedOnce, ConnOutlivesWriter, HandsEmpty, TornStops, WaiterClosed, WriteLock,
                connVars, histVars
  <2>5. QED
    BY <2>1, <2>2, <2>3, <2>4
<1>4. ASSUME WriteSend(c)
      PROVE  Inv'
  <2>1. InOrder' /\ accepted' \in Nat /\ writeChan' \in Seq(Nat) /\ Len(writeChan') <= OutQueueSize
    BY <1>q, <1>4 DEF WriteSend
  <2>2. TypeOK'
    BY <1>4, <2>1 DEF TypeOK, WriteSend, Return, connVars
  <2>3. SenderHoldsMutex'
    BY <1>4 DEF SenderHoldsMutex, WriteSend, Return, TypeOK
  <2>4. (ClosedOnce /\ ConnOutlivesWriter /\ HandsEmpty /\ TornStops /\ WaiterClosed)'
    BY <1>4 DEF ClosedOnce, ConnOutlivesWriter, HandsEmpty, TornStops, WaiterClosed, WriteSend,
                connVars
  <2>5. QED
    BY <2>1, <2>2, <2>3, <2>4
<1>5. QED
  BY <1>1, <1>2, <1>3, <1>4 DEF Call

\* The steps of the writer goroutine.
LEMMA WriterInv ==
  ASSUME Inv, Writer
  PROVE  Inv'
<1> USE DEF Inv
<1>1. ASSUME WriterTakeData
      PROVE  Inv'
  <2>1. inHand = <<>> /\ ctrlInHand = <<>>
    BY <1>1 DEF WriterTakeData, HandsEmpty
  <2>2. /\ Fifo(sent, <<Head(writeChan)>>, Tail(writeChan), accepted)
        /\ <<Head(writeChan)>> \in Seq(Nat) /\ Tail(writeChan) \in Seq(Nat)
        /\ Len(<<Head(writeChan)>>) = 1 /\ Len(Tail(writeChan)) = Len(writeChan) - 1
    BY <1>1, <2>1, FifoTake DEF WriterTakeData, TypeOK, InOrder
  <2>3. inHand' = <<Head(writeChan)>> /\ writeChan' = Tail(writeChan)
    BY <1>1 DEF WriterTakeData
  <2>4. InOrder'
    BY <1>1, <2>2, <2>3 DEF WriterTakeData, InOrder, histVars
  <2>5. Len(writeChan') <= OutQueueSize /\ Len(inHand') <= 1
    BY <2>2, <2>3, SizeAssumption DEF TypeOK
  <2>6. TypeOK'
    BY <1>1, <2>2, <2>3, <2>5 DEF WriterTakeData, TypeOK, procVars, connVars, histVars
  <2>7. QED
    BY <1>1, <2>4, <2>6 DEF WriterTakeData, ClosedOnce, ConnOutlivesWriter, SenderHoldsMutex,
                HandsEmpty, TornStops, WaiterClosed, procVars, connVars, histVars
<1>2. ASSUME WriterTakeCtrl
      PROVE  Inv'
  <2>1. inHand = <<>> /\ ctrlInHand = <<>>
    BY <1>2 DEF WriterTakeCtrl, HandsEmpty
  <2>2. /\ Fifo(ponged, <<Head(ctrlChan)>>, Tail(ctrlChan), pinged)
        /\ <<Head(ctrlChan)>> \in Seq(Nat) /\ Tail(ctrlChan) \in Seq(Nat)
        /\ Len(<<Head(ctrlChan)>>) = 1 /\ Len(Tail(ctrlChan)) = Len(ctrlChan) - 1
    BY <1>2, <2>1, FifoTake DEF WriterTakeCtrl, TypeOK, InOrder
  <2>3. ctrlInHand' = <<Head(ctrlChan)>> /\ ctrlChan' = Tail(ctrlChan)
    BY <1>2 DEF WriterTakeCtrl
  <2>4. InOrder'
    BY <1>2, <2>2, <2>3 DEF WriterTakeCtrl, InOrder, histVars
  <2>5. Len(ctrlChan') <= CtrlCap /\ Len(ctrlInHand') <= 1
    BY <2>2, <2>3, SizeAssumption DEF TypeOK
  <2>6. TypeOK'
    BY <1>2, <2>2, <2>3, <2>5 DEF WriterTakeCtrl, TypeOK, procVars, connVars, histVars
  <2>7. QED
    BY <1>2, <2>4, <2>6 DEF WriterTakeCtrl, ClosedOnce, ConnOutlivesWriter, SenderHoldsMutex,
                HandsEmpty, TornStops, WaiterClosed, procVars, connVars, histVars
<1>3. ASSUME WriterClosed \/ WriteHeader
      PROVE  Inv'
  <2>1. TypeOK'
    BY <1>3 DEF WriterClosed, WriteHeader, TypeOK, procVars, connVars, histVars
  <2>2. InOrder'
    BY <1>3, SameQueues DEF WriterClosed, WriteHeader, histVars
  <2>3. QED
    BY <1>3, <2>1, <2>2 DEF WriterClosed, WriteHeader, ClosedOnce, ConnOutlivesWriter,
                SenderHoldsMutex, HandsEmpty, TornStops, WaiterClosed, procVars, connVars, histVars
<1>4. ASSUME WritePayload
      PROVE  Inv'
  <2>1. /\ Fifo(sent \o inHand, <<>>, writeChan, accepted) /\ sent \o inHand \in Seq(Nat)
        /\ Fifo(ponged \o ctrlInHand, <<>>, ctrlChan, pinged) /\ ponged \o ctrlInHand \in Seq(Nat)
    BY FifoWrite DEF TypeOK, InOrder
  <2>2. /\ sent' = sent \o inHand /\ inHand' = <<>>
        /\ ponged' = ponged \o ctrlInHand /\ ctrlInHand' = <<>>
    BY <1>4 DEF WritePayload
  <2>3. InOrder'
    BY <1>4, <2>1, <2>2 DEF WritePayload, InOrder
  <2>4. /\ inHand' \in Seq(Nat) /\ Len(inHand') <= 1
        /\ ctrlInHand' \in Seq(Nat) /\ Len(ctrlInHand') <= 1
    BY <2>2
  <2>5. TypeOK'
    BY <1>4, <2>1, <2>2, <2>4 DEF WritePayload, TypeOK, procVars, connVars
  <2>6. QED
    BY <1>4, <2>2, <2>3, <2>5 DEF WritePayload, ClosedOnce, ConnOutlivesWriter, SenderHoldsMutex,
                HandsEmpty, TornStops, WaiterClosed, procVars, connVars
<1>5. ASSUME WriteFails
      PROVE  Inv'
  <2>1. TypeOK'
    BY <1>5 DEF WriteFails, TypeOK, procVars, connVars
  <2>2. InOrder'
    BY <1>5, SameQueues DEF WriteFails
  <2>3. QED
    BY <1>5, <2>1, <2>2 DEF WriteFails, ClosedOnce, ConnOutlivesWriter, SenderHoldsMutex,
                HandsEmpty, TornStops, WaiterClosed, procVars, connVars
<1>6. ASSUME CloseAfterWriteError
      PROVE  Inv'
  <2>1. TypeOK'
    BY <1>6 DEF CloseAfterWriteError, TypeOK, procVars, histVars
  <2>2. InOrder'
    BY <1>6, SameQueues DEF CloseAfterWriteError, histVars
  <2>3. ClosedOnce'
    BY <1>6 DEF CloseAfterWriteError, ClosedOnce, TypeOK
  <2>4. SenderHoldsMutex'
    BY <1>6, CallersAssumption DEF CloseAfterWriteError, SenderHoldsMutex, procVars
  <2>5. QED
    BY <1>6, <2>1, <2>2, <2>3, <2>4 DEF CloseAfterWriteError, ConnOutlivesWriter,
                HandsEmpty, TornStops, WaiterClosed, procVars, histVars
<1>7. QED
  BY <1>1, <1>2, <1>3, <1>4, <1>5, <1>6 DEF Writer

\* The steps of a goroutine in Close.
LEMMA CloseInv ==
  ASSUME Inv, NEW k \in Closers, Close(k)
  PROVE  Inv'
<1> USE DEF Inv
<1>1. ASSUME StartClose(k)
      PROVE  Inv'
  <2>1. TypeOK'
    BY <1>1 DEF StartClose, TypeOK, peerVars, connVars, histVars
  <2>2. InOrder'
    BY <1>1, SameQueues DEF StartClose, peerVars, histVars
  <2>3. QED
    BY <1>1, <2>1, <2>2 DEF StartClose, ClosedOnce, ConnOutlivesWriter, SenderHoldsMutex,
                HandsEmpty, TornStops, WaiterClosed, TypeOK, peerVars, connVars, histVars
<1>2. ASSUME CloseLock(k)
      PROVE  Inv'
  <2>1. TypeOK'
    BY <1>2 DEF CloseLock, TypeOK, connVars, histVars
  <2>2. InOrder'
    BY <1>2, SameQueues DEF CloseLock, histVars
  <2>3. ClosedOnce'
    BY <1>2 DEF CloseLock, ClosedOnce, TypeOK
  <2>4. SenderHoldsMutex'
    BY <1>2, CallersAssumption DEF CloseLock, SenderHoldsMutex
  <2>5. QED
    BY <1>2, <2>1, <2>2, <2>3, <2>4 DEF CloseLock, ConnOutlivesWriter,
                HandsEmpty, TornStops, WaiterClosed, connVars, histVars
<1>3. ASSUME CloseConn(k)
      PROVE  Inv'
  <2>1. TypeOK'
    BY <1>3 DEF CloseConn, TypeOK, peerVars, histVars
  <2>2. InOrder'
    BY <1>3, SameQueues DEF CloseConn, peerVars, histVars
  <2>3. QED
    BY <1>3, <2>1, <2>2 DEF CloseConn, ClosedOnce, ConnOutlivesWriter, SenderHoldsMutex,
                HandsEmpty, TornStops, WaiterClosed, TypeOK, peerVars, histVars
<1>4. QED
  BY <1>1, <1>2, <1>3 DEF Close

\* The steps of the reader.
LEMMA ReaderInv ==
  ASSUME Inv, Reader
  PROVE  Inv'
<1> USE DEF Inv
<1>1. ASSUME ReadPing \/ ReadError \/ ReadRefused
      PROVE  Inv'
  <2>1. TypeOK'
    BY <1>1 DEF ReadPing, ReadError, ReadRefused, TypeOK, peerVars, connVars, histVars
  <2>2. InOrder'
    BY <1>1, SameQueues DEF ReadPing, ReadError, ReadRefused, peerVars, histVars
  <2>3. QED
    BY <1>1, <2>1, <2>2 DEF ReadPing, ReadError, ReadRefused, ClosedOnce, ConnOutlivesWriter, SenderHoldsMutex,
                HandsEmpty, TornStops, WaiterClosed, peerVars, connVars, histVars
<1>2. ASSUME SendPong
      PROVE  Inv'
  <2>1. /\ Fifo(ponged, ctrlInHand, Append(ctrlChan, pinged + 1), pinged + 1)
        /\ Append(ctrlChan, pinged + 1) \in Seq(Nat)
        /\ Len(Append(ctrlChan, pinged + 1)) = Len(ctrlChan) + 1
    BY FifoAppend DEF TypeOK, InOrder
  <2>2. ctrlChan' = Append(ctrlChan, pinged + 1) /\ pinged' = pinged + 1
    BY <1>2 DEF SendPong
  <2>3. InOrder'
    BY <1>2, <2>1, <2>2 DEF SendPong, InOrder
  <2>4. Len(ctrlChan') <= CtrlCap
    BY <1>2, <2>1, <2>2, SizeAssumption DEF SendPong, TypeOK
  <2>5. TypeOK'
    BY <1>2, <2>1, <2>2, <2>4 DEF SendPong, TypeOK, connVars
  <2>6. QED
    BY <1>2, <2>3, <2>5 DEF SendPong, ClosedOnce, ConnOutlivesWriter, SenderHoldsMutex,
                HandsEmpty, TornStops, WaiterClosed, connVars
<1>3. QED
  BY <1>1, <1>2 DEF Reader

\* The network's steps, and steps of others.
LEMMA LinkInv ==
  ASSUME Inv, Link \/ UNCHANGED vars
  PROVE  Inv'
<1> USE DEF Inv
<1>1. TypeOK'
  BY DEF Link, LinkStalls, LinkResumes, LinkBreaks, TypeOK, vars, peerVars, procVars, connVars,
         histVars
<1>2. InOrder'
  BY SameQueues DEF Link, vars, peerVars, histVars
<1>3. QED
  BY <1>1, <1>2 DEF Link, ClosedOnce, ConnOutlivesWriter, SenderHoldsMutex,
         HandsEmpty, TornStops, WaiterClosed, vars, peerVars, procVars, connVars, histVars

\* Every step of the peer, of its users and of the network keeps the invariant.
LEMMA NextInv == Inv /\ [Next]_vars => Inv'
BY CallInv, WriterInv, CloseInv, ReaderInv, LinkInv DEF Next

\* The inductive invariant holds in every reachable state, whatever the number of
\* goroutines in Write, TryWrite and Close and whatever the queue sizes.
THEOREM Invariance == Spec => []Inv
<1>1. Init => Inv
  BY InitInv
<1>2. Inv /\ [Next]_vars => Inv'
  BY NextInv
<1>3. QED
  BY <1>1, <1>2, PTL DEF Spec

-----------------------------------------------------------------------------
(* The properties                                                          *)

\* Type correctness: in particular writeChan and ctrlChan never exceed their capacities and
\* the writer goroutine never holds two messages.
THEOREM TypeCorrect == Spec => []TypeOK
<1>1. Inv => TypeOK
  BY DEF Inv
<1>2. QED
  BY <1>1, Invariance, PTL

\* No accepted message and no pong is lost, repeated or overtaken on its way from Write,
\* TryWrite or the reader through the writer goroutine to the connection.
THEOREM QueuesInOrder == Spec => []InOrder
<1>1. Inv => InOrder
  BY DEF Inv
<1>2. QED
  BY <1>1, Invariance, PTL

\* closeChan is closed once, whoever closes the peer and however often (a second close
\* panics), and nobody closes the connection under the writer goroutine.
THEOREM ClosesSafely == Spec => []CloseSafe
<1>1. Inv => CloseSafe
  BY DEF Inv, CloseSafe
<1>2. QED
  BY <1>1, Invariance, PTL

\* A Write that waits for room in writeChan holds the mutex, so the peer is still open when
\* the message is queued.
THEOREM MutualExclusion == Spec => []SenderHoldsMutex
<1>1. Inv => SenderHoldsMutex
  BY DEF Inv
<1>2. QED
  BY <1>1, Invariance, PTL

\* No Write and no TryWrite reports success once the peer is marked closed.
THEOREM NoAcceptanceAfterClose == Spec => NothingAcceptedAfterClose
<1>1. ASSUME Inv, [Next]_vars, closed
      PROVE  accepted' = accepted
  <2>1. CASE UNCHANGED vars
    BY <2>1 DEF vars, histVars
  <2>2. ASSUME NEW c \in Callers, Call(c)
        PROVE  accepted' = accepted
    BY <1>1, <2>2 DEF Call, StartCall, TryWrite, WriteLock, WriteSend, Inv, SenderHoldsMutex,
                      histVars
  <2>3. CASE Writer
    BY <2>3 DEF Writer, WriterTakeData, WriterTakeCtrl, WriterClosed, WriteHeader, WritePayload,
                WriteFails, CloseAfterWriteError, histVars
  <2>4. ASSUME NEW k \in Closers, Close(k)
        PROVE  accepted' = accepted
    BY <2>4 DEF Close, StartClose, CloseLock, CloseConn, histVars
  <2>5. CASE Reader \/ Link
    BY <2>5 DEF Reader, ReadPing, SendPong, ReadError, ReadRefused, Link, histVars
  <2>6. QED
    BY <1>1, <2>1, <2>2, <2>3, <2>4, <2>5 DEF Next
<1>2. Inv /\ [Next]_vars => [closed => accepted' = accepted]_vars
  BY <1>1
<1>3. QED
  BY <1>2, Invariance, PTL DEF Spec, NothingAcceptedAfterClose

\* After an incomplete frame the writer goroutine writes nothing more to the connection.
THEOREM NothingAfterTorn == Spec => NoFrameAfterTorn
<1>1. ASSUME Inv, [Next]_vars, torn
      PROVE  UNCHANGED <<sent, ponged>>
  <2>1. CASE UNCHANGED vars
    BY <2>1 DEF vars, histVars
  <2>2. ASSUME NEW c \in Callers, Call(c)
        PROVE  UNCHANGED <<sent, ponged>>
    BY <2>2 DEF Call, StartCall, TryWrite, WriteLock, WriteSend, histVars
  <2>3. CASE Writer
    BY <1>1, <2>3 DEF Writer, WriterTakeData, WriterTakeCtrl, WriterClosed, WriteHeader,
                WritePayload, WriteFails, CloseAfterWriteError, histVars, Inv, TornStops
  <2>4. ASSUME NEW k \in Closers, Close(k)
        PROVE  UNCHANGED <<sent, ponged>>
    BY <2>4 DEF Close, StartClose, CloseLock, CloseConn, histVars
  <2>5. CASE Reader \/ Link
    BY <2>5 DEF Reader, ReadPing, SendPong, ReadError, ReadRefused, Link, histVars
  <2>6. QED
    BY <1>1, <2>1, <2>2, <2>3, <2>4, <2>5 DEF Next
<1>2. Inv /\ [Next]_vars => [torn => UNCHANGED <<sent, ponged>>]_vars
  BY <1>1
<1>3. QED
  BY <1>2, Invariance, PTL DEF Spec, NoFrameAfterTorn

-----------------------------------------------------------------------------
(* Refinement: the peer implements OutQueue                                *)

\* What the queue invariant says about numbers: the writer's message is the next one, and
\* no more messages wait than the queue and the writer can hold.
LEMMA Backlog ==
  ASSUME Inv
  PROVE  /\ accepted = Len(sent) + Len(inHand) + Len(writeChan)
         /\ inHand = <<>> \/ inHand = <<Len(sent) + 1>>
         /\ Len(sent) \in Nat /\ Len(inHand) \in {0, 1} /\ Len(writeChan) \in 0..OutQueueSize
<1>1. /\ accepted = Len(sent) + Len(inHand) + Len(writeChan)
      /\ \A i \in 1..Len(inHand) : inHand[i] = Len(sent) + i
      /\ inHand \in Seq(Nat) /\ Len(inHand) <= 1 /\ sent \in Seq(Nat)
      /\ writeChan \in Seq(Nat) /\ Len(writeChan) <= OutQueueSize
  BY DEF Inv, InOrder, Fifo, TypeOK
<1>2. Len(inHand) = 0 \/ Len(inHand) = 1
  <2>1. Len(inHand) \in Nat
    BY <1>1
  <2>2. \A n \in Nat : n <= 1 => n = 0 \/ n = 1
    OBVIOUS
  <2>3. QED
    BY <1>1, <2>1, <2>2
<1>3. CASE Len(inHand) = 0
  BY <1>1, <1>3, SizeAssumption
<1>4. CASE Len(inHand) = 1
  BY <1>1, <1>4, SizeAssumption
<1>5. QED
  BY <1>2, <1>3, <1>4

\* Accepting a message, in TryWrite or at the end of Write, is an Accept of OutQueue.
LEMMA EnqueueAccepts ==
  ASSUME Inv, Enqueue, UNCHANGED <<sent, wpc>>
  PROVE  OQ!Accept
<1>1. Len(writeChan) < OutQueueSize /\ accepted' = accepted + 1
  BY DEF Enqueue
<1>2. accepted - Len(sent) < OutQueueSize + 1
  <2>1. /\ accepted = Len(sent) + Len(inHand) + Len(writeChan)
        /\ Len(sent) \in Nat /\ Len(writeChan) \in Nat /\ OutQueueSize \in Nat
        /\ Len(inHand) \in {0, 1}
    BY Backlog, SizeAssumption
  <2>2. \A s, q, n \in Nat, h \in {0, 1} : q < n => (s + h + q) - s < n + 1
    OBVIOUS
  <2>3. QED
    BY <1>1, <2>1, <2>2
<1>3. QED
  BY <1>1, <1>2 DEF OQ!Accept

\* Every behaviour of the raw socket peer is one that OutQueue allows: messages leave in
\* the order of acceptance, the backlog is bounded, and transmission never resumes.
THEOREM RefinesOutQueue == Spec => ImplementsOutQueue
<1>1. Init => OQ!Init
  BY DEF Init, OQ!Init
<1>2. ASSUME Inv, [Next]_vars
      PROVE  [OQ!Next]_(OQ!vars)
  <2> USE DEF OQ!vars
  <2>1. CASE UNCHANGED vars
    BY <2>1 DEF vars, peerVars, histVars
  <2>2. ASSUME NEW c \in Callers, Call(c)
        PROVE  [OQ!Next]_(OQ!vars)
    <3>1. CASE Enqueue
      <4>1. UNCHANGED <<sent, wpc>>
        BY <2>2 DEF Call, StartCall, TryWrite, WriteLock, WriteSend, peerVars, histVars
      <4>2. QED
        BY <1>2, <3>1, <4>1, EnqueueAccepts DEF OQ!Next
    <3>2. CASE ~Enqueue
      BY <2>2, <3>2 DEF Call, StartCall, TryWrite, WriteLock, WriteSend, peerVars, histVars
    <3>3. QED
      BY <3>1, <3>2
  <2>3. CASE WritePayload
    <3>1. UNCHANGED accepted /\ wpc = "payload" /\ wpc' = "select" /\ sent' = sent \o inHand
      BY <2>3 DEF WritePayload
    <3>2. CASE inHand = <<>>
      <4>1. sent' = sent
        BY <1>2, <3>1, <3>2 DEF Inv, TypeOK
      <4>2. QED
        BY <3>1, <4>1
    <3>3. CASE inHand = <<Len(sent) + 1>>
      <4>1. sent' = Append(sent, Len(sent) + 1)
        BY <1>2, <3>1, <3>3 DEF Inv, TypeOK
      <4>2. Len(inHand) = 1
        BY <3>3
      <4>3. Len(sent) < accepted
        BY <1>2, <4>2, Backlog, SizeAssumption
      <4>4. QED
        BY <3>1, <4>1, <4>3 DEF OQ!Next, OQ!Transmit
    <3>4. QED
      BY <1>2, <3>2, <3>3, Backlog
  <2>4. CASE WriteFails \/ WriterClosed
    BY <2>4 DEF WriteFails, WriterClosed, OQ!Next, OQ!Stop, histVars
  <2>5. CASE WriterTakeData \/ WriterTakeCtrl \/ WriteHeader \/ CloseAfterWriteError
    BY <2>5 DEF WriterTakeData, WriterTakeCtrl, WriteHeader, CloseAfterWriteError, histVars
  <2>6. ASSUME NEW k \in Closers, Close(k)
        PROVE  [OQ!Next]_(OQ!vars)
    BY <2>6 DEF Close, StartClose, CloseLock, CloseConn, peerVars, histVars
  <2>7. CASE Reader \/ Link
    BY <2>7 DEF Reader, ReadPing, SendPong, ReadError, ReadRefused, Link, peerVars, histVars
  <2>8. QED
    BY <1>2, <2>1, <2>2, <2>3, <2>4, <2>5, <2>6, <2>7 DEF Next, Writer
<1>3. QED
  BY <1>1, <1>2, Invariance, PTL DEF Spec, ImplementsOutQueue, OQ!Spec
=============================================================================
