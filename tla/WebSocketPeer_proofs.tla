------------------------ MODULE WebSocketPeer_proofs ------------------------
(***************************************************************************)
(* Proofs about WebSocketPeer, for any number of callers and closers, any  *)
(* queue sizes and any load.                                               *)
(***************************************************************************)
EXTENDS WebSocketPeer, FiniteSetTheorems, TLAPS

\* The peer's own goroutines are in Close only once they have stopped working, so none of
\* them enters it twice.
OwnClose ==
  /\ wpc \in {"select", "write"} => closing["writer"] = "none"
  /\ ppc \in {"tick", "pong"} => closing["pinger"] = "none"
  /\ rpc = "read" => closing["reader"] = "none"

\* Who finds the peer open closes closeChan, and there is only one.
Signals == {p \in Procs : closing[p] = "signal"}
OneSignal ==
  \/ ~closed /\ closeChan = 0 /\ Signals = {}
  \/ closed /\ closeChan = 0 /\ \E p \in Procs : Signals = {p}
  \/ closed /\ closeChan = 1 /\ Signals = {}

\* A selecting writer holds nothing; what it holds and what is queued are the numbers that
\* follow those sent.
HandsEmpty == wpc = "select" => inHand = <<>> /\ ctrlInHand = <<>>
Numbered ==
  /\ accepted = Len(sent) + Len(inHand) + Len(writeChan)
  /\ \A i \in 1..Len(inHand) : inHand[i] = Len(sent) + i
  /\ \A i \in 1..Len(writeChan) : writeChan[i] = Len(sent) + Len(inHand) + i

\* Every round of the pinger has one ping or one pong under way, a stray pong one more.
PingBudget ==
  Pings(ctrlChan) + Pings(ctrlInHand) + pingsOut + (IF pingCh THEN 1 ELSE 0)
    <= stray + (IF ppc = "tick" THEN 0 ELSE 1)

IInv == TypeOK /\ OwnClose /\ OneSignal /\ HandsEmpty /\ Numbered /\ PingBudget

-----------------------------------------------------------------------------
(* Type correctness                                                        *)

\* A new peer (NewWebSocketPeer) has the types.
LEMMA InitType == Init => TypeOK
<1> SUFFICES ASSUME Init PROVE TypeOK
  OBVIOUS
<1>1. ppc \in {"tick", "done"}
  BY DEF Init
<1>2. /\ writeChan \in Seq(Nat) /\ Len(writeChan) <= OutQueueSize
      /\ ctrlChan \in Seq({"ping", "pong"}) /\ Len(ctrlChan) <= CtrlCap
      /\ inHand \in Seq(Nat) /\ Len(inHand) <= 1
      /\ ctrlInHand \in Seq({"ping", "pong"}) /\ Len(ctrlInHand) <= 1
      /\ sent \in Seq(Nat) /\ accepted \in Nat /\ closeChan \in Nat /\ pingsOut \in Nat /\ stray \in Nat
  BY SizeAssumption DEF Init
<1>3. /\ call \in [Callers -> {"idle", "send", "trySend"}]
      /\ closing \in [Procs -> {"none", "Close", "signal", "wait", "returned"}]
  BY DEF Init
<1>4. QED
  BY <1>1, <1>2, <1>3 DEF TypeOK, Init

\* Write and TryWrite.
LEMMA CallType ==
  ASSUME TypeOK, NEW c \in Callers, Send(c) \/ \E op \in Ops : CheckClosed(c, op), UNCHANGED load
  PROVE  TypeOK'
<1>1. CASE \E op \in Ops : CheckClosed(c, op)
  BY <1>1 DEF TypeOK, CheckClosed, closeVars, chanVars, netVars, histVars
<1>2. CASE Send(c) /\ Enqueue
  <2>1. writeChan' \in Seq(Nat) /\ Len(writeChan') <= OutQueueSize /\ accepted' \in Nat
    BY <1>2, SizeAssumption DEF TypeOK, Enqueue, Full
  <2>2. QED
    BY <1>2, <2>1 DEF TypeOK, Send, closeVars, netVars
<1>3. CASE Send(c) /\ UNCHANGED <<writeChan, accepted>>
  BY <1>3 DEF TypeOK, Send, closeVars, netVars
<1>4. QED
  BY <1>1, <1>2, <1>3 DEF Send

\* Close, whoever runs it.
LEMMA CloseType ==
  ASSUME TypeOK, (\E k \in Closers : StartClose(k)) \/ (\E p \in Procs : Close(p)), UNCHANGED load
  PROVE  TypeOK'
<1>1. ASSUME NEW k \in Closers, StartClose(k)
      PROVE  TypeOK'
  <2>1. closing' \in [Procs -> {"none", "Close", "signal", "wait", "returned"}]
    BY <1>1 DEF TypeOK, StartClose, EnterClose
  <2>2. QED
    BY <1>1, <2>1 DEF TypeOK, StartClose, chanVars, pcVars, netVars, histVars
<1>2. ASSUME NEW p \in Procs, Close(p)
      PROVE  TypeOK'
  <2>1. /\ closing' \in [Procs -> {"none", "Close", "signal", "wait", "returned"}]
        /\ closed' \in BOOLEAN /\ closeChan' \in Nat /\ connOpen' \in BOOLEAN
    <3>1. CASE CloseMark(p)
      BY <3>1 DEF TypeOK, CloseMark
    <3>2. CASE CloseSignal(p)
      BY <3>2 DEF TypeOK, CloseSignal
    <3>3. CASE CloseConn(p)
      BY <3>3 DEF TypeOK, CloseConn
    <3>4. QED
      BY <1>2, <3>1, <3>2, <3>3 DEF Close
  <2>2. UNCHANGED <<chanVars, pcVars, netVars, histVars>>
    BY <1>2 DEF Close, CloseMark, CloseSignal, CloseConn
  <2>3. QED
    BY <2>1, <2>2 DEF TypeOK, chanVars, pcVars, netVars, histVars
<1>3. QED
  BY <1>1, <1>2

\* The writer.
LEMMA WriterType ==
  ASSUME TypeOK, Writer, UNCHANGED load
  PROVE  TypeOK'
<1>1. CASE WriterTakeData
  <2>1. /\ writeChan' \in Seq(Nat) /\ Len(writeChan') <= OutQueueSize
        /\ inHand' \in Seq(Nat) /\ Len(inHand') <= 1
    BY <1>1, SizeAssumption DEF TypeOK, WriterTakeData
  <2>2. QED
    BY <1>1, <2>1 DEF TypeOK, WriterTakeData, closeVars, netVars, histVars
<1>2. CASE WriterTakeCtrl
  <2>1. /\ ctrlChan' \in Seq({"ping", "pong"}) /\ Len(ctrlChan') <= CtrlCap
        /\ ctrlInHand' \in Seq({"ping", "pong"}) /\ Len(ctrlInHand') <= 1
    BY <1>2, SizeAssumption DEF TypeOK, WriterTakeCtrl
  <2>2. QED
    BY <1>2, <2>1 DEF TypeOK, WriterTakeCtrl, closeVars, netVars, histVars
<1>3. CASE WriterClosed \/ WriterReturns
  BY <1>3 DEF TypeOK, WriterClosed, WriterReturns, closeVars, chanVars, netVars, histVars
<1>4. CASE WriteFrame
  BY <1>4 DEF TypeOK, WriteFrame, closeVars
<1>5. CASE WriteFails
  BY <1>5 DEF TypeOK, WriteFails, EnterClose, chanVars, netVars, histVars, Procs
<1>6. QED
  BY <1>1, <1>2, <1>3, <1>4, <1>5 DEF Writer

\* A control frame that fits.
LEMMA AppendCtrl ==
  ASSUME TypeOK, NEW f \in {"ping", "pong"}, Len(ctrlChan) < CtrlCap
  PROVE  /\ Append(ctrlChan, f) \in Seq({"ping", "pong"})
         /\ Len(Append(ctrlChan, f)) = Len(ctrlChan) + 1 /\ Len(Append(ctrlChan, f)) <= CtrlCap
<1>1. ctrlChan \in Seq({"ping", "pong"}) /\ CtrlCap \in Nat
  BY SizeAssumption DEF TypeOK
<1>2. QED
  BY <1>1

\* The pinger.
LEMMA PingerType ==
  ASSUME TypeOK, Pinger, UNCHANGED load
  PROVE  TypeOK'
<1>1. CASE SendPing
  <2>1. ctrlChan' \in Seq({"ping", "pong"}) /\ Len(ctrlChan') <= CtrlCap
    <3>1. \/ Len(ctrlChan) < CtrlCap /\ ctrlChan' = Append(ctrlChan, "ping")
          \/ ctrlChan' = ctrlChan
      BY <1>1 DEF SendPing
    <3>2. QED
      BY <3>1, AppendCtrl DEF TypeOK
  <2>2. /\ ppc' \in {"pong", "closing"}
        /\ closing' \in [Procs -> {"none", "Close", "signal", "wait", "returned"}]
    BY <1>1 DEF TypeOK, SendPing, EnterClose, Procs
  <2>3. QED
    BY <1>1, <2>1, <2>2 DEF TypeOK, SendPing, netVars, histVars
<1>2. CASE PongSeen
  BY <1>2 DEF TypeOK, PongSeen, closeVars, netVars, histVars
<1>3. CASE PongTimeout \/ PingerReturns
  BY <1>3 DEF TypeOK, PongTimeout, PingerReturns, EnterClose, closeVars, chanVars, netVars, histVars, Procs
<1>4. QED
  BY <1>1, <1>2, <1>3 DEF Pinger

\* The reader and the network.
LEMMA ReaderType ==
  ASSUME TypeOK, Reader \/ Link, UNCHANGED load
  PROVE  TypeOK'
<1>1. CASE ReadPing
  <2>1. ctrlChan' \in Seq({"ping", "pong"}) /\ Len(ctrlChan') <= CtrlCap
    <3>1. \/ Len(ctrlChan) < CtrlCap /\ ctrlChan' = Append(ctrlChan, "pong")
          \/ ctrlChan' = ctrlChan
      BY <1>1 DEF ReadPing
    <3>2. QED
      BY <3>1, AppendCtrl DEF TypeOK
  <2>2. rpc' \in {"read", "done"}
    BY <1>1 DEF ReadPing, CanRead
  <2>3. QED
    BY <1>1, <2>1, <2>2 DEF TypeOK, ReadPing, closeVars, netVars, histVars
<1>2. CASE ReadPong
  BY <1>2 DEF TypeOK, ReadPong, closeVars, pcVars, histVars
<1>3. CASE ReadClose \/ ReadReturns \/ ReadRefused
  BY <1>3 DEF TypeOK, ReadClose, ReadReturns, ReadRefused, EnterClose, closeVars, chanVars, netVars,
              histVars, Procs
<1>4. CASE Link
  BY <1>4 DEF TypeOK, Link, closeVars, chanVars, pcVars, histVars
<1>5. QED
  BY <1>1, <1>2, <1>3, <1>4 DEF Reader

-----------------------------------------------------------------------------
(* Close                                                                   *)

\* Steps that leave closed and closeChan alone and move at most one process p that is not
\* about to signal, and not to it, keep the count.
LEMMA SameSignals ==
  ASSUME TypeOK, OneSignal, NEW p \in Procs, NEW pc \in {"none", "Close", "wait", "returned"},
         closing[p] # "signal", closing' = [closing EXCEPT ![p] = pc], UNCHANGED <<closed, closeChan>>
  PROVE  OneSignal'
<1>1. \A q \in Procs : closing'[q] = "signal" <=> closing[q] = "signal"
  BY DEF TypeOK
<1>2. Signals' = Signals
  BY <1>1 DEF Signals
<1>3. QED
  BY <1>2 DEF OneSignal

\* Close itself: the first to come becomes the one that signals.
LEMMA CloseSignals ==
  ASSUME TypeOK, OneSignal, OwnClose, NEW p \in Procs, Close(p)
  PROVE  OneSignal' /\ OwnClose'
<1>1. OwnClose'
  <2>1. closing[p] # "none" /\ \A q \in Procs \ {p} : closing'[q] = closing[q]
    BY DEF TypeOK, Close, CloseMark, CloseSignal, CloseConn
  <2>2. UNCHANGED <<wpc, ppc, rpc>> /\ {"writer", "pinger", "reader"} \subseteq Procs
    BY DEF Close, CloseMark, CloseSignal, CloseConn, pcVars, Procs
  <2>3. QED
    BY <2>1, <2>2 DEF OwnClose
<1>2. CASE CloseMark(p) /\ closed
  <2>1. closing[p] # "signal" /\ UNCHANGED <<closed, closeChan>>
    BY <1>2 DEF CloseMark, TypeOK
  <2>2. closing' = [closing EXCEPT ![p] = "returned"]
    BY <1>2 DEF CloseMark
  <2>3. QED
    BY <1>1, <2>1, <2>2, SameSignals
<1>3. CASE CloseMark(p) /\ ~closed
  <2>1. \A q \in Procs : closing'[q] = "signal" <=> q = p
    BY <1>3 DEF TypeOK, CloseMark, OneSignal, Signals
  <2>2. Signals' = {p}
    BY <2>1 DEF Signals
  <2>3. closed' /\ closeChan' = 0
    BY <1>3 DEF CloseMark, OneSignal
  <2>4. QED
    BY <1>1, <2>2, <2>3 DEF OneSignal
<1>4. CASE CloseSignal(p)
  <2>1. p \in Signals
    BY <1>4 DEF CloseSignal, Signals
  <2>2. closed /\ closeChan = 0 /\ Signals = {p}
    BY <2>1 DEF OneSignal
  <2>3. \A q \in Procs : closing'[q] # "signal"
    BY <1>4, <2>2 DEF TypeOK, CloseSignal, Signals
  <2>4. Signals' = {}
    BY <2>3 DEF Signals
  <2>5. closed' /\ closeChan' = 1
    BY <1>4, <2>2 DEF CloseSignal
  <2>6. QED
    BY <1>1, <2>4, <2>5 DEF OneSignal
<1>5. CASE CloseConn(p)
  BY <1>1, <1>5, SameSignals DEF CloseConn
<1>6. QED
  BY <1>1, <1>2, <1>3, <1>4, <1>5 DEF Close

\* A goroutine that calls Close was not in it.
LEMMA EnterCloseSignals ==
  ASSUME TypeOK, OneSignal, NEW p \in Procs, closing[p] = "none", EnterClose(p),
         UNCHANGED <<closed, closeChan>>
  PROVE  OneSignal' /\ \A q \in Procs \ {p} : closing'[q] = closing[q]
BY SameSignals DEF EnterClose, TypeOK

\* Every step keeps the count of those that may close closeChan.
LEMMA SignalsInv ==
  ASSUME TypeOK, OneSignal, OwnClose, Next
  PROVE  OneSignal' /\ OwnClose'
<1>p. /\ {"writer", "pinger", "reader"} \subseteq Procs /\ Closers \subseteq Procs
      /\ \A k \in Closers : k \notin {"writer", "pinger", "reader"}
  BY ClosersAssumption DEF Procs
<1>s. ASSUME UNCHANGED <<closed, closeChan, closing>>
      PROVE  OneSignal'
  BY <1>s DEF OneSignal, Signals
<1>1. ASSUME NEW k \in Closers, StartClose(k)
      PROVE  OneSignal' /\ OwnClose'
  <2>1. OneSignal' /\ \A q \in Procs \ {k} : closing'[q] = closing[q]
    BY <1>p, <1>1, EnterCloseSignals DEF StartClose
  <2>2. QED
    BY <1>p, <1>1, <2>1 DEF StartClose, OwnClose, pcVars
<1>2. CASE WriteFails
  <2>1. OneSignal' /\ \A q \in Procs \ {"writer"} : closing'[q] = closing[q]
    BY <1>p, <1>2, EnterCloseSignals DEF WriteFails, OwnClose
  <2>2. QED
    BY <1>p, <1>2, <2>1 DEF WriteFails, OwnClose
<1>3. CASE SendPing \/ PongTimeout
  <2>1. CASE UNCHANGED closing
    BY <1>3, <1>s, <2>1 DEF SendPing, PongTimeout, OwnClose
  <2>2. CASE EnterClose("pinger") /\ ppc' = "closing"
    <3>1. OneSignal' /\ \A q \in Procs \ {"pinger"} : closing'[q] = closing[q]
      BY <1>p, <1>3, <2>2, EnterCloseSignals DEF SendPing, PongTimeout, OwnClose
    <3>2. QED
      BY <1>p, <1>3, <2>2, <3>1 DEF SendPing, PongTimeout, OwnClose
  <2>3. QED
    BY <1>3, <2>1, <2>2 DEF SendPing, PongTimeout
<1>4. CASE ReadClose
  <2>1. OneSignal' /\ \A q \in Procs \ {"reader"} : closing'[q] = closing[q]
    BY <1>p, <1>4, EnterCloseSignals DEF ReadClose, CanRead, OwnClose
  <2>2. QED
    BY <1>p, <1>4, <2>1 DEF ReadClose, OwnClose
<1>5. CASE \E c \in Callers : Send(c) \/ \E op \in Ops : CheckClosed(c, op)
  BY <1>5, <1>s DEF Send, CheckClosed, closeVars, OwnClose
<1>6. CASE WriterTakeData \/ WriterTakeCtrl \/ WriterClosed \/ WriteFrame \/ WriterReturns
  BY <1>6, <1>s DEF WriterTakeData, WriterTakeCtrl, WriterClosed, WriteFrame, WriterReturns,
                    closeVars, OwnClose
<1>7. CASE PongSeen \/ PingerReturns
  BY <1>7, <1>s DEF PongSeen, PingerReturns, closeVars, OwnClose
<1>8. CASE ReadPing \/ ReadPong \/ ReadReturns \/ ReadRefused \/ Link
  BY <1>8, <1>s DEF ReadPing, ReadPong, ReadReturns, ReadRefused, Link, closeVars, pcVars, OwnClose
<1>9. QED
  BY <1>1, <1>2, <1>3, <1>4, <1>5, <1>6, <1>7, <1>8, CloseSignals
     DEF Next, Steps, Writer, Pinger, Reader

\* closeChan is closed once, counting whoever is about to close it.
LEMMA SignalsCount == TypeOK /\ OneSignal => ClosedOnce
<1> SUFFICES ASSUME TypeOK, OneSignal PROVE ClosedOnce
  OBVIOUS
<1>1. Signals = {} => Cardinality(Signals) = 0
  BY FS_EmptySet
<1>2. ASSUME NEW p \in Procs, Signals = {p}
      PROVE  Cardinality(Signals) = 1
  BY <1>2, FS_Singleton
<1>3. closeChan + Cardinality(Signals) = IF closed THEN 1 ELSE 0
  BY <1>1, <1>2 DEF OneSignal
<1>4. QED
  BY <1>3 DEF ClosedOnce, Signals

-----------------------------------------------------------------------------
(* The queue                                                               *)

\* The send on writeChan.
LEMMA EnqueueNumbered ==
  ASSUME TypeOK, Numbered, Enqueue, UNCHANGED <<sent, inHand>>
  PROVE  Numbered'
<1> DEFINE q == Append(writeChan, accepted + 1)
<1>1. /\ writeChan \in Seq(Nat) /\ sent \in Seq(Nat) /\ inHand \in Seq(Nat) /\ accepted \in Nat
      /\ accepted = Len(sent) + Len(inHand) + Len(writeChan)
      /\ \A i \in 1..Len(writeChan) : writeChan[i] = Len(sent) + Len(inHand) + i
  BY DEF TypeOK, Numbered
<1>2. Len(q) = Len(writeChan) + 1 /\ accepted + 1 = Len(sent) + Len(inHand) + Len(q)
  BY <1>1
<1>3. ASSUME NEW i \in 1..Len(q)
      PROVE  q[i] = Len(sent) + Len(inHand) + i
  <2>1. CASE i \in 1..Len(writeChan)
    <3>1. q[i] = writeChan[i]
      BY <1>1, <2>1
    <3>2. QED
      BY <1>1, <2>1, <3>1
  <2>2. CASE i = Len(writeChan) + 1
    BY <1>1, <2>2
  <2>3. QED
    BY <1>1, <1>2, <2>1, <2>2
<1>4. writeChan' = q /\ accepted' = accepted + 1
  BY DEF Enqueue
<1>5. QED
  <2> HIDE DEF q
  <2>1. QED
    BY <1>2, <1>3, <1>4 DEF Numbered

\* The writer's receive from writeChan.
LEMMA TakeNumbered ==
  ASSUME TypeOK, Numbered, HandsEmpty, WriterTakeData
  PROVE  Numbered'
<1>1. /\ writeChan \in Seq(Nat) /\ sent \in Seq(Nat) /\ writeChan # <<>> /\ inHand = <<>>
      /\ accepted = Len(sent) + Len(writeChan)
      /\ \A i \in 1..Len(writeChan) : writeChan[i] = Len(sent) + i
  BY DEF TypeOK, Numbered, HandsEmpty, WriterTakeData
<1> DEFINE h == <<Head(writeChan)>>
           q == Tail(writeChan)
<1>2. Len(h) = 1 /\ Len(q) = Len(writeChan) - 1 /\ h[1] = Len(sent) + 1
  BY <1>1
<1>3. \A i \in 1..Len(q) : q[i] = Len(sent) + 1 + i
  BY <1>1
<1>4. inHand' = h /\ writeChan' = q /\ UNCHANGED <<sent, accepted>>
  BY DEF WriterTakeData, histVars
<1>5. accepted = Len(sent) + Len(h) + Len(q)
  BY <1>1, <1>2
<1>6. \A i \in 1..Len(h) : h[i] = Len(sent) + i
  BY <1>2
<1>7. QED
  <2> HIDE DEF h, q
  <2>1. QED
    BY <1>2, <1>3, <1>4, <1>5, <1>6 DEF Numbered

\* The writer's WriteMessage.
LEMMA WriteNumbered ==
  ASSUME TypeOK, Numbered, WriteFrame
  PROVE  Numbered'
<1>1. /\ sent \in Seq(Nat) /\ inHand \in Seq(Nat) /\ writeChan \in Seq(Nat)
      /\ sent' = sent \o inHand /\ inHand' = <<>> /\ UNCHANGED <<writeChan, accepted>>
  BY DEF TypeOK, WriteFrame
<1>2. Len(sent') = Len(sent) + Len(inHand) /\ Len(inHand') = 0
  BY <1>1
<1>3. /\ accepted = Len(sent) + Len(inHand) + Len(writeChan)
      /\ \A i \in 1..Len(writeChan) : writeChan[i] = Len(sent) + Len(inHand) + i
      /\ Len(sent) \in Nat /\ Len(inHand) \in Nat /\ Len(writeChan) \in Nat
  BY <1>1 DEF Numbered
<1>4. Len(sent') + Len(inHand') = Len(sent) + Len(inHand)
  BY <1>2, <1>3
<1>5. QED
  BY <1>1, <1>2, <1>3, <1>4 DEF Numbered

\* Every step keeps the queue in order.
LEMMA QueueInv ==
  ASSUME TypeOK, Numbered, HandsEmpty, Next
  PROVE  Numbered' /\ HandsEmpty'
<1>s. ASSUME UNCHANGED <<sent, accepted, inHand, writeChan>>
      PROVE  Numbered'
  BY <1>s DEF Numbered
<1>1. CASE \E c \in Callers : Send(c) \/ \E op \in Ops : CheckClosed(c, op)
  <2>1. UNCHANGED <<sent, inHand, ctrlInHand, wpc>> /\ (Enqueue \/ UNCHANGED <<writeChan, accepted>>)
    BY <1>1 DEF Send, CheckClosed, chanVars, histVars
  <2>2. QED
    BY <1>s, <2>1, EnqueueNumbered DEF HandsEmpty
<1>2. CASE WriterTakeData
  BY <1>2, TakeNumbered DEF WriterTakeData, HandsEmpty
<1>3. CASE WriteFrame
  BY <1>3, WriteNumbered DEF WriteFrame, HandsEmpty
<1>4. CASE WriterTakeCtrl \/ WriterClosed \/ WriteFails \/ WriterReturns
  BY <1>4, <1>s DEF WriterTakeCtrl, WriterClosed, WriteFails, WriterReturns, chanVars, histVars,
                    HandsEmpty
<1>5. CASE Pinger
  BY <1>5, <1>s DEF Pinger, SendPing, PongSeen, PongTimeout, PingerReturns, chanVars, histVars,
                    HandsEmpty
<1>6. CASE Reader \/ Link
  BY <1>6, <1>s DEF Reader, ReadPing, ReadPong, ReadClose, ReadReturns, ReadRefused, Link, chanVars,
                    pcVars, histVars, HandsEmpty
<1>7. CASE (\E k \in Closers : StartClose(k)) \/ (\E p \in Procs : Close(p))
  BY <1>7, <1>s DEF StartClose, Close, CloseMark, CloseSignal, CloseConn, chanVars, pcVars, histVars,
                    HandsEmpty
<1>8. QED
  BY <1>1, <1>2, <1>3, <1>4, <1>5, <1>6, <1>7 DEF Next, Steps, Writer

-----------------------------------------------------------------------------
(* Keep-alive                                                              *)

PingAt(q) == {i \in DOMAIN q : q[i] = "ping"}
Frames == Seq({"ping", "pong"})

\* The pings in a queue are finitely many.
LEMMA PingsType ==
  ASSUME NEW q \in Frames
  PROVE  IsFiniteSet(PingAt(q)) /\ Pings(q) \in Nat
<1>1. DOMAIN q = 1..Len(q) /\ Len(q) \in Nat
  BY DEF Frames
<1>2. IsFiniteSet(1..Len(q))
  BY <1>1, FS_Interval
<1>3. PingAt(q) \in SUBSET (1..Len(q))
  BY <1>1 DEF PingAt
<1>4. IsFiniteSet(PingAt(q))
  BY <1>2, <1>3, FS_Subset
<1>5. QED
  BY <1>4, FS_CardinalityType DEF Pings, PingAt

\* An empty queue has none, a queue of one frame as many as it is.
LEMMA PingsShort ==
  Pings(<<>>) = 0 /\ Pings(<<"ping">>) = 1 /\ Pings(<<"pong">>) = 0
<1>1. PingAt(<<>>) = {}
  BY DEF PingAt
<1>2. PingAt(<<"ping">>) = {1}
  BY DEF PingAt
<1>3. PingAt(<<"pong">>) = {}
  BY DEF PingAt
<1>4. QED
  BY <1>1, <1>2, <1>3, FS_EmptySet, FS_Singleton DEF Pings, PingAt

\* A queued ping is one more, a queued pong is not.
LEMMA PingsAppend ==
  ASSUME NEW q \in Frames
  PROVE  Pings(Append(q, "ping")) = Pings(q) + 1 /\ Pings(Append(q, "pong")) = Pings(q)
<1>1. Len(q) \in Nat /\ Len(q) + 1 \notin DOMAIN q /\ DOMAIN q = 1..Len(q)
  BY DEF Frames
<1>2. ASSUME NEW f \in {"ping", "pong"}
      PROVE  /\ DOMAIN Append(q, f) = DOMAIN q \cup {Len(q) + 1}
             /\ Append(q, f)[Len(q) + 1] = f
             /\ \A i \in DOMAIN q : Append(q, f)[i] = q[i]
  BY DEF Frames
<1>3. PingAt(Append(q, "ping")) = PingAt(q) \cup {Len(q) + 1}
  BY <1>2 DEF PingAt
<1>4. PingAt(Append(q, "pong")) = PingAt(q)
  BY <1>1, <1>2 DEF PingAt
<1>5. Len(q) + 1 \notin PingAt(q)
  BY <1>1 DEF PingAt
<1>6. Cardinality(PingAt(q) \cup {Len(q) + 1}) = Cardinality(PingAt(q)) + 1
  BY <1>5, PingsType, FS_AddElement
<1>7. QED
  BY <1>3, <1>4, <1>6 DEF Pings, PingAt

\* Taking the first frame moves its ping from the queue to the hand.
LEMMA PingsTake ==
  ASSUME NEW q \in Frames, q # <<>>
  PROVE  Tail(q) \in Frames /\ Pings(Tail(q)) + Pings(<<Head(q)>>) = Pings(q)
<1> DEFINE t == Tail(q)
<1>1. /\ t \in Frames /\ DOMAIN q = 1..Len(q) /\ Len(q) \in Nat \ {0}
      /\ DOMAIN t = 1..(Len(q) - 1) /\ \A i \in DOMAIN t : t[i] = q[i + 1]
      /\ Head(q) = q[1] /\ Head(q) \in {"ping", "pong"}
  BY DEF Frames
<1>2. ExistsBijection(PingAt(t), PingAt(q) \ {1})
  <2> HIDE DEF t
  <2> DEFINE f == [i \in PingAt(t) |-> i + 1]
  <2>1. PingAt(t) \subseteq Nat \ {0} /\ PingAt(q) \subseteq Nat \ {0}
    BY <1>1 DEF PingAt
  <2>2. f \in [PingAt(t) -> PingAt(q) \ {1}]
    BY <1>1 DEF PingAt
  <2>3. \A i, j \in PingAt(t) : f[i] = f[j] => i = j
    BY <2>1
  <2>4. \A k \in PingAt(q) \ {1} : \E i \in PingAt(t) : f[i] = k
    <3> SUFFICES ASSUME NEW k \in PingAt(q) \ {1} PROVE \E i \in PingAt(t) : f[i] = k
      OBVIOUS
    <3>1. k \in 2..Len(q) /\ q[k] = "ping"
      BY <1>1 DEF PingAt
    <3>2. k - 1 \in PingAt(t) /\ (k - 1) + 1 = k
      BY <1>1, <3>1 DEF PingAt
    <3>3. QED
      BY <3>2
  <2>5. f \in Bijection(PingAt(t), PingAt(q) \ {1})
    <3> HIDE DEF f
    <3>1. QED
      BY <2>2, <2>3, <2>4 DEF Bijection, Injection, Surjection, IsInjective
  <2>6. QED
    BY <2>5 DEF ExistsBijection
<1>3. Cardinality(PingAt(t)) = Cardinality(PingAt(q) \ {1})
  <2>1. IsFiniteSet(PingAt(t))
    BY <1>1, PingsType
  <2>2. QED
    BY <1>2, <2>1, FS_Bijection
<1>4. Cardinality(PingAt(q) \ {1}) = IF q[1] = "ping" THEN Cardinality(PingAt(q)) - 1 ELSE Cardinality(PingAt(q))
  <2>1. 1 \in PingAt(q) <=> q[1] = "ping"
    BY <1>1 DEF PingAt
  <2>2. QED
    BY <2>1, PingsType, FS_RemoveElement
<1>5. Pings(<<Head(q)>>) = IF q[1] = "ping" THEN 1 ELSE 0
  BY <1>1, PingsShort
<1>6. Pings(q) \in Nat
  BY PingsType
<1>7. Pings(t) = Cardinality(PingAt(t)) /\ Pings(q) = Cardinality(PingAt(q))
  BY DEF Pings, PingAt
<1>8. Pings(t) = IF q[1] = "ping" THEN Pings(q) - 1 ELSE Pings(q)
  BY <1>3, <1>4, <1>7
<1>9. QED
  BY <1>1, <1>5, <1>6, <1>8

\* A step that leaves the frames alone, and a pinger that does not start a round, keep the
\* budget.
LEMMA SameBudget ==
  ASSUME TypeOK, PingBudget, UNCHANGED <<ctrlChan, ctrlInHand, pingsOut, pingCh, stray>>,
         ppc' = ppc \/ (ppc \in {"tick", "pong", "closing"} /\ ppc' \in {"closing", "done"})
  PROVE  PingBudget'
<1> DEFINE n == Pings(ctrlChan) + Pings(ctrlInHand) + pingsOut + (IF pingCh THEN 1 ELSE 0)
<1>1. n' = n /\ n \in Nat /\ stray \in Nat /\ n <= stray + (IF ppc = "tick" THEN 0 ELSE 1)
  <2>1. Pings(ctrlChan) \in Nat /\ Pings(ctrlInHand) \in Nat
    BY PingsType DEF TypeOK, Frames
  <2>2. QED
    BY <2>1 DEF TypeOK, PingBudget
<1>2. PingBudget' <=> n' <= stray' + (IF ppc' = "tick" THEN 0 ELSE 1)
  BY DEF PingBudget
<1>3. QED
  <2> HIDE DEF n
  <2>1. n <= stray + (IF ppc' = "tick" THEN 0 ELSE 1)
    BY <1>1
  <2>2. QED
    BY <1>1, <1>2, <2>1

\* Every step keeps the ping budget.
LEMMA PingInv ==
  ASSUME TypeOK, PingBudget, HandsEmpty, Next
  PROVE  PingBudget'
<1>t. /\ ctrlChan \in Frames /\ ctrlInHand \in Frames /\ Len(ctrlInHand) <= 1
      /\ Pings(ctrlChan) \in Nat /\ Pings(ctrlInHand) \in Nat
      /\ pingsOut \in Nat /\ stray \in Nat /\ pingCh \in BOOLEAN
  <2>1. ctrlChan \in Frames /\ ctrlInHand \in Frames
    BY DEF TypeOK, Frames
  <2>2. QED
    BY <2>1, PingsType DEF TypeOK
<1>1. CASE SendPing
  <2>1. CASE ctrlChan' = Append(ctrlChan, "ping") /\ ppc' = "pong"
    <3>1. Pings(ctrlChan') = Pings(ctrlChan) + 1
      BY <1>t, <2>1, PingsAppend
    <3>2. UNCHANGED <<ctrlInHand, pingsOut, pingCh, stray>> /\ ppc = "tick"
      BY <1>1 DEF SendPing, netVars
    <3>3. QED
      BY <1>t, <2>1, <3>1, <3>2 DEF PingBudget
  <2>2. CASE UNCHANGED ctrlChan /\ ppc' = "closing"
    BY <1>1, <2>2, SameBudget DEF SendPing, netVars
  <2>3. QED
    BY <1>1, <2>1, <2>2 DEF SendPing
<1>2. CASE PongSeen
  <2>1. /\ UNCHANGED <<ctrlChan, ctrlInHand, pingsOut, stray>>
        /\ ppc = "pong" /\ ppc' = "tick" /\ pingCh /\ ~pingCh'
    BY <1>2 DEF PongSeen, netVars
  <2>2. QED
    BY <1>t, <2>1 DEF PingBudget
<1>3. CASE PongTimeout \/ PingerReturns
  BY <1>3, SameBudget DEF PongTimeout, PingerReturns, chanVars, netVars
<1>4. CASE ReadPing
  <2>1. CASE ctrlChan' = Append(ctrlChan, "pong")
    <3>1. Pings(ctrlChan') = Pings(ctrlChan)
      BY <1>t, <2>1, PingsAppend
    <3>2. UNCHANGED <<ctrlInHand, pingsOut, pingCh, stray, ppc>>
      BY <1>4 DEF ReadPing, netVars
    <3>3. QED
      BY <1>t, <3>1, <3>2 DEF PingBudget
  <2>2. CASE UNCHANGED ctrlChan
    BY <1>4, <2>2, SameBudget DEF ReadPing, netVars
  <2>3. QED
    BY <1>4, <2>1, <2>2 DEF ReadPing
<1>5. CASE ReadPong
  <2>1. UNCHANGED <<ctrlChan, ctrlInHand, ppc>> /\ pingCh'
    BY <1>5 DEF ReadPong, pcVars
  <2>2. \/ pingsOut > 0 /\ pingsOut' = pingsOut - 1 /\ stray' = stray
        \/ stray' = stray + 1 /\ pingsOut' = pingsOut
    BY <1>5 DEF ReadPong
  <2>3. QED
    BY <1>t, <2>1, <2>2 DEF PingBudget
<1>6. CASE ReadClose \/ ReadReturns \/ ReadRefused \/ Link
  BY <1>6, SameBudget DEF ReadClose, ReadReturns, ReadRefused, Link, chanVars, pcVars, netVars
<1>7. CASE WriterTakeCtrl
  <2>1. /\ ctrlInHand = <<>> /\ ctrlInHand' = <<Head(ctrlChan)>> /\ ctrlChan' = Tail(ctrlChan)
        /\ ctrlChan # <<>> /\ UNCHANGED <<pingsOut, pingCh, stray, ppc>>
    BY <1>7 DEF WriterTakeCtrl, HandsEmpty, netVars
  <2>2. Pings(ctrlChan') + Pings(ctrlInHand') = Pings(ctrlChan) + Pings(ctrlInHand)
    BY <1>t, <2>1, PingsTake, PingsShort
  <2>3. QED
    BY <1>t, <2>1, <2>2 DEF PingBudget
<1>8. CASE WriteFrame
  <2>1. /\ UNCHANGED <<ctrlChan, pingCh, stray, ppc>> /\ ctrlInHand' = <<>>
        /\ pingsOut' = IF ctrlInHand = <<"ping">> THEN pingsOut + 1 ELSE pingsOut
    BY <1>8 DEF WriteFrame
  <2>2. Pings(ctrlInHand') = 0
    BY <2>1, PingsShort
  <2>3. CASE ctrlInHand = <<"ping">>
    <3>1. Pings(ctrlInHand) = 1 /\ pingsOut' = pingsOut + 1
      BY <2>1, <2>3, PingsShort
    <3>2. QED
      BY <1>t, <2>1, <2>2, <3>1 DEF PingBudget
  <2>4. CASE ctrlInHand # <<"ping">>
    <3>1. pingsOut' = pingsOut
      BY <2>1, <2>4
    <3>2. QED
      BY <1>t, <2>1, <2>2, <3>1 DEF PingBudget
  <2>5. QED
    BY <2>3, <2>4
<1>9. CASE WriterTakeData \/ WriterClosed \/ WriteFails \/ WriterReturns
  BY <1>9, SameBudget DEF WriterTakeData, WriterClosed, WriteFails, WriterReturns, chanVars, netVars
<1>10. CASE \E c \in Callers : Send(c) \/ \E op \in Ops : CheckClosed(c, op)
  BY <1>10, SameBudget DEF Send, CheckClosed, chanVars, netVars
<1>11. CASE (\E k \in Closers : StartClose(k)) \/ (\E p \in Procs : Close(p))
  BY <1>11, SameBudget DEF StartClose, Close, CloseMark, CloseSignal, CloseConn, chanVars, pcVars,
                           netVars
<1>12. QED
  BY <1>1, <1>2, <1>3, <1>4, <1>5, <1>6, <1>7, <1>8, <1>9, <1>10, <1>11
     DEF Next, Steps, Writer, Pinger, Reader

-----------------------------------------------------------------------------
(* The theorems                                                            *)

\* A new peer satisfies the invariant.
LEMMA InitInv == Init => IInv
<1> SUFFICES ASSUME Init PROVE IInv
  OBVIOUS
<1>1. TypeOK
  BY InitType
<1>2. \A p \in Procs : closing[p] = "none"
  BY DEF Init
<1>3. OwnClose
  BY <1>2 DEF OwnClose, Procs
<1>4. OneSignal
  <2>1. Signals = {}
    BY <1>2 DEF Signals
  <2>2. QED
    BY <2>1 DEF OneSignal, Init
<1>5. HandsEmpty /\ Numbered
  BY DEF Init, HandsEmpty, Numbered
<1>6. PingBudget
  <2>1. ctrlChan = <<>> /\ ctrlInHand = <<>> /\ pingsOut = 0 /\ stray = 0 /\ pingCh = FALSE
    BY DEF Init
  <2>2. QED
    BY <2>1, PingsShort DEF PingBudget
<1>7. QED
  BY <1>1, <1>3, <1>4, <1>5, <1>6 DEF IInv

\* Every step of the peer's goroutines, its users and the network keeps it.
LEMMA NextInv == IInv /\ [Next]_<<load, vars>> => IInv'
<1> SUFFICES ASSUME IInv, [Next]_<<load, vars>> PROVE IInv'
  OBVIOUS
<1>i. TypeOK /\ OwnClose /\ OneSignal /\ HandsEmpty /\ Numbered /\ PingBudget
  BY DEF IInv
<1>1. CASE Next
  <2>1. TypeOK'
    BY <1>i, <1>1, CallType, CloseType, WriterType, PingerType, ReaderType DEF Next, Steps
  <2>2. QED
    BY <1>i, <1>1, <2>1, SignalsInv, QueueInv, PingInv DEF IInv
<1>2. CASE UNCHANGED <<load, vars>>
  <2>1. /\ UNCHANGED <<load, closed, closeChan, closing, connOpen, writeChan, ctrlChan, pingCh, inHand>>
        /\ UNCHANGED <<ctrlInHand, wpc, ppc, rpc, call, link, pingsOut, stray, accepted, sent>>
    BY <1>2 DEF vars, closeVars, chanVars, pcVars, netVars, histVars
  <2>2. TypeOK'
    BY <1>i, <2>1 DEF TypeOK
  <2>3. OneSignal' /\ OwnClose'
    BY <1>i, <2>1 DEF OneSignal, Signals, OwnClose
  <2>4. HandsEmpty' /\ Numbered' /\ PingBudget'
    BY <1>i, <2>1 DEF HandsEmpty, Numbered, PingBudget
  <2>5. QED
    BY <2>2, <2>3, <2>4 DEF IInv
<1>3. QED
  BY <1>1, <1>2

\* The inductive invariant holds in every reachable state.
THEOREM Invariance == Spec => []IInv
<1>1. Init => IInv
  BY InitInv
<1>2. IInv /\ [Next]_<<load, vars>> => IInv'
  BY NextInv
<1>3. QED
  BY <1>1, <1>2, PTL DEF Spec

\* Close closes closeChan at most once, although it does so after giving the mutex back and
\* although the writer, the pinger, the reader and any number of users call it at once.
THEOREM ClosesOnce == Spec => []ClosedOnce
<1>1. IInv => ClosedOnce
  BY SignalsCount DEF IInv
<1>2. QED
  BY <1>1, Invariance, PTL

\* startPinger and Read together keep the number of unanswered pings within one, plus one
\* for every pong that answered none.
THEOREM PingsBounded == Spec => []PingWindow
<1>1. ASSUME IInv
      PROVE  PingWindow
  <2>1. ctrlChan \in Frames /\ ctrlInHand \in Frames
    BY <1>1 DEF IInv, TypeOK, Frames
  <2>2. /\ Pings(ctrlChan) \in Nat /\ Pings(ctrlInHand) \in Nat /\ pingsOut \in Nat /\ stray \in Nat
        /\ PingBudget
    BY <1>1, <2>1, PingsType DEF IInv, TypeOK
  <2>3. QED
    BY <2>2 DEF PingBudget, PingWindow
<1>2. QED
  BY <1>1, Invariance, PTL

-----------------------------------------------------------------------------
(* Refinement: the peer implements OutQueue                                *)

\* The writer's message is the next one, and no more messages wait than the queue and the
\* writer can hold.
LEMMA Backlog ==
  ASSUME IInv
  PROVE  /\ accepted = Len(sent) + Len(inHand) + Len(writeChan)
         /\ inHand = <<>> \/ inHand = <<Len(sent) + 1>>
         /\ Len(sent) \in Nat /\ Len(inHand) \in {0, 1} /\ Len(writeChan) \in 0..OutQueueSize
<1>1. /\ accepted = Len(sent) + Len(inHand) + Len(writeChan)
      /\ \A i \in 1..Len(inHand) : inHand[i] = Len(sent) + i
      /\ inHand \in Seq(Nat) /\ Len(inHand) <= 1 /\ sent \in Seq(Nat)
      /\ writeChan \in Seq(Nat) /\ Len(writeChan) <= OutQueueSize
  BY DEF IInv, Numbered, TypeOK
<1>2. Len(inHand) = 0 \/ Len(inHand) = 1
  <2>1. Len(inHand) \in Nat
    BY <1>1
  <2>2. \A n \in Nat : n <= 1 => n = 0 \/ n = 1
    OBVIOUS
  <2>3. QED
    BY <1>1, <2>1, <2>2
<1>3. CASE Len(inHand) = 0
  BY <1>1, <1>3, SizeAssumption
<1>4. CASE Len(inHand) = 1
  BY <1>1, <1>4, SizeAssumption
<1>5. QED
  BY <1>2, <1>3, <1>4

\* The send on writeChan is an Accept of OutQueue.
LEMMA EnqueueAccepts ==
  ASSUME IInv, Enqueue, UNCHANGED <<sent, wpc>>
  PROVE  OQ!Accept
<1>1. /\ accepted = Len(sent) + Len(inHand) + Len(writeChan)
      /\ Len(sent) \in Nat /\ Len(inHand) \in {0, 1} /\ OutQueueSize \in Nat
      /\ Len(writeChan) \in Nat /\ Len(writeChan) <= OutQueueSize
  BY Backlog, SizeAssumption
<1>2. Len(writeChan) # OutQueueSize /\ accepted' = accepted + 1
  BY DEF Enqueue, Full
<1>3. \A s, n, q \in Nat, h \in {0, 1} : q <= n /\ q # n => (s + h + q) - s < n + 1
  OBVIOUS
<1>4. accepted - Len(sent) < OutQueueSize + 1
  BY <1>1, <1>2, <1>3
<1>5. QED
  BY <1>2, <1>4 DEF OQ!Accept

\* Every behaviour of the WebSocket peer is one that OutQueue allows, although its Close may
\* take the connection away from a writer that is still busy.
THEOREM RefinesOutQueue == Spec => ImplementsOutQueue
<1>1. Init => OQ!Init
  BY DEF Init, OQ!Init
<1>2. ASSUME IInv, [Next]_<<load, vars>>
      PROVE  [OQ!Next]_(OQ!vars)
  <2> USE DEF OQ!vars
  <2>1. CASE UNCHANGED <<load, vars>>
    BY <2>1 DEF vars, pcVars, histVars
  <2>2. ASSUME NEW c \in Callers, Send(c) \/ \E op \in Ops : CheckClosed(c, op)
        PROVE  [OQ!Next]_(OQ!vars)
    <3>1. UNCHANGED <<sent, wpc>> /\ (Enqueue \/ UNCHANGED accepted)
      BY <2>2 DEF Send, CheckClosed, histVars
    <3>2. QED
      BY <1>2, <3>1, EnqueueAccepts DEF OQ!Next
  <2>3. CASE WriteFrame
    <3>1. UNCHANGED accepted /\ wpc = "write" /\ wpc' = "select" /\ sent' = sent \o inHand
      BY <2>3 DEF WriteFrame
    <3>2. sent \in Seq(Nat)
      BY <1>2 DEF IInv, TypeOK
    <3>3. CASE inHand = <<>>
      <4>1. sent' = sent
        BY <3>1, <3>2, <3>3
      <4>2. QED
        BY <3>1, <4>1
    <3>4. CASE inHand = <<Len(sent) + 1>>
      <4>1. sent' = Append(sent, Len(sent) + 1)
        BY <3>1, <3>2, <3>4
      <4>2. Len(inHand) = 1
        BY <3>4
      <4>3. Len(sent) < accepted
        BY <1>2, <4>2, Backlog, SizeAssumption
      <4>4. QED
        BY <3>1, <4>1, <4>3 DEF OQ!Next, OQ!Transmit
    <3>5. QED
      BY <1>2, <3>3, <3>4, Backlog
  <2>4. CASE WriteFails \/ WriterClosed
    BY <2>4 DEF WriteFails, WriterClosed, OQ!Next, OQ!Stop, histVars
  <2>5. CASE WriterTakeData \/ WriterTakeCtrl \/ WriterReturns
    BY <2>5 DEF WriterTakeData, WriterTakeCtrl, WriterReturns, histVars
  <2>6. CASE (\E k \in Closers : StartClose(k)) \/ (\E p \in Procs : Close(p))
    BY <2>6 DEF StartClose, Close, CloseMark, CloseSignal, CloseConn, pcVars, histVars
  <2>7. CASE Pinger
    BY <2>7 DEF Pinger, SendPing, PongSeen, PongTimeout, PingerReturns, histVars
  <2>8. CASE Reader \/ Link
    BY <2>8 DEF Reader, ReadPing, ReadPong, ReadClose, ReadReturns, ReadRefused, Link, pcVars, histVars
  <2>9. QED
    BY <1>2, <2>1, <2>2, <2>3, <2>4, <2>5, <2>6, <2>7, <2>8 DEF Next, Steps, Writer
<1>3. QED
  BY <1>1, <1>2, Invariance, PTL DEF Spec, ImplementsOutQueue, OQ!Spec
=============================================================================
