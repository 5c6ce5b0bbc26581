---------------------------- MODULE WebSocketPeer ----------------------------
(***************************************************************************)
(* The WebSocket transport of peer.go. Unlike RawSocketPeer, the mutex     *)
(* guards only the read and the write of `closed`: Write and TryWrite      *)
(* check it and then send on writeChan without it, Close sets it and then  *)
(* closes closeChan without it, and waits at most a second for the writer. *)
(* The keep-alive goroutine (startPinger) and the reader share ctrlChan    *)
(* with the writer, and the writer, the pinger and the reader call Close   *)
(* themselves.                                                             *)
(*                                                                         *)
(* A message is the number of its acceptance. A timer may fire at any time *)
(* after it is armed.                                                      *)
(***************************************************************************)
EXTENDS Naturals, Sequences, FiniteSets

CONSTANTS
  Callers,       \* goroutines that call Write or TryWrite
  Closers,       \* goroutines outside the peer that call Close
  Ops,           \* the operations the callers use, a subset of {"Write", "TryWrite"}
  OutQueueSize,  \* capacity of writeChan
  CtrlCap,       \* capacity of ctrlChan (2 in the code)
  Loads          \* the instances: whether KeepAliveInterval is set, so that the pinger runs,
                 \* the bound on the messages accepted, beyond which no Write or TryWrite
                 \* starts, and the bound on the pongs the remote side sends without a ping

ASSUME OpsAssumption ==
  Ops \subseteq {"Write", "TryWrite"} /\ IsFiniteSet(Callers)
ASSUME LoadAssumption == Loads \subseteq [keepAlive : BOOLEAN, msgs : Nat, stray : Nat]
ASSUME ClosersAssumption == Closers \cap {"writer", "pinger", "reader"} = {}
ASSUME SizeAssumption == OutQueueSize \in Nat \ {0} /\ CtrlCap \in Nat \ {0}

\* Every goroutine that may run Close.
Procs == Closers \cup {"writer", "pinger", "reader"}

VARIABLES
  load,       \* the instance, chosen once
  closed,     \* c.closed
  closeChan,  \* how often close(c.closeChan) has run; a second time is a panic
  writeChan,  \* queued messages
  ctrlChan,   \* queued control frames: "ping" or "pong"
  pingCh,     \* TRUE if pingCh (capacity 1) holds a token
  inHand,     \* the message the writer took: <<>> or <<m>>
  ctrlInHand, \* the control frame the writer took: <<>> or <<f>>
  wpc,        \* writer: "select", "write", "failed" (in Close), "done" (doneWriting closed)
  ppc,        \* pinger: "tick", "pong" (waits for it), "closing", "done"
  rpc,        \* reader: "read", "closing", "done"
  call,       \* each caller: "idle", or past the check of closed: "send", "trySend"
  closing,    \* each process in Close: "none", "Close", "signal", "wait", "returned"
  connOpen,   \* FALSE once this side has closed the connection
  link,       \* the network: "up", "stalled" (writes block), "broken" (they fail)
  pingsOut,   \* pings written and not yet answered by the remote side
  stray,      \* pongs received that answer no ping
  accepted,   \* history: number of messages accepted
  sent        \* history: messages completely written

chanVars == <<writeChan, ctrlChan, pingCh, inHand, ctrlInHand>>
pcVars == <<wpc, ppc, rpc, call>>
netVars == <<link, pingsOut, stray>>
histVars == <<accepted, sent>>
closeVars == <<closed, closeChan, closing, connOpen>>
vars == <<closeVars, chanVars, pcVars, netVars, histVars>>

Init ==
  /\ load \in Loads
  /\ closed = FALSE /\ closeChan = 0
  /\ writeChan = <<>> /\ ctrlChan = <<>> /\ pingCh = FALSE
  /\ inHand = <<>> /\ ctrlInHand = <<>>
  /\ wpc = "select" /\ rpc = "read"
  /\ ppc = IF load.keepAlive THEN "tick" ELSE "done"
  /\ call = [c \in Callers |-> "idle"]
  /\ closing = [p \in Procs |-> "none"]
  /\ connOpen = TRUE
  /\ link = "up" /\ pingsOut = 0 /\ stray = 0
  /\ accepted = 0 /\ sent = <<>>

-----------------------------------------------------------------------------
(* Write and TryWrite                                                      *)

\* Both calls read `closed` under the mutex and give the mutex back; a call that finds the
\* peer closed returns at once, with an error and without effect.
CheckClosed(c, op) ==
  /\ call[c] = "idle"
  /\ accepted < load.msgs
  /\ ~closed
  /\ call' = [call EXCEPT ![c] = IF op = "Write" THEN "send" ELSE "trySend"]
  /\ UNCHANGED <<closeVars, chanVars, wpc, ppc, rpc, netVars, histVars>>

Full == Len(writeChan) = OutQueueSize

Enqueue ==
  /\ ~Full
  /\ writeChan' = Append(writeChan, accepted + 1)
  /\ accepted' = accepted + 1

\* Write blocks on the channel, and on nothing else; TryWrite gives up when it is full.
Send(c) ==
  /\ \/ call[c] \in {"send", "trySend"} /\ Enqueue
     \/ call[c] = "trySend" /\ Full /\ UNCHANGED <<writeChan, accepted>>
  /\ call' = [call EXCEPT ![c] = "idle"]
  /\ UNCHANGED <<closeVars, ctrlChan, pingCh, inHand, ctrlInHand, wpc, ppc, rpc, netVars, sent>>

-----------------------------------------------------------------------------
(* Close, as run by process p                                              *)

\* p calls Close: what every caller below does to enter it.
EnterClose(p) == closing' = [closing EXCEPT ![p] = "Close"]

StartClose(k) ==
  /\ k \in Closers
  /\ closing[k] = "none"
  /\ EnterClose(k)
  /\ UNCHANGED <<closed, closeChan, connOpen, chanVars, pcVars, netVars, histVars>>

\* Faulty variant: Close does not check c.closed.
CloseMarkUnchecked(p) ==
  /\ closing[p] = "Close"
  /\ closing' = [closing EXCEPT ![p] = "signal"]
  /\ closed' = TRUE
  /\ UNCHANGED <<closeChan, connOpen, chanVars, pcVars, netVars, histVars>>

CloseMark(p) ==
  /\ closing[p] = "Close"
  /\ closing' = [closing EXCEPT ![p] = IF closed THEN "returned" ELSE "signal"]
  /\ closed' = TRUE
  /\ UNCHANGED <<closeChan, connOpen, chanVars, pcVars, netVars, histVars>>

CloseSignal(p) ==
  /\ closing[p] = "signal"
  /\ closing' = [closing EXCEPT ![p] = "wait"]
  /\ closeChan' = closeChan + 1
  /\ UNCHANGED <<closed, connOpen, chanVars, pcVars, netVars, histVars>>

\* Until the writer is done, or the second is over: the timer may fire first.
CloseConn(p) ==
  /\ closing[p] = "wait"
  /\ closing' = [closing EXCEPT ![p] = "returned"]
  /\ connOpen' = FALSE
  /\ UNCHANGED <<closed, closeChan, chanVars, pcVars, netVars, histVars>>

Close(p) == CloseMark(p) \/ CloseSignal(p) \/ CloseConn(p)

-----------------------------------------------------------------------------
(* The writer goroutine                                                    *)

WriterTakeData ==
  /\ wpc = "select"
  /\ writeChan # <<>>
  /\ inHand' = <<Head(writeChan)>>
  /\ writeChan' = Tail(writeChan)
  /\ wpc' = "write"
  /\ UNCHANGED <<closeVars, ctrlChan, pingCh, ctrlInHand, ppc, rpc, call, netVars, histVars>>

WriterTakeCtrl ==
  /\ wpc = "select"
  /\ ctrlChan # <<>>
  /\ ctrlInHand' = <<Head(ctrlChan)>>
  /\ ctrlChan' = Tail(ctrlChan)
  /\ wpc' = "write"
  /\ UNCHANGED <<closeVars, writeChan, pingCh, inHand, ppc, rpc, call, netVars, histVars>>

WriterClosed ==
  /\ wpc = "select"
  /\ closeChan > 0
  /\ wpc' = "done"
  /\ UNCHANGED <<closeVars, chanVars, ppc, rpc, call, netVars, histVars>>

WriteFrame ==
  /\ wpc = "write"
  /\ connOpen /\ link = "up"
  /\ wpc' = "select"
  /\ sent' = sent \o inHand
  /\ pingsOut' = IF ctrlInHand = <<"ping">> THEN pingsOut + 1 ELSE pingsOut
  /\ inHand' = <<>> /\ ctrlInHand' = <<>>
  /\ UNCHANGED <<closeVars, writeChan, ctrlChan, pingCh, ppc, rpc, call,
                 link, stray, accepted>>

\* Faulty variant: the writer drops the frame and continues after an error.
WriteFailsContinue ==
  /\ wpc = "write"
  /\ ~connOpen \/ link # "up"
  /\ wpc' = "select"
  /\ inHand' = <<>> /\ ctrlInHand' = <<>>
  /\ UNCHANGED <<closeVars, writeChan, ctrlChan, pingCh, ppc, rpc, call, netVars, histVars>>

WriteFails ==
  /\ wpc = "write"
  /\ ~connOpen \/ link # "up"
  /\ wpc' = "failed"
  /\ EnterClose("writer")
  /\ UNCHANGED <<closed, closeChan, connOpen, chanVars, ppc, rpc, call, netVars, histVars>>

\* The writer's own Close has returned, and the deferred close of doneWriting runs.
WriterReturns ==
  /\ wpc = "failed"
  /\ closing["writer"] = "returned"
  /\ wpc' = "done"
  /\ UNCHANGED <<closeVars, chanVars, ppc, rpc, call, netVars, histVars>>

Writer ==
  \/ WriterTakeData \/ WriterTakeCtrl \/ WriterClosed
  \/ WriteFrame \/ WriteFails \/ WriterReturns

-----------------------------------------------------------------------------
(* startPinger                                                             *)

\* The ticker fires. The select's default, taken when neither branch is ready, closes.
SendPing ==
  /\ ppc = "tick"
  /\ \/ /\ Len(ctrlChan) < CtrlCap
        /\ ctrlChan' = Append(ctrlChan, "ping")
        /\ ppc' = "pong"
        /\ UNCHANGED closing
     \/ /\ Len(ctrlChan) = CtrlCap /\ closeChan = 0
        /\ ppc' = "closing"
        /\ EnterClose("pinger")
        /\ UNCHANGED ctrlChan
  /\ UNCHANGED <<closed, closeChan, connOpen, writeChan, pingCh, inHand, ctrlInHand,
                 wpc, rpc, call, netVars, histVars>>

PongSeen ==
  /\ ppc = "pong"
  /\ pingCh
  /\ pingCh' = FALSE
  /\ ppc' = "tick"
  /\ UNCHANGED <<closeVars, writeChan, ctrlChan, inHand, ctrlInHand, wpc, rpc, call,
                 netVars, histVars>>

\* Faulty variant: a missed pong only starts the next round.
PongTimeoutIgnored ==
  /\ ppc = "pong"
  /\ ppc' = "tick"
  /\ UNCHANGED <<closeVars, chanVars, wpc, rpc, call, netVars, histVars>>

\* Faulty variant: a missed pong ends the pinger and nothing else.
PongTimeoutReturns ==
  /\ ppc = "pong"
  /\ ppc' = "done"
  /\ UNCHANGED <<closeVars, chanVars, wpc, rpc, call, netVars, histVars>>

PongTimeout ==
  /\ ppc = "pong"
  /\ ppc' = "closing"
  /\ EnterClose("pinger")
  /\ UNCHANGED <<closed, closeChan, connOpen, chanVars, wpc, rpc, call, netVars, histVars>>

\* closeChan is a branch of each of its selects; or its own Close has returned.
PingerReturns ==
  /\ \/ ppc \in {"tick", "pong"} /\ closeChan > 0
     \/ ppc = "closing" /\ closing["pinger"] = "returned"
  /\ ppc' = "done"
  /\ UNCHANGED <<closeVars, chanVars, wpc, rpc, call, netVars, histVars>>

Pinger == SendPing \/ PongSeen \/ PongTimeout \/ PingerReturns

-----------------------------------------------------------------------------
(* Read                                                                    *)

CanRead == rpc = "read" /\ connOpen /\ link = "up"

\* A pong is queued if there is room and dropped otherwise; after Close the select may
\* also take closeChan and return.
ReadPing ==
  /\ CanRead
  /\ \/ /\ Len(ctrlChan) < CtrlCap
        /\ ctrlChan' = Append(ctrlChan, "pong")
        /\ UNCHANGED rpc
     \/ /\ closeChan > 0
        /\ rpc' = "done"
        /\ UNCHANGED ctrlChan
  /\ UNCHANGED <<closeVars, writeChan, pingCh, inHand, ctrlInHand, wpc, ppc, call,
                 netVars, histVars>>

\* A pong leaves a token for the pinger, asked for or not; a second token is dropped.
ReadPong ==
  /\ CanRead
  /\ \/ pingsOut > 0 /\ pingsOut' = pingsOut - 1 /\ UNCHANGED stray
     \/ stray < load.stray /\ stray' = stray + 1 /\ UNCHANGED pingsOut
  /\ pingCh' = TRUE
  /\ UNCHANGED <<closeVars, writeChan, ctrlChan, inHand, ctrlInHand, pcVars, link, histVars>>

ReadClose ==
  /\ CanRead
  /\ rpc' = "closing"
  /\ EnterClose("reader")
  /\ UNCHANGED <<closed, closeChan, connOpen, chanVars, wpc, ppc, call, netVars, histVars>>

ReadReturns ==
  /\ \/ rpc = "read" /\ (~connOpen \/ link = "broken")
     \/ rpc = "closing" /\ closing["reader"] = "returned"
  /\ rpc' = "done"
  /\ UNCHANGED <<closeVars, chanVars, wpc, ppc, call, netVars, histVars>>

\* NextReader or ReadAll refuses a malformed frame: Read fails on an open connection.
ReadRefused ==
  /\ CanRead
  /\ rpc' = "done"
  /\ UNCHANGED <<closeVars, chanVars, wpc, ppc, call, netVars, histVars>>

Reader == ReadPing \/ ReadPong \/ ReadClose \/ ReadReturns \/ ReadRefused

-----------------------------------------------------------------------------
Link ==
  /\ \/ link = "up" /\ link' = "stalled"
     \/ link = "stalled" /\ link' = "up"
     \/ link # "broken" /\ link' = "broken"
  /\ UNCHANGED <<closeVars, chanVars, pcVars, pingsOut, stray, histVars>>

Steps ==
  \/ \E c \in Callers : Send(c) \/ \E op \in Ops : CheckClosed(c, op)
  \/ \E k \in Closers : StartClose(k)
  \/ \E p \in Procs : Close(p)
  \/ Writer
  \/ Pinger
  \/ Reader
  \/ Link

Next == Steps /\ UNCHANGED load

Spec == Init /\ [][Next]_<<load, vars>>

(***************************************************************************)
(* Fairness: every runnable goroutine takes its next step, armed timers    *)
(* fire. Nothing is assumed of the callers of Write and TryWrite, of the   *)
(* network or of the remote side.                                          *)
(***************************************************************************)
Fairness ==
  /\ \A p \in Procs : WF_vars(Close(p))
  /\ WF_vars(WriterTakeData \/ WriterTakeCtrl \/ WriterClosed \/ WriterReturns)
  /\ WF_vars(wpc = "write" /\ ~connOpen /\ WriteFails)
  /\ WF_vars(Pinger)
  /\ WF_vars(ReadReturns)

FairSpec == Spec /\ Fairness

-----------------------------------------------------------------------------
(* Safety                                                                  *)

TypeOK ==
  /\ load \in Loads
  /\ closed \in BOOLEAN /\ closeChan \in Nat /\ connOpen \in BOOLEAN
  /\ writeChan \in Seq(Nat) /\ Len(writeChan) <= OutQueueSize
  /\ ctrlChan \in Seq({"ping", "pong"}) /\ Len(ctrlChan) <= CtrlCap
  /\ pingCh \in BOOLEAN
  /\ inHand \in Seq(Nat) /\ Len(inHand) <= 1
  /\ ctrlInHand \in Seq({"ping", "pong"}) /\ Len(ctrlInHand) <= 1
  /\ wpc \in {"select", "write", "failed", "done"}
  /\ ppc \in {"tick", "pong", "closing", "done"}
  /\ rpc \in {"read", "closing", "done"}
  /\ call \in [Callers -> {"idle", "send", "trySend"}]
  /\ closing \in [Procs -> {"none", "Close", "signal", "wait", "returned"}]
  /\ link \in {"up", "stalled", "broken"}
  /\ pingsOut \in Nat /\ stray \in Nat
  /\ accepted \in Nat /\ sent \in Seq(Nat)

\* close(closeChan) runs once, although Close runs it after giving the mutex back and the
\* writer, the pinger, the reader and any number of callers of Close race each other.
ClosedOnce ==
  /\ TypeOK
  /\ closeChan + Cardinality({p \in Procs : closing[p] = "signal"}) = IF closed THEN 1 ELSE 0

Pings(q) == Cardinality({i \in DOMAIN q : q[i] = "ping"})

\* At most one ping waits for its pong, plus one for every pong nobody asked for: a stray
\* pong lets the next ping pass unanswered, which delays the detection of a dead link.
PingWindow ==
  Pings(ctrlChan) + Pings(ctrlInHand) + pingsOut <= 1 + stray

\* The peer implements the contract all transports share.
OQ == INSTANCE OutQueue WITH Capacity <- OutQueueSize, stopped <- wpc \in {"failed", "done"}
ImplementsOutQueue == OQ!Spec

-----------------------------------------------------------------------------
(* Liveness                                                                *)

\* Keep-alive closes the peer if its connection stalls for good, whatever stray pongs came
\* before; and a closed peer, whoever closed it, leaves none of its goroutines behind.
GoroutinesEnd ==
  /\ load.keepAlive /\ <>[](link = "stalled") => <>closed
  /\ closed ~> (wpc = "done" /\ ppc = "done" /\ rpc = "done" /\ ~connOpen)
=============================================================================
