---------------------------- MODULE RawSocketPeer ----------------------------
(***************************************************************************)
(* The raw socket transport of peer.go: goroutines that call Write and     *)
(* TryWrite, goroutines that call Close, the reader (which answers pings   *)
(* through ctrlChan) and the writer goroutine, around one mutex, two       *)
(* bounded channels, the closeChan/doneWriting signals and the connection. *)
(*                                                                         *)
(* A critical section that contains no blocking operation is one step      *)
(* taken when the mutex is free; Write, which blocks on writeChan inside   *)
(* its critical section, holds the mutex between two steps. A message is   *)
(* the number of its acceptance, a ping the number of its arrival.         *)
(***************************************************************************)
EXTENDS Naturals, Sequences

CONSTANTS
  Callers,       \* goroutines that call Write or TryWrite
  Closers,       \* goroutines that call Close
  Ops,           \* the operations the callers use, a subset of {"Write", "TryWrite"}
  Free,          \* the mutex's value when nobody holds it
  OutQueueSize,  \* capacity of writeChan
  CtrlCap,       \* capacity of ctrlChan (2 in the code)
  MaxMsgs,       \* bound: no Write or TryWrite starts beyond this many accepted messages
  MaxPings       \* bound: pings the remote side sends

ASSUME CallersAssumption == Free \notin Callers /\ Ops \subseteq {"Write", "TryWrite"}
ASSUME SizeAssumption == OutQueueSize \in Nat \ {0} /\ CtrlCap \in Nat \ {0}

VARIABLES
  mutex,      \* the caller that holds the mutex across steps, or Free
  closed,     \* r.closed
  closeChan,  \* how often close(r.closeChan) has run; a second time is a panic
  writeChan,  \* queued messages
  ctrlChan,   \* queued pongs
  inHand,     \* the message the writer took from writeChan: <<>> or <<m>>
  ctrlInHand, \* the pong the writer took from ctrlChan: <<>> or <<p>>
  wpc,        \* writer: "select", "header", "payload", "failed", "done" (doneWriting closed)
  call,       \* each caller: "idle", the operation it waits to start, or "send"
  closing,    \* each closer: "idle", "Close", "wait" (for doneWriting), "returned"
  rpc,        \* reader: "read", "pong" (blocked on ctrlChan), "returned"
  connOpen,   \* FALSE once this side has closed the connection
  link,       \* the network: "up", "stalled" (writes block), "broken" (they fail)
  accepted,   \* history: number of messages accepted
  sent,       \* history: messages completely written
  pinged,     \* history: pings whose pong was queued
  ponged,     \* history: pongs completely written
  torn        \* history: a frame was left incomplete on the connection

peerVars == <<mutex, closed, closeChan, writeChan, ctrlChan, inHand, ctrlInHand, wpc>>
procVars == <<call, closing, rpc>>
connVars == <<connOpen, link>>
histVars == <<accepted, sent, pinged, ponged, torn>>
vars == <<peerVars, procVars, connVars, histVars>>

Init ==
  /\ mutex = Free
  /\ closed = FALSE /\ closeChan = 0
  /\ writeChan = <<>> /\ ctrlChan = <<>>
  /\ inHand = <<>> /\ ctrlInHand = <<>>
  /\ wpc = "select"
  /\ call = [c \in Callers |-> "idle"]
  /\ closing = [k \in Closers |-> "idle"]
  /\ rpc = "read"
  /\ connOpen = TRUE
  /\ link = "up"
  /\ accepted = 0 /\ sent = <<>>
  /\ pinged = 0 /\ ponged = <<>>
  /\ torn = FALSE

-----------------------------------------------------------------------------
(* Write and TryWrite                                                      *)

Return(c) == call' = [call EXCEPT ![c] = "idle"]

\* Faulty variant: the channel's capacity is ignored.
EnqueueUnbounded ==
  /\ writeChan' = Append(writeChan, accepted + 1)
  /\ accepted' = accepted + 1

Enqueue ==
  /\ Len(writeChan) < OutQueueSize
  /\ writeChan' = Append(writeChan, accepted + 1)
  /\ accepted' = accepted + 1

\* A call begins, with a payload of at most maxRawSocketPayload: a larger one is refused
\* before the mutex and changes nothing.
StartCall(c, op) ==
  /\ call[c] = "idle"
  /\ accepted < MaxMsgs
  /\ call' = [call EXCEPT ![c] = op]
  /\ UNCHANGED <<peerVars, connVars, histVars, closing, rpc>>

\* The whole critical section of TryWrite: the select has a default.
TryWrite(c) ==
  /\ call[c] = "TryWrite"
  /\ mutex = Free
  /\ \/ /\ closed
        /\ Return(c)
        /\ UNCHANGED <<writeChan, accepted>>
     \/ /\ ~closed
        /\ Enqueue
        /\ Return(c)
     \/ /\ ~closed
        /\ Len(writeChan) = OutQueueSize
        /\ Return(c)
        /\ UNCHANGED <<writeChan, accepted>>
  /\ UNCHANGED <<mutex, closed, closeChan, ctrlChan, inHand, ctrlInHand, wpc, closing, rpc,
                 connVars, sent, pinged, ponged, torn>>

\* Write takes the mutex and keeps it until the channel has room.
WriteLock(c) ==
  /\ call[c] = "Write"
  /\ mutex = Free
  /\ \/ /\ closed
        /\ Return(c)
        /\ UNCHANGED mutex
     \/ /\ ~closed
        /\ mutex' = c
        /\ call' = [call EXCEPT ![c] = "send"]
  /\ UNCHANGED <<closed, closeChan, writeChan, ctrlChan, inHand, ctrlInHand, wpc, closing, rpc,
                 connVars, histVars>>

WriteSend(c) ==
  /\ call[c] = "send"
  /\ Enqueue
  /\ mutex' = Free
  /\ Return(c)
  /\ UNCHANGED <<closed, closeChan, ctrlChan, inHand, ctrlInHand, wpc, closing, rpc,
                 connVars, sent, pinged, ponged, torn>>

-----------------------------------------------------------------------------
(* The writer goroutine                                                    *)

\* Go's select takes any ready branch: data, control or close.
WriterTakeData ==
  /\ wpc = "select"
  /\ writeChan # <<>>
  /\ inHand' = <<Head(writeChan)>>
  /\ writeChan' = Tail(writeChan)
  /\ wpc' = "header"
  /\ UNCHANGED <<mutex, closed, closeChan, ctrlChan, ctrlInHand, procVars, connVars, histVars>>

WriterTakeCtrl ==
  /\ wpc = "select"
  /\ ctrlChan # <<>>
  /\ ctrlInHand' = <<Head(ctrlChan)>>
  /\ ctrlChan' = Tail(ctrlChan)
  /\ wpc' = "header"
  /\ UNCHANGED <<mutex, closed, closeChan, writeChan, inHand, procVars, connVars, histVars>>

WriterClosed ==
  /\ wpc = "select"
  /\ closed
  /\ wpc' = "done"
  /\ UNCHANGED <<mutex, closed, closeChan, writeChan, ctrlChan, inHand, ctrlInHand, procVars,
                 connVars, histVars>>

CanWrite == connOpen /\ link = "up"
CannotWrite == ~connOpen \/ link # "up"

WriteHeader ==
  /\ wpc = "header"
  /\ CanWrite
  /\ wpc' = "payload"
  /\ UNCHANGED <<mutex, closed, closeChan, writeChan, ctrlChan, inHand, ctrlInHand, procVars,
                 connVars, histVars>>

WritePayload ==
  /\ wpc = "payload"
  /\ CanWrite
  /\ wpc' = "select"
  /\ sent' = sent \o inHand
  /\ ponged' = ponged \o ctrlInHand
  /\ inHand' = <<>>
  /\ ctrlInHand' = <<>>
  /\ UNCHANGED <<mutex, closed, closeChan, writeChan, ctrlChan, procVars, connVars,
                 accepted, pinged, torn>>

\* Faulty variant: the writer drops the message and continues after an error.
WriteFailsContinue ==
  /\ wpc \in {"header", "payload"}
  /\ CannotWrite
  /\ wpc' = "select"
  /\ torn' \in (IF wpc = "payload" THEN {TRUE} ELSE BOOLEAN)
  /\ inHand' = <<>> /\ ctrlInHand' = <<>>
  /\ UNCHANGED <<mutex, closed, closeChan, writeChan, ctrlChan, procVars, connVars,
                 accepted, sent, pinged, ponged>>

\* writeFull fails, also on a stalled connection (it may time out and recover later):
\* nothing or a part of the header is out, or the header and a part of the payload.
WriteFails ==
  /\ wpc \in {"header", "payload"}
  /\ CannotWrite
  /\ wpc' = "failed"
  /\ torn' \in (IF wpc = "payload" THEN {TRUE} ELSE BOOLEAN)
  /\ UNCHANGED <<mutex, closed, closeChan, writeChan, ctrlChan, inHand, ctrlInHand, procVars,
                 connVars, accepted, sent, pinged, ponged>>

\* closeAfterWriteError and the writer's return (the deferred close of doneWriting).
CloseAfterWriteError ==
  /\ wpc = "failed"
  /\ mutex = Free
  /\ connOpen' = (connOpen /\ closed)
  /\ closeChan' = IF closed THEN closeChan ELSE closeChan + 1
  /\ closed' = TRUE
  /\ wpc' = "done"
  /\ UNCHANGED <<mutex, writeChan, ctrlChan, inHand, ctrlInHand, procVars, link, histVars>>

-----------------------------------------------------------------------------
(* Close                                                                   *)

StartClose(k) ==
  /\ closing[k] = "idle"
  /\ closing' = [closing EXCEPT ![k] = "Close"]
  /\ UNCHANGED <<peerVars, call, rpc, connVars, histVars>>

\* Faulty variant: Close waits for the writer while it holds the mutex.
CloseHoldingMutex(k) ==
  /\ closing[k] = "Close"
  /\ mutex = Free
  /\ closing' = [closing EXCEPT ![k] = IF closed THEN "returned" ELSE "wait"]
  /\ mutex' = IF closed THEN Free ELSE k
  /\ closed' = TRUE /\ closeChan' = 1
  /\ UNCHANGED <<writeChan, ctrlChan, inHand, ctrlInHand, wpc, call, rpc, connVars, histVars>>

CloseLock(k) ==
  /\ closing[k] = "Close"
  /\ mutex = Free
  /\ closing' = [closing EXCEPT ![k] = IF closed THEN "returned" ELSE "wait"]
  /\ closeChan' = IF closed THEN closeChan ELSE closeChan + 1
  /\ closed' = TRUE
  /\ UNCHANGED <<mutex, writeChan, ctrlChan, inHand, ctrlInHand, wpc, call, rpc,
                 connVars, histVars>>

\* Faulty variant: Close does not wait for doneWriting.
CloseConnAtOnce(k) ==
  /\ closing[k] = "wait"
  /\ closing' = [closing EXCEPT ![k] = "returned"]
  /\ connOpen' = FALSE
  /\ UNCHANGED <<peerVars, call, rpc, link, histVars>>

CloseConn(k) ==
  /\ closing[k] = "wait"
  /\ wpc = "done"
  /\ closing' = [closing EXCEPT ![k] = "returned"]
  /\ connOpen' = FALSE
  /\ UNCHANGED <<peerVars, call, rpc, link, histVars>>

-----------------------------------------------------------------------------
(* Read: data and pong frames leave the peer's state alone.                *)

ReadPing ==
  /\ rpc = "read"
  /\ connOpen /\ link # "broken"
  /\ pinged < MaxPings
  /\ rpc' = "pong"
  /\ UNCHANGED <<peerVars, call, closing, connVars, histVars>>

\* The send of the pong on ctrlChan waits for room and for nothing else.
SendPong ==
  /\ rpc = "pong"
  /\ Len(ctrlChan) < CtrlCap
  /\ ctrlChan' = Append(ctrlChan, pinged + 1)
  /\ pinged' = pinged + 1
  /\ rpc' = "read"
  /\ UNCHANGED <<mutex, closed, closeChan, writeChan, inHand, ctrlInHand, wpc, call, closing,
                 connVars, accepted, sent, ponged, torn>>

ReadError ==
  /\ rpc = "read"
  /\ ~connOpen \/ link = "broken"
  /\ rpc' = "returned"
  /\ UNCHANGED <<peerVars, call, closing, connVars, histVars>>

\* A frame that is too long or of an unknown kind ends Read; the connection stays open.
ReadRefused ==
  /\ rpc = "read"
  /\ connOpen /\ link # "broken"
  /\ rpc' = "returned"
  /\ UNCHANGED <<peerVars, call, closing, connVars, histVars>>

-----------------------------------------------------------------------------
(* The network between the two sides.                                      *)

LinkStalls == link = "up" /\ link' = "stalled"
LinkResumes == link = "stalled" /\ link' = "up"
LinkBreaks == link # "broken" /\ link' = "broken"

Link ==
  /\ LinkStalls \/ LinkResumes \/ LinkBreaks
  /\ UNCHANGED <<peerVars, procVars, connOpen, histVars>>

-----------------------------------------------------------------------------
Call(c) ==
  \/ \E op \in Ops : StartCall(c, op)
  \/ TryWrite(c)
  \/ WriteLock(c)
  \/ WriteSend(c)

Writer ==
  \/ WriterTakeData \/ WriterTakeCtrl \/ WriterClosed
  \/ WriteHeader \/ WritePayload \/ WriteFails
  \/ CloseAfterWriteError

Close(k) == StartClose(k) \/ CloseLock(k) \/ CloseConn(k)

Reader == ReadPing \/ SendPong \/ ReadError \/ ReadRefused

Next ==
  \/ \E c \in Callers : Call(c)
  \/ Writer
  \/ \E k \in Closers : Close(k)
  \/ Reader
  \/ Link

Spec == Init /\ [][Next]_vars

(***************************************************************************)
(* Fairness. The Go scheduler runs every runnable goroutine, and one that  *)
(* waits for the mutex gets it (sync.Mutex hands over to the longest       *)
(* waiter after 1ms), hence strong fairness of each goroutine's next step. *)
(* Nobody has to start a call or a Close, and the remote side has to send  *)
(* nothing. The last conjunct is about the network, not the code: a        *)
(* stalled connection drains again or breaks.                              *)
(***************************************************************************)
Fairness ==
  /\ SF_vars(Writer)
  /\ \A c \in Callers : SF_vars(TryWrite(c) \/ WriteLock(c) \/ WriteSend(c))
  /\ \A k \in Closers : SF_vars(CloseLock(k) \/ CloseConn(k))
  /\ WF_vars(SendPong \/ ReadError)
  /\ WF_vars(Link /\ link = "stalled")

FairSpec == Spec /\ Fairness

-----------------------------------------------------------------------------
(* Safety                                                                  *)

TypeOK ==
  /\ mutex \in Callers \cup {Free}
  /\ closed \in BOOLEAN /\ closeChan \in Nat
  /\ writeChan \in Seq(Nat) /\ Len(writeChan) <= OutQueueSize
  /\ ctrlChan \in Seq(Nat) /\ Len(ctrlChan) <= CtrlCap
  /\ inHand \in Seq(Nat) /\ Len(inHand) <= 1
  /\ ctrlInHand \in Seq(Nat) /\ Len(ctrlInHand) <= 1
  /\ wpc \in {"select", "header", "payload", "failed", "done"}
  /\ call \in [Callers -> {"idle", "Write", "TryWrite", "send"}]
  /\ closing \in [Closers -> {"idle", "Close", "wait", "returned"}]
  /\ rpc \in {"read", "pong", "returned"}
  /\ connOpen \in BOOLEAN /\ link \in {"up", "stalled", "broken"} /\ torn \in BOOLEAN
  /\ accepted \in Nat /\ sent \in Seq(Nat)
  /\ pinged \in Nat /\ ponged \in Seq(Nat)

\* The numbers 1, 2, ..., n pass through a queue in order: out has left it, hand
\* (at most one) is being written, q still waits.
Fifo(out, hand, q, n) ==
  /\ \A i \in 1..Len(out) : out[i] = i
  /\ \A i \in 1..Len(hand) : hand[i] = Len(out) + i
  /\ \A i \in 1..Len(q) : q[i] = Len(out) + Len(hand) + i
  /\ n = Len(out) + Len(hand) + Len(q)

\* Whatever the interleaving of writers, failures and closes, no message and no pong is
\* lost, repeated or overtaken between being queued and being written (peer.go writer).
InOrder ==
  /\ Fifo(sent, inHand, writeChan, accepted)
  /\ Fifo(ponged, ctrlInHand, ctrlChan, pinged)

\* closeChan is closed exactly once, however many Close calls race each other and the
\* writer's closeAfterWriteError: a second close of a Go channel panics.
ClosedOnce == closeChan = IF closed THEN 1 ELSE 0

\* The connection is closed by this side only after the writer has returned: Close waits
\* for doneWriting, closeAfterWriteError is the writer's last act.
ConnOutlivesWriter == ~connOpen => wpc = "done" /\ closed

\* Close, Close and the failing writer cannot hurt each other: no second close of closeChan,
\* no connection closed under the writer (Close and closeAfterWriteError, peer.go).
CloseSafe == ClosedOnce /\ ConnOutlivesWriter

\* The mutex protects r.closed: a Write parked on a full queue inside its critical section
\* still finds the peer open when it gets its room.
SenderHoldsMutex ==
  \A c \in Callers : call[c] = "send" => mutex = c /\ ~closed

\* Once Close (or a failed write) has marked the peer closed, no Write and no TryWrite
\* reports a message as queued.
NothingAcceptedAfterClose == [][closed => accepted' = accepted]_vars

\* An incomplete frame stays the last thing on the connection: the writer returns on the
\* first error, so the remote side never parses a payload as a header.
NoFrameAfterTorn == [][torn => UNCHANGED <<sent, ponged>>]_vars

\* The peer implements the contract all transports share.
OQ == INSTANCE OutQueue WITH Capacity <- OutQueueSize, stopped <- wpc \in {"failed", "done"}
ImplementsOutQueue == OQ!Spec

-----------------------------------------------------------------------------
(* Liveness                                                                *)

\* A Write is parked on the full queue with the mutex while the writer, whose write has
\* failed, waits for the mutex: nobody will ever drain the queue (Write, peer.go).
Parked ==
  wpc = "failed" /\ Len(writeChan) = OutQueueSize /\ \E c \in Callers : call[c] = "send"

\* closeAfterWriteError "closes the peer after the writer failed a write" (peer.go).
FailureClosesPeer == (wpc = "failed") ~> (closed /\ wpc = "done")

\* Unless a Write is parked nobody waits for ever: a writer whose write failed closes the
\* peer, every Close that is called returns, and the reader gets rid of its pong or the
\* peer is closed.
WaitsEnd ==
  /\ (wpc = "failed") ~> ((closed /\ wpc = "done") \/ Parked)
  /\ \A k \in Closers : (closing[k] = "Close") ~> (closing[k] = "returned" \/ Parked)
  /\ (rpc = "pong") ~> (rpc = "read" \/ closed \/ Parked)
=============================================================================
