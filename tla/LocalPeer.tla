------------------------------ MODULE LocalPeer ------------------------------
(***************************************************************************)
(* The in-memory transport of peer.go: two localPeers over the two ends of *)
(* a net.Pipe. The pipe has no buffer: a frame passes when one side's      *)
(* writer and the other side's reader meet. Write and Close hold wmu while *)
(* they block. The writer ranges over writeChan, so after Close it first   *)
(* drains what is queued, for at most a second.                            *)
(*                                                                         *)
(* A message is the number of its acceptance on its side. The pipe is dead *)
(* for both sides once either end is closed.                               *)
(***************************************************************************)
EXTENDS Naturals, Sequences

CONSTANTS
  Callers,       \* on each side, goroutines that call Write or TryWrite
  Closers,       \* on each side, goroutines that call Close
  Ops,           \* the operations each side's callers use: a function of the side
  Free,          \* wmu's value when nobody holds it
  OutQueueSize,  \* capacity of writeChan
  MaxMsgs        \* bound: on side s no call starts beyond MaxMsgs[s] accepted messages

Side == {"client", "router"}
Other(s) == IF s = "client" THEN "router" ELSE "client"

ASSUME OpsAssumption == Ops \in [Side -> SUBSET {"Write", "TryWrite"}]
ASSUME ProcsAssumption == Free \notin Callers \cup Closers /\ Callers \cap Closers = {}
ASSUME SizeAssumption == OutQueueSize \in Nat \ {0}

VARIABLES
  wmu,        \* per side: who holds the mutex across steps, or Free
  closed,     \* per side: l.closed; writeChan is closed in the same critical section
  writeChan,  \* per side: queued messages
  inHand,     \* per side: the message the writer took: <<>> or <<m>>
  wpc,        \* per side, writer: "range", "write", "done" (doneWriting closed)
  call,       \* per side and caller: "idle", the operation it waits to start, or "send"
  closing,    \* per side and closer: "idle", "Close", "wait", "returned"
  rpc,        \* per side, reader: "read", "busy" (outside Read), "returned"
  connOpen,   \* per side: its end of the pipe is open
  accepted,   \* history, per side: number of messages accepted
  received,   \* history, per side: messages its reader got
  failed      \* history, per side: the writer failed a write

peerVars == <<wmu, closed, writeChan, inHand, wpc>>
procVars == <<call, closing, rpc>>
histVars == <<accepted, received, failed>>
vars == <<peerVars, procVars, connOpen, histVars>>

Init ==
  /\ wmu = [s \in Side |-> Free]
  /\ closed = [s \in Side |-> FALSE]
  /\ writeChan = [s \in Side |-> <<>>]
  /\ inHand = [s \in Side |-> <<>>]
  /\ wpc = [s \in Side |-> "range"]
  /\ call = [s \in Side |-> [c \in Callers |-> "idle"]]
  /\ closing = [s \in Side |-> [k \in Closers |-> "idle"]]
  /\ rpc = [s \in Side |-> "read"]
  /\ connOpen = [s \in Side |-> TRUE]
  /\ accepted = [s \in Side |-> 0]
  /\ received = [s \in Side |-> <<>>]
  /\ failed = [s \in Side |-> FALSE]

PipeOpen == \A s \in Side : connOpen[s]

-----------------------------------------------------------------------------
(* Write and TryWrite                                                      *)

Return(s, c) == call' = [call EXCEPT ![s][c] = "idle"]

Enqueue(s) ==
  /\ Len(writeChan[s]) < OutQueueSize
  /\ writeChan' = [writeChan EXCEPT ![s] = Append(@, accepted[s] + 1)]
  /\ accepted' = [accepted EXCEPT ![s] = @ + 1]

StartCall(s, c, op) ==
  /\ call[s][c] = "idle"
  /\ accepted[s] < MaxMsgs[s]
  /\ call' = [call EXCEPT ![s][c] = op]
  /\ UNCHANGED <<peerVars, closing, rpc, connOpen, histVars>>

TryWrite(s, c) ==
  /\ call[s][c] = "TryWrite"
  /\ wmu[s] = Free
  /\ \/ ~closed[s] /\ Enqueue(s)
     \/ /\ closed[s] \/ Len(writeChan[s]) = OutQueueSize
        /\ UNCHANGED <<writeChan, accepted>>
  /\ Return(s, c)
  /\ UNCHANGED <<wmu, closed, inHand, wpc, closing, rpc, connOpen, received, failed>>

\* Faulty variant: Write gives wmu back before it sends on the channel.
WriteUnlocked(s, c) ==
  /\ call[s][c] = "Write"
  /\ wmu[s] = Free
  /\ call' = [call EXCEPT ![s][c] = IF closed[s] THEN "idle" ELSE "send"]
  /\ UNCHANGED <<peerVars, closing, rpc, connOpen, histVars>>

WriteLock(s, c) ==
  /\ call[s][c] = "Write"
  /\ wmu[s] = Free
  /\ \/ closed[s] /\ Return(s, c) /\ UNCHANGED wmu
     \/ /\ ~closed[s]
        /\ wmu' = [wmu EXCEPT ![s] = c]
        /\ call' = [call EXCEPT ![s][c] = "send"]
  /\ UNCHANGED <<closed, writeChan, inHand, wpc, closing, rpc, connOpen, histVars>>

WriteSend(s, c) ==
  /\ call[s][c] = "send"
  /\ Enqueue(s)
  /\ wmu' = [wmu EXCEPT ![s] = Free]
  /\ Return(s, c)
  /\ UNCHANGED <<closed, inHand, wpc, closing, rpc, connOpen, received, failed>>

-----------------------------------------------------------------------------
(* The writer goroutine and the pipe                                       *)

\* Faulty variant: the writer looks for the close before it looks for messages.
WriterTakeUnlessClosed(s) ==
  /\ wpc[s] = "range"
  /\ \/ /\ ~closed[s]
        /\ writeChan[s] # <<>>
        /\ inHand' = [inHand EXCEPT ![s] = <<Head(writeChan[s])>>]
        /\ writeChan' = [writeChan EXCEPT ![s] = Tail(@)]
        /\ wpc' = [wpc EXCEPT ![s] = "write"]
     \/ /\ closed[s]
        /\ wpc' = [wpc EXCEPT ![s] = "done"]
        /\ UNCHANGED <<writeChan, inHand>>
  /\ UNCHANGED <<wmu, closed, procVars, connOpen, histVars>>

\* One round of the range: it ends only when the channel is closed AND empty.
WriterTake(s) ==
  /\ wpc[s] = "range"
  /\ \/ /\ writeChan[s] # <<>>
        /\ inHand' = [inHand EXCEPT ![s] = <<Head(writeChan[s])>>]
        /\ writeChan' = [writeChan EXCEPT ![s] = Tail(@)]
        /\ wpc' = [wpc EXCEPT ![s] = "write"]
     \/ /\ writeChan[s] = <<>> /\ closed[s]
        /\ wpc' = [wpc EXCEPT ![s] = "done"]
        /\ UNCHANGED <<writeChan, inHand>>
  /\ UNCHANGED <<wmu, closed, procVars, connOpen, histVars>>

\* Side s's writer and the other side's reader meet: the reader returns the message.
Transfer(s) ==
  /\ wpc[s] = "write"
  /\ rpc[Other(s)] = "read"
  /\ PipeOpen
  /\ received' = [received EXCEPT ![Other(s)] = @ \o inHand[s]]
  /\ inHand' = [inHand EXCEPT ![s] = <<>>]
  /\ wpc' = [wpc EXCEPT ![s] = "range"]
  /\ rpc' = [rpc EXCEPT ![Other(s)] = "busy"]
  /\ UNCHANGED <<wmu, closed, writeChan, call, closing, connOpen, accepted, failed>>

\* Faulty variant: after a failed write the writer goes on with the next message.
WriteFailsContinue(s) ==
  /\ wpc[s] = "write"
  /\ ~PipeOpen
  /\ inHand' = [inHand EXCEPT ![s] = <<>>]
  /\ wpc' = [wpc EXCEPT ![s] = "range"]
  /\ UNCHANGED <<wmu, closed, writeChan, procVars, connOpen, histVars>>

\* A failed write closes the OTHER end and stops the writer; l.closed is not set.
WriteFails(s) ==
  /\ wpc[s] = "write"
  /\ ~PipeOpen
  /\ connOpen' = [connOpen EXCEPT ![Other(s)] = FALSE]
  /\ wpc' = [wpc EXCEPT ![s] = "done"]
  /\ failed' = [failed EXCEPT ![s] = TRUE]
  /\ UNCHANGED <<wmu, closed, writeChan, inHand, procVars, accepted, received>>

Writer(s) == WriterTake(s) \/ Transfer(s) \/ WriteFails(s)

-----------------------------------------------------------------------------
(* Read: its caller handles the message, then reads again.                 *)

ReadAgain(s) ==
  /\ rpc[s] = "busy"
  /\ rpc' = [rpc EXCEPT ![s] = "read"]
  /\ UNCHANGED <<peerVars, call, closing, connOpen, histVars>>

\* Faulty variant: a failed read leaves the pipe as it is.
ReadErrorOnly(s) ==
  /\ rpc[s] = "read"
  /\ ~PipeOpen
  /\ rpc' = [rpc EXCEPT ![s] = "returned"]
  /\ UNCHANGED <<peerVars, call, closing, connOpen, histVars>>

ReadError(s) ==
  /\ rpc[s] = "read"
  /\ ~PipeOpen
  /\ rpc' = [rpc EXCEPT ![s] = "returned"]
  /\ connOpen' = [connOpen EXCEPT ![Other(s)] = FALSE]
  /\ UNCHANGED <<peerVars, call, closing, histVars>>

-----------------------------------------------------------------------------
(* Close                                                                   *)

StartClose(s, k) ==
  /\ closing[s][k] = "idle"
  /\ closing' = [closing EXCEPT ![s][k] = "Close"]
  /\ UNCHANGED <<peerVars, call, rpc, connOpen, histVars>>

\* Close keeps wmu until it returns.
CloseLock(s, k) ==
  /\ closing[s][k] = "Close"
  /\ wmu[s] = Free
  /\ \/ /\ closed[s]
        /\ closing' = [closing EXCEPT ![s][k] = "returned"]
        /\ UNCHANGED <<wmu, closed>>
     \/ /\ ~closed[s]
        /\ closed' = [closed EXCEPT ![s] = TRUE]
        /\ closing' = [closing EXCEPT ![s][k] = "wait"]
        /\ wmu' = [wmu EXCEPT ![s] = k]
  /\ UNCHANGED <<writeChan, inHand, wpc, call, rpc, connOpen, histVars>>

\* After doneWriting, or after a second: the timer may fire first.
CloseConn(s, k) ==
  /\ closing[s][k] = "wait"
  /\ closing' = [closing EXCEPT ![s][k] = "returned"]
  /\ connOpen' = [connOpen EXCEPT ![s] = FALSE]
  /\ wmu' = [wmu EXCEPT ![s] = Free]
  /\ UNCHANGED <<closed, writeChan, inHand, wpc, call, rpc, histVars>>

-----------------------------------------------------------------------------
Call(s, c) == TryWrite(s, c) \/ WriteLock(s, c) \/ WriteSend(s, c)
Close(s, k) == CloseLock(s, k) \/ CloseConn(s, k)

Next ==
  \E s \in Side :
    \/ \E c \in Callers : Call(s, c) \/ \E op \in Ops[s] : StartCall(s, c, op)
    \/ \E k \in Closers : Close(s, k) \/ StartClose(s, k)
    \/ Writer(s)
    \/ ReadAgain(s) \/ ReadError(s)

Spec == Init /\ [][Next]_vars

(***************************************************************************)
(* Fairness: every runnable goroutine takes its next step and a goroutine  *)
(* waiting for wmu gets it. The readers' callers read again (ReadAgain is  *)
(* fair) only on the router side, whose handlers never block; what a       *)
(* client does between two reads is up to its handlers.                    *)
(***************************************************************************)
Fairness ==
  \A s \in Side :
    /\ \A c \in Callers : SF_vars(Call(s, c))
    /\ \A k \in Closers : SF_vars(Close(s, k))
    /\ SF_vars(Writer(s))
    /\ WF_vars(ReadError(s))

FairSpec == Spec /\ Fairness /\ WF_vars(ReadAgain("router"))

-----------------------------------------------------------------------------
(* Safety                                                                  *)

TypeOK ==
  /\ wmu \in [Side -> Callers \cup Closers \cup {Free}]
  /\ closed \in [Side -> BOOLEAN] /\ connOpen \in [Side -> BOOLEAN]
  /\ failed \in [Side -> BOOLEAN]
  /\ writeChan \in [Side -> Seq(Nat)]
  /\ \A s \in Side : Len(writeChan[s]) <= OutQueueSize
  /\ inHand \in [Side -> Seq(Nat)]
  /\ wpc \in [Side -> {"range", "write", "done"}]
  /\ call \in [Side -> [Callers -> {"idle", "Write", "TryWrite", "send"}]]
  /\ closing \in [Side -> [Closers -> {"idle", "Close", "wait", "returned"}]]
  /\ rpc \in [Side -> {"read", "busy", "returned"}]
  /\ accepted \in [Side -> Nat] /\ received \in [Side -> Seq(Nat)]

\* A send on a closed channel panics: whoever is about to send on writeChan (Write, inside
\* its critical section) finds it open.
NoSendOnClosedChannel ==
  /\ TypeOK
  /\ \A s \in Side, c \in Callers : call[s][c] = "send" => ~closed[s] /\ wmu[s] = c

\* Close drains: a writer that ended without a failed write has handed every accepted
\* message, the GOODBYE queued just before Close included, to the other side's reader.
CloseDrains ==
  \A s \in Side : wpc[s] = "done" /\ ~failed[s] => Len(received[Other(s)]) = accepted[s]

\* Each direction implements the contract all transports share: what one side accepts the
\* other side's reader gets, in order.
ToRouter == INSTANCE OutQueue WITH Capacity <- OutQueueSize, accepted <- accepted["client"],
              sent <- received["router"], stopped <- wpc["client"] = "done"
ToClient == INSTANCE OutQueue WITH Capacity <- OutQueueSize, accepted <- accepted["router"],
              sent <- received["client"], stopped <- wpc["router"] = "done"
ImplementsOutQueue == ToRouter!Spec /\ ToClient!Spec

-----------------------------------------------------------------------------
(* Liveness                                                                *)

\* A Write of side s is parked on the full queue with wmu (Write, peer.go).
Parked(s) ==
  Len(writeChan[s]) = OutQueueSize /\ \E c \in Callers : call[s][c] = "send"

\* Close returns, though it may have to wait for wmu and for the writer: only a Write that
\* stays parked, because the other side reads no more or the writer is gone, keeps it. And
\* closing either side tears down both ends and ends the router's reader.
CloseTearsDownPair ==
  /\ \A s \in Side, k \in Closers :
       (closing[s][k] = "Close") ~> (closing[s][k] = "returned" \/ Parked(s))
  /\ \A s \in Side : closed[s] ~> (~connOpen["client"] /\ rpc["router"] = "returned")
=============================================================================
