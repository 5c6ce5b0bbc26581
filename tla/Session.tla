------------------------------- MODULE Session -------------------------------
(***************************************************************************)
(* The client session of session.go and types.go: any number of goroutines *)
(* run requests (call, register, unregister, subscribe, unsubscribe,       *)
(* publish, Leave), a progressive call sends its chunks from a goroutine   *)
(* of its own, one reader goroutine dispatches what the router sends, and  *)
(* handlers of invocations run in goroutines of their own. They share the  *)
(* tables of pending requests, of registrations and of subscriptions, the  *)
(* flag `connected` and the channels goodbyeChan and leaveChan.            *)
(*                                                                         *)
(* The transport is a pair of FIFO queues that may be cut at any time; the *)
(* router is a conforming peer, modelled from what the session expects of  *)
(* it. A request is its id. A registration is known by the register        *)
(* request that created it, a subscription by its topic, a subscription    *)
(* handler by its subscribe request, the handler of one INVOCATION by      *)
(* <<invocation, chunk, more>>. Timers may fire once armed. The maps of    *)
(* handlers are not protected: a write that meets the reader's iteration   *)
(* is a data race, which Go's runtime may answer by ending the process.    *)
(***************************************************************************)
EXTENDS Naturals, Sequences, FiniteSets

CONSTANTS
  Kind,         \* the kind of each request the application can make
  Target,       \* subscribe: its topic; unregister, unsubscribe: the request it undoes
  Cancellable,  \* calls whose context may be done before the result
  Progressive,  \* calls made with a progress receiver
  Chunked,      \* calls made with a progress sender
  Loads         \* the workloads: the requests the application makes, each once; whether it
                \* uses a topic from one goroutine at a time; whether the router may take
                \* longer than the requests' 10 seconds; what it sends unasked; and the
                \* bounds: how many messages it sends unasked, and how many chunks a call
                \* or an invocation has after its first

AllRequests == DOMAIN Kind
Kinds == {"call", "register", "unregister", "subscribe", "unsubscribe", "publish", "leave"}
PushTypes == {"INVOCATION", "INTERRUPT", "EVENT", "PROGRESS", "GOODBYE", "ABORT",
              "UNPARSABLE", "UNEXPECTED"}

ASSUME KindAssumption == Kind \in [AllRequests -> Kinds]
ASSUME CallsAssumption ==
  \A r \in Cancellable \cup Progressive \cup Chunked : r \in AllRequests /\ Kind[r] = "call"
ASSUME LoadAssumption ==
  Loads \subseteq [requests : SUBSET AllRequests, serial : BOOLEAN, slow : BOOLEAN,
                   push : SUBSET PushTypes, pushes : Nat, chunks : Nat]
ASSUME TargetAssumption ==
  \A l \in Loads : \A r \in l.requests :
    /\ Kind[r] = "unregister" => Target[r] \in l.requests /\ Kind[Target[r]] = "register"
    /\ Kind[r] = "unsubscribe" => Target[r] \in l.requests /\ Kind[Target[r]] = "subscribe"

VARIABLES
  load,       \* the workload, chosen once
  pc,         \* each request: "new", "send" (past the check of connected), "wait",
              \* "cancelling" (in the Write of its CANCEL), "cancel"
              \* (CANCEL sent), "returned"
  outcome,    \* each request: "none", "ok", "error", "refused", "timeout", "canceled", "closed"
  table,      \* the requests stored in the session's request maps
  reply,      \* each request's response channel (capacity 1)
  connected,  \* s.connected
  left,       \* TRUE once leaveChan is closed
  goodbyeChan,\* number of tokens in goodbyeChan (capacity 1)
  reader,     \* "reading", "blocked" (on a full response channel), "dispatching" (an EVENT),
              \* "leaving" (in the GOODBYE case), "dead", "gone", "panic"
  regs,       \* registrations: register requests whose handler is stored
  subEntry,   \* topics that have an entry in subscriptions
  subs,       \* the handlers (subscribe requests) in those entries
  progress,   \* progressHandlers: calls that have one
  chunksLeft, \* each call: > 0 while its chunk goroutine is in its loop
  progressFunc, \* invocations that have an entry in progressFunc
  cancels,    \* invocationCancels: the handler whose cancel function an invocation has
  running,    \* handlers whose goroutine is running
  interrupted,\* handlers whose context an INTERRUPT cancelled
  transport,  \* "open" or "lost"
  toRouter,   \* messages on their way to the router
  toSession,  \* messages on their way to the session
  rRegs, rSubs, rCalls,  \* the router: registrations, subscriptions, open calls
  rInvs,      \* the router: open invocations
  rMore,      \* the router: open invocations with chunks to come, and how many were sent
  pushed      \* how many messages the router has sent unasked

reqVars == <<pc, outcome, table, reply>>
lifeVars == <<connected, left, goodbyeChan, reader>>
subVars == <<subEntry, subs>>
callVars == <<progress, chunksLeft>>
invVars == <<progressFunc, cancels, running, interrupted>>
netVars == <<transport, toRouter, toSession>>
routerVars == <<rRegs, rSubs, rCalls, rInvs, rMore, pushed>>
vars == <<reqVars, lifeVars, regs, subVars, callVars, invVars, netVars, routerVars>>

Requests == load.requests
Of(kind) == {r \in Requests : Kind[r] = kind}
Topics == {Target[r] : r \in Of("subscribe")}

Msg(type, id) == [type |-> type, id |-> id]

Init ==
  /\ load \in Loads
  /\ pc = [r \in Requests |-> "new"] /\ outcome = [r \in Requests |-> "none"]
  /\ table = {} /\ reply = [r \in Requests |-> <<>>]
  /\ connected = TRUE /\ left = FALSE /\ goodbyeChan = 0 /\ reader = "reading"
  /\ regs = {} /\ subEntry = {} /\ subs = {}
  /\ progress = {} /\ chunksLeft = [r \in Requests |-> 0]
  /\ progressFunc = {} /\ cancels = {} /\ running = {} /\ interrupted = {}
  /\ transport = "open" /\ toRouter = <<>> /\ toSession = <<>>
  /\ rRegs = {} /\ rSubs = {} /\ rCalls = {} /\ rInvs = {} /\ rMore = {} /\ pushed = 0

-----------------------------------------------------------------------------
(* Requests                                                                *)

\* The deferred Delete of the request's entry runs with the return.
Return(r, how) ==
  /\ pc' = [pc EXCEPT ![r] = "returned"]
  /\ outcome' = [outcome EXCEPT ![r] = how]
  /\ table' = table \ {r}

Topic(r) == IF Kind[r] = "subscribe" THEN Target[r] ELSE Target[Target[r]]
OnTopic(t) == {r \in Of("subscribe") \cup Of("unsubscribe") : Topic(r) = t}
Busy(t) == \E r \in OnTopic(t) : pc[r] \in {"send", "wait"}

\* The application makes a request when it makes sense: it undoes what has succeeded.
MayStart(r) ==
  /\ pc[r] = "new"
  /\ Kind[r] \in {"unregister", "unsubscribe"} => outcome[Target[r]] = "ok"
  /\ load.serial /\ Kind[r] \in {"subscribe", "unsubscribe"} => ~Busy(Topic(r))

\* callProgress, callProgressiveProgress: the handler is stored before anything else, and
\* nothing removes it when the call is refused or its Write fails.
StoreProgressHandler(r) == progress' = progress \cup (Progressive \cap {r})

\* The request finds the session not connected; a call with a progress sender does not look.
Refuse(r) ==
  /\ MayStart(r)
  /\ ~connected /\ r \notin Chunked
  /\ StoreProgressHandler(r)
  /\ Return(r, "refused")
  /\ UNCHANGED <<reply, lifeVars, regs, subVars, chunksLeft, invVars, netVars, routerVars>>

\* Past the check: the session may be disconnected before the request is written.
StartRequest(r) ==
  /\ MayStart(r)
  /\ connected \/ r \in Chunked
  /\ StoreProgressHandler(r)
  /\ pc' = [pc EXCEPT ![r] = "send"]
  /\ UNCHANGED <<outcome, table, reply, lifeVars, regs, subVars, chunksLeft, invVars, netVars,
                 routerVars>>

\* Store the request, Write it, and start the goroutine that sends the other chunks.
Send(r) ==
  /\ pc[r] = "send"
  /\ chunksLeft' = [chunksLeft EXCEPT ![r] =
                      IF r \in Chunked /\ transport = "open" THEN load.chunks ELSE 0]
  /\ IF transport = "open"
     THEN /\ pc' = [pc EXCEPT ![r] = "wait"]
          /\ table' = IF Kind[r] = "leave" THEN table ELSE table \cup {r}
          /\ toRouter' = Append(toRouter, Msg(Kind[r], r))
          /\ UNCHANGED outcome
     ELSE Return(r, "error") /\ UNCHANGED toRouter
  /\ UNCHANGED <<reply, progress, invVars, regs, transport, toSession, routerVars>>

SendRequest(r) ==
  /\ Kind[r] # "unsubscribe"
  /\ Send(r)
  /\ UNCHANGED <<lifeVars, subVars>>

\* publish without the acknowledge option returns as soon as it is written.
PublishUnacknowledged(r) ==
  /\ Kind[r] = "publish" /\ pc[r] = "send"
  /\ transport = "open"
  /\ toRouter' = Append(toRouter, Msg("unacknowledged", r))
  /\ Return(r, "ok")
  /\ UNCHANGED <<reply, lifeVars, regs, subVars, callVars, invVars, transport, toSession,
                 routerVars>>

\* The loop of the chunk goroutine: another CALL with the same request id, the last or
\* not; CANCEL if the sender fails; the end if the Write fails. It does not look whether
\* the call has returned.
SendChunk(r) ==
  /\ chunksLeft[r] > 0
  /\ \/ /\ transport = "open"
        /\ toRouter' = Append(toRouter, Msg("call", r))
        /\ chunksLeft' \in {[chunksLeft EXCEPT ![r] = 0], [chunksLeft EXCEPT ![r] = @ - 1]}
     \/ /\ transport = "open"
        /\ toRouter' = Append(toRouter, Msg("cancel", r))
        /\ chunksLeft' = [chunksLeft EXCEPT ![r] = 0]
     \/ /\ transport = "lost"
        /\ chunksLeft' = [chunksLeft EXCEPT ![r] = 0]
        /\ UNCHANGED toRouter
  /\ UNCHANGED <<reqVars, lifeVars, regs, subVars, progress, invVars, transport, toSession,
                 routerVars>>

\* A write to the map of topic t while the reader iterates over it: nothing happens, or
\* the runtime ends the process ("concurrent map iteration and map write").
WriteMap(t) ==
  reader' \in {reader} \cup
    (IF reader = "dispatching" /\ Head(toSession).id = t /\ t \in subEntry
       THEN {"panic"} ELSE {})

\* Faulty variant: every unsubscribe tells the router.
SendUnsubscribeEager(r) ==
  /\ Kind[r] = "unsubscribe"
  /\ subs' = subs \ {Target[r]}
  /\ Send(r)
  /\ UNCHANGED <<lifeVars, subEntry>>

\* unsubscribe removes its handler; only the last handler of a topic tells the router.
SendUnsubscribe(r) ==
  LET t == Topic(r)
      others == t \in subEntry /\ (subs \cap OnTopic(t)) \ {Target[r]} # {}
  IN
  /\ Kind[r] = "unsubscribe" /\ pc[r] = "send"
  /\ subs' = IF t \in subEntry THEN subs \ {Target[r]} ELSE subs
  /\ WriteMap(t)
  /\ \/ /\ others
        /\ Return(r, "ok")
        /\ UNCHANGED <<reply, regs, callVars, invVars, netVars, routerVars>>
     \/ ~others /\ Send(r)
  /\ UNCHANGED <<connected, left, goodbyeChan, subEntry>>

\* The response channel is ready: the request returns what it says.
TakeReply(r, how) ==
  /\ pc[r] \in {"wait", "cancel"}
  /\ reply[r] = <<how>>
  /\ reply' = [reply EXCEPT ![r] = <<>>]
  /\ Return(r, how)

ReplyTaken(r) ==
  /\ \/ Kind[r] \in {"call", "publish"} /\ TakeReply(r, "ok")
     \/ TakeReply(r, "error")
  /\ UNCHANGED <<lifeVars, regs, subVars, callVars, invVars, netVars, routerVars>>

\* Faulty variant: the handler is stored under an id the router does not use.
RegisteredElsewhere(r) ==
  /\ Kind[r] \in {"register", "unregister"}
  /\ TakeReply(r, "ok")
  /\ UNCHANGED <<regs, lifeVars, subVars, callVars, invVars, netVars, routerVars>>

\* A registration succeeded: its handler is stored, or deleted.
Registered(r) ==
  /\ Kind[r] \in {"register", "unregister"}
  /\ TakeReply(r, "ok")
  /\ regs' = IF Kind[r] = "register" THEN regs \cup {r} ELSE regs \ {Target[r]}
  /\ UNCHANGED <<lifeVars, subVars, callVars, invVars, netVars, routerVars>>

\* A subscription succeeded: the handler joins those of its topic, in the same map if
\* there is one.
Subscribed(r) ==
  /\ Kind[r] = "subscribe"
  /\ TakeReply(r, "ok")
  /\ subs' = subs \cup {r}
  /\ subEntry' = subEntry \cup {Topic(r)}
  /\ WriteMap(Topic(r))
  /\ UNCHANGED <<connected, left, goodbyeChan, regs, callVars, invVars, netVars, routerVars>>

\* UNSUBSCRIBED deletes the topic's entry with whatever handlers it has by now.
Unsubscribed(r) ==
  /\ Kind[r] = "unsubscribe"
  /\ TakeReply(r, "ok")
  /\ subs' = subs \ OnTopic(Topic(r))
  /\ subEntry' = subEntry \ {Topic(r)}
  /\ UNCHANGED <<lifeVars, regs, callVars, invVars, netVars, routerVars>>

\* The 10 second timer of every request but call; Leave's too.
Timeout(r) ==
  /\ load.slow
  /\ pc[r] = "wait" /\ Kind[r] # "call"
  /\ Return(r, "timeout")
  /\ UNCHANGED <<reply, lifeVars, regs, subVars, callVars, invVars, netVars, routerVars>>

\* waitForCallResult: the context is done.
ContextDone(r) ==
  /\ r \in Cancellable
  /\ pc[r] = "wait"
  /\ pc' = [pc EXCEPT ![r] = "cancelling"]
  /\ UNCHANGED <<outcome, table, reply, lifeVars, regs, subVars, callVars, invVars, netVars,
                 routerVars>>

\* CANCEL goes out, or cannot. Write may have waited for room in the queue to the router, and
\* meanwhile the call watches neither its channel nor leaveChan.
SendCancel(r) ==
  /\ pc[r] = "cancelling"
  /\ IF transport = "open"
     THEN /\ pc' = [pc EXCEPT ![r] = "cancel"]
          /\ toRouter' = Append(toRouter, Msg("cancel", r))
          /\ UNCHANGED <<outcome, table>>
     ELSE Return(r, "error") /\ UNCHANGED toRouter
  /\ UNCHANGED <<reply, lifeVars, regs, subVars, callVars, invVars, transport, toSession,
                 routerVars>>

\* The router did not acknowledge the CANCEL within 3 seconds.
CancelTimeout(r) ==
  /\ pc[r] = "cancel"
  /\ Return(r, "canceled")
  /\ UNCHANGED <<reply, lifeVars, regs, subVars, callVars, invVars, netVars, routerVars>>

\* Faulty variant: waitForCallResult watches leaveChan only until the CANCEL is sent, and
\* not at all before.
CallSeesLeaveLate(r) ==
  /\ Kind[r] = "call"
  /\ pc[r] = "cancel"
  /\ left
  /\ Return(r, "closed")
  /\ UNCHANGED <<reply, lifeVars, regs, subVars, callVars, invVars, netVars, routerVars>>

CallSeesLeave(r) ==
  /\ Kind[r] = "call"
  /\ pc[r] \in {"wait", "cancel"}
  /\ left
  /\ Return(r, "closed")
  /\ UNCHANGED <<reply, lifeVars, regs, subVars, callVars, invVars, netVars, routerVars>>

LeaveReturns(r) ==
  /\ Kind[r] = "leave"
  /\ pc[r] = "wait"
  /\ goodbyeChan > 0
  /\ goodbyeChan' = goodbyeChan - 1
  /\ Return(r, "ok")
  /\ UNCHANGED <<reply, connected, left, reader, regs, subVars, callVars, invVars, netVars,
                 routerVars>>

Request(r) ==
  \/ Refuse(r) \/ StartRequest(r) \/ SendRequest(r) \/ SendUnsubscribe(r)
  \/ PublishUnacknowledged(r) \/ SendChunk(r)
  \/ ReplyTaken(r) \/ Registered(r) \/ Subscribed(r) \/ Unsubscribed(r)
  \/ Timeout(r) \/ ContextDone(r) \/ SendCancel(r) \/ CancelTimeout(r)
  \/ CallSeesLeave(r) \/ LeaveReturns(r)

-----------------------------------------------------------------------------
(* The reader: waitForRouterMessages and processIncomingMessage            *)

Receiving(types) ==
  /\ reader = "reading"
  /\ toSession # <<>>
  /\ Head(toSession).type \in types

Received == toSession' = Tail(toSession)
Id == Head(toSession).id

\* An error from processIncomingMessage ends the loop: nothing is closed or marked.
ReaderDies == reader' = "dead"

\* A reply goes into the request's channel, if it has room.
Deliver(r, how) ==
  /\ reply[r] = <<>>
  /\ reply' = [reply EXCEPT ![r] = <<how>>]

\* It has none: the reader keeps the channel it has loaded until somebody receives from it.
ReadBlocks ==
  /\ Receiving({"RESULT", "ERROR", "ACK"})
  /\ Id \in table
  /\ reply[Id] # <<>>
  /\ table' = IF Head(toSession).type = "ERROR" THEN table \ {Id} ELSE table
  /\ reader' = "blocked"
  /\ UNCHANGED <<pc, outcome, reply, connected, left, goodbyeChan, regs, subVars, callVars,
                 invVars, netVars, routerVars>>

ReadUnblocks ==
  /\ reader = "blocked"
  /\ Deliver(Id, IF Head(toSession).type = "ERROR" THEN "error" ELSE "ok")
  /\ progress' = IF Head(toSession).type = "RESULT" THEN progress \ {Id} ELSE progress
  /\ reader' = "reading"
  /\ Received
  /\ UNCHANGED <<pc, outcome, table, connected, left, goodbyeChan, regs, subVars, chunksLeft,
                 invVars, transport, toRouter, routerVars>>

\* Faulty variant: a result for an unknown call is an error like the other replies'.
ReadResultStrict ==
  /\ Receiving({"RESULT"})
  /\ \/ Id \in table /\ Deliver(Id, "ok") /\ progress' = progress \ {Id} /\ UNCHANGED reader
     \/ Id \notin table /\ ReaderDies /\ UNCHANGED <<reply, progress>>
  /\ Received
  /\ UNCHANGED <<pc, outcome, table, connected, left, goodbyeChan, regs, subVars, chunksLeft,
                 invVars, transport, toRouter, routerVars>>

\* RESULT: an unknown request is a stale result, discarded.
ReadResult ==
  /\ Receiving({"RESULT"})
  /\ \/ Id \in table /\ Deliver(Id, "ok") /\ progress' = progress \ {Id}
     \/ Id \notin table /\ UNCHANGED <<reply, progress>>
  /\ Received
  /\ UNCHANGED <<pc, outcome, table, lifeVars, regs, subVars, chunksLeft, invVars, transport,
                 toRouter, routerVars>>

\* A progressive RESULT runs the handler, if there is one, on the reader's goroutine.
ReadProgress ==
  /\ Receiving({"PROGRESS"})
  /\ Received
  /\ UNCHANGED <<reqVars, lifeVars, regs, subVars, callVars, invVars, transport, toRouter,
                 routerVars>>

\* REGISTERED, UNREGISTERED, SUBSCRIBED, UNSUBSCRIBED, PUBLISHED: an unknown request is an
\* error.
ReadAck ==
  /\ Receiving({"ACK"})
  /\ \/ Id \in table /\ Deliver(Id, "ok") /\ UNCHANGED reader
     \/ Id \notin table /\ ReaderDies /\ UNCHANGED reply
  /\ Received
  /\ UNCHANGED <<pc, outcome, table, connected, left, goodbyeChan, regs, subVars, callVars,
                 invVars, transport, toRouter, routerVars>>

\* ERROR takes the request out of its table. For a call an unknown request is discarded,
\* for the others it is an error; unregister and unsubscribe are told nothing.
ReadError ==
  /\ Receiving({"ERROR"})
  /\ \/ /\ Id \in table
        /\ table' = table \ {Id}
        /\ IF Kind[Id] \in {"unregister", "unsubscribe"} THEN UNCHANGED reply
                                                         ELSE Deliver(Id, "error")
        /\ UNCHANGED reader
     \/ /\ Id \notin table
        /\ IF Kind[Id] = "call" THEN UNCHANGED reader ELSE ReaderDies
        /\ UNCHANGED <<table, reply>>
  /\ Received
  /\ UNCHANGED <<pc, outcome, connected, left, goodbyeChan, regs, subVars, callVars, invVars,
                 transport, toRouter, routerVars>>

\* EVENT: the reader iterates over the map of the subscription's handlers and starts each
\* in a goroutine of its own.
ReadEvent ==
  /\ Receiving({"EVENT"})
  /\ \/ Id \in subEntry /\ reader' = "dispatching" /\ UNCHANGED toSession
     \/ Id \notin subEntry /\ ReaderDies /\ Received
  /\ UNCHANGED <<reqVars, connected, left, goodbyeChan, regs, subVars, callVars, invVars,
                 transport, toRouter, routerVars>>

EventDispatched ==
  /\ reader = "dispatching"
  /\ reader' = "reading"
  /\ Received
  /\ UNCHANGED <<reqVars, connected, left, goodbyeChan, regs, subVars, callVars, invVars,
                 transport, toRouter, routerVars>>

\* A handler: the INVOCATION's id, the number of its chunk and whether more will come.
HandlerOf(m) == <<m.id, m.chunk, m.more>>
OfInvocation(i) == {h \in cancels : h[1] = i}

\* Faulty variant: the send-progress function goes with the first chunk that does not ask
\* for it.
StoreProgressFuncShort(m) ==
  progressFunc' = IF ~m.receive THEN progressFunc \ {m.id}
                  ELSE IF m.more THEN progressFunc \cup {m.id}
                  ELSE progressFunc

\* The send-progress function of a first chunk is kept for the chunks to come, until one
\* that is neither progressive nor asks for progress.
StoreProgressFunc(m) ==
  progressFunc' = IF m.receive /\ m.more THEN progressFunc \cup {m.id}
                  ELSE IF ~m.receive /\ ~m.more THEN progressFunc \ {m.id}
                  ELSE progressFunc

\* INVOCATION: the handler is looked up and asserted to be one, which panics on nil. The
\* cancel function of a chunk replaces the one of the chunk before it.
ReadInvocation ==
  LET m == Head(toSession) IN
  /\ Receiving({"INVOCATION"})
  /\ \/ /\ m.reg \in regs
        /\ StoreProgressFunc(m)
        /\ cancels' = (cancels \ OfInvocation(m.id)) \cup {HandlerOf(m)}
        /\ running' = running \cup {HandlerOf(m)}
        /\ UNCHANGED reader
     \/ /\ m.reg \notin regs
        /\ reader' = "panic"
        /\ UNCHANGED <<progressFunc, cancels, running>>
  /\ Received
  /\ UNCHANGED <<reqVars, connected, left, goodbyeChan, regs, subVars, callVars, interrupted,
                 transport, toRouter, routerVars>>

ReadInterrupt ==
  /\ Receiving({"INTERRUPT"})
  /\ interrupted' = interrupted \cup OfInvocation(Id)
  /\ cancels' = cancels \ OfInvocation(Id)
  /\ Received
  /\ UNCHANGED <<reqVars, lifeVars, regs, subVars, callVars, progressFunc, running, transport,
                 toRouter, routerVars>>

\* GOODBYE: a token for Leave (the send blocks if an older one is still there), the
\* application's onLeave callback, then markDisconnected.
ReadGoodbye ==
  /\ Receiving({"GOODBYE"})
  /\ goodbyeChan = 0
  /\ goodbyeChan' = 1
  /\ reader' = "leaving"
  /\ Received
  /\ UNCHANGED <<reqVars, connected, left, regs, subVars, callVars, invVars, transport,
                 toRouter, routerVars>>

markDisconnected == connected' = FALSE /\ left' = TRUE

AfterOnLeave ==
  /\ reader = "leaving"
  /\ markDisconnected
  /\ reader' = "reading"
  /\ UNCHANGED <<reqVars, goodbyeChan, regs, subVars, callVars, invVars, netVars, routerVars>>

ReadAbort ==
  /\ Receiving({"ABORT"})
  /\ markDisconnected
  /\ Received
  /\ UNCHANGED <<reqVars, goodbyeChan, reader, regs, subVars, callVars, invVars, transport,
                 toRouter, routerVars>>

\* What cannot be parsed closes the transport but marks nothing; what is not expected of a
\* router only ends the loop.
ReadGarbage ==
  /\ Receiving({"UNPARSABLE", "UNEXPECTED"})
  /\ transport' = IF Head(toSession).type = "UNPARSABLE" THEN "lost" ELSE transport
  /\ ReaderDies
  /\ Received
  /\ UNCHANGED <<reqVars, connected, left, goodbyeChan, regs, subVars, callVars, invVars,
                 toRouter, routerVars>>

ReadFails ==
  /\ reader = "reading"
  /\ transport = "lost" /\ toSession = <<>>
  /\ markDisconnected
  /\ reader' = "gone"
  /\ UNCHANGED <<reqVars, goodbyeChan, regs, subVars, callVars, invVars, netVars, routerVars>>

Reader ==
  \/ ReadResult \/ ReadProgress \/ ReadAck \/ ReadError \/ ReadBlocks \/ ReadUnblocks
  \/ ReadEvent \/ EventDispatched \/ ReadInvocation \/ ReadInterrupt
  \/ ReadGoodbye \/ AfterOnLeave \/ ReadAbort \/ ReadGarbage \/ ReadFails

\* A handler returns: YIELD or ERROR is written, or nothing (ErrNoResult, a failed Write).
\* The last chunk's handler deletes the cancel function of its invocation.
HandlerReturns(h) ==
  /\ h \in running
  /\ running' = running \ {h}
  /\ cancels' = IF h[3] THEN cancels ELSE cancels \ OfInvocation(h[1])
  /\ \/ transport = "open" /\ toRouter' = Append(toRouter, Msg("yield", h[1]))
     \/ UNCHANGED toRouter
  /\ UNCHANGED <<reqVars, lifeVars, regs, subVars, callVars, progressFunc, interrupted,
                 transport, toSession, routerVars>>

-----------------------------------------------------------------------------
(* The router and the network (external)                                   *)

ToSession(m) == toSession' = Append(toSession, m)
SessionUnchanged ==
  UNCHANGED <<reqVars, lifeVars, regs, subVars, callVars, invVars, transport>>

Closed(i) == {m \in rMore : m.id = i}

\* The router takes the next message and answers it, except a call, which stays open. A
\* CALL with the id of an open call is its next chunk, otherwise it opens one.
RouterHandles ==
  LET m == Head(toRouter)
      ack == ToSession(Msg("ACK", m.id))
      error == ToSession(Msg("ERROR", m.id))
  IN
  /\ transport = "open"
  /\ toRouter # <<>>
  /\ toRouter' = Tail(toRouter)
  /\ \/ /\ m.type = "call"
        /\ rCalls' = rCalls \cup {m.id}
        /\ UNCHANGED <<toSession, rRegs, rSubs, rInvs, rMore>>
     \/ /\ m.type = "cancel"
        /\ IF m.id \in rCalls THEN error ELSE UNCHANGED toSession
        /\ rCalls' = rCalls \ {m.id}
        /\ UNCHANGED <<rRegs, rSubs, rInvs, rMore>>
     \/ /\ m.type = "register"
        /\ \/ ack /\ rRegs' = rRegs \cup {m.id}
           \/ error /\ UNCHANGED rRegs
        /\ UNCHANGED <<rCalls, rSubs, rInvs, rMore>>
     \/ /\ m.type = "unregister"
        /\ IF Target[m.id] \in rRegs THEN ack ELSE error
        /\ rRegs' = rRegs \ {Target[m.id]}
        /\ UNCHANGED <<rCalls, rSubs, rInvs, rMore>>
     \/ /\ m.type = "subscribe"
        /\ \/ ack /\ rSubs' = rSubs \cup {Topic(m.id)}
           \/ error /\ UNCHANGED rSubs
        /\ UNCHANGED <<rCalls, rRegs, rInvs, rMore>>
     \/ /\ m.type = "unsubscribe"
        /\ IF Topic(m.id) \in rSubs THEN ack ELSE error
        /\ rSubs' = rSubs \ {Topic(m.id)}
        /\ UNCHANGED <<rCalls, rRegs, rInvs, rMore>>
     \/ /\ m.type = "publish"
        /\ ack \/ error
        /\ UNCHANGED <<rCalls, rRegs, rSubs, rInvs, rMore>>
     \/ /\ m.type = "unacknowledged"
        /\ UNCHANGED <<toSession, rCalls, rRegs, rSubs, rInvs, rMore>>
     \/ /\ m.type = "leave"
        /\ ToSession(Msg("GOODBYE", m.id))
        /\ rCalls' = {} /\ rRegs' = {} /\ rSubs' = {} /\ rInvs' = {} /\ rMore' = {}
     \/ /\ m.type = "yield"
        /\ rInvs' = rInvs \ {m.id}
        /\ rMore' = rMore \ Closed(m.id)
        /\ UNCHANGED <<toSession, rCalls, rRegs, rSubs>>
  /\ UNCHANGED pushed
  /\ SessionUnchanged

\* An open call is answered: RESULT or ERROR.
RouterAnswers(r) ==
  /\ transport = "open"
  /\ r \in rCalls
  /\ rCalls' = rCalls \ {r}
  /\ ToSession(Msg("RESULT", r)) \/ ToSession(Msg("ERROR", r))
  /\ UNCHANGED <<toRouter, rRegs, rSubs, rInvs, rMore, pushed>>
  /\ SessionUnchanged

\* The first INVOCATION of a call to registration g, or the next chunk of an earlier one.
\* Only the first asks for progress (callProgressiveProgress).
Invoke(i, g, n, asked) ==
  \E more \in {FALSE} \cup {load.chunks > 0} :
    /\ ToSession([type |-> "INVOCATION", id |-> i, reg |-> g, chunk |-> n, more |-> more,
                  receive |-> asked /\ n = 0, asked |-> asked])
    /\ rMore' = (rMore \ Closed(i)) \cup
         (IF more THEN {[id |-> i, reg |-> g, sent |-> n, asked |-> asked]} ELSE {})

RouterNextChunk ==
  /\ transport = "open"
  /\ \E m \in rMore : m.sent < load.chunks /\ Invoke(m.id, m.reg, m.sent + 1, m.asked)
  /\ UNCHANGED <<toRouter, rRegs, rSubs, rCalls, rInvs, pushed>>
  /\ SessionUnchanged

\* The router sends something the session did not just ask for.
RouterPushes ==
  /\ transport = "open"
  /\ pushed < load.pushes
  /\ pushed' = pushed + 1
  /\ \/ /\ "PROGRESS" \in load.push
        /\ \E r \in rCalls \cap Progressive : ToSession(Msg("PROGRESS", r))
        /\ UNCHANGED <<rInvs, rMore>>
     \/ /\ "EVENT" \in load.push
        /\ \E t \in rSubs : ToSession(Msg("EVENT", t))
        /\ UNCHANGED <<rInvs, rMore>>
     \/ /\ "INVOCATION" \in load.push
        /\ \E g \in rRegs, asked \in BOOLEAN : Invoke(pushed + 1, g, 0, asked)
        /\ rInvs' = rInvs \cup {pushed + 1}
     \/ /\ "INTERRUPT" \in load.push
        /\ \E i \in rInvs :
             /\ ToSession(Msg("INTERRUPT", i))
             /\ rInvs' = rInvs \ {i}
             /\ rMore' = rMore \ Closed(i)
     \/ /\ \E type \in load.push \cap {"GOODBYE", "ABORT", "UNPARSABLE", "UNEXPECTED"} :
             ToSession(Msg(type, 0))
        /\ UNCHANGED <<rInvs, rMore>>
  /\ UNCHANGED <<toRouter, rRegs, rSubs, rCalls>>
  /\ SessionUnchanged

\* The connection is cut; what was on its way to the session still arrives or does not.
TransportLost ==
  /\ transport = "open"
  /\ transport' = "lost"
  /\ \/ UNCHANGED toSession
     \/ toSession' = IF reader \in {"blocked", "dispatching"} THEN <<Head(toSession)>> ELSE <<>>
  /\ toRouter' = <<>>
  /\ UNCHANGED <<reqVars, lifeVars, regs, subVars, callVars, invVars, routerVars>>

Router ==
  \/ RouterHandles
  \/ \E r \in Requests : RouterAnswers(r)
  \/ RouterNextChunk
  \/ RouterPushes

-----------------------------------------------------------------------------
Steps ==
  \/ reader # "panic" /\ \E r \in Requests : Request(r)
  \/ Reader
  \/ reader # "panic" /\ \E h \in running : HandlerReturns(h)
  \/ Router
  \/ TransportLost

Next == Steps /\ UNCHANGED load

Spec == Init /\ [][Next]_<<load, vars>>

(***************************************************************************)
(* Fairness: the reader goes on and every call that can return does; the   *)
(* timer of a CANCEL fires. The application starts no request because it   *)
(* must, and nothing is assumed of the router or of the network: no Write  *)
(* to the router has to find room.                                         *)
(***************************************************************************)
Fairness ==
  /\ WF_vars(Reader)
  /\ \A r \in AllRequests :
       Kind[r] = "call" =>
         WF_vars(r \in Requests /\ (ReplyTaken(r) \/ CancelTimeout(r) \/ CallSeesLeave(r)))

FairSpec == Spec /\ Fairness

-----------------------------------------------------------------------------
(* Safety                                                                  *)

TypeOK ==
  /\ load \in Loads
  /\ pc \in [Requests -> {"new", "send", "wait", "cancelling", "cancel", "returned"}]
  /\ outcome \in [Requests -> {"none", "ok", "error", "refused", "timeout", "canceled", "closed"}]
  /\ table \subseteq Requests
  /\ reply \in [Requests -> {<<>>, <<"ok">>, <<"error">>}]
  /\ connected \in BOOLEAN /\ left \in BOOLEAN /\ goodbyeChan \in 0..1
  /\ reader \in {"reading", "blocked", "dispatching", "leaving", "dead", "gone", "panic"}
  /\ regs \subseteq Of("register") /\ subs \subseteq Of("subscribe") /\ subEntry \subseteq Topics
  /\ progress \subseteq Progressive /\ chunksLeft \in [Requests -> 0..load.chunks]
  /\ progressFunc \subseteq 1..load.pushes
  /\ cancels \cup running \cup interrupted \subseteq (1..load.pushes) \X (0..load.chunks) \X BOOLEAN
  /\ transport \in {"open", "lost"}

\* The application only calls, and the router sends nothing that a client cannot take.
OnlyCalls ==
  /\ \A r \in Requests : Kind[r] = "call"
  /\ load.push \cap {"UNPARSABLE", "UNEXPECTED"} = {}

\* No reply stops the reader. A reply to a call never ends it, however late it comes ("This
\* is a benign race: discard and keep the session alive", session.go): in a session that
\* only calls it runs until the transport is lost. And it never blocks on a response
\* channel: whatever final reply comes next, its channel is empty, although the entry stays
\* until the request's goroutine runs. (A call that sends chunks is not covered: one that is
\* late opens it again at the router.)
ReaderNotStopped ==
  /\ TypeOK
  /\ OnlyCalls => reader # "dead"
  /\ toSession # <<>> /\ Head(toSession).type \in {"RESULT", "ERROR", "ACK"} =>
       LET r == Head(toSession).id IN r \in table \ Chunked => reply[r] = <<>>

\* An INTERRUPT reaches its handler: the cancel function of the newest chunk's handler is in
\* the table as long as it runs uncancelled, the table keeps one only of a handler that
\* runs or of an invocation with chunks to come, and no other context is ever cancelled.
InterruptReaches ==
  /\ \A h \in running \ interrupted :
       ~h[3] \/ (\E m \in rMore : m.id = h[1] /\ m.sent = h[2]) => h \in cancels
  /\ \A h \in cancels : h \in running \/ h[3]
  /\ \A h \in interrupted : h[1] \notin rInvs

\* A progressive chunk of a call that asked for progress finds the send-progress function,
\* although only the first chunk carries the option.
SendProgressKept ==
  toSession # <<>> /\ reader = "reading" /\ Head(toSession).type = "INVOCATION" =>
    LET m == Head(toSession) IN m.asked /\ m.more /\ m.chunk > 0 => m.id \in progressFunc

\* What the session keeps of an invocation outlasts the chunks it is for.
InvocationStateKept == InterruptReaches /\ SendProgressKept

\* The session forgets a handler only after the router has forgotten the registration, and
\* keeps one the router has forgotten only until the unregister that did it returns, or
\* if that unregister gave up waiting.
RegistrationsAgree ==
  \A g \in Of("register") :
    /\ g \in regs /\ g \notin rRegs /\ connected =>
         \/ \E u \in Of("unregister") :
              Target[u] = g /\ (pc[u] = "wait" \/ outcome[u] = "timeout")
         \/ \E l \in Of("leave") : pc[l] # "new"
    /\ outcome[g] = "ok" /\ g \notin regs => g \notin rRegs

\* A handler whose subscribe succeeded and that nobody unsubscribed is still in the table:
\* one handler's unsubscribe never takes another one's events away.
HandlerKept ==
  \A h \in Of("subscribe") :
    outcome[h] = "ok" /\ (\A u \in Of("unsubscribe") : Target[u] = h => pc[u] = "new")
      => h \in subs /\ Topic(h) \in subEntry

\* The router knows every topic the session has handlers for, unless the session or the
\* router has left.
SubscriptionsAgree ==
  \A h \in subs : connected /\ (\A l \in Of("leave") : pc[l] = "new") => Topic(h) \in rSubs

\* The session's tables and the router's agree on registrations and, in an application that
\* uses a topic from one goroutine at a time, on subscriptions.
TablesAgree == RegistrationsAgree /\ (load.serial => HandlerKept /\ SubscriptionsAgree)

\* An INVOCATION finds its handler (the type assertion of session.go panics if it does
\* not) except in two windows: the register that will store it has not run since the reader
\* passed it REGISTERED, or gave up waiting at that moment; or it is a later chunk of an
\* invocation whose procedure was unregistered after the first.
HandlerMissingOnlyEarly ==
  reader = "reading" /\ toSession # <<>> /\ Head(toSession).type = "INVOCATION" =>
    LET g == Head(toSession).reg
    IN  g \in regs \/ pc[g] = "wait" \/ outcome[g] = "timeout" \/ Head(toSession).chunk > 0

\* An EVENT finds the entry of its subscription ("received EVENT for unknown subscription"
\* ends the reader) except while a subscribe of that topic has not run since the reader
\* passed it SUBSCRIBED, or gave up waiting: no EVENT is read after UNSUBSCRIBED took the
\* entry away.
EventMissingOnlyEarly ==
  reader = "reading" /\ toSession # <<>> /\ Head(toSession).type = "EVENT" =>
    LET t == Head(toSession).id IN
    t \in subEntry \/ \E r \in Of("subscribe") : Topic(r) = t /\ (pc[r] = "wait" \/ outcome[r] = "timeout")

\* The reader misses a handler only in these windows, none of which an unregister, or an
\* unsubscribe in an application that uses a topic from one goroutine at a time, opens by
\* being answered.
HandlersMissedOnlyEarly == HandlerMissingOnlyEarly /\ (load.serial => EventMissingOnlyEarly)

-----------------------------------------------------------------------------
(* Liveness                                                                *)

NoCallWaits == \A r \in Of("call") : pc[r] \notin {"wait", "cancel"}

\* When the transport is lost, "every call still blocked on that session unblocks"
\* (callcanceling_test.go), unless the reader has ended, which in a session that also makes
\* other requests an early EVENT or a late reply does to it, or is blocked: a chunk sent
\* after its call has returned opens the call again at the router, and the answer to that
\* may find the response channel full with nobody left to empty it. A GOODBYE the reader has
\* taken unblocks every call too, once onLeave has returned. A call whose CANCEL waits for
\* room in the queue is not covered until it has got it: nothing reaches it in that Write.
CallsUnblock ==
  /\ []<>(transport = "lost" => NoCallWaits \/ reader \in {"dead", "panic", "blocked"})
  /\ []<>(left \/ reader = "leaving" => NoCallWaits)
=============================================================================
