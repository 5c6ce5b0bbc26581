# A TLA+ verification project for xconn-go

xconn-go is a WAMP v2 router and client library in Go. This directory holds TLA+
modules that model its concurrent parts (the transports, the client session, a realm of
the router, the listeners and the handshake, the management API, and the device framework
`xconn`), TLC configurations that check them on small instances, and TLAPS proofs.
`PROJECT.json` is the machine-readable index: components, runs, mutants, the map from
definitions to source lines, findings, hazards, theorems.

- `tlc -workers 2 -config <run>.cfg <module>` checks a run.
- `tlapm <module>_proofs.tla` checks the proofs about a module.

## 1. The system

### Components and their state

| component | source | state it keeps | operations | module |
|---|---|---|---|---|
| RawSocket peer | `peer.go` 537-744 | `closed`, mutex, `writeChan`, `ctrlChan`, `closeChan`, `doneWriting` | `Read`, `Write`, `TryWrite`, `Close`, goroutine `writer`, `closeAfterWriteError` | `RawSocketPeer` |
| WebSocket peer | `peer.go` 282-535 | the same, and `pingCh` and the pinger | `Read`, `Write`, `TryWrite`, `Close`, goroutines `writer`, `startPinger` | `WebSocketPeer` |
| in-memory pair | `peer.go` 746-905 | `wmu`, `closed`, `writeChan` at both ends of a `net.Pipe` | `Read`, `Write`, `TryWrite`, `Close`, goroutine `writer` | `LocalPeer` |
| client session | `session.go`, `types.go` | `connected`, `leaveChan`, `goodbyeChan`, maps of pending requests, registrations, subscriptions, progress handlers, invocation cancels | `Call` and its progressive forms, `Register`, `Subscribe`, `Publish`, `Unregister`, `Unsubscribe`, `Leave`; the reader's `processIncomingMessage` | `Session` |
| realm, client handling | `realm.go`, `router.go`, `server.go` | `clients`; dealer, broker (library) | `AttachClient`, `DetachClient`, `ReceiveMessage`, `Close`, `RemoveRealm` | `Realm` |
| listeners | `server.go`, `webtransport.go`, `streamauth.go` | `done`, wait group, channels of sessions and raw streams, one authentication per connection | accept loops, dispatch of streams, `HandleClient`, `Close` | `Listener` |
| acceptors, joiners | `acceptor.go`, `joiner.go`, `client.go` | handshake state | `Accept`, `Join` | `Listener` |
| meta and management API | `meta.go`, `management.go` | statistics loggers, rate tracker, session log trackers | kill, statistics on a ticker, session logs | `Management` |
| device run loop | `xconn/run.go`, `credentials.go` | credentials file, detach channel, the active sessions | wait for credentials, serve, reconnect, detach | `Device` |
| device authenticator | `xconn/auth.go` | principals in memory and in a file | list on connect, add and remove events, `Authenticate` | `Authenticator` |
| bridge | `xconn/bridge.go` | one app-layer session per remote caller | forward a call, leave one, leave all | `Bridge` |
| relay | `xconn/relay.go`, `helpers.go` | queue of messages, buffered amount, `closed`, `sendReady` | both directions of a data channel | `Relay` |
| standalone mode | `xconn/standalone.go` | the listener it owns | select loop, `drain`, deferred closes | `Listener` |
| router administration | `router.go` | `realms`, aliases, authorizers | `AddRealm`, roles, `EnableMetaAPI` | none |
| nxt daemon, parser, builders, helpers | `nxt/`, `cmd/nxt`, `parser.go`, `helpers.go` | configuration | validation, typed accessors | none |

### How they interact

An application calls the session; the session writes to a peer (`Write`, which may wait
for room) and a reader goroutine reads from it. On the router a listener accepts a
connection, an acceptor answers the client's joiner, and `HandleClient` runs one
goroutine per client: attach to the realm, then read and `ReceiveMessage` until an error,
then detach. `ReceiveMessage` asks dealer or broker and delivers the answers to other
clients' peers with `TryWrite`, which does not wait for room, only for the peer's mutex.
Goroutines of different clients meet
in the map of clients, in dealer and broker, and in the recipients' queues. Inside a peer
the callers, the reader, the writer, the pinger and whoever closes it meet in two bounded
channels, one flag and (but for the WebSocket peer's sends) one mutex.

Meta and management API are sessions of the router itself: their procedures run in
goroutines of that session, without locks, and kill writes to other clients' peers with
the `Write` that waits.

A device runs a router of its own for its apps. `Run` waits for the credentials file,
serves, and keeps a goroutine that connects to the cloud: it lists and follows the
principals (the authenticator of the device's listeners), registers a bridge that lets
remote callers call the apps, accepts raw streams and data channels and relays them, and
listens for its own detach.

### What is hard

- **closing**: by several goroutines at once, under a writer in the middle of a frame,
  under a sender waiting for room. Channels must be closed once and never sent on later.
- **full queues**: `Write` waits (some with a mutex held), `TryWrite` drops.
- **late and early messages**: answers after a timeout, events before the subscription's
  handler is stored, chunks after their call has returned or their procedure has gone, a
  call handled after its caller's leave.
- **loss**: the transport goes while calls wait, or a client while others route to it; a
  connection goes in the middle of a handshake or while raw streams wait for it.
- **shutdown**: `Router.Close` while clients attach, detach and say goodbye; a listener
  that closes the channels its streams send on; a relay with messages in its queue.
- **restarts**: a device that is detached and attached again, a process that ends between
  truncating and writing its file.
- **unprotected state**: the maps of subscription handlers, of principals, and the
  management API's flags and channels.

The list `hazards` in `PROJECT.json` gives each at its line, with the properties that
watch it, or why none does.

### What makes each part correct

A peer: what it accepts leaves in order, once; it closes once and then leaves nobody
waiting and nothing running. A session: every request ends, whatever the router and the
network do; its tables agree with the router's; an answer never disturbs an unrelated
request. A realm: per-sender order, one final answer per call, no routing to a client that
is gone, nobody waits for a client that does not read, and shutdown reaches everyone. A
listener: raw streams only after an authentication of their connection, no send on a
closed channel, and every goroutine ends once listener and connections are gone. A
handshake: nobody is left waiting. Management: a stop stops what was started, a kill
reaches its target. A device: it follows its attachment, and what a left cycle had is
given back. The authenticator: memory, file and cloud agree. The bridge: one session per
caller, closed in the end. The relay: order, no loss at the close, and back-pressure that
ends.

## 2. The modules

`OutQueue` is the abstract specification of a transport's sending side: messages are
numbered as they are accepted, at most capacity + 1 of them wait, they leave in order,
and once transmission has stopped it does not resume. All three transports are shown to
implement it. (Messages are numbers, as the transports never look inside.)

**`RawSocketPeer`** models one `RawSocketPeer`. Steps: the critical sections of
`TryWrite` and `Write` (a `Write` that finds the queue full stays in its section,
`WriteLock` then `WriteSend`), `Close` (`CloseLock`, then `CloseConn` once `doneWriting`
is closed; there is no time limit), the writer (take from either channel, header, payload,
failure, `closeAfterWriteError`), the reader (ping, pong, error), and the connection,
which stalls, resumes and breaks. A frame is a header and a payload: `torn` says that only
the header went out.

**`WebSocketPeer`** models one `WebSocketPeer`. Here `Write` and `TryWrite` check
`closed` under the lock and send after the unlock (`CheckClosed`, `Send`), and `Close` is
three steps (`CloseMark`, `CloseSignal`, `CloseConn`) that the application, the writer,
the pinger and the reader may all be in. The pinger ticks, queues a ping and waits for a
token in `pingCh` or the timeout. A load says whether the peer is kept alive, how many
messages it is given and how many stray pongs it gets.

**`LocalPeer`** models both ends of the in-memory pair over one `net.Pipe` (external: a
write ends when the other side has read it or either end is closed). `Close` closes
`writeChan`, waits at most a second for the writer to drain it, and closes the pipe.

**`Session`** models a client session against a conforming router (external). Each request
of the load is one goroutine of the application and moves through "new", "send", "wait",
"cancelling" (in the `Write` of its CANCEL), "cancel", "returned"; the steps between are
the places where another goroutine can come in. One `Read...` action per case of
`processIncomingMessage`. Handlers of invocations are goroutines of their own. Timers may
fire once armed. The handler maps are unprotected in the code, so a write that meets the
reader's iteration may end the process (`WriteMap`). A load says whether the application
uses a topic from one goroutine at a time (`serial`): the properties about subscriptions
are about such applications, since otherwise an unsubscribe that is answered late takes
away the entry with the handlers a subscribe has put into it meanwhile. A request undoes
one of its own load (`TargetAssumption`).

**`Realm`** models a realm and the goroutine of each client. Each access to the map, the
broker or the dealer is a step of its own, and so is each delivery, so that attach,
detach, delivery and `Router.Close` interleave as they do in Go. `ReceiveMessage` and the
call into dealer or broker are one step (each has its own lock); what they return is
modelled from what `realm.go` does with it (external). Authorization is the load's
`denied` pairs. Queues are bounded and drop. Beside the goroutines run the kills of the meta
API (`killer`): a kill's `Write` waits for room, and on a raw socket or a local peer it has
the peer's mutex meanwhile (`Locked`), without which no delivery to that client and no
`Close` of it goes on. `Realm.Close` is a step each for GOODBYE, for the peer's `Close`, for
the return from it (a raw socket's waits for its writer, `CloseReturns`, and need not
return), and for the parts of `DetachClient`.

**`Listener`** models a QUIC, a WebTransport or a TCP listener (`kind`) from `Accept` to
`Close`: the accept loop, the goroutine of a connection, the goroutine of every stream
(dispatch by the magic byte, acceptor, attach, message loop as one state, or the wait for
`connAuth` and the delivery as a raw stream), the goroutine that announces a session, the
joiner at the other end with the message that is under way, `RemoveRealm`, and
`RunStandalone` with `drain` and its deferred calls, as the owner. The protocol machines
of wampproto are external: any answer they may give is given.

**`Management`** models the procedures that change something: enabling and disabling the
statistics and their interval, with the loggers (`startMemoryLogging`) and the router's
rate tracker (`setMessageRateTracking`) as goroutines; session logs with their
`messageTracker`; and the kill procedures with the readers that detach what was killed. A
client has a peer of a kind: "raw" and "stream" (QUIC), whose `Close` may wait for a writer
in the middle of a write for as long as the link stalls, or "timed", whose `Close` does not.
Every access to a field is a step, as invocations run side by side. A channel is named by
the call that made it, so that a logger that re-reads the field can meet a newer one.

**`Device`** models `Run`: waiting for the file (look, watch, read), a cycle, and the
goroutine that reconnects (connect, second session, publish, set up, subscribe to the
detach, online, disconnect). A cycle is named by its attachment, so that goroutines of
an old cycle and files of a new one are told apart. A connection whose second session could
not be opened stays open (`refused`), and is out of anybody's reach once the next attempt
begins (`forgotten`).

**`Authenticator`** models the two copies of the authorized keys. Principals are pointers
in the code, shared between the map and handlers that hold them: `objects` are those,
one generation per list. Events are handled by concurrent goroutines, each of which reads
the file, changes memory, truncates and writes; any of the writes may fail, before the file
is opened or after.

**`Bridge`** models `callerSessions`: each app-layer session is named by the call that
opened it, and a session taken out of the map is in `leaving` until `Leave` is called.

**`Relay`** models `handleDataChannel` and `relayDataChannel` with `deliverUnlessClosed`: dial,
header and first message, before which no callback is set (messages that come earlier are
`missed`, and a close that is signalled earlier is `told` to nobody), the callback, the writer
and its drain after the close, and the main goroutine with the back-pressure of the
channel's buffer (`buffered`, the token `sendReady`).

`MCWebSocketPeer`, `MCLocalPeer`, `MCSession`, `MCRealm`, `MCListener` and `MCManagement` give
these modules their instances. `WebSocketPeer`, `Session`, `Realm` and `Management` choose one
of several loads in `Init` (the variable `load`, or `ops`), so that one run covers
workloads that would be too large together; a load never changes. The theorems of section
4 are in a module of their own for each module they are about: `RawSocketPeer_proofs`,
`WebSocketPeer_proofs`, `LocalPeer_proofs`, `Session_proofs`, `Realm_proofs`,
`Listener_proofs`, `Bridge_proofs` and `Relay_proofs`.

The type invariant is a conjunct of the first safety property of each module (of
`AttachmentsFollowed` in `Device`, an invariant of its own in `RawSocketPeer`).

Definitions called "Faulty variant" are mutants: each changes the definition that follows
it the way a plausible mistake would, and TLC then refutes the property that
`PROJECT.json` names.

## 3. The runs

| run | instance | what it shows |
|---|---|---|
| `RawSocketPeer` | 2 callers (`Write`, `TryWrite`), 1 closer and the failing writer, queues of 1, 2 messages, 2 pings | `InOrder`: no loss, repetition or overtaking between queue and connection; `CloseSafe`: `closeChan` closed once, connection closed only after the writer; `NoFrameAfterTorn`; `ImplementsOutQueue`; `WaitsEnd`: unless a `Write` is parked, a failed write closes the peer, `Close` returns, the reader gets rid of its pong |
| `RawSocketPeerBlocked` | the same with `Write` only | `FailureClosesPeer` is violated: section 5 |
| `WebSocketPeer` | 1 caller, 1 closer, queues of 1; kept alive with 1 message and 1 stray pong, or 3 messages without keep-alive | `ClosedOnce`; `PingWindow`: at most one ping waits, and one more per stray pong; `ImplementsOutQueue`; `GoroutinesEnd`: a stalled link closes a peer that is kept alive, and a closed peer leaves no goroutine |
| `LocalPeer` | one caller and closer per side, queue of 1, 3 messages from the client, 2 from the router | `NoSendOnClosedChannel`; `CloseDrains`; `ImplementsOutQueue` in each direction; `CloseTearsDownPair`: `Close` returns unless a `Write` is parked, and takes the other end down |
| `Session` | five loads: two calls (deadline and progressive results; chunked arguments); register, unregister, publish with chunked invocations; the same with interrupts; two handlers of a topic and `Leave`; a call beside a subscription | `ReaderNotStopped`: no reply to a call ends or blocks the reader; `InvocationStateKept`: INTERRUPT finds the newest chunk's handler, later chunks keep the send-progress function; `TablesAgree`: session and router agree on registrations and, where a topic is used from one goroutine at a time, on subscriptions, and one handler's unsubscribe keeps the other; `HandlersMissedOnlyEarly`: the only windows in which INVOCATION or EVENT finds no handler; `CallsUnblock`: loss and GOODBYE end every waiting call, but for one whose CANCEL waits for room |
| `Realm` | 2 clients, queues of 1; six loads: RPC with cancel, pub/sub with a denied publisher, shutdown and removal of the realm under a client that says goodbye, a kill of a callee or subscriber, kills of both clients, a kill and a shutdown of one client | `DeliveredInOrder`: INVOCATION before INTERRUPT, events in order; `CallsAnsweredOnce`: one final answer, and one for a cancelled call; `DetachForgets`; `ShutdownDisconnects`; `DeliveriesEnd`: a goroutine gets through its deliveries though queues stay full for ever; only a kill that waits with the mutex of the recipient's peer holds it up |
| `Listener` | the three kinds, 1 connection, 3 streams of which 2 (QUIC) or 1 join, channels of 1 | `NoSendOnClosedChannel`; `RawAfterAuthentication`: raw streams come with the session of their own connection; `ListenerWindsDown`: no raw stream waits for ever, a closed QUIC listener without connections closes its channels, and its owner returns; `ClientsSettle`: no client waits in `Join` unless the server gave up silently, and one that joined is served |
| `Management` | 2 clients, two pairs of kinds of peer, 3 calls of which 2 at a time, 2 kills; three loads: statistics, kill, session logs | `GoroutinesAccounted`: trackers alive are the ones in use and those whose stop was lost, and only overlapping calls close a channel twice; `LoggersStop`; `KillsReach`: whoever is killed loses its transport and its place, unless the kill waits for ever for a client that does not read, for room or in `Close` |
| `Device` | 2 attachments | `AttachmentsFollowed`: a detached device leaves its cycle, one that waits goes on with new credentials; `LeftCycleDisconnects`: the goroutine of a left cycle ends and its connections are closed, but for sessions published late and for cycles with a refused second session; `OwnCredentialsKept` |
| `Authenticator` | 2 authids, 2 keys, 2 changes, 2 lists, failing writes, crashes | `SyncedWhenFollowed`: memory, file and cloud agree when no handler is under way, but for what `clean` names |
| `Bridge` | 2 callers, 3 calls | `SessionsAccounted`: no session lost or shared; `SessionsEnd`: closed in the end, but for a call handled after the leave |
| `Relay` | queue of 1, marks 4 and 2, frames of 1 to 3, 3 messages up, 4 frames down | `RelayedInOrder`: in order, none twice, none lost that came between the setting of `OnMessage` and the close; `BackpressureEnds`; `RelayEnds`: unless the app does not read, or the close came before `OnClose` was set |

**Bounds.** A queue of one message and one more in the writer's hand already gives the
states empty, partly full, full and full with a waiter. Two callers are enough for a race
between sections under one mutex, and a third goroutine (closer, writer or pinger) for the
closing races. Three messages from the client put one in hand, one in the queue and one in
a parked `Write`. Two unasked messages of the router give "early" and "late" of each kind;
two chunks let an invocation's second chunk replace the first one's cancel function. Two
clients are enough for a caller and a callee or a publisher and a subscriber, and for a
kill of the one or of both; what a third adds, other publishers' events in between, does
not enter the properties. Histories (`seen`, `answers`, `dropped`) are bounded by the
load's `sends` and `number`; the invariants of `Realm` are proved for any number of them,
so its loads are kept small enough for the liveness check. On a listener three streams are
a session that authenticates, a raw stream that waits for it and one more of either; two
joins let a second session follow the connection's first. Two connections would only add
what is independent, as everything but the channels and the wait group belongs to one. Two
statistics calls at a time give every overlap of two, a third call a successor to what
they left. Two attachments let an old cycle's goroutine meet a new cycle's file. Two
changes overlap, two lists let a handler of the old list meet the new one. Three calls
through a bridge let one caller come again while another's session is open. The relay's
marks 4 and 2 with frames of 1 to 3 have frames below, at and above the distance of the
marks. No symmetry is used, since most runs check liveness or have asymmetric clients.
`CHECK_DEADLOCK FALSE` is set everywhere: closed peers, returned requests, ended clients
and exhausted bounds are legitimate final states; waiting for ever is stated by liveness
properties.

**Fairness.** Go runs every runnable goroutine, hands a mutex over to a goroutine that
has waited for a millisecond, serves channel waiters in order, and fires armed timers.
Hence weak fairness of each goroutine's next step, and strong fairness where it competes
for a mutex or a channel (`RawSocketPeer`, `LocalPeer`). No run assumes that an
application starts anything. In particular:

- `RawSocketPeer` assumes of the network that a stalled connection drains again or breaks
  (its writer has no deadline); `WebSocketPeer` assumes nothing of it, and nothing of its
  callers;
- `LocalPeer` assumes that the router side reads again, as its handlers never block;
- `Session` assumes its reader and the calls that can go on, not that the router answers nor
  that a `Write` finds room (no sending step is fair);
- `Realm` assumes that a goroutine goes on with its deliveries and that a
  `Write` takes the room it gets. No client has to read and no `Close` has to return;
- `Listener` needs only that something of what server, streams and joining clients can do
  is done: the streams are bounded, so each of them gets there;
- `Management` assumes handlers, loggers and readers, not that a client reads: a `Write` may
  wait for ever, and so may the `Close` of a peer whose writer is in the middle of a write;
- `Device` assumes its goroutines, that a file that is begun is finished, and that a
  device that tries again and again is told in the end that its realm is gone (strong
  fairness: single attempts may fail for other reasons);
- `Bridge` assumes its handlers and that `Leave`, which has a time limit, returns;
- `Relay` assumes its goroutines, that the remote side reads, and that the data channel
  calls `OnClose` once `OnMessage` has returned, if it is set by then. It does not assume
  that the app reads or sends: no write to the connection is fair.

`Authenticator` states no fairness; its property is an invariant.

**Parked writes.** `RawSocketPeer.Write` and `localPeer.Write` wait for room with the
mutex held. The liveness properties of those modules exclude exactly the states `Parked`
and hold everywhere else; that a parked `Write` is a real problem is what
`RawSocketPeerBlocked` shows.

## 4. The proofs

Each theorem holds for **every** value of the constants that satisfies the named ASSUMEs
of its module: queue sizes and capacities are positive naturals, bounds are naturals, names
that stand for "nobody" are not processes, operations and loads have their types, and an
unregister or unsubscribe undoes a register or subscribe of the same load. Sets
are assumed finite only where something is counted (the callers of `WebSocketPeer`, the
connections of `Listener`, the clients of `Realm`). TLC evaluates the ASSUMEs on every run.
Each proof module has one inductive invariant (`Inv` or `IInv`), shown to hold initially
and to be kept by each action, one lemma per action or group of actions; the theorems are
its consequences.

| module | theorem | what is proved |
|---|---|---|
| `RawSocketPeer` | `TypeCorrect`, `QueuesInOrder`, `ClosesSafely`, `MutualExclusion` | `TypeOK`, `InOrder`, `CloseSafe`, `SenderHoldsMutex` are invariants |
| | `NoAcceptanceAfterClose`, `NothingAfterTorn` | action properties |
| | `RefinesOutQueue` | it implements `OutQueue` |
| `WebSocketPeer` | `ClosesOnce`, `PingsBounded` | `ClosedOnce`, `PingWindow` |
| | `RefinesOutQueue` | it implements `OutQueue` |
| `LocalPeer` | `SendsOnOpenChannel`, `DrainsOnClose` | `NoSendOnClosedChannel`, `CloseDrains` |
| | `RefinesOutQueue` | both directions implement `OutQueue` |
| `Session` | `TypeCorrect`, `ReaderGoesOn`, `KeepsInvocationState` | `TypeOK`, `ReaderNotStopped`, `InvocationStateKept` |
| | `TablesAgreeAlways`, `MissesOnlyEarly` | `TablesAgree`, `HandlersMissedOnlyEarly` |
| `Realm` | `DeliversInOrder`, `AnswersOnce`, `DetachesForget`, `ShutdownDisconnectsAll` | `DeliveredInOrder`, `CallsAnsweredOnce`, `DetachForgets`, `ShutdownDisconnects` |
| `Listener` | `SendsBeforeClose`, `RawStreamsAuthenticated` | `NoSendOnClosedChannel`, `RawAfterAuthentication` |
| `Bridge` | `SessionsAreAccounted` | `SessionsAccounted` |
| `Relay` | `RelaysInOrder` | `RelayedInOrder` |

**`RawSocketPeer`.** `Inv` adds three facts to the invariants: *HandsEmpty* (a selecting
writer holds nothing, without which taking a message could overwrite one and break
`InOrder`), *TornStops* (a torn frame has stopped the writer, without which
`NoFrameAfterTorn` could fail), *WaiterClosed* (who waits for the writer in `Close` has
marked the peer closed, without which `CloseConn` could break `ConnOutlivesWriter`).
`SenderHoldsMutex` is needed for `NoAcceptanceAfterClose`: the parked sender was let in
before `closed`, and nobody sets `closed` while it holds the mutex. The queue argument is
in three lemmas about `Fifo` (append, take, write). The refinement uses `Backlog` (what was
accepted and not sent is in hand or queued, so there is room in `OutQueue` whenever there
is room in the channel); `sent` grows only by a completed payload of a data frame, which
is `Transmit`, and the writer's failure or end is `Stop`.

**`WebSocketPeer`.** *OneSignal* lists the three states of closing: open; closed and
exactly one goroutine about to close `closeChan`; closed and signalled. It needs
*OwnClose*: writer, pinger and reader enter `Close` only after they have stopped, so none
is in it twice. *PingBudget* counts every ping and pong token wherever it is (control
queue, the writer's hand, sent and unanswered, `pingCh`) against the one the pinger waits
for and the stray pongs; `PingWindow` is what remains of it for the queue.

**`LocalPeer`.** *Numbered* says, for each direction, that what is received, in hand and
queued are consecutive numbers; *Drained*, that a writer that ended without a failure found
the channel closed and empty. With `NoSendOnClosedChannel` (nothing is queued after the
close) this gives `CloseDrains`.

**`Session`.** The theorems are about any requests of any kinds, any loads and queues of any
length; the inductive invariant was checked with TLC on nine loads before it was proved.
It has five parts.

- *Shape*: types; whom a message on its way is about; that an entry of the request tables
  belongs to a request that waits; that a reader which is blocked or dispatching still has
  the message it is about.
- *TInv* follows a request that is not `Leave` and sends no chunks. Its message, the open
  call at the router, the reply on its way and the reply in its channel exclude each other
  (*TokenInv*), and no queue has two messages for it (*OnceIn*). So the channel that the
  next reply is for is empty, which is `ReaderNotStopped`. A call that sends chunks breaks
  exactly this, as a late chunk asks again.
- *RInv*: where the router has a registration, or an INVOCATION of it is on its way, the
  session has the handler or *Granted* holds: the register was let through and its
  goroutine has still to see it, or timed out. The hard case is unregister, which forgets
  the handler when it reads UNREGISTERED: no first INVOCATION may come after it in the
  queue, nor be left when the reply is in the channel (*UnregInv*).
- *SInv*, for loads that use a topic from one goroutine at a time, is the same for topics
  and EVENTs. It needs that two requests of a topic are never both under way (*AloneInv*);
  that an unsubscribe which tells the router has left no handler of its topic (*UnsubInv*);
  and that no UNSUBSCRIBE follows a SUBSCRIBE that is still on its way, unless the
  subscribe gave up (*SubInv*): the router would forget a topic the session is about to
  get a handler for.
- *IInvs*: of two chunks of an invocation, handlers and messages on their way taken
  together, the earlier said that more comes and has the smaller number, and the router's
  count is not behind (*ChunkIn*); an INTERRUPT is the last the router says of an
  invocation (*StopIn*); a later chunk of a call that asked for progress finds the
  send-progress function, or comes after the chunk that stores it (*ProgressQueue*,
  *ProgressMore*). Without *ChunkIn* neither the cancel function that replaces an older
  chunk's nor the deletion by the last chunk's handler could be shown to leave the newest
  one in place.

Each part is shown for what a step does to one request (*Moves*), to the head of the queue
(*Hears*) and to its end (*Said*), so that the lemmas about queues (`Shorter`, `Longer`)
carry most of the work.

**`Realm`.** *Place* says where a client is listed, by where its goroutine is. It speaks of
clients whose transport is open as well as of the time before any close, since
`Realm.Close` takes clients away under their goroutines, and only such whose transport it
has closed (*Closing*). A kill only closes transports and adds GOODBYEs to queues, which no
clause speaks of. For the order of deliveries, that the queues are in order is not
inductive: what is about to be queued must be newer than what is queued already. *Passed*
(the maker's goroutine has read call or publication n), *Settled* (... and has nothing of
it left to deliver) and *Told* (... nothing for this subscriber) relate a number to its
maker's inbox and batch; whatever is queued is settled or told, and all three are stable
(lemma `KeptFacts`): an inbox only gets numbers that are newer than all, a batch only what
was just read. An INTERRUPT follows from a CANCEL of the caller, whose goroutine has by
then delivered the INVOCATION, or from a PROGRESS of a callee that has received it. That
the events of one publication go to distinct subscribers comes from the broker's answer
(`SetToSeqs`, lemma `PublishAnswer`).

`CallsAnsweredOnce` needs, per call, an account of its answers (*Budget*): before the call
is settled there are none; while it is open at the dealer and its INVOCATION was not
dropped there are none either; and an answer that is about to be delivered is the first,
or the second of a call that was both dropped and cancelled. The dealer can close a call
after its INVOCATION was dropped only for a CANCEL, because whoever answers an invocation
has received it (*InboxInv*) and nobody has (*LostInv*); and the CANCEL is read by the
same goroutine that told the caller of the drop, hence afterwards. *CancelOK* follows the
ERROR of a cancelled call through the batch of `handleCancel`: still to be delivered,
queued, dropped, or given up because caller or callee is disconnected. Neither could be
stated without *Settled*, which is why the two arguments share one invariant.

**`Listener`.** *Counted* equates the wait group with the connections' handlers and the
goroutines that announce sessions, by kind of listener; *Served* ties a running stream to
a counted handler. Hence when the count is zero, which is when the QUIC loop closes the
channels (*ClosedLast*), nobody is left who could send. For the raw streams, the session a
connection has is an attached stream of the same connection (*Sessions*).

**`Bridge`.** The sessions on their way out (`leaving`) are open and no longer in the
table (*LeavingOut*), and a number that is not in use belongs to no call (*Unused*,
*Unopened*), so that opening one never reuses another's.

**`Relay`.** *Queued*: what is written, then the hand, then the queue, is what was
accepted. *Ended*: a writer that has ended and was not cut off has seen the close and
written everything from before it; *Counted*: what arrived is missed, accepted or in the
callback, as long as no close was signalled; *OwnConn*: nobody but the main goroutine, by
returning, closes the connection under a running writer.

Only model-checked, and why:

- all liveness, `DeliveriesEnd` included: the prover has neither fairness nor ENABLED;
- `Management`, `Authenticator` and `Device`: no proof was attempted. Their invariants are
  about short windows with named exceptions (calls that overlap, a list that races with
  events), which the runs enumerate.

## 5. Findings

`RawSocketPeerBlocked` is violated against a comment of the repository (quoted in
`PROJECT.json`): a `Write` parked on the full queue holds the mutex that
`closeAfterWriteError` needs; the queue is never drained again, and the peer never closed.

The other surprising behaviours are in the models and are named as exceptions by
properties that hold otherwise.

*Transports*

- a `Write` of the WebSocket or in-memory peer that waits for room when the peer closes
  or its writer ends is never woken (`Parked`; `Send` of `WebSocketPeer`).

*Session*

- the handler of a subscription is stored by the subscribing goroutine after the reader
  has passed it SUBSCRIBED. An EVENT that is read in between, and a REGISTERED or
  SUBSCRIBED that arrives after the request's ten seconds, end the reader; the session
  stays "connected" and a later loss of the transport unblocks no call, though
  `callcanceling_test.go` 405-407 says it does (`CallsUnblock`);
- an INVOCATION read before its handler is stored, or a later chunk read after
  unregister, fails an unchecked type assertion and panics (`HandlersMissedOnlyEarly`);
- a chunk sent after its call has returned opens the call again at the router, and the
  second answer may block the reader (`CallsUnblock`);
- a call whose context is done writes its CANCEL with the `Write` that waits for room, and
  watches neither its channel nor the end of the session meanwhile (`CallsUnblock`).

*Realm*

- `handleCancel` logs and continues when the callee has left the map ("so remaining
  messages still go out", `realm.go` 164-165), but returns when the callee is closed and
  not yet detached: the caller gets no ERROR (`CallsAnsweredOnce`);
- a dropped INVOCATION is reported to the caller but stays open at the dealer, so that a
  CANCEL on its way produces a second answer (`CallsAnsweredOnce`);
- a client's own detach and `Realm.Close` stop at each other's errors, and a client that
  is half attached then stays with the dealer (`DetachForgets`); after `RemoveRealm`
  nothing is detached;
- a kill of a client that does not read waits for room with the mutex of that client's peer
  (raw socket, local peer): `TryWrite` and `Close` wait for it, and with them every goroutine
  that has something for that client, and `Router.Close` (`DeliveriesEnd`). `TryWrite` is
  there to avoid just this;
- `Router.Close` waits in a raw socket's `Close` for as long as that client's link stalls
  (`CloseReturns`), and the clients behind it are not told.

*Listeners and handshake*

- WebTransport never closes its channels: `drain` and the goroutines of `RunStandalone`
  stay, and "listener stopped" is never reported (`ListenerWindsDown`);
- an unregistered serializer, or an error of the acceptor, ends the stream's goroutine
  and leaves stream and client open: the client waits in `Join` (`ClientsSettle`);
- the RawSocket acceptor does not check the realm, and a failed attach after WELCOME
  leaves the client with a stream nobody reads (`ClientsSettle`);
- `Close` of a QUIC stream ends only its own direction, so a killed or shut-down client's
  reader goes on until the client closes (`KillsReach`); a failed `Peek` counts as raw.

*Management*

- a logger reads `m.stopMemStats` again in every turn; calls that overlap can close a
  channel twice (panic) or leave loggers behind (`overlap`);
- the stop signal to the rate tracker is sent without waiting: if the tracker is busy it
  is lost and the tracker stays (`lost`);
- `messageTracker.Stop` receives where it should send: no tracking goroutine ever ends
  (`stops`);
- kill writes GOODBYE with the blocking `WriteMessage`: a target that does not read stops
  a kill of many there; with room left it gets to `Close`, which on a raw socket waits for the
  writer without limit (`peer.go` 728); a write error skips the `Close` (`KillsReach`).

*Device framework*

- a device that is connected and not yet subscribed to its detach misses it until the
  connection goes (`deaf`); sessions published after `Run` has looked for them stay
  open (`Late`); when the second session cannot be opened only the first session is closed,
  and the connection lives on by its keepalive, also after the cycle (`refused`, `run.go` 146);
- credentials finished between the look for the file and the watch are not seen
  (`unseen`); a file that is read half written ends `Run`; newer credentials may be
  removed by the detach of older ones (`run.go` 280);
- `auth.go` 23-24 says that the principals stay in sync and persisted; five
  things break it until the next list (`clean`): a change between the list and the
  subscriptions, handlers that overlap, a key for an unknown authid (a nil entry is stored,
  and dereferenced later), the last key of a principal, which stays in the file, and a write
  of the file that fails, which is only logged;
- a call handled after its caller's leave, or after `leaveAll`, opens a session that is
  closed late or never (`late`);
- a frame larger than the distance of the relay's marks may wait for ever (`Fits`); the
  tail of the messages is lost when the app's side ends first (`cut`); a callback stays
  blocked when the writer has failed (`Wedged`);
- messages that come before `relayDataChannel` has set `OnMessage` are lost
  (`missed`); a channel that closes
  before `OnClose` is set leaves the relay's writer for good, and main until the app ends
  (`CloseUnheard`); an app that does not read keeps a relay whose channel is closed
  (`AppKeepsWaiting`).

Seen and not modelled: `paginateList` with a negative offset panics (`management.go` 338);
`AddRealm` with an authorizer looks for the realm before it is stored and always fails
(`router.go` 137); with session logs switched on, `peer.go` 171-244 publishes from within
the delivery of a message, which may then wait for the management session
(`DeliveriesEnd` is about a realm without session logs).

## 6. Not modelled, and the plan

Left out for good: argument parsing and request builders, URL handling and serializer
choice, the nxt configuration and command lines (sequential, stateless or start-up only),
router administration (single stores into concurrent maps at start-up), meta and
management procedures that only read, rate limiting, publishing of session logs,
`RelayStream` and `spliceConns` (two `io.Copy`), the WebRTC provider, cryptography, and
the dealer and broker themselves (other libraries).

What could come next: composition of `Session` and `Realm` over `OutQueue`, in place of the
conforming router that `Session` assumes, and proofs about `Management` and
`Authenticator`.
