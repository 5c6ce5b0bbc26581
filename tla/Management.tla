----------------------------- MODULE Management -----------------------------
(***************************************************************************)
(* The management API (management.go) with the router's message rate       *)
(* tracking (router.go), the trackers of session logs (peer.go), and       *)
(* killSession with the procedures that use it (meta.go).                  *)
(*                                                                         *)
(* Every invocation is handled by a goroutine of its own, and nothing here *)
(* takes a lock: two calls may interleave at each step.  Procedures that   *)
(* only read are left out.  The transports of the clients are external.    *)
(***************************************************************************)
EXTENDS Naturals, FiniteSets

CONSTANTS
    Clients,   \* sessions of the realm, without the caller and the API's own
    Peers,     \* what peers the sessions may have: a set of functions to Kinds
    Workloads, \* what is invoked: sets of operations, one for each kind of run
    MaxCalls,  \* bound: invocations
    MaxOpen,   \* bound: invocations under way at the same time
    MaxKills,  \* bound: invocations that kill
    Nil

StatusOps == {"enable", "disable", "interval"}
SessionOps == {"kill", "log"}
Ops == StatusOps \cup SessionOps
Kinds == {"timed", "raw", "stream"}

ASSUME ManagementAssumption ==
    /\ Workloads \subseteq SUBSET Ops /\ Peers \subseteq [Clients -> Kinds]
    /\ MaxCalls \in Nat /\ MaxOpen \in Nat /\ MaxKills \in Nat /\ Nil \notin Clients

Calls == 1..MaxCalls

VARIABLES
    ops,          \* the operations that are invoked
    call,         \* call[n]: the handler of the n-th invocation
    memRunning,   \* management.memRunning
    stopMemStats, \* the channel in the field, named by the call that made it
    closed,       \* channels that are closed
    logger,       \* logger[n]: the goroutine startMemoryLogging began in call n
    trackingMsg,  \* Router.trackingMsg
    tracker,      \* tracker[n]: the goroutine of setMessageRateTracking
    lost,         \* stop signals that no tracker was there to receive
    panicked,     \* a closed channel was closed again
    overlap,      \* two calls that set the status have overlapped
    realm,        \* the realm of the clients: "there" or "gone"
    client,       \* client[c]: its peer (open: not closed), its connection, room in the
                  \* queue, writes return, reads return no error; is it in the realm
    logs          \* logs[c]: the messageTracker of its session

statvars == <<memRunning, stopMemStats, closed, logger, trackingMsg, tracker, lost, panicked>>
killvars == <<realm, client>>
runvars == <<ops, overlap>>
vars == <<ops, call, statvars, overlap, killvars, logs>>

TypeOK ==
    /\ ops \in Workloads
    /\ \A n \in Calls :
        /\ call[n].op \in Ops
        /\ call[n].pc \in {"none", "check", "stop", "close", "untrack", "start", "create", "track",
                           "load", "next", "write", "park", "hangup", "closing", "log", "done"}
        /\ call[n].targets \subseteq Clients /\ call[n].todo \subseteq call[n].targets
        /\ call[n].at \in Clients \cup {Nil}
    /\ memRunning \in BOOLEAN /\ trackingMsg \in BOOLEAN
    /\ stopMemStats \in 0..MaxCalls /\ closed \subseteq Calls
    /\ logger \in [Calls -> [pc : {"none", "init", "select", "busy", "ended"}, ch : 0..MaxCalls]]
    /\ tracker \in [Calls -> {"none", "select", "busy", "ended"}]
    /\ lost \in 0..MaxCalls
    /\ panicked \in BOOLEAN /\ overlap \in BOOLEAN
    /\ realm \in {"there", "gone"}
    /\ client \in [Clients -> [open : BOOLEAN, conn : BOOLEAN, room : BOOLEAN, takes : BOOLEAN,
                               reads : BOOLEAN, attached : BOOLEAN, kind : Kinds]]
    /\ logs \in [Clients -> [started : BOOLEAN, loops : 0..MaxCalls, stops : 0..MaxCalls]]

\* The peers: Close waits a second at most for the writer (WebSocketPeer,
\* localPeer), or without limit (RawSocketPeer); over a QUIC stream it then
\* leaves Read alone.
Init ==
    /\ ops \in Workloads
    /\ call = [n \in Calls |-> [op |-> "log", pc |-> "none", targets |-> {}, todo |-> {}, at |-> Nil]]
    /\ memRunning = FALSE /\ stopMemStats = 0 /\ closed = {}
    /\ logger = [n \in Calls |-> [pc |-> "none", ch |-> 0]]
    /\ trackingMsg = FALSE
    /\ tracker = [n \in Calls |-> "none"]
    /\ lost = 0 /\ panicked = FALSE /\ overlap = FALSE
    /\ realm = "there"
    /\ \E peers \in IF "kill" \in ops THEN Peers ELSE {CHOOSE p \in Peers : TRUE} :
        client = [c \in Clients |-> [open |-> TRUE, conn |-> TRUE, room |-> TRUE, takes |-> TRUE,
                                     reads |-> TRUE, attached |-> TRUE, kind |-> peers[c]]]
    /\ logs = [c \in Clients |-> [started |-> FALSE, loops |-> 0, stops |-> 0]]

Goto(n, pc) == call' = [call EXCEPT ![n].pc = pc]
Running(n) == call[n].pc \notin {"none", "done"}

Invoke(n) ==
    /\ call[n].pc = "none" /\ \A k \in 1..(n - 1) : call[k].pc # "none"
    /\ Cardinality({k \in Calls : Running(k)}) < MaxOpen
    /\ \E op \in ops :
        /\ op = "kill" => Cardinality({k \in Calls : call[k].pc # "none" /\ call[k].op = "kill"}) < MaxKills
        /\ call' = [call EXCEPT ![n].op = op,
                                ![n].pc = CASE op \in StatusOps -> "check"
                                            [] op = "log" -> "log"
                                            [] OTHER -> "load"]
        /\ overlap' = (overlap \/ (op \in StatusOps
                                   /\ \E k \in Calls : Running(k) /\ call[k].op \in StatusOps))
    /\ UNCHANGED <<ops, statvars, killvars, logs>>

-----------------------------------------------------------------------------
(* handleSetStatsStatus: enable and a new interval stop a running logger   *)
(* and start another.                                                      *)

CheckRunning(n) ==
    /\ call[n].pc = "check"
    /\ Goto(n, IF memRunning THEN "stop" ELSE IF call[n].op = "enable" THEN "start" ELSE "done")
    /\ UNCHANGED <<statvars, runvars, killvars, logs>>

Stopped(n) == IF call[n].op = "disable" THEN "done" ELSE "start"

StopCheck(n) ==
    /\ call[n].pc = "stop"
    /\ Goto(n, IF memRunning THEN "close" ELSE Stopped(n))
    /\ UNCHANGED <<statvars, runvars, killvars, logs>>

\* Faulty variant: the channel is not closed.
StopCloseNot(n) ==
    /\ call[n].pc = "close"
    /\ memRunning' = FALSE
    /\ Goto(n, "untrack")
    /\ UNCHANGED <<closed, panicked, stopMemStats, logger, trackingMsg, tracker, lost, runvars, killvars, logs>>

StopClose(n) ==
    /\ call[n].pc = "close"
    /\ panicked' = (stopMemStats \in closed)
    /\ closed' = closed \cup {stopMemStats}
    /\ memRunning' = FALSE
    /\ Goto(n, "untrack")
    /\ UNCHANGED <<stopMemStats, logger, trackingMsg, tracker, lost, runvars, killvars, logs>>

\* Faulty variant: the router goes on counting messages.
UntrackOnly(n) ==
    /\ call[n].pc = "untrack"
    /\ \/ \E t \in Calls :
            /\ tracker[t] = "select"
            /\ tracker' = [tracker EXCEPT ![t] = "ended"]
            /\ UNCHANGED lost
       \/ /\ \A t \in Calls : tracker[t] # "select"
          /\ lost' = lost + 1
          /\ UNCHANGED tracker
    /\ Goto(n, Stopped(n))
    /\ UNCHANGED <<memRunning, stopMemStats, closed, logger, trackingMsg, panicked, runvars, killvars, logs>>

\* setMessageRateTracking(false) does not wait for a tracker that is busy
\* with a tick, or has not come to its select yet: the signal is lost.
Untrack(n) ==
    /\ call[n].pc = "untrack"
    /\ \/ \E t \in Calls :
            /\ tracker[t] = "select"
            /\ tracker' = [tracker EXCEPT ![t] = "ended"]
            /\ UNCHANGED lost
       \/ /\ \A t \in Calls : tracker[t] # "select"
          /\ lost' = lost + 1
          /\ UNCHANGED tracker
    /\ trackingMsg' = FALSE
    /\ Goto(n, Stopped(n))
    /\ UNCHANGED <<memRunning, stopMemStats, closed, logger, panicked, runvars, killvars, logs>>

StartCheck(n) ==
    /\ call[n].pc = "start"
    /\ Goto(n, IF memRunning THEN "done" ELSE "create")
    /\ UNCHANGED <<statvars, runvars, killvars, logs>>

StartCreate(n) ==
    /\ call[n].pc = "create"
    /\ stopMemStats' = n /\ memRunning' = TRUE
    /\ Goto(n, "track")
    /\ UNCHANGED <<closed, logger, trackingMsg, tracker, lost, panicked, runvars, killvars, logs>>

\* setMessageRateTracking(true), and the new logger.
StartTrack(n) ==
    /\ call[n].pc = "track"
    /\ trackingMsg' = TRUE
    /\ tracker' = IF trackingMsg THEN tracker ELSE [tracker EXCEPT ![n] = "busy"]
    /\ logger' = [logger EXCEPT ![n].pc = "init"]
    /\ Goto(n, "done")
    /\ UNCHANGED <<memRunning, stopMemStats, closed, lost, panicked, runvars, killvars, logs>>

\* The select of the logger reads the field anew each time: a logger that
\* was busy while it was told to stop may wait on its successor's channel.
LoggerSelects(l) ==
    /\ logger[l].pc \in {"init", "busy"}
    /\ logger' = [logger EXCEPT ![l] = [pc |-> "select", ch |-> stopMemStats]]
    /\ UNCHANGED <<call, memRunning, stopMemStats, closed, trackingMsg, tracker, lost, panicked,
                   runvars, killvars, logs>>

\* When both cases are ready the tick may as well have come before the close.
LoggerTicks(l) ==
    /\ logger[l].pc = "select" /\ logger[l].ch \notin closed
    /\ logger' = [logger EXCEPT ![l].pc = "busy"]
    /\ UNCHANGED <<call, memRunning, stopMemStats, closed, trackingMsg, tracker, lost, panicked,
                   runvars, killvars, logs>>

\* It sees the channel closed, or could not get at the process's figures.
LoggerStops(l) ==
    /\ \/ logger[l].pc = "select" /\ logger[l].ch \in closed
       \/ logger[l].pc = "init"
    /\ logger' = [logger EXCEPT ![l].pc = "ended"]
    /\ UNCHANGED <<call, memRunning, stopMemStats, closed, trackingMsg, tracker, lost, panicked,
                   runvars, killvars, logs>>

TrackerSteps(t) ==
    /\ tracker[t] \in {"busy", "select"}
    /\ tracker' = [tracker EXCEPT ![t] = IF @ = "select" THEN "busy" ELSE "select"]
    /\ UNCHANGED <<call, memRunning, stopMemStats, closed, logger, trackingMsg, lost, panicked,
                   runvars, killvars, logs>>

-----------------------------------------------------------------------------
(* handleSessionKill of both APIs, handleSessionKillByAuthID, ...ByAuthRole *)
(* and ...KillAll, which differ in the sessions they choose.               *)

KillLoad(n) ==
    /\ call[n].pc = "load"
    /\ \/ /\ realm = "gone"
          /\ Goto(n, "done")
       \/ /\ realm = "there"
          /\ \E targets \in SUBSET {c \in Clients : client[c].attached} :
                call' = [call EXCEPT ![n].pc = "next", ![n].targets = targets, ![n].todo = targets]
    /\ UNCHANGED <<statvars, runvars, killvars, logs>>

KillNext(n) ==
    /\ call[n].pc = "next"
    /\ \/ call[n].todo = {} /\ Goto(n, "done")
       \/ \E c \in call[n].todo :
            call' = [call EXCEPT ![n].pc = "write", ![n].at = c, ![n].todo = @ \ {c}]
    /\ UNCHANGED <<statvars, runvars, killvars, logs>>

\* Faulty variant: a session that has gone meanwhile ends the procedure.
KillWriteStops(n) ==
    /\ call[n].pc = "write"
    /\ Goto(n, IF client[call[n].at].open THEN "park" ELSE "done")
    /\ UNCHANGED <<statvars, runvars, killvars, logs>>

\* WriteMessage fails at once on a closed transport; then it is not closed
\* once more, and the other sessions have their turn.
KillWrite(n) ==
    /\ call[n].pc = "write"
    /\ Goto(n, IF client[call[n].at].open THEN "park" ELSE "next")
    /\ UNCHANGED <<statvars, runvars, killvars, logs>>

\* The GOODBYE waits for room in the session's queue, for as long as it takes.
KillWritten(n) ==
    /\ call[n].pc = "park" /\ client[call[n].at].room
    /\ Goto(n, "hangup")
    /\ UNCHANGED <<statvars, runvars, killvars, logs>>

ConnClosed(c) ==
    client' = [client EXCEPT ![c].open = FALSE, ![c].conn = FALSE,
                             ![c].reads = @ /\ client[c].kind = "stream"]

\* Close: the peer is closed, and its connection once the writer has stopped.
\* A writer in the middle of a write may keep RawSocketPeer.Close waiting.
KillClose(n) ==
    /\ call[n].pc = "hangup"
    /\ LET c == call[n].at
       IN \/ /\ ConnClosed(c)
             /\ Goto(n, "next")
          \/ /\ client[c].open /\ client[c].conn /\ ~client[c].takes /\ client[c].kind # "timed"
             /\ client' = [client EXCEPT ![c].open = FALSE]
             /\ Goto(n, "closing")
    /\ UNCHANGED <<statvars, runvars, realm, logs>>

KillClosed(n) ==
    /\ call[n].pc = "closing" /\ client[call[n].at].takes
    /\ ConnClosed(call[n].at)
    /\ Goto(n, "next")
    /\ UNCHANGED <<statvars, runvars, realm, logs>>

\* A Write that waits for room has the peer's mutex, without which nobody
\* closes the peer.
MutexFree(c) == \A n \in Calls : ~(call[n].pc = "park" /\ call[n].at = c)

\* The session's reader fails: DetachClient, if the router knows the realm.
Detach(c) ==
    /\ client[c].attached /\ ~client[c].reads /\ realm = "there"
    /\ client' = [client EXCEPT ![c].attached = FALSE, ![c].open = @ /\ ~MutexFree(c)]
    /\ UNCHANGED <<call, statvars, runvars, realm, logs>>

\* The remote end stops taking what is written, and the queue fills up; it
\* goes on, and whoever waited for it has its room or the end of the writer; or
\* it is gone, so that reads and writes fail.  The clients matter to the
\* operations on sessions only.
Remote(c) ==
    /\ client[c].conn /\ ops \cap SessionOps # {}
    /\ \/ /\ client[c].takes /\ "kill" \in ops
          /\ \A n \in Calls : ~(call[n].pc \in {"park", "closing"} /\ call[n].at = c)
          /\ client' = [client EXCEPT ![c].takes = FALSE]
       \/ /\ ~client[c].takes /\ client[c].room /\ MutexFree(c)
          /\ client' = [client EXCEPT ![c].room = FALSE]
       \/ /\ ~client[c].takes
          /\ client' = [client EXCEPT ![c].takes = TRUE, ![c].room = TRUE]
       \/ client' = [client EXCEPT ![c].open = @ /\ ~MutexFree(c), ![c].conn = FALSE,
                                   ![c].reads = FALSE, ![c].takes = TRUE]
    /\ UNCHANGED <<call, statvars, runvars, realm, logs>>

RemoveRealm ==
    /\ realm = "there" /\ ops \cap SessionOps # {}
    /\ realm' = "gone"
    /\ UNCHANGED <<call, statvars, runvars, client, logs>>

-----------------------------------------------------------------------------
(* handleSessionLoggingSet with messageTracker.Start and Stop.             *)

TrackerStart(t) == IF t.started THEN t ELSE [t EXCEPT !.started = TRUE, !.loops = @ + 1]

\* Stop receives where it should send: no trackLoop ever ends.
TrackerStop(t) == [t EXCEPT !.started = FALSE, !.stops = IF t.started THEN @ + 1 ELSE @]

LogSet(n) ==
    /\ call[n].pc = "log"
    /\ Goto(n, "done")
    /\ \/ \E c \in Clients, enable \in BOOLEAN :
            /\ realm = "there" /\ client[c].attached
            /\ logs' = [logs EXCEPT ![c] = IF enable THEN TrackerStart(@) ELSE TrackerStop(@)]
       \/ /\ realm = "gone" \/ \E c \in Clients : ~client[c].attached
          /\ UNCHANGED logs
    /\ UNCHANGED <<statvars, runvars, killvars>>

Handle(n) ==
    \/ CheckRunning(n) \/ StopCheck(n) \/ StopClose(n) \/ Untrack(n)
    \/ StartCheck(n) \/ StartCreate(n) \/ StartTrack(n)
    \/ KillLoad(n) \/ KillNext(n) \/ KillWrite(n) \/ KillWritten(n) \/ KillClose(n) \/ KillClosed(n)
    \/ LogSet(n)

\* A panic ends the process.
Next ==
    /\ ~panicked
    /\ \/ \E n \in Calls :
            Invoke(n) \/ Handle(n) \/ LoggerSelects(n) \/ LoggerTicks(n) \/ LoggerStops(n) \/ TrackerSteps(n)
       \/ \E c \in Clients : Detach(c) \/ Remote(c)
       \/ RemoveRealm

\* Handlers and goroutines go on; no remote end has to read.
Fairness ==
    /\ \A n \in Calls : WF_vars(Handle(n)) /\ WF_vars(LoggerSelects(n)) /\ WF_vars(LoggerStops(n))
    /\ \A c \in Clients : WF_vars(Detach(c))

Spec == Init /\ [][Next]_vars /\ Fairness

-----------------------------------------------------------------------------
Idle == \A n \in Calls : call[n].op \in StatusOps => ~Running(n)

Live(pc) == pc \in {"init", "select", "busy"}

\* management.go 118-183: only calls that overlap close a channel twice.
\* While they do not, the rate trackers that are alive are the one in use and
\* those whose stop signal was lost; and a session has one trackLoop in use
\* and one more for every Stop.
GoroutinesAccounted ==
    /\ TypeOK
    /\ panicked => overlap
    /\ ~overlap /\ Idle =>
        Cardinality({t \in Calls : Live(tracker[t])}) = lost + IF trackingMsg THEN 1 ELSE 0
    /\ \A c \in Clients : logs[c].loops = logs[c].stops + IF logs[c].started THEN 1 ELSE 0

\* management.go 173-183: when the statistics stay disabled every logger ends,
\* also one that was busy when it was told to, or already had a successor;
\* unless calls overlapped.
LoggersStop ==
    []<>(~overlap /\ Idle /\ ~memRunning => \A l \in Calls : ~Live(logger[l].pc))

\* meta.go 91-197: whoever is to be killed loses its connection, and its place
\* in the realm if the router still knows the realm and the reader notices (on
\* a QUIC stream it does not before the client closes); unless the call, or
\* another one at the same session, waits for ever for a session that does not
\* read: for room for the GOODBYE, or in Close for the writer.
Waits(n) ==
    \/ call[n].pc = "park" /\ ~client[call[n].at].room
    \/ call[n].pc = "closing" /\ ~client[call[n].at].takes
KillsReach ==
    []<>(\A n \in Calls : \A c \in call[n].targets :
            \/ panicked
            \/ /\ ~client[c].conn
               /\ client[c].attached => realm = "gone" \/ client[c].kind = "stream"
            \/ \E k \in Calls : Waits(k) /\ (k = n \/ call[k].at = c))
=============================================================================
