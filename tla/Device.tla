------------------------------- MODULE Device -------------------------------
(***************************************************************************)
(* The life of a cloud-attached device (xconn/run.go, credentials.go):     *)
(* wait for the credentials file, serve, keep a connection to the cloud    *)
(* with a goroutine that reconnects for ever, and on a detach remove the   *)
(* file, take everything down and start over.                              *)
(*                                                                         *)
(* A cycle is named by the attachment whose credentials it runs with.  The *)
(* cloud, the person who attaches the device, the network and the file     *)
(* watcher are external.  The principals (Authenticator) and the bridge    *)
(* (Bridge) are modelled elsewhere; retry delays are left out, as every    *)
(* sleep ends.                                                             *)
(***************************************************************************)
EXTENDS Naturals

CONSTANT MaxAttach  \* bound: how often the device is attached

ASSUME DeviceAssumption == MaxAttach \in Nat \ {0}

VARIABLES
    main,        \* the goroutine of Run
    cur,         \* the cycle it is in (0 before the first)
    parentDone,  \* the context of Run is done
    file,        \* whose credentials the file holds, 0: no file
    partial,     \* the file is created and not yet written
    watch,       \* the watcher has an event to deliver
    issued,      \* attachments so far
    attached,    \* the attachment the cloud knows now, 0: none
    cancelled,   \* cycles whose context is cancelled
    closed,      \* cycles whose sessions and router main has closed
    token,       \* cycles with a token in detachChan
    event,       \* cycles to which a detach event is under way
    g,           \* g[c]: the reconnecting goroutine of cycle c; is the connection of
                 \* its attempt open, is one of an earlier attempt still open
                 \* (forgotten), has its second session ever failed (refused)
    deaf,        \* cycles that were connected and unsubscribed at their detach
    unseen       \* the file was finished between the look for it and the watch

cloudVars == <<issued, attached>>
fileVars == <<file, partial, watch, unseen>>
mainVars == <<main, cur, parentDone, cancelled, closed>>
vars == <<mainVars, fileVars, cloudVars, token, event, g, deaf>>

Cycles == 1..MaxAttach

\* The steps of an attempt that close the connection when they fail.
Setup == {"bridge", "list", "webrtc"}

TypeOK ==
    /\ main \in {"stat", "add", "wait", "read", "setup", "serve", "remove", "close",
                 "stop", "ended", "failed"}
    /\ cur \in 0..MaxAttach /\ file \in 0..MaxAttach
    /\ issued \in 0..MaxAttach /\ attached \in {0, issued}
    /\ {parentDone, partial, watch, unseen} \subseteq BOOLEAN
    /\ {cancelled, closed, token, event, deaf} \subseteq SUBSET Cycles
    /\ g \in [Cycles -> [pc : {"off", "check", "connect", "open", "join", "publish",
                               "topic", "online", "clear", "disconnect", "backoff",
                               "gone"} \cup Setup,
                         open : BOOLEAN,
                         active : {"none", "old", "current"},
                         heard : BOOLEAN, forgotten : BOOLEAN, refused : BOOLEAN]]

Init ==
    /\ main = "stat" /\ cur = 0 /\ parentDone = FALSE
    /\ file = 0 /\ partial = FALSE /\ watch = FALSE /\ unseen = FALSE
    /\ issued = 0 /\ attached = 0
    /\ cancelled = {} /\ closed = {} /\ token = {} /\ event = {} /\ deaf = {}
    /\ g = [c \in Cycles |-> [pc |-> "off", open |-> FALSE, active |-> "none",
                              heard |-> FALSE, forgotten |-> FALSE, refused |-> FALSE]]

-----------------------------------------------------------------------------
(* The cloud, its users and the network.                                   *)

\* A user attaches the device: the file is created (over an older one), and
\* written in a second step.  A watcher sees both.
Attach ==
    /\ attached = 0 /\ issued < MaxAttach /\ ~partial
    /\ issued' = issued + 1 /\ attached' = issued + 1
    /\ file' = issued + 1 /\ partial' = TRUE
    /\ watch' = (watch \/ main = "wait")
    /\ UNCHANGED <<mainVars, unseen, token, event, g, deaf>>

FinishFile ==
    /\ partial
    /\ partial' = FALSE
    /\ watch' = (watch \/ main = "wait")
    /\ unseen' = (main = "add")
    /\ UNCHANGED <<mainVars, file, cloudVars, token, event, g, deaf>>

\* A detach is published to the cycle's subscription, if there is one.
Detach ==
    /\ attached # 0 /\ ~partial
    /\ attached' = 0
    /\ LET c == attached
       IN IF g[c].open /\ g[c].heard
          THEN event' = event \cup {c} /\ UNCHANGED deaf
          ELSE /\ deaf' = IF g[c].open THEN deaf \cup {c} ELSE deaf
               /\ UNCHANGED event
    /\ UNCHANGED <<mainVars, fileVars, issued, token, g>>

\* The connection goes, perhaps with the event that is under way.
LinkLost(c) ==
    /\ g[c].open
    /\ g' = [g EXCEPT ![c].open = FALSE, ![c].heard = FALSE]
    /\ event' \in {event, event \ {c}}
    /\ deaf' = deaf \ {c}
    /\ UNCHANGED <<mainVars, fileVars, cloudVars, token>>

\* A connection nobody holds lives by its keepalive until the cloud ends it.
ForgottenLost(c) ==
    /\ g[c].forgotten
    /\ g' = [g EXCEPT ![c].forgotten = FALSE]
    /\ UNCHANGED <<mainVars, fileVars, cloudVars, token, event, deaf>>

CancelParent ==
    /\ ~parentDone
    /\ parentDone' = TRUE
    /\ UNCHANGED <<main, cur, cancelled, closed, fileVars, cloudVars, token, event, g, deaf>>

-----------------------------------------------------------------------------
(* EnsureCredentials.                                                      *)

Main(from, to) == main = from /\ main' = to

Stat ==
    /\ main = "stat"
    /\ main' = IF file # 0 THEN "read" ELSE "add"
    /\ UNCHANGED <<cur, parentDone, cancelled, closed, fileVars, cloudVars, token, event, g, deaf>>

\* Only what happens after this step is seen by the watcher.
AddWatch ==
    /\ Main("add", "wait")
    /\ watch' = FALSE
    /\ UNCHANGED <<cur, parentDone, cancelled, closed, file, partial, unseen,
                   cloudVars, token, event, g, deaf>>

WaitCredentials ==
    /\ \/ Main("wait", "read") /\ watch /\ watch' = FALSE
       \/ Main("wait", "ended") /\ parentDone /\ UNCHANGED watch
    /\ UNCHANGED <<cur, parentDone, cancelled, closed, file, partial, unseen,
                   cloudVars, token, event, g, deaf>>

\* A file that is gone again or not yet written is an error, which Run
\* returns unless its context is done.
ReadCredentials ==
    /\ \/ /\ Main("read", "setup") /\ file # 0 /\ ~partial
          /\ cur' = file
       \/ /\ Main("read", IF parentDone THEN "ended" ELSE "failed")
          /\ file = 0 \/ partial
          /\ UNCHANGED cur
    /\ unseen' = FALSE
    /\ UNCHANGED <<parentDone, cancelled, closed, file, partial, watch,
                   cloudVars, token, event, g, deaf>>

-----------------------------------------------------------------------------
(* runDeviceSession, the main goroutine.                                   *)

\* Router, principals, local session and bridge; then the goroutine starts.
StartCycle ==
    /\ Main("setup", "serve")
    /\ g' = [g EXCEPT ![cur].pc = "check"]
    /\ UNCHANGED <<cur, parentDone, cancelled, closed, fileVars, cloudVars, token, event, deaf>>

\* Watcher, machine id, router, principals file, session or bridge fail.
StartFails ==
    /\ main \in {"add", "setup"}
    /\ main' = "failed"
    /\ UNCHANGED <<cur, parentDone, cancelled, closed, fileVars, cloudVars, token, event, g, deaf>>

\* The select, and cancel() in both of its cases.
LeaveCycle ==
    /\ \/ Main("serve", "stop") /\ parentDone /\ UNCHANGED token
       \/ Main("serve", "remove") /\ cur \in token /\ token' = token \ {cur}
    /\ cancelled' = cancelled \cup {cur}
    /\ UNCHANGED <<cur, parentDone, closed, fileVars, cloudVars, event, g, deaf>>

RemoveCredentials ==
    /\ Main("remove", "close")
    /\ file' = 0 /\ partial' = FALSE
    /\ UNCHANGED <<cur, parentDone, cancelled, closed, watch, unseen,
                   cloudVars, token, event, g, deaf>>

\* Under cloudConnMu: both sessions and the connection, if there is one.
CloseActive(c) ==
    /\ g' = IF g[c].active # "current" THEN g
            ELSE [g EXCEPT ![c].open = FALSE, ![c].heard = FALSE]
    /\ deaf' = IF g[c].active # "current" THEN deaf ELSE deaf \ {c}

CloseCycle ==
    /\ Main("stop", "ended") \/ Main("close", "stat")
    /\ CloseActive(cur)
    /\ closed' = closed \cup {cur}
    /\ UNCHANGED <<cur, parentDone, cancelled, fileVars, cloudVars, token, event>>

-----------------------------------------------------------------------------
(* The reconnecting goroutine of cycle c.                                  *)

Step(c, from, to) == g[c].pc = from /\ g' = [g EXCEPT ![c].pc = to]

Fail(c) ==
    /\ g' = [g EXCEPT ![c].pc = "backoff", ![c].open = FALSE, ![c].heard = FALSE]
    /\ deaf' = deaf \ {c}

CheckDone(c) ==
    /\ Step(c, "check", IF c \in cancelled THEN "gone" ELSE "connect")
    /\ UNCHANGED <<mainVars, fileVars, cloudVars, token, event, deaf>>

\* ConnectQUIC looks at the context only until its stream is open, so it
\* may still succeed after cancel().
Connect(c) ==
    /\ g[c].pc = "connect" /\ attached = c
    /\ g' = [g EXCEPT ![c].pc = "open", ![c].open = TRUE, ![c].heard = FALSE,
                      ![c].active = IF @ = "none" THEN "none" ELSE "old"]
    /\ UNCHANGED <<mainVars, fileVars, cloudVars, token, event, deaf>>

\* Faulty variant: every failure to connect counts as a detach.
ConnectFailsDetaches(c) ==
    /\ g[c].pc = "connect"
    /\ Fail(c)
    /\ token' = token \cup {c}
    /\ UNCHANGED <<mainVars, fileVars, cloudVars, event>>

ConnectFails(c) ==
    /\ g[c].pc = "connect"
    /\ Fail(c)
    /\ UNCHANGED <<mainVars, fileVars, cloudVars, token, event>>

\* Faulty variant: a realm that is gone is one more failure to retry.
NoSuchRealmRetried(c) ==
    /\ g[c].pc = "connect" /\ attached # c
    /\ Fail(c)
    /\ UNCHANGED <<mainVars, fileVars, cloudVars, token, event>>

\* The cloud no longer knows the realm: that is a detach, too.
NoSuchRealm(c) ==
    /\ g[c].pc = "connect" /\ attached # c
    /\ Fail(c)
    /\ token' = token \cup {c}
    /\ UNCHANGED <<mainVars, fileVars, cloudVars, event>>

OpenSession(c) ==
    /\ \/ Step(c, "open", "join") /\ c \notin cancelled
       \/ Step(c, "join", "publish")
    /\ g[c].open
    /\ UNCHANGED <<mainVars, fileVars, cloudVars, token, event, deaf>>

\* deviceSess.Close ends the first session and its stream, not the connection.
OpenSessionFails(c) ==
    /\ g[c].pc \in {"open", "join"}
    /\ g' = [g EXCEPT ![c].pc = "backoff", ![c].refused = @ \/ g[c].open]
    /\ UNCHANGED <<mainVars, fileVars, cloudVars, token, event, deaf>>

Publish(c) ==
    /\ g[c].pc = "publish"
    /\ g' = [g EXCEPT ![c].pc = "bridge", ![c].active = "current"]
    /\ UNCHANGED <<mainVars, fileVars, cloudVars, token, event, deaf>>

\* RegisterBridge; list and store the keys; (topic;) SetupWebRTC.
SetupStep(c) ==
    /\ g[c].open
    /\ \/ Step(c, "bridge", "list")
       \/ Step(c, "list", "topic")
       \/ Step(c, "webrtc", "online")
    /\ UNCHANGED <<mainVars, fileVars, cloudVars, token, event, deaf>>

\* Faulty variant: a failed step leaves the connection open.
SetupFailsOpen(c) ==
    /\ g[c].pc \in Setup
    /\ g' = [g EXCEPT ![c].pc = "backoff"]
    /\ UNCHANGED <<mainVars, fileVars, cloudVars, token, event, deaf>>

SetupFails(c) ==
    /\ g[c].pc \in Setup
    /\ Fail(c)
    /\ UNCHANGED <<mainVars, fileVars, cloudVars, token, event>>

\* Subscribing to the detach topic; an error is logged and no more.
SubscribeDetach(c) ==
    /\ g[c].pc = "topic"
    /\ \E ok \in {g[c].open, FALSE} :
        g' = [g EXCEPT ![c].pc = "webrtc", ![c].heard = ok]
    /\ UNCHANGED <<mainVars, fileVars, cloudVars, token, event, deaf>>

\* The handler of the detach topic, in a goroutine of the session.
DetachEvent(c) ==
    /\ c \in event
    /\ event' = event \ {c}
    /\ token' = token \cup {c}
    /\ UNCHANGED <<mainVars, fileVars, cloudVars, g, deaf>>

\* Either session is done: the connection went, or a session was ended.
SessionDone(c) ==
    /\ Step(c, "online", "clear")
    /\ UNCHANGED <<mainVars, fileVars, cloudVars, token, event, deaf>>

ClearActive(c) ==
    /\ g[c].pc = "clear"
    /\ g' = [g EXCEPT ![c].pc = "disconnect", ![c].active = "none"]
    /\ UNCHANGED <<mainVars, fileVars, cloudVars, token, event, deaf>>

Disconnect(c) ==
    /\ g[c].pc = "disconnect"
    /\ g' = [g EXCEPT ![c].pc = "check", ![c].open = FALSE, ![c].heard = FALSE]
    /\ deaf' = deaf \ {c}
    /\ UNCHANGED <<mainVars, fileVars, cloudVars, token, event>>

\* The next attempt: a connection that is still open is out of reach now.
Backoff(c) ==
    /\ g[c].pc = "backoff"
    /\ g' = [g EXCEPT ![c].pc = "check", ![c].open = FALSE,
                      ![c].forgotten = @ \/ g[c].open]
    /\ deaf' = deaf \ {c}
    /\ UNCHANGED <<mainVars, fileVars, cloudVars, token, event>>

Reconnect(c) ==
    \/ CheckDone(c) \/ Connect(c) \/ ConnectFails(c) \/ NoSuchRealm(c)
    \/ OpenSession(c) \/ OpenSessionFails(c) \/ Publish(c) \/ SetupStep(c) \/ SetupFails(c)
    \/ SubscribeDetach(c) \/ ClearActive(c) \/ Disconnect(c) \/ Backoff(c)
    \/ (~g[c].open /\ SessionDone(c))

RunMain ==
    \/ Stat \/ AddWatch \/ WaitCredentials \/ ReadCredentials
    \/ StartCycle \/ LeaveCycle \/ RemoveCredentials \/ CloseCycle

Next ==
    \/ Attach \/ FinishFile \/ Detach \/ CancelParent \/ StartFails \/ RunMain
    \/ \E c \in Cycles : LinkLost(c) \/ ForgottenLost(c) \/ DetachEvent(c) \/ SessionDone(c) \/ Reconnect(c)

\* Goroutines run, sleeps end, requests are answered or fail, a file that
\* is begun is finished.  Of the network: a device that tries to connect
\* again and again is told in the end that its realm is gone.
Fairness ==
    /\ WF_vars(RunMain) /\ WF_vars(FinishFile)
    /\ \A c \in Cycles :
        /\ WF_vars(Reconnect(c)) /\ WF_vars(DetachEvent(c)) /\ SF_vars(NoSuchRealm(c))

Spec == Init /\ [][Next]_vars /\ Fairness

-----------------------------------------------------------------------------
Serving(c) == main = "serve" /\ cur = c
Detached(c) == c <= issued /\ attached # c

\* run.go 116, 139-210, 250-294: when main has left a cycle, its goroutine ends
\* and no connection of the cycle stays open, whichever step failed before; but
\* for a goroutine that published its sessions after main had looked for them
\* (Late), and for the connections of a cycle whose second session failed at
\* some time (run.go 146 closes the first session and leaves them open).
Late(c) == c \in closed /\ g[c].open /\ g[c].active = "current"
LeftCycleDisconnects ==
    \A c \in Cycles :
        []<>(c \in cancelled =>
                \/ Late(c)
                \/ /\ g[c].pc = "gone"
                   /\ g[c].open \/ g[c].forgotten => g[c].refused)

\* run.go 129-134, 224-233, credentials.go: a device detached in the cloud
\* leaves its cycle, whether it hears of it by the event or at its next
\* connect, but for one that is connected and not, or not yet, subscribed to
\* the detach topic; and one that waits for its credentials goes on once they
\* are written, unless they were finished just before it began to watch.
AttachmentsFollowed ==
    /\ []TypeOK
    /\ \A c \in Cycles : []<>(~(Serving(c) /\ Detached(c)) \/ c \in deaf)
    /\ []<>(~(main = "wait" /\ file # 0 /\ ~partial) \/ unseen)

\* run.go 280: credentials that a cycle runs with are removed only after the
\* cloud has ended that attachment.  (Newer ones, written since, may go too.)
OwnCredentialsKept == [][file # 0 /\ file' = 0 => file # cur \/ attached # cur]_vars
=============================================================================
