------------------------------- MODULE Bridge -------------------------------
(***************************************************************************)
(* A bridge (xconn/bridge.go) forwards the calls that reach one session    *)
(* into the app layer, each remote caller through an app-layer session of  *)
(* its own: opened at the caller's first call, closed when the router says *)
(* that the caller left, and all closed when the bridge's session is gone. *)
(* Invocation handlers and event handlers are goroutines of their own      *)
(* (session.go), so a caller's leave may be handled before its last call.  *)
(*                                                                         *)
(* An app-layer session is named by the call that opened it; 0 is          *)
(* app.Session.  The router and the app layer are external.                *)
(***************************************************************************)
EXTENDS Naturals, FiniteSets

CONSTANTS
    Callers,  \* remote sessions that call through the bridge
    MaxCalls  \* bound: calls

ASSUME BridgeAssumption == MaxCalls \in Nat /\ Callers # {}

Calls == 1..MaxCalls

VARIABLES
    bridge,    \* the bridge's session: "new", "follow", "register", "up", "gone"
    follows,   \* the subscription to wamp.session.on_leave was granted
    caller,    \* caller[r]: "here" or "left"
    notice,    \* notice[r]: the goroutine of the on_leave event
    call,      \* call[n]: who called, and the goroutine of the invocation
    calls,     \* how many calls there were
    sessions,  \* callerSessions.sessions, 0: no entry
    app,       \* app[n]: the session opened by call n
    watcher,   \* the goroutine that waits for the bridge's session to end
    leaving,   \* sessions taken out of the map, Leave yet to be called
    late       \* late[n]: it was opened after its caller's leave, or the end, was handled

vars == <<bridge, follows, caller, notice, call, calls, sessions, app, watcher, leaving, late>>

\* The goroutine of an invocation: where it is, who called, whether the router
\* disclosed that, and the session it went through.
Invocation == [pc : {"none", "get", "forward", "done"}, who : Callers,
               disclosed : BOOLEAN, via : 0..MaxCalls]

TypeOK ==
    /\ bridge \in {"new", "follow", "register", "up", "gone"}
    /\ follows \in BOOLEAN
    /\ caller \in [Callers -> {"here", "left"}]
    /\ notice \in [Callers -> {"none", "sent", "done"}]
    /\ calls \in 0..MaxCalls
    /\ call \in [Calls -> Invocation]
    /\ sessions \in [Callers -> 0..MaxCalls]
    /\ app \in [Calls -> {"none", "open", "left"}]
    /\ watcher \in {"off", "wait", "done"}
    /\ leaving \subseteq Calls
    /\ late \in [Calls -> {"no", "leave", "end"}]

Init ==
    /\ bridge = "new" /\ follows = FALSE
    /\ caller = [r \in Callers |-> "here"]
    /\ notice = [r \in Callers |-> "none"]
    /\ call = [n \in Calls |-> [pc |-> "none", who |-> CHOOSE r \in Callers : TRUE,
                              disclosed |-> FALSE, via |-> 0]]
    /\ calls = 0
    /\ sessions = [r \in Callers |-> 0]
    /\ app = [n \in Calls |-> "none"]
    /\ watcher = "off"
    /\ leaving = {}
    /\ late = [n \in Calls |-> "no"]

-----------------------------------------------------------------------------
(* RegisterBridge: follow the callers, watch the session, register.        *)

\* A refused subscription is logged, and the bridge works on without it.
Follow ==
    /\ bridge = "new"
    /\ bridge' = "follow"
    /\ follows' \in BOOLEAN
    /\ UNCHANGED <<caller, notice, call, calls, sessions, app, watcher, leaving, late>>

Watch ==
    /\ bridge = "follow"
    /\ bridge' = "register"
    /\ watcher' = "wait"
    /\ UNCHANGED <<follows, caller, notice, call, calls, sessions, app, leaving, late>>

\* Procedures and prefixes are registered one after the other: calls come
\* as soon as the first is.  A refusal is returned, and closes the session.
Registered ==
    /\ bridge = "register"
    /\ bridge' = "up"
    /\ UNCHANGED <<follows, caller, notice, call, calls, sessions, app, watcher, leaving, late>>

SessionEnds ==
    /\ bridge \in {"register", "up"}
    /\ bridge' = "gone"
    /\ UNCHANGED <<follows, caller, notice, call, calls, sessions, app, watcher, leaving, late>>

-----------------------------------------------------------------------------
(* The router: an invocation, or an event, starts a goroutine.             *)

\* inv.Caller() is 0 unless the router discloses the caller.
Invoke(r) ==
    /\ bridge \in {"register", "up"} /\ caller[r] = "here" /\ calls < MaxCalls
    /\ calls' = calls + 1
    /\ \E disclosed \in BOOLEAN :
        call' = [call EXCEPT ![calls + 1] = [@ EXCEPT !.pc = "get", !.who = r,
                                                      !.disclosed = disclosed]]
    /\ UNCHANGED <<bridge, follows, caller, notice, sessions, app, watcher, leaving, late>>

CallerLeaves(r) ==
    /\ caller[r] = "here"
    /\ caller' = [caller EXCEPT ![r] = "left"]
    /\ notice' = [notice EXCEPT ![r] =
                    IF follows /\ bridge \in {"follow", "register", "up"} THEN "sent" ELSE "none"]
    /\ UNCHANGED <<bridge, follows, call, calls, sessions, app, watcher, leaving, late>>

-----------------------------------------------------------------------------
(* callerSessions.  get holds the lock while it opens the session, so it   *)
(* is one step; leave and leaveAll call Leave after the unlock.            *)

\* Faulty variant: the session is stored before it is known to be open.
GetFailsStored(n) ==
    /\ call[n].pc = "get" /\ call[n].disclosed /\ sessions[call[n].who] = 0
    /\ call' = [call EXCEPT ![n].pc = "done"]
    /\ sessions' = [sessions EXCEPT ![call[n].who] = n]
    /\ UNCHANGED <<bridge, follows, caller, notice, calls, app, watcher, leaving, late>>

Get(n) ==
    LET r == call[n].who
    IN /\ call[n].pc = "get"
       /\ \/ /\ ~call[n].disclosed
             /\ call' = [call EXCEPT ![n].pc = "forward"]
             /\ UNCHANGED <<sessions, app, late>>
          \/ /\ call[n].disclosed /\ sessions[r] # 0
             /\ call' = [call EXCEPT ![n].pc = "forward", ![n].via = sessions[r]]
             /\ UNCHANGED <<sessions, app, late>>
          \/ /\ call[n].disclosed /\ sessions[r] = 0
             /\ call' = [call EXCEPT ![n].pc = "forward", ![n].via = n]
             /\ sessions' = [sessions EXCEPT ![r] = n]
             /\ app' = [app EXCEPT ![n] = "open"]
             /\ late' = [late EXCEPT ![n] = IF watcher = "done" THEN "end"
                                         ELSE IF notice[r] = "done" THEN "leave" ELSE "no"]
       /\ UNCHANGED <<bridge, follows, caller, notice, calls, watcher, leaving>>

\* NewSession fails: the caller gets an error, and nothing is stored.
GetFails(n) ==
    /\ call[n].pc = "get" /\ call[n].disclosed /\ sessions[call[n].who] = 0
    /\ call' = [call EXCEPT ![n].pc = "done"]
    /\ UNCHANGED <<bridge, follows, caller, notice, calls, sessions, app, watcher, leaving, late>>

\* The app layer answers, or the app-layer session has been left.
Forward(n) ==
    /\ call[n].pc = "forward"
    /\ call' = [call EXCEPT ![n].pc = "done"]
    /\ UNCHANGED <<bridge, follows, caller, notice, calls, sessions, app, watcher, leaving, late>>

LeaveEvent(r) ==
    /\ notice[r] = "sent"
    /\ notice' = [notice EXCEPT ![r] = "done"]
    /\ sessions' = [sessions EXCEPT ![r] = 0]
    /\ leaving' = leaving \cup ({sessions[r]} \ {0})
    /\ UNCHANGED <<bridge, follows, caller, call, calls, app, watcher, late>>

\* Faulty variant: the watcher closes only the sessions of callers it knows
\* to have left.
LeaveAllGone ==
    /\ watcher = "wait" /\ bridge = "gone"
    /\ watcher' = "done"
    /\ sessions' = [r \in Callers |-> IF notice[r] = "done" THEN 0 ELSE sessions[r]]
    /\ leaving' = leaving \cup ({sessions[r] : r \in {x \in Callers : notice[x] = "done"}} \ {0})
    /\ UNCHANGED <<bridge, follows, caller, notice, call, calls, app, late>>

LeaveAll ==
    /\ watcher = "wait" /\ bridge = "gone"
    /\ watcher' = "done"
    /\ sessions' = [r \in Callers |-> 0]
    /\ leaving' = leaving \cup ({sessions[r] : r \in Callers} \ {0})
    /\ UNCHANGED <<bridge, follows, caller, notice, call, calls, app, late>>

Leave(n) ==
    /\ n \in leaving
    /\ leaving' = leaving \ {n}
    /\ app' = [app EXCEPT ![n] = "left"]
    /\ UNCHANGED <<bridge, follows, caller, notice, call, calls, sessions, watcher, late>>

Next ==
    \/ Follow \/ Watch \/ Registered \/ SessionEnds \/ LeaveAll
    \/ \E r \in Callers : Invoke(r) \/ CallerLeaves(r) \/ LeaveEvent(r)
    \/ \E n \in Calls : Get(n) \/ GetFails(n) \/ Forward(n) \/ Leave(n)

\* Goroutines run to their end; Leave has a time limit of its own.
Fairness ==
    /\ WF_vars(LeaveAll)
    /\ \A r \in Callers : WF_vars(LeaveEvent(r))
    /\ \A n \in Calls : WF_vars(Get(n)) /\ WF_vars(Forward(n)) /\ WF_vars(Leave(n))

Spec == Init /\ [][Next]_vars /\ Fairness

-----------------------------------------------------------------------------
Owner(n) == call[n].who

\* An open session is in the table or about to be left: none is lost.
NoneLost == \A n \in Calls : app[n] = "open" => sessions[Owner(n)] = n \/ n \in leaving

\* The table holds open sessions, each under the caller whose call opened it.
TableOpen ==
    \A r \in Callers : sessions[r] # 0 => app[sessions[r]] = "open" /\ Owner(sessions[r]) = r

\* A call goes through a session that its own caller has opened.
OwnSession == \A n \in Calls : call[n].via # 0 => Owner(call[n].via) = call[n].who

\* bridge.go: an app-layer session belongs to one caller, a caller calls
\* through one session at a time, and an open session is in the map or
\* about to be left: none is lost.
SessionsAccounted == TypeOK /\ NoneLost /\ TableOpen /\ OwnSession

\* bridge.go, xconn.go 30-35: the session of a caller that left is closed in
\* the end if the router tells of leaves, unless the call that opened it is
\* handled after the leave; those too are closed when the bridge's session
\* is gone, unless the call is handled after leaveAll as well.
SessionsEnd ==
    \A n \in Calls :
        []<>(app[n] = "open" =>
                IF bridge = "gone" THEN late[n] = "end"
                ELSE late[n] = "leave" \/ caller[Owner(n)] = "here" \/ notice[Owner(n)] = "none")
=============================================================================
