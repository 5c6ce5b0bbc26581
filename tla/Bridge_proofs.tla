---------------------------- MODULE Bridge_proofs ----------------------------
(***************************************************************************)
(* Proofs about Bridge, for any number of callers and calls.               *)
(***************************************************************************)
EXTENDS Bridge, TLAPS

\* A call that has not been through get has opened and used nothing, and a number that is
\* not in use belongs to no call.
Unopened == \A n \in Calls : call[n].pc \in {"none", "get"} => app[n] = "none" /\ call[n].via = 0
Unused == \A n \in Calls : n > calls => call[n].pc = "none"

\* Sessions that calls went through were opened, and those taken out of the table are open
\* and out of it: Leave is called once for each, and never for one that is in use.
ViaOpened == \A n \in Calls : call[n].via # 0 => app[call[n].via] # "none"
LeavingOut == \A n \in leaving : app[n] = "open" /\ sessions[Owner(n)] # n

IInv == SessionsAccounted /\ Unopened /\ Unused /\ ViaOpened /\ LeavingOut

\* A number in the table or in a call is 0 or that of a call.
LEMMA Numbers ==
  ASSUME TypeOK
  PROVE  /\ \A r \in Callers : sessions[r] # 0 => sessions[r] \in Calls
         /\ \A n \in Calls : call[n].via # 0 => call[n].via \in Calls
         /\ Calls \subseteq Nat /\ 0 \notin Calls
BY BridgeAssumption DEF TypeOK, Invocation, Calls

\* Before RegisterBridge there are no calls and no sessions.
LEMMA InitIInv == Init => IInv
<1> SUFFICES ASSUME Init PROVE IInv
  OBVIOUS
<1>1. (CHOOSE r \in Callers : TRUE) \in Callers
  BY BridgeAssumption
<1> DEFINE r0 == CHOOSE r \in Callers : TRUE
<1> HIDE DEF r0
<1>2. /\ call = [n \in Calls |-> [pc |-> "none", who |-> r0, disclosed |-> FALSE, via |-> 0]]
      /\ r0 \in Callers
  BY <1>1 DEF Init, r0
<1>3. TypeOK
  <2>1. call \in [Calls -> Invocation]
    BY <1>2, BridgeAssumption DEF Invocation
  <2>2. /\ bridge = "new" /\ follows = FALSE /\ watcher = "off"
        /\ caller = [r \in Callers |-> "here"] /\ notice = [r \in Callers |-> "none"]
    BY DEF Init
  <2>3. /\ calls = 0 /\ sessions = [r \in Callers |-> 0] /\ app = [n \in Calls |-> "none"]
        /\ leaving = {} /\ late = [n \in Calls |-> "no"]
    BY DEF Init
  <2>4. /\ caller \in [Callers -> {"here", "left"}] /\ notice \in [Callers -> {"none", "sent", "done"}]
        /\ app \in [Calls -> {"none", "open", "left"}] /\ late \in [Calls -> {"no", "leave", "end"}]
    BY <2>2, <2>3
  <2>5. calls \in 0..MaxCalls /\ sessions \in [Callers -> 0..MaxCalls] /\ leaving \subseteq Calls
    BY <2>3, BridgeAssumption
  <2>6. QED
    BY <2>1, <2>2, <2>4, <2>5 DEF TypeOK
<1>4. NoneLost /\ TableOpen /\ OwnSession
  BY <1>2 DEF Init, NoneLost, TableOpen, OwnSession
<1>5. Unopened /\ Unused /\ ViaOpened /\ LeavingOut
  BY <1>2 DEF Init, Unopened, Unused, ViaOpened, LeavingOut
<1>6. QED
  BY <1>3, <1>4, <1>5 DEF IInv, SessionsAccounted

\* A step that leaves the calls, the table and the sessions alone keeps the invariant.
LEMMA SameTable ==
  ASSUME IInv, TypeOK', UNCHANGED <<call, calls, sessions, app, leaving>>
  PROVE  IInv'
BY DEF IInv, SessionsAccounted, NoneLost, TableOpen, OwnSession, Unopened, Unused, ViaOpened,
       LeavingOut, Owner, Calls

\* RegisterBridge, the end of the bridge's session and the caller's leave.
LEMMA OutsideIInv ==
  ASSUME IInv, Follow \/ Watch \/ Registered \/ SessionEnds \/ \E r \in Callers : CallerLeaves(r)
  PROVE  IInv'
<1>1. TypeOK'
  BY DEF IInv, SessionsAccounted, TypeOK, Follow, Watch, Registered, SessionEnds, CallerLeaves
<1>2. UNCHANGED <<call, calls, sessions, app, leaving>>
  BY DEF Follow, Watch, Registered, SessionEnds, CallerLeaves
<1>3. QED
  BY <1>1, <1>2, SameTable

\* An invocation takes a number that no session and no call has.
LEMMA InvokeIInv ==
  ASSUME IInv, NEW r \in Callers, Invoke(r)
  PROVE  IInv'
<1> DEFINE k == calls + 1
<1> HIDE DEF k
<1>1. PICK d \in BOOLEAN :
        call' = [call EXCEPT ![k] = [@ EXCEPT !.pc = "get", !.who = r, !.disclosed = d]]
  BY DEF Invoke, k
<1>2. /\ k \in Calls /\ k > calls /\ calls \in Nat /\ k \in Nat
      /\ calls' = k
      /\ UNCHANGED <<sessions, app, leaving>>
      /\ Calls \subseteq Nat
  BY BridgeAssumption DEF Invoke, k, IInv, SessionsAccounted, TypeOK, Invocation, Calls
<1>3. /\ call[k].pc = "none" /\ app[k] = "none" /\ call[k].via = 0
  BY <1>2 DEF IInv, Unused, Unopened
<1>4. /\ call' \in [Calls -> Invocation]
      /\ call'[k].pc = "get" /\ call'[k].who = r /\ call'[k].via = 0
      /\ \A n \in Calls \ {k} : call'[n] = call[n]
  <2>1. call \in [Calls -> Invocation] /\ call[k] \in Invocation
    BY <1>2 DEF IInv, SessionsAccounted, TypeOK
  <2>2. call' = [call EXCEPT ![k] = [call[k] EXCEPT !.pc = "get", !.who = r, !.disclosed = d]]
    BY <1>1
  <2>3. [call[k] EXCEPT !.pc = "get", !.who = r, !.disclosed = d] \in Invocation
    BY <2>1 DEF Invocation
  <2>4. QED
    BY <1>2, <1>3, <2>1, <2>2, <2>3 DEF Invocation
<1>5. TypeOK'
  <2>1. calls' \in 0..MaxCalls
    BY <1>2, BridgeAssumption DEF Calls
  <2>2. QED
    BY <1>4, <2>1 DEF IInv, SessionsAccounted, TypeOK, Invoke
<1>6. NoneLost' /\ TableOpen'
  BY <1>2, <1>3, <1>4, Numbers DEF IInv, SessionsAccounted, NoneLost, TableOpen, Owner
<1>7. OwnSession' /\ ViaOpened'
  <2> SUFFICES ASSUME NEW n \in Calls, call'[n].via # 0
               PROVE  /\ call'[call'[n].via].who = call'[n].who
                      /\ app'[call'[n].via] # "none"
    BY DEF OwnSession, ViaOpened, Owner
  <2>1. n # k /\ call'[n] = call[n] /\ call[n].via # 0
    BY <1>4
  <2>2. /\ call[n].via \in Calls /\ app[call[n].via] # "none"
        /\ call[call[n].via].who = call[n].who
    BY <2>1, Numbers DEF IInv, SessionsAccounted, OwnSession, ViaOpened, Owner
  <2>3. call[n].via # k
    BY <1>3, <2>2
  <2>4. QED
    BY <1>2, <1>4, <2>1, <2>2, <2>3
<1>8. Unopened' /\ Unused' /\ LeavingOut'
  BY <1>2, <1>3, <1>4 DEF IInv, SessionsAccounted, Unopened, Unused, LeavingOut, Owner, TypeOK
<1>9. QED
  BY <1>5, <1>6, <1>7, <1>8 DEF IInv, SessionsAccounted

\* get, with the session the caller has or with none; the answer; a failed get.
LEMMA CallIInv ==
  ASSUME IInv, NEW n \in Calls, Forward(n) \/ GetFails(n)
  PROVE  IInv'
<1>1. /\ call' = [call EXCEPT ![n].pc = "done"]
      /\ UNCHANGED <<bridge, follows, caller, notice, calls, sessions, app, watcher, leaving, late>>
  BY DEF Forward, GetFails
<1>2. /\ call' \in [Calls -> Invocation]
      /\ \A m \in Calls : call'[m].who = call[m].who /\ call'[m].via = call[m].via
      /\ \A m \in Calls : call'[m].pc = IF m = n THEN "done" ELSE call[m].pc
  BY <1>1 DEF IInv, SessionsAccounted, TypeOK, Invocation
<1>3. TypeOK'
  BY <1>1, <1>2 DEF IInv, SessionsAccounted, TypeOK
<1>4. NoneLost' /\ TableOpen' /\ LeavingOut'
  BY <1>1, <1>2, Numbers DEF IInv, SessionsAccounted, NoneLost, TableOpen, LeavingOut, Owner, TypeOK
<1>5. OwnSession' /\ ViaOpened'
  BY <1>1, <1>2, Numbers DEF IInv, SessionsAccounted, OwnSession, ViaOpened, Owner
<1>6. Unused'
  <2>1. call[n].pc # "none"
    BY DEF Forward, GetFails
  <2>2. QED
    BY <1>1, <1>2, <2>1 DEF IInv, Unused
<1>7. Unopened'
  BY <1>1, <1>2 DEF IInv, Unopened
<1>8. QED
  BY <1>3, <1>4, <1>5, <1>6, <1>7 DEF IInv, SessionsAccounted

\* get: the session the caller has, a new one, or app.Session.
LEMMA GetIInv ==
  ASSUME IInv, NEW n \in Calls, Get(n)
  PROVE  IInv'
<1> DEFINE r == call[n].who
<1> HIDE DEF r
<1>1. /\ r \in Callers /\ r = Owner(n)
      /\ call[n].pc = "get" /\ app[n] = "none" /\ call[n].via = 0
  BY DEF IInv, SessionsAccounted, TypeOK, Invocation, Get, Unopened, Owner, r
<1>2. PICK v \in 0..MaxCalls :
        /\ call' = [call EXCEPT ![n].pc = "forward", ![n].via = v]
        /\ \/ v = 0 /\ UNCHANGED <<sessions, app, late>>
           \/ v = sessions[r] /\ UNCHANGED <<sessions, app, late>>
           \/ /\ v = n /\ sessions[r] = 0
              /\ sessions' = [sessions EXCEPT ![r] = n]
              /\ app' = [app EXCEPT ![n] = "open"]
              /\ late' = [late EXCEPT ![n] = IF watcher = "done" THEN "end"
                                         ELSE IF notice[r] = "done" THEN "leave" ELSE "no"]
  <2>1. CASE ~call[n].disclosed
    <3>1. call' = [call EXCEPT ![n].pc = "forward"] /\ UNCHANGED <<sessions, app, late>>
      BY <2>1 DEF Get
    <3>2. call' = [call EXCEPT ![n].pc = "forward", ![n].via = 0]
      BY <1>1, <3>1 DEF IInv, SessionsAccounted, TypeOK, Invocation
    <3>3. 0 \in 0..MaxCalls
      BY BridgeAssumption
    <3>4. QED
      BY <3>1, <3>2, <3>3
  <2>2. CASE call[n].disclosed /\ sessions[r] # 0
    <3>1. call' = [call EXCEPT ![n].pc = "forward", ![n].via = sessions[r]]
          /\ UNCHANGED <<sessions, app, late>>
      BY <2>2 DEF Get, r
    <3>2. sessions[r] \in 0..MaxCalls
      BY <1>1 DEF IInv, SessionsAccounted, TypeOK
    <3>3. QED
      BY <3>1, <3>2
  <2>3. CASE call[n].disclosed /\ sessions[r] = 0
    <3>1. n \in 0..MaxCalls
      BY BridgeAssumption DEF Calls
    <3>2. QED
      BY <2>3, <3>1 DEF Get, r
  <2>4. QED
    BY <2>1, <2>2, <2>3
<1>3. UNCHANGED <<bridge, follows, caller, notice, calls, watcher, leaving>>
  BY DEF Get
<1>4. /\ call' \in [Calls -> Invocation]
      /\ \A m \in Calls : call'[m].who = call[m].who
      /\ \A m \in Calls : call'[m].via = IF m = n THEN v ELSE call[m].via
      /\ \A m \in Calls : call'[m].pc = IF m = n THEN "forward" ELSE call[m].pc
  <2>1. call' = [call EXCEPT ![n].pc = "forward", ![n].via = v]
    BY <1>2
  <2>2. call \in [Calls -> Invocation]
    BY DEF IInv, SessionsAccounted, TypeOK
  <2>3. call' \in [Calls -> Invocation]
    BY <2>1, <2>2 DEF Invocation
  <2>4. QED
    BY <2>1, <2>2, <2>3 DEF Invocation
<1>5. TypeOK'
  <2>1. n \in 0..MaxCalls
    BY BridgeAssumption DEF Calls
  <2>2. QED
    BY <1>1, <1>2, <1>3, <1>4, <2>1 DEF IInv, SessionsAccounted, TypeOK
<1>6. n \notin leaving
  BY <1>1 DEF IInv, LeavingOut
<1>7. Unused'
  BY <1>1, <1>3, <1>4 DEF IInv, Unused
<1>8. CASE v \in {0, sessions[r]} /\ UNCHANGED <<sessions, app, late>>
  <2>1. NoneLost' /\ TableOpen' /\ LeavingOut'
    <3>1. UNCHANGED <<sessions, app, leaving>> /\ \A m \in Calls : call'[m].who = call[m].who
      BY <1>3, <1>4, <1>8
    <3>2. leaving \subseteq Calls
      BY DEF IInv, SessionsAccounted, TypeOK
    <3>3. QED
      BY <3>1, <3>2, Numbers DEF IInv, SessionsAccounted, NoneLost, TableOpen, LeavingOut, Owner
  <2>2. OwnSession' /\ ViaOpened'
    <3>1. v # 0 => v \in Calls /\ app[v] = "open" /\ call[v].who = r
      BY <1>1, <1>8, Numbers DEF IInv, SessionsAccounted, TableOpen, Owner
    <3>2. \A m \in Calls : call[m].via # 0 => call[m].via \in Calls /\ app[call[m].via] # "none"
                                             /\ call[call[m].via].who = call[m].who
      BY Numbers DEF IInv, SessionsAccounted, OwnSession, ViaOpened, Owner
    <3>3. QED
      BY <1>1, <1>4, <1>8, <3>1, <3>2 DEF OwnSession, ViaOpened, Owner
  <2>3. Unopened'
    BY <1>4, <1>8 DEF IInv, Unopened
  <2>4. QED
    BY <1>5, <1>7, <2>1, <2>2, <2>3 DEF IInv, SessionsAccounted
<1>9. CASE v = n /\ sessions[r] = 0 /\ sessions' = [sessions EXCEPT ![r] = n]
           /\ app' = [app EXCEPT ![n] = "open"]
  <2>1. /\ sessions'[r] = n /\ \A s \in Callers \ {r} : sessions'[s] = sessions[s]
        /\ app'[n] = "open" /\ \A m \in Calls \ {n} : app'[m] = app[m]
    BY <1>1, <1>9 DEF IInv, SessionsAccounted, TypeOK
  <2>2. NoneLost' /\ TableOpen' /\ LeavingOut'
    BY <1>1, <1>3, <1>4, <1>6, <1>9, <2>1, Numbers
       DEF IInv, SessionsAccounted, NoneLost, TableOpen, LeavingOut, Owner, TypeOK
  <2>3. OwnSession' /\ ViaOpened'
    BY <1>1, <1>4, <1>9, <2>1, Numbers
       DEF IInv, SessionsAccounted, OwnSession, ViaOpened, Owner
  <2>4. Unopened'
    BY <1>4, <2>1 DEF IInv, Unopened
  <2>5. QED
    BY <1>5, <1>7, <2>2, <2>3, <2>4 DEF IInv, SessionsAccounted
<1>10. QED
  BY <1>2, <1>8, <1>9

\* The on_leave event and leaveAll move sessions from the table to those to be left.
LEMMA TakeOutIInv ==
  ASSUME IInv, NEW R \in SUBSET Callers,
         sessions' = [r \in Callers |-> IF r \in R THEN 0 ELSE sessions[r]],
         leaving' = leaving \cup ({sessions[r] : r \in R} \ {0}),
         UNCHANGED <<bridge, follows, caller, call, calls, app, late>>,
         notice' \in [Callers -> {"none", "sent", "done"}], watcher' \in {"off", "wait", "done"}
  PROVE  IInv'
<1>1. TypeOK'
  <2>1. sessions' \in [Callers -> 0..MaxCalls]
    BY BridgeAssumption DEF IInv, SessionsAccounted, TypeOK
  <2>2. leaving' \subseteq Calls
    BY Numbers DEF IInv, SessionsAccounted, TypeOK
  <2>3. QED
    BY <2>1, <2>2 DEF IInv, SessionsAccounted, TypeOK
<1>2. \A r \in R : sessions'[r] = 0 /\ (sessions[r] # 0 => sessions[r] \in leaving')
  OBVIOUS
<1>3. \A r \in Callers \ R : sessions'[r] = sessions[r]
  OBVIOUS
<1>4. \A n \in Calls : Owner(n) \in Callers
  BY DEF Owner, IInv, SessionsAccounted, TypeOK, Invocation
<1>5. NoneLost'
  BY <1>2, <1>3, <1>4, Numbers DEF IInv, SessionsAccounted, NoneLost, Owner
<1>6. TableOpen'
  BY <1>2, <1>3, Numbers DEF IInv, SessionsAccounted, TableOpen, Owner
<1>7. LeavingOut'
  <2> SUFFICES ASSUME NEW n \in leaving'
               PROVE  app[n] = "open" /\ sessions'[Owner(n)] # n
    BY DEF LeavingOut, Owner
  <2>1. CASE n \in leaving
    <3>1. n \in Calls /\ n # 0
      BY <2>1, Numbers DEF IInv, SessionsAccounted, TypeOK
    <3>2. app[n] = "open" /\ sessions[Owner(n)] # n
      BY <2>1 DEF IInv, LeavingOut
    <3>3. QED
      BY <1>2, <1>3, <1>4, <3>1, <3>2
  <2>2. CASE n \notin leaving
    <3>1. PICK r \in R : n = sessions[r] /\ n # 0
      BY <2>2
    <3>2. app[n] = "open" /\ Owner(n) = r
      BY <3>1 DEF IInv, SessionsAccounted, TableOpen
    <3>3. QED
      BY <1>2, <3>1, <3>2
  <2>3. QED
    BY <2>1, <2>2
<1>8. OwnSession' /\ Unopened' /\ Unused' /\ ViaOpened'
  BY DEF IInv, SessionsAccounted, OwnSession, Unopened, Unused, ViaOpened, Owner
<1>9. QED
  BY <1>1, <1>5, <1>6, <1>7, <1>8 DEF IInv, SessionsAccounted

\* leave and leaveAll, and the Leave they call after the unlock.
LEMMA LeaveIInv ==
  ASSUME IInv, LeaveAll \/ (\E r \in Callers : LeaveEvent(r)) \/ (\E n \in Calls : Leave(n))
  PROVE  IInv'
<1>1. CASE LeaveAll
  <2>1. /\ sessions' = [r \in Callers |-> IF r \in Callers THEN 0 ELSE sessions[r]]
        /\ leaving' = leaving \cup ({sessions[r] : r \in Callers} \ {0})
        /\ UNCHANGED <<bridge, follows, caller, call, calls, app, late>>
        /\ notice' \in [Callers -> {"none", "sent", "done"}] /\ watcher' \in {"off", "wait", "done"}
    BY <1>1 DEF LeaveAll, IInv, SessionsAccounted, TypeOK
  <2>2. QED
    BY <2>1, TakeOutIInv
<1>2. ASSUME NEW r \in Callers, LeaveEvent(r)
      PROVE  IInv'
  <2>1. /\ sessions' = [s \in Callers |-> IF s \in {r} THEN 0 ELSE sessions[s]]
        /\ leaving' = leaving \cup ({sessions[s] : s \in {r}} \ {0})
    BY <1>2 DEF LeaveEvent, IInv, SessionsAccounted, TypeOK
  <2>2. /\ UNCHANGED <<bridge, follows, caller, call, calls, app, late>>
        /\ notice' \in [Callers -> {"none", "sent", "done"}] /\ watcher' \in {"off", "wait", "done"}
    BY <1>2 DEF LeaveEvent, IInv, SessionsAccounted, TypeOK
  <2>3. {r} \in SUBSET Callers
    OBVIOUS
  <2>4. QED
    BY <2>1, <2>2, <2>3, TakeOutIInv
<1>3. ASSUME NEW n \in Calls, Leave(n)
      PROVE  IInv'
  <2>1. /\ n \in leaving /\ leaving' = leaving \ {n} /\ app' = [app EXCEPT ![n] = "left"]
        /\ UNCHANGED <<bridge, follows, caller, notice, call, calls, sessions, watcher, late>>
    BY <1>3 DEF Leave
  <2>2. app'[n] = "left" /\ \A m \in Calls \ {n} : app'[m] = app[m]
    BY <2>1 DEF IInv, SessionsAccounted, TypeOK
  <2>3. TypeOK'
    BY <2>1 DEF IInv, SessionsAccounted, TypeOK
  <2>4. \A r \in Callers : sessions[r] # n
    BY <2>1, Numbers DEF IInv, SessionsAccounted, TableOpen, LeavingOut
  <2>5. NoneLost' /\ TableOpen' /\ LeavingOut'
    BY <2>1, <2>2, <2>4, Numbers
       DEF IInv, SessionsAccounted, NoneLost, TableOpen, LeavingOut, Owner, TypeOK
  <2>6. OwnSession' /\ ViaOpened'
    BY <2>1, <2>2, Numbers DEF IInv, SessionsAccounted, OwnSession, ViaOpened, Owner
  <2>7. Unopened' /\ Unused'
    BY <2>1, <2>2 DEF IInv, Unopened, Unused, LeavingOut
  <2>8. QED
    BY <2>3, <2>5, <2>6, <2>7 DEF IInv, SessionsAccounted
<1>4. QED
  BY <1>1, <1>2, <1>3

\* The inductive invariant of the bridge holds in every state.
THEOREM Invariance == Spec => []IInv
<1>1. IInv /\ [Next]_vars => IInv'
  <2> SUFFICES ASSUME IInv, [Next]_vars PROVE IInv'
    OBVIOUS
  <2>1. CASE UNCHANGED vars
    <3>1. TypeOK'
      BY <2>1 DEF IInv, SessionsAccounted, TypeOK, vars
    <3>2. QED
      BY <2>1, <3>1, SameTable DEF vars
  <2>2. CASE Next
    BY <2>2, OutsideIInv, InvokeIInv, CallIInv, GetIInv, LeaveIInv DEF Next
  <2>3. QED
    BY <2>1, <2>2
<1>2. QED
  BY InitIInv, <1>1, PTL DEF Spec

\* callerSessions (bridge.go): whatever the order of calls, leaves and the end of the
\* bridge's session, an app-layer session serves one caller, a caller has one at a time, and
\* no open session is forgotten.
THEOREM SessionsAreAccounted == Spec => []SessionsAccounted
<1>1. IInv => SessionsAccounted
  BY DEF IInv
<1>2. QED
  BY Invariance, <1>1, PTL
==============================================================================
