-------------------------- MODULE Listener_proofs ---------------------------
(***************************************************************************)
(* Proofs about Listener, for every kind of listener, any finite set of    *)
(* connections and any number of streams and channel capacity. The         *)
(* inductive invariant counts the goroutines behind the WaitGroup: the     *)
(* handlers of connections and the senders of sessions; a running stream   *)
(* belongs to a counted handler, so when the count is zero nobody is left  *)
(* to send.                                                                *)
(***************************************************************************)
EXTENDS Listener, FiniteSetTheorems, TLAPS

Handled == {c \in Conns : handler[c] \in {"accept", "wait"}}
Senders == {s \in Streams : event[s] = "send"}
Counted ==
    wg = (IF kind # "tcp" THEN Cardinality(Handled) ELSE 0)
         + (IF kind = "quic" THEN Cardinality(Senders) ELSE 0)

\* A connection that was not accepted has no handler; only multiplexed ones wait.
Handlers ==
    \A c \in Conns : /\ link[c] = "none" => handler[c] = "none"
                     /\ handler[c] = "wait" => Multiplexed

\* A stream is served once it is opened, and while its connection has a handler; a session
\* is announced once it is attached.
Served(s) ==
    /\ cl[s] = "none" => st[s].pc = "none"
    /\ cl[s] # "none" => st[s].conn \in Conns
    /\ Multiplexed /\ Running(s) => handler[st[s].conn] \in {"accept", "wait"}
    /\ event[s] # "none" => st[s].pc \in {"loop", "served"}

\* The session of a connection is one of its streams, attached.
Sessions ==
    \A c \in Conns : session[c] # 0 =>
        /\ session[c] \in Streams
        /\ st[session[c]].conn = c
        /\ st[session[c]].pc \in {"loop", "served"}

SInv == Handlers /\ (\A s \in Streams : Served(s)) /\ Sessions /\ RawAfterAuthentication

\* Only the loop of a QUIC listener waits for the goroutines, and the channels are closed last.
ClosedLast ==
    /\ loop = "wait" => kind = "quic"
    /\ chans = "closed" => kind = "quic" /\ loop = "ended" /\ wg = 0

IInv == TypeOK /\ Counted /\ SInv /\ ClosedLast

-----------------------------------------------------------------------------
(* Counting                                                                *)

\* There are finitely many connections and streams.
LEMMA Finite ==
    /\ IsFiniteSet(Conns) /\ IsFiniteSet(Streams)
    /\ Cardinality(Conns) \in Nat /\ Cardinality(Streams) \in Nat
<1>1. IsFiniteSet(Conns)
    BY ListenerAssumption
<1>2. MaxStreams \in Nat
    BY ListenerAssumption
<1>3. IsFiniteSet(Streams)
    BY <1>2, FS_Interval DEF Streams
<1>4. QED
    BY <1>1, <1>3, FS_CardinalityType

\* So are the sets the WaitGroup counts, now and in the next state.
LEMMA CountTypes ==
    /\ IsFiniteSet(Handled) /\ Cardinality(Handled) \in 0..Cardinality(Conns)
    /\ IsFiniteSet(Senders) /\ Cardinality(Senders) \in 0..Cardinality(Streams)
<1>1. Handled \in SUBSET Conns /\ Senders \in SUBSET Streams
    BY DEF Handled, Senders
<1>2. /\ IsFiniteSet(Handled) /\ Cardinality(Handled) <= Cardinality(Conns)
      /\ IsFiniteSet(Senders) /\ Cardinality(Senders) <= Cardinality(Streams)
    BY <1>1, Finite, FS_Subset
<1>3. Cardinality(Handled) \in Nat /\ Cardinality(Senders) \in Nat
    BY <1>2, FS_CardinalityType
<1>4. QED
    BY <1>2, <1>3, Finite

\* The count is within the bound of TypeOK.
LEMMA CountedType == Counted => wg \in 0..(Cardinality(Conns) + Cardinality(Streams))
<1> SUFFICES ASSUME Counted PROVE wg \in 0..(Cardinality(Conns) + Cardinality(Streams))
    OBVIOUS
<1>1. \A a, b, m, n \in Nat : m <= a /\ n <= b =>
        /\ m + n \in 0..(a + b) /\ m + 0 \in 0..(a + b) /\ 0 + n \in 0..(a + b) /\ 0 + 0 \in 0..(a + b)
    OBVIOUS
<1>2. /\ Cardinality(Handled) \in Nat /\ Cardinality(Handled) <= Cardinality(Conns)
      /\ Cardinality(Senders) \in Nat /\ Cardinality(Senders) <= Cardinality(Streams)
    BY CountTypes, Finite
<1>3. QED
    BY <1>1, <1>2, Finite DEF Counted

\* A count of zero means that nobody is counted.
LEMMA CountedZero ==
    ASSUME Counted, kind = "quic", wg = 0
    PROVE  Handled = {} /\ Senders = {}
<1>1. Cardinality(Handled) \in Nat /\ Cardinality(Senders) \in Nat
    BY CountTypes, Finite
<1>2. Cardinality(Handled) + Cardinality(Senders) = 0
    BY DEF Counted
<1>3. Cardinality(Handled) = 0 /\ Cardinality(Senders) = 0
    BY <1>1, <1>2
<1>4. QED
    BY <1>3, CountTypes, FS_EmptySet

\* One more handler or sender, one less, or the same.
LEMMA CountSteps ==
    /\ \A c : c \notin Handled /\ Handled' = Handled \cup {c} =>
         Cardinality(Handled') = Cardinality(Handled) + 1
    /\ \A c : c \in Handled /\ Handled' = Handled \ {c} =>
         Cardinality(Handled') = Cardinality(Handled) - 1
    /\ \A s : s \notin Senders /\ Senders' = Senders \cup {s} =>
         Cardinality(Senders') = Cardinality(Senders) + 1
    /\ \A s : s \in Senders /\ Senders' = Senders \ {s} =>
         Cardinality(Senders') = Cardinality(Senders) - 1
BY CountTypes, FS_AddElement, FS_RemoveElement

\* Every step that starts or ends a counted goroutine counts it.
LEMMA CountInv ==
    ASSUME TypeOK, Counted, SInv, Next
    PROVE  Counted'
<1>t. /\ handler \in [Conns -> {"none", "accept", "wait", "gone"}]
      /\ event \in [Streams -> {"none", "send", "done"}]
    BY DEF TypeOK
<1>n. wg \in Nat /\ Cardinality(Handled) \in Nat /\ Cardinality(Senders) \in Nat
    BY CountTypes, Finite DEF TypeOK
<1>s. ASSUME UNCHANGED <<kind, wg, handler, event>>
      PROVE  Counted'
    BY <1>s DEF Counted, Handled, Senders
<1>1. ASSUME NEW c \in Conns, AcceptConn(c)
      PROVE  Counted'
    <2>1. /\ UNCHANGED <<kind, event>> /\ handler' = [handler EXCEPT ![c] = "accept"]
          /\ handler[c] = "none" /\ wg' = IF kind # "tcp" THEN wg + 1 ELSE wg
        BY <1>1 DEF AcceptConn, svars, SInv, Handlers, Multiplexed
    <2>2. Handled' = Handled \cup {c} /\ c \notin Handled
        BY <1>t, <2>1 DEF Handled
    <2>3. Senders' = Senders
        BY <2>1 DEF Senders
    <2>4. Cardinality(Handled') = Cardinality(Handled) + 1
        BY <2>2, CountSteps
    <2>5. QED
        BY <1>n, <2>1, <2>3, <2>4 DEF Counted
<1>2. ASSUME NEW s \in Streams, HandleClient(s)
      PROVE  Counted'
    <2>1. UNCHANGED <<kind, event, wg>> /\ kind = "tcp"
        BY <1>2 DEF HandleClient, lvars, Multiplexed
    <2>2. Senders' = Senders
        BY <2>1 DEF Senders
    <2>3. QED
        BY <2>1, <2>2 DEF Counted
<1>3. ASSUME NEW c \in Conns, HandlerEnds(c)
      PROVE  Counted'
    <2>1. /\ UNCHANGED <<kind, event, wg>> /\ handler[c] = "accept"
          /\ handler' = [handler EXCEPT ![c] = IF kind # "tcp" THEN "wait" ELSE "gone"]
        BY <1>3 DEF HandlerEnds, lvars, svars, Multiplexed
    <2>2. Senders' = Senders
        BY <2>1 DEF Senders
    <2>3. kind # "tcp" => Handled' = Handled
        BY <1>t, <2>1 DEF Handled
    <2>4. QED
        BY <2>1, <2>2, <2>3 DEF Counted
<1>4. ASSUME NEW c \in Conns, HandlerDone(c)
      PROVE  Counted'
    <2>1. /\ UNCHANGED <<kind, event>> /\ handler[c] = "wait" /\ wg' = wg - 1
          /\ handler' = [handler EXCEPT ![c] = "gone"] /\ kind # "tcp"
        BY <1>4 DEF HandlerDone, svars, SInv, Handlers, Multiplexed
    <2>2. Handled' = Handled \ {c} /\ c \in Handled
        BY <1>t, <2>1 DEF Handled
    <2>3. Senders' = Senders
        BY <2>1 DEF Senders
    <2>4. Cardinality(Handled') = Cardinality(Handled) - 1
        BY <2>2, CountSteps
    <2>5. QED
        BY <1>n, <2>1, <2>3, <2>4 DEF Counted
<1>5. ASSUME NEW s \in Streams, Attach(s)
      PROVE  Counted'
    <2>1. UNCHANGED <<kind, handler>> /\ st[s].pc = "attach"
        BY <1>5 DEF Attach
    <2>2. Handled' = Handled
        BY <2>1 DEF Handled
    <2>3. event[s] = "none"
        BY <2>1 DEF SInv, Served
    <2>4. CASE UNCHANGED <<event, wg>>
        BY <1>s, <2>1, <2>4
    <2>5. CASE /\ event' = IF Multiplexed THEN [event EXCEPT ![s] = "send"] ELSE event
               /\ wg' = IF kind = "quic" THEN wg + 1 ELSE wg
        <3>1. CASE kind = "quic"
            <4>1. event' = [event EXCEPT ![s] = "send"] /\ wg' = wg + 1
                BY <2>5, <3>1 DEF Multiplexed
            <4>2. Senders' = Senders \cup {s} /\ s \notin Senders
                BY <1>t, <2>3, <4>1 DEF Senders
            <4>3. Cardinality(Senders') = Cardinality(Senders) + 1
                BY <4>2, CountSteps
            <4>4. QED
                BY <1>n, <2>1, <2>2, <3>1, <4>1, <4>3 DEF Counted
        <3>2. CASE kind # "quic"
            BY <2>1, <2>2, <2>5, <3>2 DEF Counted
        <3>3. QED
            BY <3>1, <3>2
    <2>6. QED
        BY <1>5, <2>4, <2>5 DEF Attach
<1>6. ASSUME NEW s \in Streams, SendEvent(s)
      PROVE  Counted'
    <2>1. /\ UNCHANGED <<kind, handler>> /\ event[s] = "send" /\ event' = [event EXCEPT ![s] = "done"]
          /\ wg' = IF kind = "quic" THEN wg - 1 ELSE wg
        BY <1>6 DEF SendEvent, cvars
    <2>2. Handled' = Handled
        BY <2>1 DEF Handled
    <2>3. Senders' = Senders \ {s} /\ s \in Senders
        BY <1>t, <2>1 DEF Senders
    <2>4. Cardinality(Senders') = Cardinality(Senders) - 1
        BY <2>3, CountSteps
    <2>5. QED
        BY <1>n, <2>1, <2>2, <2>4 DEF Counted
<1>7. CASE LoopEnds \/ LoopCloses \/ DrainEvent \/ TakeStream \/ ChannelClosed \/ CloseDone
           \/ ListenerFails \/ RemoveRealm \/ ContextDone \/ \E c \in Conns : LinkDown(c)
    BY <1>7, <1>s DEF LoopEnds, LoopCloses, DrainEvent, TakeStream, ChannelClosed, CloseDone,
            ListenerFails, RemoveRealm, ContextDone, Return, LinkDown, lvars, cvars, svars
<1>8. ASSUME NEW s \in Streams, \/ Dispatch(s) \/ Upgrade(s) \/ ReadHello(s) \/ ReadAuthenticate(s)
                                \/ ReadFails(s) \/ LoopStops(s) \/ AuthWait(s) \/ SendRaw(s)
      PROVE  Counted'
    BY <1>8, <1>s DEF Dispatch, Upgrade, ReadHello, ReadAuthenticate, ReadFails, LoopStops, AuthWait,
            SendRaw, lvars, cvars
<1>9. ASSUME NEW s \in Streams, Join(s) \/ ClientLeaves(s) \/ \E c \in Conns : Open(s, c)
      PROVE  Counted'
    BY <1>9, <1>s DEF Join, ReadResponse, ReadAnswer, JoinFails, ClientLeaves, Open, lvars, cvars, svars
<1>10. QED
    BY <1>1, <1>2, <1>3, <1>4, <1>5, <1>6, <1>7, <1>8, <1>9 DEF Next, Server, Serve

-----------------------------------------------------------------------------
(* Streams                                                                 *)

\* A stream's goroutine moves on.
LEMMA GotoFacts ==
    ASSUME TypeOK, NEW s \in Streams, NEW pc \in Pcs, Goto(s, pc)
    PROVE  /\ st' \in [Streams -> Stream]
           /\ st'[s].pc = pc /\ st'[s].conn = st[s].conn /\ st'[s].as = st[s].as
           /\ \A t \in Streams \ {s} : st'[t] = st[t]
BY DEF TypeOK, Goto, Stream

\* A step that touches no stream and takes no handler away.
LEMMA SameStreams ==
    ASSUME SInv, UNCHANGED <<kind, st, session, handler, event>>,
           \A c \in Conns : link'[c] = "none" => link[c] = "none",
           \A s \in Streams : cl'[s] = "none" <=> cl[s] = "none"
    PROVE  SInv'
<1>1. Handlers' /\ Sessions' /\ RawAfterAuthentication'
    BY DEF SInv, Handlers, Sessions, RawAfterAuthentication, Multiplexed
<1>2. \A s \in Streams : Served(s)'
    BY DEF SInv, Served, Multiplexed, Running
<1>3. QED
    BY <1>1, <1>2 DEF SInv

\* The goroutine of an opened stream moves on: neither back from an attached session nor to
\* the channel streams, and, while it runs, under its connection's handler.
LEMMA MoveStream ==
    ASSUME TypeOK, SInv, NEW s \in Streams, NEW pc \in Pcs \ {"none"}, Goto(s, pc), cl[s] # "none",
           UNCHANGED <<kind, session, event, cl, link>>,
           st[s].pc \in {"loop", "served"} => pc = "served",
           pc \in {"send", "queued"} => st[s].pc = "send",
           Multiplexed => UNCHANGED handler /\ handler[st[s].conn] \in {"accept", "wait"},
           \A c \in Conns : handler'[c] = handler[c] \/ (handler[c] # "none" /\ handler'[c] = "gone" /\ link[c] # "none")
    PROVE  SInv'
<1>1. /\ st'[s].pc = pc /\ st'[s].conn = st[s].conn /\ st'[s].as = st[s].as
      /\ \A t \in Streams \ {s} : st'[t] = st[t]
    BY GotoFacts
<1>2. \A t \in Streams : st'[t].conn = st[t].conn /\ st'[t].as = st[t].as
    BY <1>1
<1>3. \A t \in Streams : st[t].pc \in {"loop", "served"} => st'[t].pc \in {"loop", "served"}
    BY <1>1
<1>4. Handlers'
    BY DEF SInv, Handlers, Multiplexed
<1>5. ASSUME NEW t \in Streams
      PROVE  Served(t)'
    <2>1. CASE t = s
        BY <1>1, <1>3, <2>1 DEF SInv, Served, Multiplexed, Running
    <2>2. CASE t # s
        BY <1>1, <2>2 DEF SInv, Served, Multiplexed, Running
    <2>3. QED
        BY <2>1, <2>2
<1>6. Sessions'
    BY <1>2, <1>3 DEF SInv, Sessions
<1>7. ASSUME NEW t \in Streams, st'[t].pc \in {"send", "queued"}
      PROVE  /\ st'[t].as # 0 /\ st'[st'[t].as].conn = st'[t].conn
             /\ st'[st'[t].as].pc \in {"loop", "served"} /\ st'[t].as = session'[st'[t].conn]
    <2>1. st[t].pc \in {"send", "queued"}
        BY <1>1, <1>7
    <2>2. /\ st[t].as # 0 /\ st[st[t].as].conn = st[t].conn
          /\ st[st[t].as].pc \in {"loop", "served"} /\ st[t].as = session[st[t].conn]
        BY <2>1 DEF SInv, RawAfterAuthentication
    <2>3. st[t].as \in Streams
        BY <2>2 DEF TypeOK, Stream, Streams
    <2>4. QED
        BY <1>2, <1>3, <2>2, <2>3
<1>8. QED
    BY <1>4, <1>5, <1>6, <1>7 DEF SInv, RawAfterAuthentication

\* A stream that has begun was opened.
LEMMA Begun ==
    ASSUME SInv, NEW s \in Streams, st[s].pc # "none"
    PROVE  /\ cl[s] # "none" /\ st[s].conn \in Conns
           /\ Multiplexed /\ Running(s) => handler[st[s].conn] \in {"accept", "wait"}
BY DEF SInv, Served

\* The handshake and the message loop of a stream, and its way to the channel streams.
LEMMA ServeMoves ==
    ASSUME TypeOK, SInv, NEW s \in Streams,
           \/ Upgrade(s) \/ ReadHello(s) \/ ReadAuthenticate(s) \/ ReadFails(s) \/ LoopStops(s)
           \/ SendRaw(s)
    PROVE  SInv' /\ st' \in [Streams -> Stream]
<1>1. UNCHANGED <<kind, session, event, cl, link, handler>>
    BY DEF Upgrade, ReadHello, ReadAuthenticate, ReadFails, LoopStops, SendRaw, cvars, wvars
<1>2. \E pc \in Pcs \ {"none"} :
        /\ Goto(s, pc) /\ Running(s)
        /\ st[s].pc \in {"loop", "served"} => pc = "served"
        /\ pc \in {"send", "queued"} => st[s].pc = "send"
    <2>1. CASE Upgrade(s) \/ ReadFails(s)
        BY <2>1 DEF Upgrade, ReadFails, Running, Pcs, Ends
    <2>2. CASE ReadHello(s) \/ ReadAuthenticate(s)
        <3>1. st[s].pc \in {"hello", "proof"} /\ \E pc \in {"refused", "attach", "silent", "proof"} : Goto(s, pc)
            BY <2>2 DEF ReadHello, ReadAuthenticate, Answered
        <3>2. QED
            BY <3>1 DEF Running, Pcs, Ends
    <2>3. CASE LoopStops(s) \/ SendRaw(s)
        BY <2>3 DEF LoopStops, SendRaw, Running, Pcs, Ends
    <2>4. QED
        BY <2>1, <2>2, <2>3
<1>3. PICK pc \in Pcs \ {"none"} :
        /\ Goto(s, pc) /\ Running(s)
        /\ st[s].pc \in {"loop", "served"} => pc = "served"
        /\ pc \in {"send", "queued"} => st[s].pc = "send"
    BY <1>2
<1>4. cl[s] # "none" /\ (Multiplexed => handler[st[s].conn] \in {"accept", "wait"})
    BY <1>3, Begun DEF Running
<1>5. SInv'
    BY <1>1, <1>3, <1>4, MoveStream
<1>6. QED
    BY <1>3, <1>5, GotoFacts

\* The goroutine of a stream starts.
LEMMA ServeStarts ==
    ASSUME TypeOK, SInv, NEW s \in Streams, Dispatch(s) \/ HandleClient(s)
    PROVE  SInv' /\ st' \in [Streams -> Stream]
<1>1. UNCHANGED <<kind, session, event, cl, link>> /\ cl[s] # "none" /\ st[s].pc = "none"
    BY DEF Dispatch, HandleClient, cvars, wvars
<1>2. st[s].conn \in Conns /\ handler[st[s].conn] = "accept" /\ link[st[s].conn] # "none"
    BY <1>1 DEF Dispatch, HandleClient, SInv, Served, Handlers
<1>3. \E pc \in {"upgrade", "authwait", "silent"} : Goto(s, pc)
    BY DEF Dispatch, HandleClient
<1>4. PICK pc \in {"upgrade", "authwait", "silent"} : Goto(s, pc)
    BY <1>3
<1>5. pc \in Pcs \ {"none"}
    BY <1>4 DEF Pcs, Ends
<1>6. Multiplexed => UNCHANGED handler
    BY DEF Dispatch, HandleClient, cvars
<1>7. \A c \in Conns : handler'[c] = handler[c]
                       \/ (handler[c] # "none" /\ handler'[c] = "gone" /\ link[c] # "none")
    <2>1. CASE UNCHANGED handler
        BY <2>1
    <2>2. CASE handler' = [handler EXCEPT ![st[s].conn] = "gone"]
        BY <1>2, <2>2 DEF TypeOK
    <2>3. QED
        BY <2>1, <2>2 DEF Dispatch, HandleClient, cvars
<1>8. SInv'
    BY <1>1, <1>2, <1>4, <1>5, <1>6, <1>7, MoveStream
<1>9. QED
    BY <1>4, <1>5, <1>8, GotoFacts

\* The wait of a raw stream for a session of its connection.
LEMMA WaitStream ==
    ASSUME TypeOK, SInv, NEW s \in Streams, AuthWait(s)
    PROVE  SInv' /\ st' \in [Streams -> Stream]
<1>1. UNCHANGED <<kind, session, event, cl, link, handler>> /\ st[s].pc = "authwait"
    BY DEF AuthWait, cvars, wvars
<1>2. /\ cl[s] # "none" /\ st[s].conn \in Conns
      /\ Multiplexed => handler[st[s].conn] \in {"accept", "wait"}
    BY <1>1, Begun DEF Running, Ends
<1>3. CASE Goto(s, "rejected")
    <2>1. "rejected" \in Pcs \ {"none"}
        BY DEF Pcs, Ends
    <2>2. SInv'
        BY <1>1, <1>2, <1>3, <2>1, MoveStream
    <2>3. QED
        BY <1>3, <2>1, <2>2, GotoFacts
<1>4. CASE /\ session[st[s].conn] # 0
           /\ st' = [st EXCEPT ![s].pc = "send", ![s].as = session[st[s].conn]]
    <2>1. session[st[s].conn] \in 0..MaxStreams /\ "send" \in Pcs
        BY <1>2 DEF TypeOK, Pcs
    <2>2. /\ st' \in [Streams -> Stream]
          /\ st'[s].pc = "send" /\ st'[s].conn = st[s].conn /\ st'[s].as = session[st[s].conn]
          /\ \A t \in Streams \ {s} : st'[t] = st[t]
        <3>1. st \in [Streams -> Stream]
            BY DEF TypeOK
        <3>2. [st[s] EXCEPT !.pc = "send", !.as = session[st[s].conn]] \in Stream
            BY <2>1, <3>1 DEF Stream
        <3>3. st' = [st EXCEPT ![s] = [st[s] EXCEPT !.pc = "send", !.as = session[st[s].conn]]]
            BY <1>4
        <3>4. st' \in [Streams -> Stream] /\ \A t \in Streams \ {s} : st'[t] = st[t]
            BY <3>1, <3>2, <3>3
        <3>5. st'[s] = [st[s] EXCEPT !.pc = "send", !.as = session[st[s].conn]]
            BY <3>1, <3>3
        <3>6. QED
            BY <3>1, <3>4, <3>5 DEF Stream
    <2>3. \A t \in Streams : st'[t].conn = st[t].conn
        BY <2>2
    <2>4. \A t \in Streams : st[t].pc \in {"loop", "served"} => st'[t] = st[t]
        BY <1>1, <2>2
    <2>5. Handlers'
        BY <1>1 DEF SInv, Handlers, Multiplexed
    <2>6. ASSUME NEW t \in Streams
          PROVE  Served(t)'
        <3>1. CASE t = s
            BY <1>1, <1>2, <2>2, <3>1 DEF SInv, Served, Multiplexed
        <3>2. CASE t # s
            BY <1>1, <2>2, <3>2 DEF SInv, Served, Multiplexed, Running
        <3>3. QED
            BY <3>1, <3>2
    <2>7. Sessions'
        BY <1>1, <2>4 DEF SInv, Sessions
    <2>8. ASSUME NEW t \in Streams, st'[t].pc \in {"send", "queued"}
          PROVE  /\ st'[t].as # 0 /\ st'[st'[t].as].conn = st'[t].conn
                 /\ st'[st'[t].as].pc \in {"loop", "served"} /\ st'[t].as = session'[st'[t].conn]
        <3>1. CASE t = s
            <4>1. /\ session[st[s].conn] \in Streams /\ st[session[st[s].conn]].conn = st[s].conn
                  /\ st[session[st[s].conn]].pc \in {"loop", "served"}
                BY <1>2, <1>4 DEF SInv, Sessions
            <4>2. QED
                BY <1>1, <1>4, <2>2, <2>4, <3>1, <4>1
        <3>2. CASE t # s
            <4>1. /\ st[t].as # 0 /\ st[st[t].as].conn = st[t].conn
                  /\ st[st[t].as].pc \in {"loop", "served"} /\ st[t].as = session[st[t].conn]
                BY <2>2, <2>8, <3>2 DEF SInv, RawAfterAuthentication
            <4>2. st[t].as \in Streams
                BY <4>1 DEF TypeOK, Stream, Streams
            <4>3. QED
                BY <1>1, <2>2, <2>4, <3>2, <4>1, <4>2
        <3>3. QED
            BY <3>1, <3>2
    <2>9. QED
        BY <2>2, <2>5, <2>6, <2>7, <2>8 DEF SInv, RawAfterAuthentication
<1>5. QED
    BY <1>3, <1>4 DEF AuthWait

\* AttachClient succeeds, or finds the realm gone.
LEMMA AttachStream ==
    ASSUME TypeOK, SInv, NEW s \in Streams, Attach(s)
    PROVE  SInv' /\ st' \in [Streams -> Stream]
<1>1. UNCHANGED <<kind, cl, link, handler>> /\ st[s].pc = "attach"
    BY DEF Attach, wvars
<1>2. /\ cl[s] # "none" /\ st[s].conn \in Conns
      /\ Multiplexed => handler[st[s].conn] \in {"accept", "wait"}
    BY <1>1, Begun DEF Running, Ends
<1>3. CASE Goto(s, "unattached") /\ UNCHANGED <<session, event>>
    <2>1. "unattached" \in Pcs \ {"none"}
        BY DEF Pcs, Ends
    <2>2. SInv'
        BY <1>1, <1>2, <1>3, <2>1, MoveStream
    <2>3. QED
        BY <1>3, <2>1, <2>2, GotoFacts
<1>4. CASE /\ Goto(s, "loop")
           /\ session' = IF Multiplexed /\ session[st[s].conn] = 0 THEN [session EXCEPT ![st[s].conn] = s]
                                                                  ELSE session
           /\ event' = IF Multiplexed THEN [event EXCEPT ![s] = "send"] ELSE event
    <2>1. "loop" \in Pcs
        BY DEF Pcs
    <2>2. /\ st' \in [Streams -> Stream]
          /\ st'[s].pc = "loop" /\ st'[s].conn = st[s].conn /\ st'[s].as = st[s].as
          /\ \A t \in Streams \ {s} : st'[t] = st[t]
        BY <1>4, <2>1, GotoFacts
    <2>3. \A t \in Streams : st'[t].conn = st[t].conn /\ st'[t].as = st[t].as
        BY <2>2
    <2>4. \A t \in Streams : st[t].pc \in {"loop", "served"} => st'[t].pc \in {"loop", "served"}
        BY <2>2
    <2>5. \A c \in Conns : session[c] # 0 => session'[c] = session[c]
        BY <1>4, <1>2 DEF TypeOK
    <2>6. \A t \in Streams \ {s} : event'[t] = event[t]
        BY <1>4 DEF TypeOK
    <2>7. Handlers'
        BY <1>1 DEF SInv, Handlers, Multiplexed
    <2>8. ASSUME NEW t \in Streams
          PROVE  Served(t)'
        <3>1. CASE t = s
            BY <1>1, <1>2, <2>2, <3>1 DEF Served, Multiplexed
        <3>2. CASE t # s
            BY <1>1, <2>2, <2>6, <3>2 DEF SInv, Served, Multiplexed, Running
        <3>3. QED
            BY <3>1, <3>2
    <2>9. ASSUME NEW c \in Conns, session'[c] # 0
          PROVE  /\ session'[c] \in Streams /\ st'[session'[c]].conn = c
                 /\ st'[session'[c]].pc \in {"loop", "served"}
        <3>1. CASE session[c] # 0
            <4>1. /\ session[c] \in Streams /\ st[session[c]].conn = c
                  /\ st[session[c]].pc \in {"loop", "served"}
                BY <3>1 DEF SInv, Sessions
            <4>2. QED
                BY <2>3, <2>4, <2>5, <3>1, <4>1
        <3>2. CASE session[c] = 0
            <4>1. c = st[s].conn /\ session'[c] = s
                BY <1>2, <1>4, <2>9, <3>2 DEF TypeOK
            <4>2. QED
                BY <2>2, <4>1
        <3>3. QED
            BY <3>1, <3>2
    <2>10. ASSUME NEW t \in Streams, st'[t].pc \in {"send", "queued"}
           PROVE  /\ st'[t].as # 0 /\ st'[st'[t].as].conn = st'[t].conn
                  /\ st'[st'[t].as].pc \in {"loop", "served"} /\ st'[t].as = session'[st'[t].conn]
        <3>1. t # s /\ st[t].pc \in {"send", "queued"}
            BY <2>2, <2>10
        <3>2. /\ st[t].as # 0 /\ st[st[t].as].conn = st[t].conn
              /\ st[st[t].as].pc \in {"loop", "served"} /\ st[t].as = session[st[t].conn]
            BY <3>1 DEF SInv, RawAfterAuthentication
        <3>3. st[t].as \in Streams /\ st[t].conn \in Conns
            <4>1. st[t].as \in Streams
                BY <3>2 DEF TypeOK, Stream, Streams
            <4>2. QED
                BY <3>1, <4>1, Begun
        <3>4. QED
            BY <2>3, <2>4, <2>5, <3>2, <3>3
    <2>11. QED
        BY <2>2, <2>7, <2>8, <2>9, <2>10 DEF SInv, Sessions, RawAfterAuthentication
<1>5. QED
    BY <1>3, <1>4 DEF Attach

\* A client opens a stream.
LEMMA OpenStream ==
    ASSUME TypeOK, SInv, NEW s \in Streams, NEW c \in Conns, Open(s, c)
    PROVE  SInv' /\ st' \in [Streams -> Stream]
<1>1. PICK magic \in BOOLEAN, known \in BOOLEAN :
        /\ st' = [st EXCEPT ![s] = [@ EXCEPT !.conn = c, !.magic = magic, !.known = known]]
        /\ cl' = [cl EXCEPT ![s] = IF magic \/ ~Multiplexed THEN "shake" ELSE "raw"]
    BY DEF Open
<1>2. UNCHANGED <<kind, session, event, handler, link>> /\ cl[s] = "none" /\ st[s].pc = "none"
    BY DEF Open, cvars, SInv, Served
<1>3. /\ st' \in [Streams -> Stream]
      /\ st'[s].pc = "none" /\ st'[s].conn = c
      /\ \A t \in Streams \ {s} : st'[t] = st[t]
    <2>1. st \in [Streams -> Stream]
        BY DEF TypeOK
    <2>2. [st[s] EXCEPT !.conn = c, !.magic = magic, !.known = known] \in Stream
        BY <2>1 DEF Stream
    <2>3. st' \in [Streams -> Stream] /\ \A t \in Streams \ {s} : st'[t] = st[t]
        BY <1>1, <2>1, <2>2
    <2>4. st'[s] = [st[s] EXCEPT !.conn = c, !.magic = magic, !.known = known]
        BY <1>1, <2>1
    <2>5. QED
        BY <1>2, <2>1, <2>3, <2>4 DEF Stream
<1>4. cl'[s] # "none" /\ \A t \in Streams \ {s} : cl'[t] = cl[t]
    BY <1>1 DEF TypeOK
<1>5. Handlers'
    BY <1>2 DEF SInv, Handlers, Multiplexed
<1>6. ASSUME NEW t \in Streams
      PROVE  Served(t)'
    <2>1. CASE t = s
        BY <1>2, <1>3, <1>4, <2>1 DEF SInv, Served, Running
    <2>2. CASE t # s
        BY <1>2, <1>3, <1>4, <2>2 DEF SInv, Served, Multiplexed, Running
    <2>3. QED
        BY <2>1, <2>2
<1>7. Sessions'
    BY <1>2, <1>3 DEF SInv, Sessions
<1>8. ASSUME NEW t \in Streams, st'[t].pc \in {"send", "queued"}
      PROVE  /\ st'[t].as # 0 /\ st'[st'[t].as].conn = st'[t].conn
             /\ st'[st'[t].as].pc \in {"loop", "served"} /\ st'[t].as = session'[st'[t].conn]
    <2>1. t # s /\ st[t].pc \in {"send", "queued"}
        BY <1>3, <1>8
    <2>2. /\ st[t].as # 0 /\ st[st[t].as].conn = st[t].conn
          /\ st[st[t].as].pc \in {"loop", "served"} /\ st[t].as = session[st[t].conn]
        BY <2>1 DEF SInv, RawAfterAuthentication
    <2>3. st[t].as \in Streams /\ st[t].as # s
        BY <1>2, <2>2 DEF TypeOK, Stream, Streams
    <2>4. QED
        BY <1>2, <1>3, <2>1, <2>2, <2>3
<1>9. QED
    BY <1>3, <1>5, <1>6, <1>7, <1>8 DEF SInv, RawAfterAuthentication

\* A connection's handler starts, begins to wait for its streams, or ends.
LEMMA HandlerSteps ==
    ASSUME TypeOK, SInv, NEW c \in Conns, AcceptConn(c) \/ HandlerEnds(c) \/ HandlerDone(c)
    PROVE  SInv'
<1>1. UNCHANGED <<kind, st, session, event, cl>>
    BY DEF AcceptConn, HandlerEnds, HandlerDone, svars, wvars
<1>2. \A d \in Conns \ {c} : handler'[d] = handler[d] /\ link'[d] = link[d]
    BY DEF AcceptConn, HandlerEnds, HandlerDone, TypeOK
<1>3. Sessions' /\ RawAfterAuthentication'
    BY <1>1 DEF SInv, Sessions, RawAfterAuthentication
<1>4. Handlers'
    <2>1. /\ link'[c] = "none" => handler'[c] = "none"
          /\ handler'[c] = "wait" => Multiplexed
        <3>1. CASE AcceptConn(c)
            BY <3>1 DEF AcceptConn, TypeOK
        <3>2. CASE HandlerEnds(c)
            BY <3>2 DEF HandlerEnds, TypeOK
        <3>3. CASE HandlerDone(c)
            BY <3>3 DEF HandlerDone, TypeOK, SInv, Handlers
        <3>4. QED
            BY <3>1, <3>2, <3>3
    <2>2. QED
        BY <1>1, <1>2, <2>1 DEF SInv, Handlers, Multiplexed
<1>5. ASSUME NEW s \in Streams, Multiplexed, Running(s)
      PROVE  handler'[st[s].conn] \in {"accept", "wait"}
    <2>1. st[s].conn \in Conns /\ handler[st[s].conn] \in {"accept", "wait"}
        BY <1>5, Begun DEF Running
    <2>2. CASE st[s].conn # c
        BY <1>2, <2>1, <2>2
    <2>3. CASE st[s].conn = c
        <3>1. CASE AcceptConn(c) \/ HandlerEnds(c)
            BY <1>5, <3>1, <2>3 DEF AcceptConn, HandlerEnds, TypeOK
        <3>2. CASE HandlerDone(c)
            BY <1>5, <3>2, <2>3 DEF HandlerDone, OfConn
        <3>3. QED
            BY <3>1, <3>2
    <2>4. QED
        BY <2>2, <2>3
<1>6. \A s \in Streams : Served(s)'
    BY <1>1, <1>5 DEF SInv, Served, Multiplexed, Running
<1>7. QED
    BY <1>3, <1>4, <1>6 DEF SInv

\* Steps of the listener's loop, of its owner, of the network and of the clients.
LEMMA OtherSteps ==
    ASSUME TypeOK, SInv,
           \/ LoopEnds \/ LoopCloses \/ DrainEvent \/ TakeStream \/ ChannelClosed \/ CloseDone
           \/ ListenerFails \/ RemoveRealm \/ ContextDone \/ \E c \in Conns : LinkDown(c)
           \/ \E s \in Streams : Join(s) \/ ClientLeaves(s)
    PROVE  SInv' /\ UNCHANGED <<kind, st, session, handler, event>>
<1>1. UNCHANGED <<kind, st, session, handler, event>>
    BY DEF LoopEnds, LoopCloses, DrainEvent, TakeStream, ChannelClosed, CloseDone,
            ListenerFails, RemoveRealm, ContextDone, Return, LinkDown, Join, ReadResponse, ReadAnswer,
            JoinFails, ClientLeaves, cvars, svars
<1>2. \A c \in Conns : link'[c] = "none" => link[c] = "none"
    <2>1. UNCHANGED link \/ \E down : link' = [c \in Conns |-> IF c \in down THEN "down" ELSE link[c]]
        <3>1. CASE LoopEnds \/ LoopCloses \/ DrainEvent \/ TakeStream \/ ChannelClosed
                   \/ ListenerFails \/ RemoveRealm \/ ContextDone
            BY <3>1 DEF LoopEnds, LoopCloses, DrainEvent, TakeStream, ChannelClosed, ListenerFails,
                    RemoveRealm, ContextDone, Return, cvars
        <3>2. CASE CloseDone \/ \E c \in Conns : LinkDown(c)
            BY <3>2 DEF CloseDone, LinkDown, Cut
        <3>3. CASE \E s \in Streams : Join(s) \/ ClientLeaves(s)
            <4>1. CASE \E s \in Streams : ReadAnswer(s)
                BY <4>1 DEF ReadAnswer, Cut
            <4>2. CASE \E s \in Streams : ReadResponse(s) \/ JoinFails(s) \/ ClientLeaves(s)
                BY <4>2 DEF ReadResponse, JoinFails, ClientLeaves, cvars
            <4>3. QED
                BY <3>3, <4>1, <4>2 DEF Join
        <3>4. QED
            BY <3>1, <3>2, <3>3
    <2>2. QED
        BY <2>1
<1>3. \A s \in Streams : cl'[s] = "none" <=> cl[s] = "none"
    <2>1. CASE UNCHANGED cl
        BY <2>1
    <2>2. ASSUME NEW t \in Streams, Join(t) \/ ClientLeaves(t)
          PROVE  \A s \in Streams : cl'[s] = "none" <=> cl[s] = "none"
        <3>1. cl[t] # "none" /\ \E v \in {"answer", "joined", "failed", "left"} : cl' = [cl EXCEPT ![t] = v]
            BY <2>2 DEF Join, ReadResponse, ReadAnswer, JoinFails, ClientLeaves
        <3>2. QED
            BY <3>1 DEF TypeOK
    <2>3. CASE LoopEnds \/ LoopCloses \/ DrainEvent \/ TakeStream \/ ChannelClosed \/ CloseDone
               \/ ListenerFails \/ RemoveRealm \/ ContextDone \/ \E c \in Conns : LinkDown(c)
        BY <2>1, <2>3 DEF LoopEnds, LoopCloses, DrainEvent, TakeStream, ChannelClosed, CloseDone,
            ListenerFails, RemoveRealm, ContextDone, Return, LinkDown, wvars
    <2>4. QED
        BY <2>2, <2>3
<1>4. QED
    BY <1>1, <1>2, <1>3, SameStreams

\* A session is sent on conns, or dropped.
LEMMA SendEventStep ==
    ASSUME TypeOK, SInv, NEW s \in Streams, SendEvent(s)
    PROVE  SInv' /\ event' \in [Streams -> {"none", "send", "done"}]
<1>1. UNCHANGED <<kind, st, session, handler, link, cl>> /\ event[s] = "send"
      /\ event' = [event EXCEPT ![s] = "done"]
    BY DEF SendEvent, cvars, wvars
<1>2. event' \in [Streams -> {"none", "send", "done"}] /\ \A t \in Streams : event'[t] # "none" => event[t] # "none"
    BY <1>1 DEF TypeOK
<1>3. Handlers' /\ Sessions' /\ RawAfterAuthentication'
    BY <1>1 DEF SInv, Handlers, Sessions, RawAfterAuthentication, Multiplexed
<1>4. \A t \in Streams : Served(t)'
    BY <1>1, <1>2 DEF SInv, Served, Multiplexed, Running
<1>5. QED
    BY <1>2, <1>3, <1>4 DEF SInv

\* Every step keeps what is said of the streams.
LEMMA StreamInv ==
    ASSUME TypeOK, SInv, Next
    PROVE  SInv' /\ st' \in [Streams -> Stream]
<1>1. CASE \E s \in Streams : Serve(s)
    BY <1>1, ServeMoves, ServeStarts, WaitStream, AttachStream DEF Serve
<1>2. CASE \E s \in Streams, c \in Conns : Open(s, c)
    BY <1>2, OpenStream
<1>3. CASE \E s \in Streams : SendEvent(s)
    BY <1>3, SendEventStep DEF SendEvent, TypeOK
<1>4. CASE \E c \in Conns : AcceptConn(c) \/ HandlerEnds(c) \/ HandlerDone(c)
    BY <1>4, HandlerSteps DEF AcceptConn, HandlerEnds, HandlerDone, svars, TypeOK
<1>5. CASE \/ LoopEnds \/ LoopCloses \/ DrainEvent \/ TakeStream \/ ChannelClosed \/ CloseDone
           \/ ListenerFails \/ RemoveRealm \/ ContextDone \/ \E c \in Conns : LinkDown(c)
           \/ \E s \in Streams : Join(s) \/ ClientLeaves(s)
    BY <1>5, OtherSteps DEF TypeOK
<1>6. QED
    BY <1>1, <1>2, <1>3, <1>4, <1>5 DEF Next, Server

-----------------------------------------------------------------------------
(* Type correctness                                                        *)

\* Only these steps touch the listener's own state and its owner's.
LEMMA ScalarType ==
    ASSUME TypeOK, Next
    PROVE  /\ kind' \in Kinds /\ ln' \in {"open", "closed"} /\ done' \in BOOLEAN
           /\ loop' \in {"accept", "wait", "ended"} /\ chans' \in {"open", "closed"}
           /\ realm' \in {"there", "gone"} /\ main' \in {"run", "closing", "returned"} /\ drain' \in BOOLEAN
<1>1. CASE Server \/ ListenerFails \/ RemoveRealm \/ ContextDone
    <2>1. CASE LoopEnds \/ LoopCloses \/ \E c \in Conns : HandlerEnds(c) \/ HandlerDone(c)
        <3>1. UNCHANGED <<kind, ln, realm, main, drain>> /\ done' \in {done, done \/ Multiplexed}
            BY <2>1 DEF LoopEnds, LoopCloses, HandlerEnds, HandlerDone, lvars, qvars
        <3>2. loop' \in {loop, "wait", "ended"} /\ chans' \in {chans, "closed"}
            BY <2>1 DEF LoopEnds, LoopCloses, HandlerEnds, HandlerDone, lvars
        <3>3. QED
            BY <3>1, <3>2 DEF TypeOK, Multiplexed
    <2>2. CASE DrainEvent \/ TakeStream \/ CloseDone
        BY <2>2 DEF DrainEvent, TakeStream, CloseDone, lvars, qvars, TypeOK
    <2>3. CASE ChannelClosed \/ ListenerFails \/ RemoveRealm \/ ContextDone
        BY <2>3 DEF ChannelClosed, ListenerFails, RemoveRealm, ContextDone, Return, lvars, qvars, TypeOK
    <2>4. QED
        BY <1>1, <2>1, <2>2, <2>3 DEF Server
<1>2. CASE (\E c \in Conns : AcceptConn(c) \/ LinkDown(c)) \/ \E s \in Streams, c \in Conns : Open(s, c)
    <2>1. UNCHANGED <<kind, ln, done, loop, chans, realm, main, drain>>
        BY <1>2 DEF AcceptConn, LinkDown, Open, lvars, qvars
    <2>2. QED
        BY <2>1 DEF TypeOK
<1>3. CASE \E s \in Streams : Serve(s)
    BY <1>3 DEF Serve, Dispatch, HandleClient, Upgrade, ReadHello, ReadAuthenticate, ReadFails, Attach,
            LoopStops, AuthWait, SendRaw, lvars, qvars, TypeOK
<1>4. CASE \E s \in Streams : SendEvent(s) \/ Join(s) \/ ClientLeaves(s)
    BY <1>4 DEF SendEvent, Join, ReadResponse, ReadAnswer, JoinFails, ClientLeaves, lvars, qvars, TypeOK
<1>5. QED
    BY <1>1, <1>2, <1>3, <1>4 DEF Next

\* A set of streams with room for one more, or with one less.
LEMMA QueueType ==
    ASSUME NEW q \in SUBSET Streams, Cardinality(q) <= Capacity, NEW s \in Streams
    PROVE  /\ q \ {s} \subseteq Streams /\ Cardinality(q \ {s}) <= Capacity
           /\ Cardinality(q) < Capacity => q \cup {s} \subseteq Streams /\ Cardinality(q \cup {s}) <= Capacity
<1>1. IsFiniteSet(q) /\ Cardinality(q) \in Nat
    <2>1. IsFiniteSet(q)
        BY Finite, FS_Subset
    <2>2. QED
        BY <2>1, FS_CardinalityType
<1>2. Cardinality(q \ {s}) = IF s \in q THEN Cardinality(q) - 1 ELSE Cardinality(q)
    BY <1>1, FS_RemoveElement
<1>3. Cardinality(q \cup {s}) = IF s \in q THEN Cardinality(q) ELSE Cardinality(q) + 1
    BY <1>1, FS_AddElement
<1>4. Capacity \in Nat
    BY ListenerAssumption
<1>5. QED
    BY <1>1, <1>2, <1>3, <1>4

\* The channels conns and streams stay within their capacity.
LEMMA ChannelType ==
    ASSUME TypeOK, Next
    PROVE  /\ conns' \subseteq Streams /\ streams' \subseteq Streams
           /\ Cardinality(conns') <= Capacity /\ Cardinality(streams') <= Capacity
<1>t. /\ conns \in SUBSET Streams /\ streams \in SUBSET Streams
      /\ Cardinality(conns) <= Capacity /\ Cardinality(streams) <= Capacity
    BY DEF TypeOK
<1>1. ASSUME UNCHANGED <<conns, streams>>
      PROVE  /\ conns' \subseteq Streams /\ streams' \subseteq Streams
             /\ Cardinality(conns') <= Capacity /\ Cardinality(streams') <= Capacity
    BY <1>t, <1>1
<1>2. \/ UNCHANGED <<conns, streams>>
      \/ \E s \in Streams : /\ UNCHANGED streams
                            /\ \/ Cardinality(conns) < Capacity /\ conns' = conns \cup {s}
                               \/ conns' = conns \ {s}
      \/ \E s \in Streams : /\ UNCHANGED conns
                            /\ \/ Cardinality(streams) < Capacity /\ streams' = streams \cup {s}
                               \/ streams' = streams \ {s}
    <2>1. CASE LoopEnds \/ LoopCloses \/ (\E c \in Conns : HandlerEnds(c) \/ HandlerDone(c))
               \/ ChannelClosed \/ CloseDone \/ ListenerFails \/ RemoveRealm \/ ContextDone
        BY <2>1 DEF LoopEnds, LoopCloses, HandlerEnds, HandlerDone,
            ChannelClosed, CloseDone, ListenerFails, RemoveRealm, ContextDone, Return, qvars
    <2>2. CASE DrainEvent \/ TakeStream
        BY <1>t, <2>2 DEF DrainEvent, TakeStream
    <2>3. CASE (\E c \in Conns : AcceptConn(c) \/ LinkDown(c)) \/ \E s \in Streams, c \in Conns : Open(s, c)
        BY <2>3 DEF AcceptConn, LinkDown, Open, qvars
    <2>4. ASSUME NEW s \in Streams, \/ Dispatch(s) \/ HandleClient(s) \/ Upgrade(s) \/ ReadHello(s)
                                    \/ ReadAuthenticate(s) \/ ReadFails(s) \/ Attach(s) \/ LoopStops(s)
                                    \/ AuthWait(s) \/ Join(s) \/ ClientLeaves(s)
          PROVE  UNCHANGED <<conns, streams>>
        BY <2>4 DEF Dispatch, HandleClient, Upgrade, ReadHello, ReadAuthenticate, ReadFails, Attach,
            LoopStops, AuthWait, Join, ReadResponse, ReadAnswer, JoinFails, ClientLeaves, qvars
    <2>5. CASE \E s \in Streams : SendRaw(s) \/ SendEvent(s)
        BY <2>5 DEF SendRaw, SendEvent
    <2>6. QED
        BY <2>1, <2>2, <2>3, <2>4, <2>5 DEF Next, Server, Serve
<1>3. QED
    BY <1>t, <1>1, <1>2, QueueType

\* Connections, their handlers and their sessions.
LEMMA ConnType ==
    ASSUME TypeOK, SInv, Next
    PROVE  /\ link' \in [Conns -> {"none", "up", "down"}]
           /\ handler' \in [Conns -> {"none", "accept", "wait", "gone"}]
           /\ session' \in [Conns -> 0..MaxStreams]
<1>t. /\ link \in [Conns -> {"none", "up", "down"}]
      /\ handler \in [Conns -> {"none", "accept", "wait", "gone"}]
      /\ session \in [Conns -> 0..MaxStreams] /\ Streams \subseteq 0..MaxStreams
    BY DEF TypeOK, Streams
<1>c. \A down : [c \in Conns |-> IF c \in down THEN "down" ELSE link[c]] \in [Conns -> {"none", "up", "down"}]
    BY <1>t
<1>1. CASE LoopEnds \/ LoopCloses \/ DrainEvent \/ TakeStream \/ ChannelClosed \/ ListenerFails
           \/ RemoveRealm \/ ContextDone
    BY <1>t, <1>1 DEF LoopEnds, LoopCloses, DrainEvent, TakeStream,
            ChannelClosed, ListenerFails, RemoveRealm, ContextDone, Return, cvars
<1>2. CASE CloseDone \/ \E c \in Conns : LinkDown(c)
    BY <1>t, <1>c, <1>2 DEF CloseDone, LinkDown, Cut
<1>3. CASE \E c \in Conns : AcceptConn(c) \/ HandlerEnds(c) \/ HandlerDone(c)
    BY <1>t, <1>3 DEF AcceptConn, HandlerEnds, HandlerDone
<1>4. CASE \E s \in Streams : \/ Dispatch(s) \/ Upgrade(s) \/ ReadHello(s) \/ ReadAuthenticate(s)
                              \/ ReadFails(s) \/ LoopStops(s) \/ AuthWait(s) \/ SendRaw(s) \/ SendEvent(s)
    BY <1>t, <1>4 DEF Dispatch, Upgrade, ReadHello, ReadAuthenticate, ReadFails, LoopStops, AuthWait,
            SendRaw, SendEvent, cvars
<1>5. CASE \E s \in Streams : HandleClient(s) \/ Attach(s)
    BY <1>t, <1>5 DEF HandleClient, Attach
<1>6. CASE \E s \in Streams : Join(s) \/ ClientLeaves(s) \/ \E c \in Conns : Open(s, c)
    <2>1. UNCHANGED <<handler, session>>
        BY <1>6 DEF Join, ReadResponse, ReadAnswer, JoinFails, ClientLeaves, Open, cvars
    <2>2. CASE \E s \in Streams : ReadAnswer(s)
        BY <1>t, <1>c, <2>1, <2>2 DEF ReadAnswer, Cut
    <2>3. CASE \E s \in Streams : ReadResponse(s) \/ JoinFails(s) \/ ClientLeaves(s) \/ \E c \in Conns : Open(s, c)
        BY <1>t, <2>1, <2>3 DEF ReadResponse, JoinFails, ClientLeaves, Open, cvars
    <2>4. QED
        BY <1>6, <2>2, <2>3 DEF Join
<1>7. QED
    BY <1>1, <1>2, <1>3, <1>4, <1>5, <1>6 DEF Next, Server, Serve

\* Events, attached sessions, clients and the messages under way.
LEMMA ClientType ==
    ASSUME TypeOK, Next
    PROVE  /\ event' \in [Streams -> {"none", "send", "done"}]
           /\ attached' \subseteq Streams
           /\ cl' \in [Streams -> {"none", "raw", "shake", "answer", "joined", "failed", "left"}]
           /\ wire' \in [Streams -> Messages]
<1>t. /\ event \in [Streams -> {"none", "send", "done"}] /\ attached \subseteq Streams
      /\ cl \in [Streams -> {"none", "raw", "shake", "answer", "joined", "failed", "left"}]
      /\ wire \in [Streams -> Messages]
    BY DEF TypeOK
<1>m. {"none", "shake", "response", "hello", "challenge", "authenticate", "welcome", "abort"} \subseteq Messages
    BY DEF Messages
<1>c. ASSUME NEW down, NEW m \in [Streams -> Messages]
      PROVE  [s \in Streams |-> IF st[s].conn \in down THEN "none" ELSE m[s]] \in [Streams -> Messages]
    BY <1>m
<1>1. CASE LoopEnds \/ LoopCloses \/ DrainEvent \/ TakeStream \/ ChannelClosed \/ ListenerFails
           \/ RemoveRealm \/ ContextDone
    BY <1>t, <1>1 DEF LoopEnds, LoopCloses, DrainEvent, TakeStream,
            ChannelClosed, ListenerFails, RemoveRealm, ContextDone, Return, svars, wvars
<1>2. CASE CloseDone \/ \E c \in Conns : LinkDown(c)
    <2>1. UNCHANGED <<event, cl>> /\ attached' \subseteq attached
        BY <1>2 DEF CloseDone, LinkDown, svars
    <2>2. PICK down : wire' = [s \in Streams |-> IF st[s].conn \in down THEN "none" ELSE wire[s]]
        BY <1>2 DEF CloseDone, LinkDown, Cut
    <2>3. wire' \in [Streams -> Messages]
        BY <1>t, <1>m, <2>2
    <2>4. QED
        BY <1>t, <2>1, <2>3
<1>3. CASE \E c \in Conns : AcceptConn(c) \/ HandlerEnds(c) \/ HandlerDone(c)
    BY <1>t, <1>3 DEF AcceptConn, HandlerEnds, HandlerDone, svars, wvars
<1>4. CASE \E s \in Streams : \/ Dispatch(s) \/ HandleClient(s) \/ ReadFails(s) \/ LoopStops(s)
                              \/ AuthWait(s) \/ SendRaw(s) \/ SendEvent(s) \/ Attach(s)
    BY <1>t, <1>4 DEF Dispatch, HandleClient, ReadFails, LoopStops, AuthWait, SendRaw, SendEvent, Attach, wvars
<1>5. ASSUME NEW s \in Streams, Upgrade(s) \/ ReadHello(s) \/ ReadAuthenticate(s)
      PROVE  UNCHANGED <<event, attached, cl>> /\ \E m \in Messages : wire' = [wire EXCEPT ![s] = m]
    BY <1>m, <1>5 DEF Upgrade, ReadHello, ReadAuthenticate, Answered
<1>6. ASSUME NEW s \in Streams, ReadAnswer(s)
      PROVE  /\ UNCHANGED <<event, attached>> /\ wire' \in [Streams -> Messages]
             /\ \E v \in {"answer", "joined", "failed"} : cl' = [cl EXCEPT ![s] = v]
    <2>1. UNCHANGED <<event, attached>> /\ \E v \in {"answer", "joined", "failed"} : cl' = [cl EXCEPT ![s] = v]
        BY <1>6 DEF ReadAnswer, svars
    <2>2. [wire EXCEPT ![s] = IF wire[s] = "challenge" THEN "authenticate" ELSE "none"] \in [Streams -> Messages]
        BY <1>t, <1>m
    <2>3. wire' \in [Streams -> Messages]
        BY <1>6, <1>c, <2>2 DEF ReadAnswer, Cut
    <2>4. QED
        BY <2>1, <2>3
<1>7. CASE \E s \in Streams : \/ ReadResponse(s) \/ JoinFails(s) \/ ClientLeaves(s)
                              \/ \E c \in Conns : Open(s, c)
    <2>1. UNCHANGED <<event, attached>>
        BY <1>7 DEF ReadResponse, JoinFails, ClientLeaves, Open, svars
    <2>2. \E s \in Streams :
            /\ \E v \in {"raw", "shake", "answer", "failed", "left"} : cl' = [cl EXCEPT ![s] = v]
            /\ wire' = wire \/ \E m \in {"none", "shake", "hello"} : wire' = [wire EXCEPT ![s] = m]
        <3>1. CASE \E s \in Streams : ReadResponse(s) \/ JoinFails(s) \/ ClientLeaves(s)
            BY <3>1 DEF ReadResponse, JoinFails, ClientLeaves
        <3>2. CASE \E s \in Streams, c \in Conns : Open(s, c)
            BY <3>2 DEF Open
        <3>3. QED
            BY <1>7, <3>1, <3>2
    <2>3. QED
        BY <1>t, <1>m, <2>1, <2>2
<1>8. CASE \E s \in Streams : Upgrade(s) \/ ReadHello(s) \/ ReadAuthenticate(s)
    BY <1>t, <1>5, <1>8
<1>9. CASE \E s \in Streams : ReadAnswer(s)
    BY <1>t, <1>6, <1>9
<1>10. QED
    BY <1>1, <1>2, <1>3, <1>4, <1>7, <1>8, <1>9 DEF Next, Server, Serve, Join

\* Every step keeps the types.
LEMMA TypeInv ==
    ASSUME TypeOK, SInv, Counted, Next
    PROVE  TypeOK'
<1>1. (wg \in 0..(Cardinality(Conns) + Cardinality(Streams)))'
    <2>1. Counted'
        BY CountInv
    <2>2. QED
        BY <2>1, CountedType, PTL
<1>2. st' \in [Streams -> Stream]
    BY StreamInv
<1>3. QED
    BY <1>1, <1>2, ScalarType, ChannelType, ConnType, ClientType DEF TypeOK

-----------------------------------------------------------------------------
(* Closing the channels                                                    *)

\* Only these steps touch the loop, the channels' end or the count.
LEMMA LoopSteps ==
    ASSUME Next
    PROVE  \/ UNCHANGED <<kind, loop, chans, wg>>
           \/ LoopEnds \/ LoopCloses
           \/ \E c \in Conns : AcceptConn(c) \/ HandlerDone(c)
           \/ \E s \in Streams : Attach(s) \/ SendEvent(s)
<1>1. CASE Server \/ ListenerFails \/ RemoveRealm \/ ContextDone
    BY <1>1 DEF Server, HandlerEnds, DrainEvent, TakeStream, ChannelClosed, CloseDone, ListenerFails,
            RemoveRealm, ContextDone, Return, lvars
<1>2. CASE (\E c \in Conns : AcceptConn(c) \/ LinkDown(c)) \/ \E s \in Streams, c \in Conns : Open(s, c)
    BY <1>2 DEF LinkDown, Open, lvars
<1>3. ASSUME NEW s \in Streams, Serve(s)
      PROVE  UNCHANGED <<kind, loop, chans, wg>> \/ Attach(s)
    BY <1>3 DEF Serve, Dispatch, HandleClient, Upgrade, ReadHello, ReadAuthenticate, ReadFails,
            LoopStops, AuthWait, SendRaw, lvars
<1>4. ASSUME NEW s \in Streams, Join(s) \/ ClientLeaves(s)
      PROVE  UNCHANGED <<kind, loop, chans, wg>>
    BY <1>4 DEF Join, ReadResponse, ReadAnswer, JoinFails, ClientLeaves, lvars
<1>5. QED
    BY <1>1, <1>2, <1>3, <1>4 DEF Next

\* With closed channels nobody is counted: there is no handler, no running stream and nobody
\* who sends.
LEMMA NobodyLeft ==
    ASSUME Counted, SInv, ClosedLast, chans = "closed"
    PROVE  /\ loop = "ended" /\ kind = "quic" /\ wg = 0
           /\ \A c \in Conns : handler[c] \notin {"accept", "wait"}
           /\ \A s \in Streams : event[s] # "send" /\ ~Running(s)
<1>1. loop = "ended" /\ kind = "quic" /\ wg = 0
    BY DEF ClosedLast
<1>2. Handled = {} /\ Senders = {}
    BY <1>1, CountedZero
<1>3. \A c \in Conns : handler[c] \notin {"accept", "wait"}
    BY <1>2 DEF Handled
<1>4. \A s \in Streams : event[s] # "send"
    BY <1>2 DEF Senders
<1>5. ASSUME NEW s \in Streams, Running(s) PROVE FALSE
    <2>1. st[s].pc # "none" /\ Multiplexed
        BY <1>1, <1>5 DEF Running, Multiplexed
    <2>2. st[s].conn \in Conns /\ handler[st[s].conn] \in {"accept", "wait"}
        BY <1>5, <2>1, Begun
    <2>3. QED
        BY <1>3, <2>2
<1>6. QED
    BY <1>1, <1>3, <1>4, <1>5

\* After startConnectionLoop has closed the channels no connection is accepted, no handler
\* ends and no session is attached or announced.
LEMMA ClosedInv ==
    ASSUME Counted, SInv, ClosedLast, Next
    PROVE  ClosedLast'
<1>1. CASE UNCHANGED <<kind, loop, chans, wg>>
    BY <1>1 DEF ClosedLast
<1>2. CASE LoopEnds
    BY <1>2 DEF LoopEnds, ClosedLast
<1>3. CASE LoopCloses
    BY <1>3 DEF LoopCloses, ClosedLast
<1>4. CASE (\E c \in Conns : AcceptConn(c) \/ HandlerDone(c)) \/ \E s \in Streams : Attach(s) \/ SendEvent(s)
    <2>1. UNCHANGED <<kind, loop, chans>>
        BY <1>4 DEF AcceptConn, HandlerDone, Attach, SendEvent
    <2>2. ASSUME chans = "closed" PROVE FALSE
        <3>1. CASE \E c \in Conns : AcceptConn(c) \/ HandlerDone(c)
            BY <2>2, <3>1, NobodyLeft DEF AcceptConn, HandlerDone
        <3>2. CASE \E s \in Streams : Attach(s) \/ SendEvent(s)
            BY <2>2, <3>2, NobodyLeft DEF Attach, SendEvent, Running, Ends
        <3>3. QED
            BY <1>4, <3>1, <3>2
    <2>3. QED
        BY <2>1, <2>2 DEF ClosedLast
<1>5. QED
    BY <1>1, <1>2, <1>3, <1>4, LoopSteps

-----------------------------------------------------------------------------
(* The theorems                                                            *)

\* At first there is no connection, no stream and no goroutine.
LEMMA InitInv == Init => IInv
<1> SUFFICES ASSUME Init PROVE IInv
    OBVIOUS
<1>1. Handled = {} /\ Senders = {}
    BY DEF Init, Handled, Senders
<1>2. Counted
    BY <1>1, FS_EmptySet DEF Init, Counted
<1>3. st \in [Streams -> Stream]
    <2>1. 0 \in 0..MaxStreams
        BY ListenerAssumption
    <2>2. [conn |-> Nil, magic |-> FALSE, known |-> TRUE, pc |-> "none", as |-> 0] \in Stream
        BY <2>1 DEF Stream, Pcs
    <2>3. QED
        BY <2>2 DEF Init
<1>4. Cardinality({}) = 0 /\ Capacity \in Nat
    BY FS_EmptySet, ListenerAssumption
<1>5. /\ conns \subseteq Streams /\ streams \subseteq Streams
      /\ Cardinality(conns) <= Capacity /\ Cardinality(streams) <= Capacity
    BY <1>4 DEF Init
<1>6. /\ session \in [Conns -> 0..MaxStreams]
      /\ wire \in [Streams -> Messages]
    BY ListenerAssumption DEF Init, Messages
<1>7. wg \in 0..(Cardinality(Conns) + Cardinality(Streams))
    BY <1>2, CountedType
<1>8. TypeOK
    BY <1>3, <1>5, <1>6, <1>7 DEF Init, TypeOK
<1>9. SInv
    BY DEF Init, SInv, Handlers, Served, Sessions, RawAfterAuthentication, Running
<1>10. QED
    BY <1>2, <1>8, <1>9 DEF Init, IInv, ClosedLast

\* Every step keeps the invariant.
LEMMA NextInv == IInv /\ [Next]_vars => IInv'
<1> SUFFICES ASSUME IInv, [Next]_vars PROVE IInv'
    OBVIOUS
<1>1. CASE Next
    BY <1>1, TypeInv, CountInv, StreamInv, ClosedInv DEF IInv
<1>2. CASE UNCHANGED vars
    <2>1. UNCHANGED <<kind, ln, done, wg, loop, chans, conns, streams, main, drain, link, handler, session,
                      st, event, attached, realm, cl, wire>>
        BY <1>2 DEF vars, lvars, qvars, cvars, svars, wvars
    <2>2. TypeOK'
        BY <2>1 DEF IInv, TypeOK
    <2>3. Counted'
        BY <2>1 DEF IInv, Counted, Handled, Senders
    <2>4. SInv'
        BY <2>1, SameStreams DEF IInv
    <2>5. ClosedLast'
        BY <2>1 DEF IInv, ClosedLast
    <2>6. QED
        BY <2>2, <2>3, <2>4, <2>5 DEF IInv
<1>3. QED
    BY <1>1, <1>2

\* The invariant holds of every listener.
THEOREM Invariance == Spec => []IInv
<1>1. QED
    BY InitInv, NextInv, PTL DEF Spec

\* server.go 370-374, 465: for any number of connections and streams, no goroutine ever
\* sends on a channel that startConnectionLoop has closed.
THEOREM SendsBeforeClose == Spec => []NoSendOnClosedChannel
<1>1. IInv => NoSendOnClosedChannel
    <2> SUFFICES ASSUME IInv PROVE NoSendOnClosedChannel
        OBVIOUS
    <2>1. TypeOK
        BY DEF IInv
    <2>2. chans = "closed" => \A s \in Streams : event[s] # "send" /\ ~Running(s)
        BY NobodyLeft DEF IInv
    <2>3. QED
        BY <2>1, <2>2 DEF NoSendOnClosedChannel, Running, Ends
<1>2. QED
    BY <1>1, Invariance, PTL

\* streamauth.go 17-18: for any number of streams, a raw stream reaches the channel streams
\* only with the session of its own connection, attached before.
THEOREM RawStreamsAuthenticated == Spec => []RawAfterAuthentication
<1>1. IInv => RawAfterAuthentication
    BY DEF IInv, SInv
<1>2. QED
    BY <1>1, Invariance, PTL
=============================================================================
