------------------------------ MODULE Listener ------------------------------
(***************************************************************************)
(* The server's listeners (server.go, webtransport.go, streamauth.go), the *)
(* handshake of acceptor.go with joiner.go on each stream, and the owner   *)
(* of the listener, RunStandalone (xconn/standalone.go).                   *)
(*                                                                         *)
(* A QUIC or WebTransport connection carries many streams: one that begins *)
(* with the RawSocket magic byte is a WAMP session, another is raw and is  *)
(* delivered only after a session of its connection was attached.  A TCP   *)
(* connection (HandleClient) is one stream, without the magic byte a       *)
(* WebSocket.  quic-go, webtransport-go, the sockets and the protocol      *)
(* state machines of wampproto are external.                               *)
(***************************************************************************)
EXTENDS Naturals, FiniteSets

CONSTANTS
    Kinds,      \* the listeners to consider: "quic", "webtransport", "tcp"
    Conns,      \* connections that clients may open
    MaxStreams, \* bound: streams that clients open
    MaxJoins,   \* bound: those of them that begin a handshake, for each kind
    Capacity,   \* of the channels conns and streams (8 in the code)
    Nil

ASSUME ListenerAssumption ==
    /\ Kinds \subseteq {"quic", "webtransport", "tcp"}
    /\ Capacity \in Nat \ {0} /\ MaxStreams \in Nat /\ MaxJoins \in [Kinds -> Nat]
    /\ IsFiniteSet(Conns) /\ Nil \notin Conns

\* Streams are numbered in the order in which they are opened.
Streams == 1..MaxStreams

VARIABLES
    kind,      \* which listener this is
    ln,        \* the socket: "open" or "closed"
    done,      \* l.done is closed
    wg,        \* l.WaitGroup
    loop,      \* startConnectionLoop, or Serve: "accept", "wait", "ended"
    chans,     \* conns and streams: "open" or "closed"
    conns,     \* sessions in the channel conns
    streams,   \* raw streams in the channel streams
    link,      \* link[c]: "none", "up", "down"
    handler,   \* handler[c]: its goroutine: "none", "accept", "wait", "gone"
    session,   \* session[c]: connAuth.session
    st,        \* st[s]: the stream and the goroutine that serves it
    event,     \* event[s]: the goroutine that sends on conns
    realm,     \* the router's realm: "there" or "gone"
    attached,  \* streams whose session is attached
    cl,        \* cl[s]: the client's end
    wire,      \* wire[s]: the handshake message under way
    main,      \* RunStandalone: "run", "closing" (its deferred calls), "returned"
    drain      \* its goroutine drain is running

lvars == <<ln, done, wg, loop, chans>>
qvars == <<conns, streams, main, drain>>
cvars == <<link, handler, session>>
svars == <<st, event, attached>>
wvars == <<cl, wire>>
vars == <<kind, lvars, qvars, cvars, svars, realm, wvars>>

\* How the goroutine of a stream ended.
Ends == {"served", "silent", "refused", "unattached", "queued", "rejected", "undelivered"}
Pcs == {"none", "upgrade", "hello", "proof", "attach", "loop",
        "authwait", "send"} \cup Ends
Messages == {"none", "shake", "response", "hello", "challenge", "authenticate", "welcome", "abort"}

Stream == [conn : Conns \cup {Nil}, magic : BOOLEAN, known : BOOLEAN, pc : Pcs, as : 0..MaxStreams]

TypeOK ==
    /\ kind \in Kinds /\ ln \in {"open", "closed"} /\ done \in BOOLEAN
    /\ wg \in 0..(Cardinality(Conns) + Cardinality(Streams))
    /\ loop \in {"accept", "wait", "ended"} /\ chans \in {"open", "closed"}
    /\ conns \subseteq Streams /\ streams \subseteq Streams
    /\ Cardinality(conns) <= Capacity /\ Cardinality(streams) <= Capacity
    /\ link \in [Conns -> {"none", "up", "down"}]
    /\ handler \in [Conns -> {"none", "accept", "wait", "gone"}]
    /\ session \in [Conns -> 0..MaxStreams]
    /\ st \in [Streams -> Stream]
    /\ event \in [Streams -> {"none", "send", "done"}]
    /\ realm \in {"there", "gone"}
    /\ attached \subseteq Streams
    /\ cl \in [Streams -> {"none", "raw", "shake", "answer", "joined", "failed", "left"}]
    /\ wire \in [Streams -> Messages]
    /\ main \in {"run", "closing", "returned"} /\ drain \in BOOLEAN

Init ==
    /\ kind \in Kinds
    /\ ln = "open" /\ done = FALSE /\ wg = 0 /\ loop = "accept" /\ chans = "open"
    /\ conns = {} /\ streams = {} /\ main = "run" /\ drain = TRUE
    /\ link = [c \in Conns |-> "none"]
    /\ handler = [c \in Conns |-> "none"]
    /\ session = [c \in Conns |-> 0]
    /\ st = [s \in Streams |-> [conn |-> Nil, magic |-> FALSE, known |-> TRUE, pc |-> "none", as |-> 0]]
    /\ event = [s \in Streams |-> "none"]
    /\ realm = "there"
    /\ attached = {}
    /\ cl = [s \in Streams |-> "none"]
    /\ wire = [s \in Streams |-> "none"]

Up(s) == st[s].conn # Nil /\ link[st[s].conn] = "up"
OfConn(c) == {s \in Streams : st[s].conn = c}
Running(s) == st[s].pc \notin Ends \cup {"none"}
Multiplexed == kind # "tcp"
Goto(s, pc) == st' = [st EXCEPT ![s].pc = pc]

\* Connections end, and what is under way on them is lost.
Cut(down, message) ==
    /\ link' = [c \in Conns |-> IF c \in down THEN "down" ELSE link[c]]
    /\ wire' = [s \in Streams |-> IF st[s].conn \in down THEN "none" ELSE message[s]]

-----------------------------------------------------------------------------
(* startConnectionLoop, ListenAndServeWebTransport, Close.                 *)

\* The handlers of QUIC and WebTransport connections are counted.
AcceptConn(c) ==
    /\ loop = "accept" /\ ln = "open" /\ link[c] = "none"
    /\ link' = [link EXCEPT ![c] = "up"]
    /\ handler' = [handler EXCEPT ![c] = "accept"]
    /\ wg' = IF Multiplexed THEN wg + 1 ELSE wg
    /\ UNCHANGED <<kind, ln, done, loop, chans, qvars, session, svars, realm, wvars>>

\* The socket fails without anybody having closed the listener.
ListenerFails ==
    /\ ln = "open" /\ loop = "accept"
    /\ ln' = "closed"
    /\ UNCHANGED <<kind, done, wg, loop, chans, qvars, cvars, svars, realm, wvars>>

\* Accept, or Serve, returns an error.  WebTransport closes no channel.
LoopEnds ==
    /\ loop = "accept" /\ ln = "closed"
    /\ done' = (done \/ Multiplexed)
    /\ loop' = IF kind = "quic" THEN "wait" ELSE "ended"
    /\ UNCHANGED <<kind, ln, wg, chans, qvars, cvars, svars, realm, wvars>>

LoopCloses ==
    /\ loop = "wait" /\ wg = 0
    /\ loop' = "ended" /\ chans' = "closed"
    /\ UNCHANGED <<kind, ln, done, wg, qvars, cvars, svars, realm, wvars>>

-----------------------------------------------------------------------------
(* handleQUICConnection, handleWebTransportSession, HandleClient.          *)

\* AcceptStream and a goroutine that peeks at the first byte.  A failed Peek
\* is taken for a raw stream.
Dispatch(s) ==
    /\ Multiplexed
    /\ cl[s] # "none" /\ st[s].pc = "none" /\ handler[st[s].conn] = "accept"
    /\ Goto(s, IF Up(s) /\ st[s].magic THEN "upgrade" ELSE "authwait")
    /\ UNCHANGED <<kind, lvars, qvars, cvars, event, attached, realm, wvars>>

\* The one stream of a TCP connection, to the RawSocket or the WebSocket
\* acceptor; a failed Peek ends it.
HandleClient(s) ==
    LET c == st[s].conn
    IN /\ ~Multiplexed
       /\ cl[s] # "none" /\ st[s].pc = "none" /\ handler[c] = "accept"
       /\ Goto(s, IF Up(s) THEN "upgrade" ELSE "silent")
       /\ handler' = [handler EXCEPT ![c] = "gone"]
       /\ UNCHANGED <<kind, lvars, qvars, link, session, event, attached, realm, wvars>>

HandlerEnds(c) ==
    /\ handler[c] = "accept" /\ link[c] = "down"
    /\ handler' = [handler EXCEPT ![c] = IF Multiplexed THEN "wait" ELSE "gone"]
    /\ UNCHANGED <<kind, lvars, qvars, link, session, svars, realm, wvars>>

\* The deferred streamWg.Wait(), then l.Done().
HandlerDone(c) ==
    /\ handler[c] = "wait" /\ \A s \in OfConn(c) : ~Running(s)
    /\ handler' = [handler EXCEPT ![c] = "gone"]
    /\ wg' = wg - 1
    /\ UNCHANGED <<kind, ln, done, loop, chans, qvars, link, session, svars, realm, wvars>>

-----------------------------------------------------------------------------
(* One stream: dispatch, the WAMP handshake, the message loop.             *)

\* The handshake is answered before the serializer is looked up: when it is
\* not registered the server returns, and says no more on the open stream.
Upgrade(s) ==
    /\ st[s].pc = "upgrade" /\ wire[s] = "shake" /\ Up(s)
    /\ wire' = [wire EXCEPT ![s] = "response"]
    /\ Goto(s, IF st[s].known THEN "hello" ELSE "silent")
    /\ UNCHANGED <<kind, lvars, qvars, cvars, event, attached, realm, cl>>

\* The acceptor of wampproto answers a HELLO or an AUTHENTICATE, or fails.
\* After an ABORT the server reads on.
Answered(s, answer) ==
    /\ wire' = [wire EXCEPT ![s] = IF answer = "error" THEN "none" ELSE answer]
    /\ Goto(s, CASE answer = "welcome" -> "attach"
                 [] answer = "error" -> "silent"
                 [] OTHER -> "proof")

\* Faulty variant: an unknown realm ends the WebSocket without an ABORT.
ReadHelloMute(s) ==
    /\ st[s].pc = "hello" /\ wire[s] = "hello" /\ Up(s)
    /\ \/ /\ ~st[s].magic /\ realm = "gone"
          /\ wire' = [wire EXCEPT ![s] = "none"]
          /\ Goto(s, "refused")
       \/ /\ st[s].magic \/ realm = "there"
          /\ \E answer \in {"welcome", "challenge", "abort", "error"} : Answered(s, answer)
    /\ UNCHANGED <<kind, lvars, qvars, cvars, event, attached, realm, cl>>

\* Only the WebSocket acceptor looks for the realm first.
ReadHello(s) ==
    /\ st[s].pc = "hello" /\ wire[s] = "hello" /\ Up(s)
    /\ \/ /\ ~st[s].magic /\ realm = "gone"
          /\ wire' = [wire EXCEPT ![s] = "abort"]
          /\ Goto(s, "refused")
       \/ /\ st[s].magic \/ realm = "there"
          /\ \E answer \in {"welcome", "challenge", "abort", "error"} : Answered(s, answer)
    /\ UNCHANGED <<kind, lvars, qvars, cvars, event, attached, realm, cl>>

ReadAuthenticate(s) ==
    /\ st[s].pc = "proof" /\ wire[s] = "authenticate" /\ Up(s)
    /\ \E answer \in {"welcome", "abort", "error"} : Answered(s, answer)
    /\ UNCHANGED <<kind, lvars, qvars, cvars, event, attached, realm, cl>>

ReadFails(s) ==
    /\ st[s].pc \in {"upgrade", "hello", "proof"} /\ ~Up(s)
    /\ Goto(s, "silent")
    /\ UNCHANGED <<kind, lvars, qvars, cvars, event, attached, realm, wvars>>

\* Faulty variant: the goroutine is not counted.
AttachUncounted(s) ==
    LET c == st[s].conn
    IN /\ st[s].pc = "attach"
       /\ \/ /\ realm = "there"
             /\ attached' = attached \cup {s}
             /\ Goto(s, "loop")
             /\ session' = IF Multiplexed /\ session[c] = 0 THEN [session EXCEPT ![c] = s] ELSE session
             /\ event' = IF Multiplexed THEN [event EXCEPT ![s] = "send"] ELSE event
             /\ UNCHANGED wg
          \/ /\ realm = "gone"
             /\ Goto(s, "unattached")
             /\ UNCHANGED <<attached, session, event, wg>>
       /\ UNCHANGED <<kind, ln, done, loop, chans, qvars, link, handler, realm, wvars>>

\* The client has its WELCOME.  When the realm is not there the server
\* returns, and neither reads nor closes the stream.  connAuth keeps the
\* first session of the connection; the goroutine that delivers the session
\* is counted by QUIC and not by WebTransport.
Attach(s) ==
    LET c == st[s].conn
    IN /\ st[s].pc = "attach"
       /\ \/ /\ realm = "there"
             /\ attached' = attached \cup {s}
             /\ Goto(s, "loop")
             /\ session' = IF Multiplexed /\ session[c] = 0 THEN [session EXCEPT ![c] = s] ELSE session
             /\ event' = IF Multiplexed THEN [event EXCEPT ![s] = "send"] ELSE event
             /\ wg' = IF kind = "quic" THEN wg + 1 ELSE wg
          \/ /\ realm = "gone"
             /\ Goto(s, "unattached")
             /\ UNCHANGED <<attached, session, event, wg>>
       /\ UNCHANGED <<kind, ln, done, loop, chans, qvars, link, handler, realm, wvars>>

SendEvent(s) ==
    /\ event[s] = "send"
    /\ \/ /\ Cardinality(conns) < Capacity
          /\ conns' = conns \cup {s}
          /\ event' = [event EXCEPT ![s] = "done"]
       \/ /\ done
          /\ event' = [event EXCEPT ![s] = "done"]
          /\ UNCHANGED conns
    /\ wg' = IF kind = "quic" THEN wg - 1 ELSE wg
    /\ UNCHANGED <<kind, ln, done, loop, chans, streams, main, drain, cvars, st, attached, realm, wvars>>

\* ReadMessage fails: DetachClient, and the session's context is cancelled.
LoopStops(s) ==
    /\ st[s].pc = "loop" /\ (~Up(s) \/ cl[s] = "left")
    /\ attached' = attached \ {s}
    /\ Goto(s, "served")
    /\ UNCHANGED <<kind, lvars, qvars, cvars, event, realm, wvars>>

-----------------------------------------------------------------------------
(* A raw stream: connAuth.wait, then the channel streams.                  *)

\* Faulty variant: a raw stream whose time is up is let through.
AuthWaitOpen(s) ==
    /\ st[s].pc = "authwait"
    /\ st' = [st EXCEPT ![s].pc = "send", ![s].as = session[st[s].conn]]
    /\ UNCHANGED <<kind, lvars, qvars, cvars, event, attached, realm, wvars>>

\* The connection's session, the connection's end, or the timeout: when
\* several are there select takes any.
AuthWait(s) ==
    /\ st[s].pc = "authwait"
    /\ \/ /\ session[st[s].conn] # 0
          /\ st' = [st EXCEPT ![s].pc = "send", ![s].as = session[st[s].conn]]
       \/ Goto(s, "rejected")
    /\ UNCHANGED <<kind, lvars, qvars, cvars, event, attached, realm, wvars>>

\* Faulty variant: the send does not watch done.
SendRawOnly(s) ==
    /\ st[s].pc = "send" /\ Cardinality(streams) < Capacity
    /\ streams' = streams \cup {s}
    /\ Goto(s, "queued")
    /\ UNCHANGED <<kind, lvars, conns, main, drain, cvars, event, attached, realm, wvars>>

SendRaw(s) ==
    /\ st[s].pc = "send"
    /\ \/ /\ Cardinality(streams) < Capacity
          /\ streams' = streams \cup {s}
          /\ Goto(s, "queued")
       \/ /\ done
          /\ Goto(s, "undelivered")
          /\ UNCHANGED streams
    /\ UNCHANGED <<kind, lvars, conns, main, drain, cvars, event, attached, realm, wvars>>

-----------------------------------------------------------------------------
(* The clients: joiner.go, quic.go, and the network.                       *)

\* A stream with the magic byte, or any TCP connection, begins a handshake;
\* known: the server has the serializer the client asks for.  The client
\* opens further sessions of a connection with the OpenSession of the first;
\* raw streams may come at any time.
Open(s, c) ==
    /\ cl[s] = "none" /\ link[c] = "up"
    /\ \A t \in 1..(s - 1) : cl[t] # "none"
    /\ Multiplexed \/ OfConn(c) = {}
    /\ \E magic, known \in BOOLEAN :
        LET joins == magic \/ ~Multiplexed
        IN /\ IF joins
              THEN /\ Cardinality({t \in Streams : cl[t] \notin {"none", "raw"}}) < MaxJoins[kind]
                   /\ \A t \in OfConn(c) : cl[t] \in {"raw", "joined", "left"}
              ELSE known
           /\ st' = [st EXCEPT ![s] = [@ EXCEPT !.conn = c, !.magic = magic, !.known = known]]
           /\ cl' = [cl EXCEPT ![s] = IF joins THEN "shake" ELSE "raw"]
           /\ wire' = [wire EXCEPT ![s] = IF joins THEN "shake" ELSE "none"]
    /\ UNCHANGED <<kind, lvars, qvars, cvars, event, attached, realm>>

ReadResponse(s) ==
    /\ cl[s] = "shake" /\ wire[s] = "response" /\ Up(s)
    /\ cl' = [cl EXCEPT ![s] = "answer"]
    /\ wire' = [wire EXCEPT ![s] = "hello"]
    /\ UNCHANGED <<kind, lvars, qvars, cvars, svars, realm>>

First(s) == \A t \in OfConn(st[s].conn) \ {s} : cl[t] = "raw"

\* The joiner of wampproto answers a challenge; an ABORT is an error.  Then
\* ConnectQUIC and ConnectWebTransport close the connection; OpenSession and
\* the joiners over TCP leave it as it is.
ReadAnswer(s) ==
    /\ cl[s] = "answer" /\ wire[s] \in {"challenge", "welcome", "abort"} /\ Up(s)
    /\ cl' = [cl EXCEPT ![s] = CASE wire[s] = "challenge" -> "answer"
                                 [] wire[s] = "welcome" -> "joined"
                                 [] wire[s] = "abort" -> "failed"]
    /\ Cut(IF wire[s] = "abort" /\ Multiplexed /\ First(s) THEN {st[s].conn} ELSE {},
           [wire EXCEPT ![s] = IF wire[s] = "challenge" THEN "authenticate" ELSE "none"])
    /\ UNCHANGED <<kind, lvars, qvars, handler, session, svars, realm>>

JoinFails(s) ==
    /\ cl[s] \in {"shake", "answer"} /\ ~Up(s)
    /\ cl' = [cl EXCEPT ![s] = "failed"]
    /\ UNCHANGED <<kind, lvars, qvars, cvars, svars, realm, wire>>

ClientLeaves(s) ==
    /\ cl[s] = "joined"
    /\ cl' = [cl EXCEPT ![s] = "left"]
    /\ UNCHANGED <<kind, lvars, qvars, cvars, svars, realm, wire>>

LinkDown(c) ==
    /\ link[c] = "up"
    /\ Cut({c}, wire)
    /\ UNCHANGED <<kind, lvars, qvars, handler, session, svars, realm, cl>>

-----------------------------------------------------------------------------
(* RunStandalone and the router.                                           *)

RemoveRealm ==
    /\ realm = "there"
    /\ realm' = "gone"
    /\ UNCHANGED <<kind, lvars, qvars, cvars, svars, wvars>>

DrainEvent ==
    /\ drain
    /\ \/ \E s \in conns : conns' = conns \ {s} /\ UNCHANGED drain
       \/ conns = {} /\ chans = "closed" /\ drain' = FALSE /\ UNCHANGED conns
    /\ UNCHANGED <<kind, lvars, streams, main, cvars, svars, realm, wvars>>

\* A raw stream goes to the relay.
TakeStream ==
    /\ main = "run"
    /\ \E s \in streams : streams' = streams \ {s}
    /\ UNCHANGED <<kind, lvars, conns, main, drain, cvars, svars, realm, wvars>>

\* RunStandalone returns when its context or the channel is closed.  The
\* deferred calls: the listener's Close, first the socket ...
Return ==
    /\ main = "run"
    /\ main' = "closing" /\ ln' = "closed"
    /\ UNCHANGED <<kind, done, wg, loop, chans, conns, streams, drain, cvars, svars, realm, wvars>>

ContextDone == Return

ChannelClosed == streams = {} /\ chans = "closed" /\ Return

\* ... then done, and Router.Close, which closes the transports of those
\* attached.  The Close of a QUIC stream ends only its own direction: the
\* server's Read goes on.
CloseDone ==
    /\ main = "closing"
    /\ main' = "returned" /\ done' = (done \/ Multiplexed)
    /\ realm' = "gone" /\ attached' = {}
    /\ Cut({c \in Conns : ~Multiplexed /\ OfConn(c) \cap attached # {}}, wire)
    /\ UNCHANGED <<kind, ln, wg, loop, chans, conns, streams, drain, handler, session, st, event, cl>>

Server ==
    \/ LoopEnds \/ LoopCloses
    \/ \E c \in Conns : HandlerEnds(c) \/ HandlerDone(c)
    \/ DrainEvent \/ TakeStream \/ ChannelClosed \/ CloseDone

Serve(s) ==
    \/ Dispatch(s) \/ HandleClient(s) \/ Upgrade(s) \/ ReadHello(s) \/ ReadAuthenticate(s)
    \/ ReadFails(s) \/ Attach(s) \/ LoopStops(s)
    \/ AuthWait(s) \/ SendRaw(s)

Join(s) == ReadResponse(s) \/ ReadAnswer(s) \/ JoinFails(s)

Next ==
    \/ Server \/ ListenerFails \/ RemoveRealm \/ ContextDone
    \/ \E c \in Conns : AcceptConn(c) \/ LinkDown(c)
    \/ \E s \in Streams : Serve(s) \/ SendEvent(s) \/ Join(s) \/ ClientLeaves(s)
    \/ \E s \in Streams, c \in Conns : Open(s, c)

\* Goroutines go on, timers fire, and a client that joins reads what it is
\* sent; nobody has to open, leave or close anything.  With a bounded number
\* of streams one condition for all of them is enough.
Fairness == WF_vars(Server \/ \E s \in Streams : Serve(s) \/ SendEvent(s) \/ Join(s))

Spec == Init /\ [][Next]_vars /\ Fairness

-----------------------------------------------------------------------------
\* server.go 370-374, 465: nobody is about to send when the loop closes the
\* channels, so no send ever meets a closed channel.
NoSendOnClosedChannel ==
    /\ TypeOK
    /\ chans = "closed" => \A s \in Streams : event[s] # "send" /\ st[s].pc # "send"

\* streamauth.go 17-18: a raw stream on AcceptStream comes with a session of
\* its own connection that was attached before, and all raw streams of a
\* connection come with the same one.
RawAfterAuthentication ==
    \A s \in Streams :
        st[s].pc \in {"send", "queued"} =>
            /\ st[s].as # 0
            /\ st[st[s].as].conn = st[s].conn
            /\ st[st[s].as].pc \in {"loop", "served"}
            /\ st[s].as = session[st[s].conn]

\* server.go 349-374, standalone.go 117-149: a raw stream never waits for
\* ever, neither for the authentication nor for the channel; and once a QUIC
\* listener is closed and its connections are gone, its channels are closed,
\* so that RunStandalone and drain end.  WebTransport closes no channel: if
\* its server fails RunStandalone is not told.
ListenerWindsDown ==
    []<>(/\ \A s \in Streams : st[s].pc \notin {"authwait", "send"}
         /\ kind = "quic" /\ ln = "closed" /\ (\A c \in Conns : link[c] # "up") =>
                chans = "closed" /\ ~drain /\ main = "returned")

\* acceptor.go, joiner.go: a Join returns, unless the server gave up on the
\* open stream without a word; a client with a session is being served, has
\* been, or is cut off, unless the realm was gone when its session was to be
\* attached.
ClientsSettle ==
    []<>(\A s \in Streams :
            /\ cl[s] \in {"shake", "answer"} => st[s].pc = "silent"
            /\ cl[s] = "joined" =>
                    s \in attached \/ st[s].pc \in {"served", "unattached"} \/ ~Up(s) \/ main = "returned")
=============================================================================
