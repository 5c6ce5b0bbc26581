------------------------------- MODULE Relay --------------------------------
(***************************************************************************)
(* The relay of one WebRTC data channel to the app's stream socket         *)
(* (xconn/relay.go, helpers.go): the channel's callback puts messages into *)
(* msgCh, a goroutine writes them to the connection, and the main          *)
(* goroutine sends the connection's frames on the channel, pausing while   *)
(* the channel's send buffer is high.                                      *)
(*                                                                         *)
(* The data channel (pion), the remote side and the app are external.      *)
(* Messages to the app are numbers, frames from it are sizes in the unit   *)
(* of the buffer's marks.                                                  *)
(***************************************************************************)
EXTENDS Naturals, Sequences

CONSTANTS
    Capacity,    \* of msgCh
    High, Low,   \* relayBufferedHigh and relayBufferedLow
    FrameSizes,  \* sizes of the app's frames
    MaxUp,       \* bound: messages of the remote side after the first
    MaxDown      \* bound: frames of the app

ASSUME RelayAssumption ==
    /\ Capacity \in Nat \ {0} /\ High \in Nat /\ Low \in 0..High
    /\ FrameSizes \subseteq Nat \ {0}
    /\ MaxUp \in Nat /\ MaxDown \in Nat

VARIABLES
    main,      \* the goroutine of relayDataChannel
    up,        \* the goroutine that writes to the connection
    channel,   \* the data channel is open
    told,      \* the data channel has called its OnClose (or OnError) handler
    closed,    \* the channel closed is closed: the handler was signalClosed
    conn,      \* the connection is open at this end
    app,       \* the app has its end open
    arrived,   \* messages the channel has dispatched
    missed,    \* those of them that came before OnMessage was set
    callback,  \* the message OnMessage is delivering, 0: none
    msgCh,     \* the queue
    accepted,  \* what went into the queue
    hand,      \* the message being written, 0: none
    written,   \* what was written to the connection after the first message
    frame,     \* size of the frame main has read, 0: none
    frames,    \* frames read
    buffered,  \* BufferedAmount
    ready,     \* the token in sendReady
    before,    \* how many messages were in the queue or past it at the close
    cut        \* main closed the connection before the writer was done

upVars == <<up, msgCh, accepted, hand, written, arrived, missed, callback>>
downVars == <<frame, frames, buffered, ready>>
vars == <<main, channel, told, closed, conn, app, cut, before, upVars, downVars>>

TypeOK ==
    /\ main \in {"dial", "header", "first", "read", "check", "pausing", "paused",
                 "send", "done"}
    /\ up \in {"off", "run", "drain", "done"}
    /\ {channel, told, closed, conn, app, ready, cut} \subseteq BOOLEAN
    /\ arrived \in 0..MaxUp /\ missed \in 0..MaxUp /\ callback \in 0..MaxUp /\ hand \in 0..MaxUp
    /\ msgCh \in Seq(1..MaxUp) /\ Len(msgCh) <= Capacity
    /\ accepted \in Seq(1..MaxUp) /\ written \in Seq(1..MaxUp)
    /\ frame \in FrameSizes \cup {0} /\ frames \in 0..MaxDown
    /\ buffered \in Nat /\ before \in 0..MaxUp

Init ==
    /\ main = "dial" /\ up = "off"
    /\ channel = TRUE /\ told = FALSE /\ closed = FALSE /\ conn = FALSE /\ app = TRUE
    /\ arrived = 0 /\ missed = 0 /\ callback = 0 /\ hand = 0
    /\ msgCh = <<>> /\ accepted = <<>> /\ written = <<>>
    /\ frame = 0 /\ frames = 0 /\ buffered = 0 /\ ready = FALSE
    /\ before = 0 /\ cut = FALSE

-----------------------------------------------------------------------------
(* The outside.                                                            *)

ChannelCloses ==
    /\ channel
    /\ channel' = FALSE
    /\ UNCHANGED <<before, main, told, closed, conn, app, cut, upVars, downVars>>

\* The data channel calls the handler that is set, once.  Before relayDataChannel
\* has set it, the call is lost on it: setting a handler later only stores it.
SignalClosed ==
    /\ ~channel /\ ~told
    /\ told' = TRUE
    /\ closed' = (up # "off")
    /\ before' = IF up = "off" THEN before ELSE Len(accepted)
    /\ UNCHANGED <<main, channel, conn, app, cut, upVars, downVars>>

AppCloses ==
    /\ app
    /\ app' = FALSE
    /\ UNCHANGED <<before, main, channel, told, closed, conn, cut, upVars, downVars>>

\* Faulty variant: sendReady has no room for a token nobody waits for.
RemoteReadsUnbuffered ==
    /\ buffered > 0 /\ channel
    /\ buffered' = buffered - 1
    /\ ready' = (ready \/ (buffered = Low + 1 /\ main = "paused"))
    /\ UNCHANGED <<before, main, channel, told, closed, conn, app, cut, upVars, frame, frames>>

\* The remote side reads; falling to the low mark calls OnBufferedAmountLow.
RemoteReads ==
    /\ buffered > 0 /\ channel
    /\ buffered' = buffered - 1
    /\ ready' = (ready \/ buffered = Low + 1)
    /\ UNCHANGED <<before, main, channel, told, closed, conn, app, cut, upVars, frame, frames>>

-----------------------------------------------------------------------------
(* The channel's callback: deliverUnlessClosed.                            *)

\* A message that comes before OnMessage is set goes to the handler of the
\* provider, which has made its one call already: the relay never sees it.
Arrive ==
    /\ callback = 0 /\ arrived < MaxUp /\ ~told
    /\ arrived' = arrived + 1
    /\ IF up = "off" THEN missed' = missed + 1 /\ UNCHANGED callback
       ELSE callback' = arrived + 1 /\ UNCHANGED missed
    /\ UNCHANGED <<before, main, channel, told, closed, conn, app, cut, up, msgCh, accepted,
                   hand, written, downVars>>

Deliver ==
    /\ callback # 0 /\ Len(msgCh) < Capacity
    /\ msgCh' = Append(msgCh, callback)
    /\ accepted' = Append(accepted, callback)
    /\ callback' = 0
    /\ UNCHANGED <<before, main, channel, told, closed, conn, app, cut, up, arrived, missed, hand,
                   written, downVars>>

GiveUp ==
    /\ callback # 0 /\ Len(msgCh) = Capacity /\ closed
    /\ callback' = 0
    /\ UNCHANGED <<before, main, channel, told, closed, conn, app, cut, up, arrived, missed, msgCh,
                   accepted, hand, written, downVars>>

-----------------------------------------------------------------------------
(* channel -> conn.                                                        *)

Writable == conn /\ app

\* Both cases of the select may be ready.
Take ==
    /\ up \in {"run", "drain"} /\ hand = 0 /\ msgCh # <<>>
    /\ hand' = Head(msgCh)
    /\ msgCh' = Tail(msgCh)
    /\ UNCHANGED <<before, main, channel, told, closed, conn, app, cut, up, accepted, written,
                   arrived, missed, callback, downVars>>

\* Faulty variant: the connection is closed as soon as the channel is.
StartDrainNot ==
    /\ up = "run" /\ hand = 0 /\ closed
    /\ up' = "done"
    /\ conn' = FALSE
    /\ UNCHANGED <<before, main, channel, told, closed, app, cut, msgCh, accepted, hand, written,
                   arrived, missed, callback, downVars>>

StartDrain ==
    /\ up = "run" /\ hand = 0 /\ closed
    /\ up' = "drain"
    /\ UNCHANGED <<before, main, channel, told, closed, conn, app, cut, msgCh, accepted, hand,
                   written, arrived, missed, callback, downVars>>

\* conn.Write returns when the app has taken the bytes; it may never do so.
WriteFrame ==
    /\ hand # 0 /\ up # "done" /\ Writable
    /\ written' = Append(written, hand)
    /\ hand' = 0
    /\ UNCHANGED <<before, main, channel, told, closed, conn, app, cut, up, msgCh, accepted,
                   arrived, missed, callback, downVars>>

\* Before the close the channel is closed, after it the connection.
WriteFrameFails ==
    /\ hand # 0 /\ up # "done" /\ ~Writable
    /\ up' = "done"
    /\ channel' = (channel /\ up # "run")
    /\ conn' = (conn /\ up # "drain")
    /\ UNCHANGED <<before, main, told, closed, app, cut, msgCh, accepted, hand, written,
                   arrived, missed, callback, downVars>>

\* Faulty variant: the connection is left to the main goroutine.
DrainedOnly ==
    /\ up = "drain" /\ hand = 0 /\ msgCh = <<>>
    /\ up' = "done"
    /\ UNCHANGED <<before, main, channel, told, closed, conn, app, cut, msgCh, accepted, hand,
                   written, arrived, missed, callback, downVars>>

Drained ==
    /\ up = "drain" /\ hand = 0 /\ msgCh = <<>>
    /\ up' = "done"
    /\ conn' = FALSE
    /\ UNCHANGED <<before, main, channel, told, closed, app, cut, msgCh, accepted, hand, written,
                   arrived, missed, callback, downVars>>

WriterRuns == Take \/ StartDrain \/ WriteFrameFails \/ Drained
Writer == WriterRuns \/ WriteFrame

-----------------------------------------------------------------------------
(* handleDataChannel, and conn -> channel.                                 *)

\* Dial; the header waits for an app that takes it, the failure of either
\* closes the channel.
Dial ==
    /\ main = "dial" /\ app
    /\ main' = "header" /\ conn' = TRUE
    /\ UNCHANGED <<before, channel, told, closed, app, cut, upVars, downVars>>

WriteHeader ==
    /\ main = "header" /\ app
    /\ main' = "first"
    /\ UNCHANGED <<before, channel, told, closed, conn, app, cut, upVars, downVars>>

\* The first message, then the callbacks and the writer.
WriteFirst ==
    /\ main = "first" /\ app
    /\ main' = "read" /\ up' = "run"
    /\ UNCHANGED <<before, channel, told, closed, conn, app, cut, msgCh, accepted, hand,
                   written, arrived, missed, callback, downVars>>

StartFails ==
    /\ main \in {"dial", "header", "first"} /\ ~app
    /\ main' = "done" /\ conn' = FALSE /\ channel' = FALSE
    /\ UNCHANGED <<before, told, closed, app, cut, upVars, downVars>>

ReadFrame ==
    /\ main = "read" /\ conn /\ app /\ frames < MaxDown
    /\ \E size \in FrameSizes : frame' = size
    /\ frames' = frames + 1
    /\ main' = "check"
    /\ UNCHANGED <<before, channel, told, closed, conn, app, cut, upVars, buffered, ready>>

\* main returns: the deferred conn.Close, whatever the writer still has.
Return(closesChannel) ==
    /\ main' = "done"
    /\ conn' = FALSE
    /\ channel' = (channel /\ ~closesChannel)
    /\ cut' = (up # "done")

ReadFails ==
    /\ main = "read" /\ ~(conn /\ app)
    /\ Return(TRUE)
    /\ UNCHANGED <<before, told, closed, app, upVars, downVars>>

CheckBuffer ==
    /\ main = "check"
    /\ main' = IF buffered + frame > High THEN "pausing" ELSE "send"
    /\ UNCHANGED <<before, channel, told, closed, conn, app, cut, upVars, downVars>>

\* Between the look at the buffer and the select the buffer may empty.
Pause ==
    /\ main = "pausing"
    /\ main' = "paused"
    /\ UNCHANGED <<before, channel, told, closed, conn, app, cut, upVars, downVars>>

Resume ==
    /\ main = "paused" /\ ready
    /\ ready' = FALSE
    /\ main' = "check"
    /\ UNCHANGED <<before, channel, told, closed, conn, app, cut, upVars, frame, frames, buffered>>

PauseEnds ==
    /\ main = "paused" /\ closed
    /\ Return(FALSE)
    /\ UNCHANGED <<before, told, closed, app, upVars, downVars>>

Send ==
    /\ main = "send" /\ channel
    /\ buffered' = buffered + frame
    /\ frame' = 0
    /\ main' = "read"
    /\ UNCHANGED <<before, channel, told, closed, conn, app, cut, upVars, frames, ready>>

SendFails ==
    /\ main = "send" /\ ~channel
    /\ Return(FALSE)
    /\ UNCHANGED <<before, told, closed, app, upVars, downVars>>

MainRuns ==
    \/ Dial \/ StartFails \/ ReadFails \/ CheckBuffer \/ Pause \/ Resume \/ PauseEnds \/ Send \/ SendFails
Main == MainRuns \/ WriteHeader \/ WriteFirst \/ ReadFrame

Next ==
    \/ ChannelCloses \/ SignalClosed \/ AppCloses \/ RemoteReads
    \/ Arrive \/ Deliver \/ GiveUp
    \/ Writer \/ Main

\* Goroutines run and the remote side reads.  The app need not: no write to
\* the connection is fair, and no frame has to come.  The data channel calls
\* OnClose after the messages it has received, so once OnMessage has returned.
Fairness ==
    /\ WF_vars(WriterRuns) /\ WF_vars(MainRuns) /\ WF_vars(Deliver) /\ WF_vars(RemoteReads)
    /\ WF_vars(callback = 0 /\ SignalClosed)

Spec == Init /\ [][Next]_vars /\ Fairness

-----------------------------------------------------------------------------
\* helpers.go 87-99, relay.go 156-182: every message that comes once OnMessage
\* is set, up to the close, is taken over, and they reach the app in the order
\* in which they came, none twice and none left out; those taken over before
\* the close all do, unless the app is gone or main has closed the connection
\* meanwhile.  (Those that came before OnMessage was set are lost.)
RelayedInOrder ==
    /\ TypeOK
    /\ \A i \in 1..Len(accepted) : accepted[i] = missed + i
    /\ closed \/ missed + Len(accepted) + (IF callback = 0 THEN 0 ELSE 1) = arrived
    /\ written = SubSeq(accepted, 1, Len(written))
    /\ up = "done" /\ app /\ ~cut => Len(written) >= before

\* relay.go 187-211: a paused relay goes on when the remote side reads, if
\* the frame is no larger than the distance of the two marks.  (A larger one
\* may wait for a low mark that has been passed already.)
Fits == frame <= High - Low
BackpressureEnds == []<>(main # "paused" \/ ~channel \/ ~Fits)

\* relay.go 121-221: once either end is closed the relay ends and closes both;
\* but for an app that closes while main is paused, for a callback that has
\* filled the queue after the writer failed, for an app that keeps a write
\* waiting, and for a channel that closed before OnClose was set: main learns of
\* that when the app sends or closes, and the writer never does.
Wedged ==
    \/ main = "paused" /\ channel /\ ~Fits
    \/ main = "paused" /\ up = "done" /\ callback # 0 /\ Len(msgCh) = Capacity
AppKeepsWaiting == Writable /\ (main \in {"header", "first"} \/ (hand # 0 /\ up # "done"))
CloseUnheard == told /\ ~closed /\ ((main = "done" /\ ~conn) \/ (main = "read" /\ app))
RelayEnds ==
    []<>(\/ channel /\ app
         \/ Wedged \/ AppKeepsWaiting \/ CloseUnheard
         \/ main = "done" /\ ~conn /\ up \in {"off", "done"})
=============================================================================
