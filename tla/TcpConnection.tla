---------------------------- MODULE TcpConnection ----------------------------
(***************************************************************************)
(* TcpConnection on the client side, from connect to the close callback:   *)
(* frames written and closes requested by any thread, handed to the loop   *)
(* thread by flags, a queue and one libuv async handle; and the            *)
(* TcpConnection at the other end, which reads what this one writes.       *)
(*                                                                         *)
(* write and close are the threads' own steps, each an atomic operation of *)
(* the code (a load, a CAS, a critical section, uv_async_send).  A loop    *)
(* callback is one action, but for onRead, whose observers run between two *)
(* frames.  An async handle that is sent several times before the loop     *)
(* looks at it wakes it once.  The bytes of a frame arrive in pieces of    *)
(* any size.                                                               *)
(***************************************************************************)
EXTENDS Framing, FiniteSets

CONSTANTS
    Writers,    \* threads that call write
    Closers,    \* threads that call close
    Payload     \* bound: the payloads each writer writes, in this order

ASSUME PayloadType == Payload \in [Writers -> Seq(Seq(Byte))]
ASSUME PayloadsFit == \A w \in Writers : \A i \in DOMAIN Payload[w] : Fits(Payload[w][i])
ASSUME ThreadsFinite == IsFiniteSet(Writers \cup Closers) /\ Writers \cap Closers = {}

VARIABLES
    handle,         \* the uv_tcp_t: "new" before connect is called, "idle" after it
    timer,          \* the connect timer is armed (has_timer_)
    connectReq,     \* connect_requested_
    closeReq,       \* close_requested_
    isClosing,      \* is_closing_
    writePending,   \* write_pending_
    queue,          \* write_queue_
    inFlight,       \* write_in_progress_, with the frame: <<>> or <<frame>>
    ioSignal,       \* io_async_ is sent and not yet handled
    io,             \* io_async_: "closing" is closed but waits for its own signal
    freed,          \* the last owner has dropped the connection
    pc,             \* progress of each thread's call
    sent,           \* calls of write each writer has begun
    wire,           \* history: the frames uv_write has completed
    accepted,       \* history: the frames that entered write_queue_
    arriving,       \* bytes written and not yet read by the other end
    recv,           \* recv_buffer_ of the other end
    parsing,        \* its onRead is between two frames
    peer,           \* its close: "refusing" and "asked" are close requests
    delivered       \* history: the payloads its observers were given

threadVars == <<pc, sent>>
lifeVars == <<io, freed>>
flagVars == <<connectReq, closeReq, isClosing, writePending>>
historyVars == <<wire, accepted>>
peerVars == <<arriving, recv, parsing, peer, delivered>>
vars == <<handle, timer, flagVars, queue, inFlight, ioSignal, lifeVars, threadVars, historyVars,
          peerVars>>

Frame == UNION {{w} \X (1 .. Len(Payload[w])) : w \in Writers}
PayloadOf(f) == Payload[f[1]][f[2]]
Threads == Writers \cup Closers

TypeOK ==
    /\ handle \in {"new", "idle", "connecting", "failed", "open", "closing", "closed"}
    /\ timer \in BOOLEAN
    /\ connectReq \in BOOLEAN /\ closeReq \in BOOLEAN
    /\ isClosing \in BOOLEAN /\ writePending \in BOOLEAN
    /\ queue \in Seq(Frame)
    /\ inFlight \in {<<>>} \cup {<<f>> : f \in Frame}
    /\ ioSignal \in BOOLEAN /\ freed \in BOOLEAN
    /\ io \in {"open", "closing", "closed"}
    /\ pc \in [Threads -> {"idle", "checked", "pushed", "won"}]
    /\ sent \in [Writers -> Nat] /\ \A w \in Writers : sent[w] <= Len(Payload[w])
    /\ wire \in Seq(Frame) /\ accepted \in Seq(Frame)
    /\ arriving \in Seq(Byte) /\ recv \in Seq(Byte)
    /\ parsing \in BOOLEAN
    /\ peer \in {"reading", "refusing", "asked", "closed"}
    /\ delivered \in Seq(Seq(Byte))

Init ==
    /\ handle = "new" /\ timer = FALSE
    /\ connectReq = FALSE /\ closeReq = FALSE /\ isClosing = FALSE /\ writePending = FALSE
    /\ queue = <<>> /\ inFlight = <<>>
    /\ ioSignal = FALSE /\ io = "open" /\ freed = FALSE
    /\ pc = [t \in Threads |-> "idle"]
    /\ sent = [w \in Writers |-> 0]
    /\ wire = <<>> /\ accepted = <<>>
    /\ arriving = <<>> /\ recv = <<>> /\ parsing = FALSE
    /\ peer = "reading" /\ delivered = <<>>
-----------------------------------------------------------------------------
(* Any thread.                                                             *)

\* The owner calls connect once, on the loop thread (TcpClient's posted task).
Connect ==
    /\ handle = "new"
    /\ handle' = "idle"
    /\ connectReq' = TRUE
    /\ ioSignal' = TRUE
    /\ UNCHANGED <<timer, closeReq, isClosing, writePending, queue, inFlight, lifeVars,
                   threadVars, historyVars, peerVars>>

\* write: the flags are looked at without a lock.  Nothing keeps a caller from
\* writing before the connection is open: TcpClient::sendMessage may have got hold
\* of the next connection, which is still being made.
WriteCheck(w) ==
    /\ pc[w] = "idle" /\ sent[w] < Len(Payload[w]) /\ ~freed
    /\ sent' = [sent EXCEPT ![w] = @ + 1]
    /\ pc' = [pc EXCEPT ![w] = IF isClosing \/ closeReq THEN "idle" ELSE "checked"]
    /\ UNCHANGED <<handle, timer, flagVars, queue, inFlight, ioSignal, lifeVars, historyVars,
                   peerVars>>

WritePush(w) ==
    /\ pc[w] = "checked"
    /\ pc' = [pc EXCEPT ![w] = "pushed"]
    /\ queue' = Append(queue, <<w, sent[w]>>)
    /\ accepted' = Append(accepted, <<w, sent[w]>>)
    /\ UNCHANGED <<handle, timer, flagVars, inFlight, ioSignal, lifeVars, sent, wire, peerVars>>

WriteCAS(w) ==
    /\ pc[w] = "pushed"
    /\ writePending' = TRUE
    /\ pc' = [pc EXCEPT ![w] = IF writePending THEN "idle" ELSE "won"]
    /\ UNCHANGED <<handle, timer, connectReq, closeReq, isClosing, queue, inFlight, ioSignal,
                   lifeVars, sent, historyVars, peerVars>>

CloseCAS(k) ==
    /\ pc[k] = "idle" /\ ~freed
    /\ closeReq' = TRUE
    /\ pc' = [pc EXCEPT ![k] = IF closeReq THEN "idle" ELSE "won"]
    /\ UNCHANGED <<handle, timer, connectReq, isClosing, writePending, queue, inFlight, ioSignal,
                   lifeVars, sent, historyVars, peerVars>>

\* uv_async_send by the thread that won its CAS.
AsyncSend(t) ==
    /\ pc[t] = "won"
    /\ pc' = [pc EXCEPT ![t] = "idle"]
    /\ ioSignal' = (ioSignal \/ io = "open")
    /\ UNCHANGED <<handle, timer, flagVars, queue, inFlight, lifeVars, sent, historyVars, peerVars>>
-----------------------------------------------------------------------------
(* The loop thread.                                                        *)

\* close called by a loop callback: the CAS and, if it is won, the signal.  The
\* mutant relies on a signal that is there already.
LoopCloseSilent == closeReq' = TRUE /\ UNCHANGED ioSignal
LoopClose ==
    /\ closeReq' = TRUE
    /\ ioSignal' = (ioSignal \/ ~closeReq)

\* doClose stops and closes the timer, and closes the tcp handle; the mutant
\* leaves the timer.
DoCloseKeepsTimer ==
    /\ isClosing' = TRUE
    /\ handle' = "closing"
    /\ UNCHANGED <<timer, connectReq, closeReq, writePending, queue, inFlight>>
DoClose ==
    /\ isClosing' = TRUE
    /\ timer' = FALSE
    /\ handle' = "closing"
    /\ UNCHANGED <<connectReq, closeReq, writePending, queue, inFlight>>

\* doConnect: an address that cannot be parsed or connected is refused.
DoConnect(refused) ==
    /\ connectReq' = FALSE
    /\ \/ ~refused /\ handle' = "connecting" /\ timer' \in BOOLEAN
       \/ refused /\ UNCHANGED <<handle, timer>>

\* drainWriteQueue takes the first frame, or puts write_pending_ down when there
\* is none.  The mutant takes a frame without pop_front.
TakePeeking ==
    IF queue = <<>>
    THEN writePending' = FALSE /\ inFlight' = <<>> /\ UNCHANGED queue
    ELSE inFlight' = <<Head(queue)>> /\ UNCHANGED <<queue, writePending>>
TakeNext ==
    IF queue = <<>>
    THEN writePending' = FALSE /\ inFlight' = <<>> /\ UNCHANGED queue
    ELSE inFlight' = <<Head(queue)>> /\ queue' = Tail(queue) /\ UNCHANGED writePending

\* It does nothing while a frame is being written or once the connection closes.
\* uv_write fails at once if the handle is not connected (win/stream.c), or for
\* reasons of its own: the frame is lost, and the caller closes the connection.
Drain(writing, failed) ==
    \/ /\ writing # <<>> \/ isClosing
       /\ ~failed /\ inFlight' = writing /\ UNCHANGED <<queue, writePending>>
    \/ /\ writing = <<>> /\ ~isClosing /\ (queue = <<>> \/ handle = "open")
       /\ ~failed /\ TakeNext
    \/ /\ writing = <<>> /\ ~isClosing /\ queue # <<>>
       /\ failed /\ queue' = Tail(queue) /\ inFlight' = <<>> /\ UNCHANGED writePending

\* Mutant of WorkAsync: what was written before connect is left to the next signal.
WorkAsyncEither(refused, failed) ==
    IF connectReq
    THEN DoConnect(refused) /\ ~failed /\ UNCHANGED <<queue, inFlight, writePending>>
    ELSE /\ ~refused /\ UNCHANGED <<handle, timer, connectReq>>
         /\ IF writePending THEN Drain(inFlight, failed)
            ELSE ~failed /\ UNCHANGED <<queue, inFlight, writePending>>

\* onIoAsync of a connection that is not to be closed: it is connected if that was
\* asked, and the queue is drained whether it was or not.
WorkAsync(refused, failed) ==
    /\ IF connectReq THEN DoConnect(refused)
       ELSE ~refused /\ UNCHANGED <<handle, timer, connectReq>>
    /\ IF writePending THEN Drain(inFlight, failed)
       ELSE ~failed /\ UNCHANGED <<queue, inFlight, writePending>>

\* onIoAsync: a close request goes first.  The loop thread creates the connection
\* and calls connect in one task, so connect has been called.
OnIoAsync ==
    /\ ioSignal /\ io = "open" /\ handle # "new"
    /\ \/ /\ closeReq /\ ~isClosing
          /\ DoClose
          /\ ioSignal' = FALSE
       \/ /\ closeReq /\ isClosing
          /\ ioSignal' = FALSE
          /\ UNCHANGED <<handle, timer, flagVars, queue, inFlight>>
       \/ /\ ~closeReq
          /\ \E refused, failed \in BOOLEAN :
                /\ WorkAsync(refused, failed)
                /\ closeReq' = (refused \/ failed)
                /\ ioSignal' = (refused \/ failed)
          /\ UNCHANGED isClosing
    /\ UNCHANGED <<lifeVars, threadVars, historyVars, peerVars>>

OnTimeout ==
    /\ timer
    /\ LoopClose
    /\ UNCHANGED <<handle, timer, connectReq, isClosing, writePending, queue, inFlight, lifeVars,
                   threadVars, historyVars, peerVars>>

\* onConnect: the timer goes; reading starts, or the connection is closed.
OnConnect ==
    /\ handle = "connecting"
    /\ timer' = FALSE
    /\ \/ handle' = "open" /\ UNCHANGED <<closeReq, ioSignal>>
       \/ handle' = "failed" /\ LoopClose
    /\ UNCHANGED <<connectReq, isClosing, writePending, queue, inFlight, lifeVars, threadVars,
                   historyVars, peerVars>>

\* onRead at the end of the stream or on a read error.
PeerGone ==
    /\ handle = "open"
    /\ LoopClose
    /\ UNCHANGED <<handle, timer, connectReq, isClosing, writePending, queue, inFlight, lifeVars,
                   threadVars, historyVars, peerVars>>

\* onWrite: the next frame, or a close if the write failed.  libuv calls it with
\* an error for a write that uv_close cancelled.
OnWrite ==
    /\ inFlight # <<>>
    /\ \/ /\ handle \in {"open", "closing"}
          /\ wire' = wire \o inFlight
          /\ arriving' = arriving \o Framed(PayloadOf(inFlight[1]))
          /\ \/ Drain(<<>>, FALSE) /\ UNCHANGED <<closeReq, ioSignal>>
             \/ Drain(<<>>, TRUE) /\ LoopClose
       \/ /\ inFlight' = <<>>
          /\ LoopClose
          /\ UNCHANGED <<wire, queue, writePending, arriving>>
    /\ UNCHANGED <<handle, timer, connectReq, isClosing, lifeVars, threadVars, accepted, recv,
                   parsing, peer, delivered>>

\* onClose, after the callbacks of the cancelled requests, closes io_async_.  Its
\* close callback follows at once, but for a handle with a signal on the way
\* libuv (win/async.c) puts it off until that signal has been received.
OnClose ==
    /\ handle = "closing" /\ inFlight = <<>>
    /\ handle' = "closed"
    /\ io' = IF ioSignal THEN "closing" ELSE "closed"
    /\ queue' = <<>>
    /\ UNCHANGED <<timer, flagVars, inFlight, ioSignal, freed, threadVars, historyVars, peerVars>>

\* onAsyncClosed when it was put off: the signal arrives, and the handle's close
\* callback runs at the end of that turn of the loop.
OnAsyncClosed ==
    /\ io = "closing" /\ ioSignal
    /\ io' = "closed"
    /\ ioSignal' = FALSE
    /\ UNCHANGED <<handle, timer, flagVars, queue, inFlight, freed, threadVars, historyVars,
                   peerVars>>

\* The owner (TcpServer's management round, TcpClient's posted clear) drops its
\* reference in a later callback, when no caller holds a snapshot any more.
Free ==
    /\ handle = "closed" /\ ~freed
    /\ \A t \in Threads : pc[t] = "idle"
    /\ freed' = TRUE
    /\ UNCHANGED <<handle, timer, flagVars, queue, inFlight, ioSignal, io, threadVars, historyVars,
                   peerVars>>
-----------------------------------------------------------------------------
(* The loop thread of the other end.                                       *)

ownVars == <<handle, timer, flagVars, queue, inFlight, ioSignal, lifeVars, threadVars, historyVars>>

\* onRead of n bytes: they join recv_buffer_, and the frames in it are looked at.
ReadBytes(n) ==
    /\ peer # "closed" /\ ~parsing /\ n \in 1 .. Len(arriving)
    /\ recv' = recv \o SubSeq(arriving, 1, n)
    /\ arriving' = SubSeq(arriving, n + 1, Len(arriving))
    /\ parsing' = (TooLarge(recv') \/ HasFrame(recv'))
    /\ UNCHANGED <<ownVars, peer, delivered>>

\* The while loop of onRead: a length above the limit closes the connection ...
RefuseFrame ==
    /\ parsing /\ TooLarge(recv)
    /\ parsing' = FALSE
    /\ peer' = IF peer = "reading" THEN "refusing" ELSE peer
    /\ UNCHANGED <<ownVars, arriving, recv, delivered>>

\* ... a frame that is complete is handed over; no further one if an observer or
\* another thread has asked for the close.
DispatchFrame ==
    /\ parsing /\ ~TooLarge(recv)
    /\ delivered' = Append(delivered, FirstFrame(recv))
    /\ recv' = AfterFrame(recv)
    /\ parsing' = (peer = "reading" /\ (TooLarge(recv') \/ HasFrame(recv')))
    /\ UNCHANGED <<ownVars, arriving, peer>>

\* close at the other end: asked by an observer, by another thread, at the end of
\* the stream or on an error, and done by doClose, which stops the reading.
PeerAsked ==
    /\ peer = "reading"
    /\ peer' = "asked"
    /\ UNCHANGED <<ownVars, arriving, recv, parsing, delivered>>
PeerDoClose ==
    /\ peer \in {"refusing", "asked"} /\ ~parsing
    /\ peer' = "closed"
    /\ UNCHANGED <<ownVars, arriving, recv, parsing, delivered>>

ReadStep == RefuseFrame \/ DispatchFrame \/ \E n \in 1 .. Len(arriving) : ReadBytes(n)
-----------------------------------------------------------------------------
LoopStep ==
    \/ OnIoAsync \/ OnTimeout \/ OnConnect \/ PeerGone \/ OnWrite
    \/ OnClose \/ OnAsyncClosed \/ Free
WriteStep(w) == WritePush(w) \/ WriteCAS(w) \/ AsyncSend(w)

Next ==
    \/ Connect \/ LoopStep \/ ReadStep \/ PeerAsked \/ PeerDoClose
    \/ \E w \in Writers : WriteCheck(w) \/ WriteStep(w)
    \/ \E k \in Closers : CloseCAS(k) \/ AsyncSend(k)

Spec == Init /\ [][Next]_vars

\* A call that has begun goes on, the owner connects what it has created, the loop
\* runs what is due.  A connect attempt
\* ends, since a timer or the system's own limit ends it.
Fairness ==
    /\ WF_vars(Connect) /\ WF_vars(OnIoAsync) /\ WF_vars(OnConnect) /\ WF_vars(OnWrite) /\ WF_vars(OnClose)
    /\ WF_vars(OnAsyncClosed) /\ WF_vars(ReadStep)
    /\ \A w \in Writers : WF_vars(WriteStep(w))
    /\ \A k \in Closers : WF_vars(AsyncSend(k))

FairSpec == Spec /\ Fairness
-----------------------------------------------------------------------------
\* No frame is stranded, also one that was written before the connection is open:
\* while the connection is not being closed, a queue that is not empty has somebody
\* who will drain it - a write that completes, a loop that is signalled, or a writer
\* that is about to signal it.
NoStrandedFrame ==
    (queue # <<>> /\ ~closeReq) =>
        \/ inFlight # <<>> \/ (writePending /\ ioSignal)
        \/ \E w \in Writers : pc[w] = "pushed" \/ (pc[w] = "won" /\ writePending)

\* Frames leave in the order they were accepted; none is lost or doubled before
\* the close.
InOrder ==
    /\ ~closeReq => accepted = wire \o inFlight \o queue
    /\ Len(wire) <= Len(accepted) /\ SubSeq(accepted, 1, Len(wire)) = wire

\* What the other end hands to its observers is what was written, whatever pieces
\* it arrived in: whole payloads in order, none above the limit; a connection is
\* refused for no other reason; and no whole frame is left waiting for the next
\* bytes.
FramesRebuilt ==
    /\ Len(delivered) <= Len(wire)
    /\ \A k \in DOMAIN delivered : delivered[k] = PayloadOf(wire[k]) /\ Len(delivered[k]) <= MaxFrame
    /\ peer = "refusing" => Len(PayloadOf(wire[Len(delivered) + 1])) > MaxFrame
    /\ (peer = "reading" /\ ~parsing /\ arriving = <<>>) => Len(delivered) = Len(wire)

\* A connection that is closed has left nothing open in the loop.
ClosedClean == handle = "closed" => ~timer /\ inFlight = <<>> /\ io # "open"

\* close leads to the close callback, whoever called it and in whatever phase.
CloseCompletes == closeReq ~> (handle = "closed" /\ io = "closed")

\* A frame that write has queued reaches the observers at the other end, unless
\* one of the two ends closes.
FrameArrives ==
    \A k \in 1 .. Cardinality(Frame) :
        (Len(accepted) >= k) ~> (Len(delivered) >= k \/ closeReq \/ peer # "reading")
=============================================================================
