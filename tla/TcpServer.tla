------------------------------ MODULE TcpServer ------------------------------
(***************************************************************************)
(* The libuv TCP server of Transport/tcp: TcpServer's start, accept, stop  *)
(* and the deferred release of its connections, with the part of           *)
(* TcpConnection the server sees (a close request, the closing handle, the *)
(* close callback).                                                        *)
(*                                                                         *)
(* One thread runs the loop; async_run, stop, close_connection and         *)
(* TcpConnection::close come from any thread.  A loop callback runs under  *)
(* no interruption by another callback, so each is one action; what other  *)
(* threads do to the same state is under mgmt_mutex_ or is a single CAS.   *)
(* RoomServer composes these actions with its own and says which of them   *)
(* the loop and the callers are bound to take.                             *)
(***************************************************************************)
EXTENDS Naturals

CONSTANT Conns      \* addresses a TcpConnection can be allocated at

VARIABLES
    phase,            \* life of the TcpConnection at each address
    closeReq,         \* its close_requested_ flag
    loop,             \* progress of sync_run on the loop thread
    mgmtSignal,       \* mgmt_async_ has been sent and not yet handled
    stopRequested,    \* stop_requested_
    stopClosingConns, \* stop_closing_conns_
    serverClosed,     \* server_closed_
    taskPending,      \* pending_tasks_ is not empty
    lateAccept        \* history: a connection came in after stop_closing_conns_

stopVars == <<loop, stopRequested, stopClosingConns, serverClosed>>
vars == <<phase, closeReq, mgmtSignal, stopVars, taskPending, lateAccept>>

\* "open", "refused" (uv_accept failed, nothing will be read) and "closing"
\* connections are in connections_, "closed" ones in pending_removes_; a
\* "pinned" one left both but another thread still holds a shared_ptr to it;
\* the address of a "none" one is free for the next accept.
Phases == {"none", "open", "refused", "closing", "closed", "pinned"}
LoopStates == {"off", "starting", "ready", "listening", "ended"}

TypeOK ==
    /\ phase \in [Conns -> Phases]
    /\ closeReq \in [Conns -> BOOLEAN]
    /\ loop \in LoopStates
    /\ mgmtSignal \in BOOLEAN
    /\ stopRequested \in BOOLEAN
    /\ stopClosingConns \in BOOLEAN
    /\ serverClosed \in BOOLEAN
    /\ taskPending \in BOOLEAN
    /\ lateAccept \in BOOLEAN

Connections == {c \in Conns : phase[c] \in {"open", "refused", "closing"}}
Existing == {c \in Conns : phase[c] # "none"}
loopReady == loop \notin {"off", "starting"}

Init ==
    /\ phase = [c \in Conns |-> "none"]
    /\ closeReq = [c \in Conns |-> FALSE]
    /\ loop = "off"
    /\ mgmtSignal = FALSE
    /\ stopRequested = FALSE
    /\ stopClosingConns = FALSE
    /\ serverClosed = FALSE
    /\ taskPending = FALSE
    /\ lateAccept = FALSE
-----------------------------------------------------------------------------
(* Any thread.                                                             *)

\* async_run spawns the loop thread unless the server is stopping.
AsyncRun ==
    /\ loop = "off" /\ ~stopRequested
    /\ loop' = "starting"
    /\ UNCHANGED <<phase, closeReq, mgmtSignal, stopRequested, stopClosingConns,
                   serverClosed, taskPending, lateAccept>>

\* stop up to the join: only the first call does anything, and the loop is
\* signalled only if its async handle exists already.
Stop ==
    /\ ~stopRequested
    /\ stopRequested' = TRUE
    /\ mgmtSignal' = (mgmtSignal \/ loopReady)
    /\ UNCHANGED <<phase, closeReq, loop, stopClosingConns, serverClosed, taskPending,
                   lateAccept>>

\* Post: the task is queued, the loop is signalled if its handle exists.
Post ==
    /\ taskPending' = TRUE
    /\ mgmtSignal' = (mgmtSignal \/ loopReady)
    /\ UNCHANGED <<phase, closeReq, stopVars, lateAccept>>

\* TcpConnection::close on each connection of S: one CAS, the first wins.
CloseRequests(S) == closeReq' = [c \in Conns |-> closeReq[c] \/ c \in S]

\* close_connection, and close called by whoever else refers to connections.
CloseConnections(S) ==
    /\ CloseRequests(S)
    /\ UNCHANGED <<phase, mgmtSignal, stopVars, taskPending, lateAccept>>

\* The last shared_ptr to a connection the server has let go of is dropped.
Unpin(c) ==
    /\ phase[c] = "pinned"
    /\ phase' = [phase EXCEPT ![c] = "none"]
    /\ UNCHANGED <<closeReq, mgmtSignal, stopVars, taskPending, lateAccept>>
-----------------------------------------------------------------------------
(* The loop thread.                                                        *)

\* Mutant of LoopInit: the stop that came before the handle existed is not
\* signalled again.
LoopInitDeaf ==
    /\ loop = "starting"
    /\ loop' = "ready"
    /\ UNCHANGED <<phase, closeReq, mgmtSignal, stopRequested, stopClosingConns, serverClosed,
                   taskPending, lateAccept>>

\* sync_run: handles initialised and, under the lock, a stop that came first
\* is signalled again.
LoopInit ==
    /\ loop = "starting"
    /\ loop' = "ready"
    /\ mgmtSignal' = stopRequested
    /\ UNCHANGED <<phase, closeReq, stopRequested, stopClosingConns, serverClosed,
                   taskPending, lateAccept>>

\* bind and listen: on success uv_run starts, on failure the handles are
\* closed and the thread ends.
BindAndListen ==
    /\ loop = "ready"
    /\ loop' \in {"listening", "ended"}
    /\ UNCHANGED <<phase, closeReq, mgmtSignal, stopRequested, stopClosingConns,
                   serverClosed, taskPending, lateAccept>>

\* onNewConnection: the listener still polls until uv_close(server_).  A failed
\* uv_accept leaves a registered connection that has asked for its own close.
Accept(c) ==
    /\ loop = "listening" /\ ~serverClosed
    /\ phase[c] = "none"
    /\ \E result \in {"open", "refused"} :
          /\ phase' = [phase EXCEPT ![c] = result]
          /\ closeReq' = [closeReq EXCEPT ![c] = result = "refused"]
    /\ lateAccept' = (lateAccept \/ stopClosingConns)
    /\ UNCHANGED <<mgmtSignal, stopVars, taskPending>>

\* onRead at the end of the stream or on an error, or a failed write.
PeerGone(c) ==
    /\ loop = "listening" /\ phase[c] = "open" /\ ~closeReq[c]
    /\ CloseConnections({c})

\* Mutant of DoClose: a stopping server no longer closes on request.
DoCloseUnlessStopping(c) ==
    /\ loop = "listening" /\ phase[c] \in {"open", "refused"} /\ closeReq[c] /\ ~stopRequested
    /\ phase' = [phase EXCEPT ![c] = "closing"]
    /\ UNCHANGED <<closeReq, mgmtSignal, stopVars, taskPending, lateAccept>>

\* onIoAsync finds close_requested_ and runs doClose.
DoClose(c) ==
    /\ loop = "listening" /\ phase[c] \in {"open", "refused"} /\ closeReq[c]
    /\ phase' = [phase EXCEPT ![c] = "closing"]
    /\ UNCHANGED <<closeReq, mgmtSignal, stopVars, taskPending, lateAccept>>

\* onClose -> on_connection_closed: from connections_ to pending_removes_.  A
\* further observer may post a task of its own, the room server does.
OnClose(c) ==
    /\ loop = "listening" /\ phase[c] = "closing"
    /\ phase' = [phase EXCEPT ![c] = "closed"]
    /\ mgmtSignal' = TRUE
    /\ taskPending' \in {taskPending, TRUE}
    /\ UNCHANGED <<closeReq, stopVars, lateAccept>>

\* onMgmtAsync, after the posted tasks: release pending_removes_ (the objects
\* of P stay, someone else refers to them), then the two stages of stopping.
ReleaseClosed(P) ==
    phase' = [c \in Conns |-> IF phase[c] # "closed" THEN phase[c]
                              ELSE IF c \in P THEN "pinned" ELSE "none"]

\* Mutant of StopStage: the stage is entered but the connections are not asked
\* to close.
StopStageForgetful ==
    \/ /\ stopRequested /\ Connections = {}
       /\ serverClosed' = TRUE
       /\ UNCHANGED <<closeReq, stopClosingConns>>
    \/ /\ ~stopRequested \/ Connections # {}
       /\ stopClosingConns' = stopRequested
       /\ UNCHANGED <<closeReq, serverClosed>>

StopStage ==
    \/ /\ stopRequested /\ Connections = {}
       /\ serverClosed' = TRUE
       /\ UNCHANGED <<closeReq, stopClosingConns>>
    \/ /\ stopRequested /\ Connections # {} /\ ~stopClosingConns
       /\ stopClosingConns' = TRUE
       /\ CloseRequests(Connections)
       /\ UNCHANGED serverClosed
    \/ /\ ~stopRequested \/ (Connections # {} /\ stopClosingConns)
       /\ UNCHANGED <<closeReq, stopClosingConns, serverClosed>>

MgmtRound(P) ==
    /\ loop = "listening" /\ ~serverClosed /\ mgmtSignal
    /\ mgmtSignal' = FALSE
    /\ taskPending' = FALSE
    /\ ReleaseClosed(P)
    /\ StopStage
    /\ UNCHANGED <<loop, stopRequested, lateAccept>>

\* onServerClosed closes mgmt_async_, onMgmtClosed stops the loop.
LoopEnd ==
    /\ loop = "listening" /\ serverClosed
    /\ loop' = "ended"
    /\ UNCHANGED <<phase, closeReq, mgmtSignal, stopRequested, stopClosingConns,
                   serverClosed, taskPending, lateAccept>>

LoopStep ==
    \/ LoopInit \/ BindAndListen \/ LoopEnd
    \/ \E P \in SUBSET Conns : MgmtRound(P)
    \/ \E c \in Conns : DoClose(c) \/ OnClose(c)

Next ==
    \/ AsyncRun \/ Stop \/ Post \/ LoopStep
    \/ \E c \in Conns : Accept(c) \/ PeerGone(c) \/ Unpin(c)
    \/ \E S \in SUBSET Existing : CloseConnections(S)

Spec == Init /\ [][Next]_vars
-----------------------------------------------------------------------------
\* The listener, and then the loop, is closed only when no connection object is
\* left with an open libuv handle or waiting in pending_removes_ (onMgmtAsync).
ClosedLast == serverClosed => \A c \in Conns : phase[c] \in {"none", "pinned"}

\* A stop request is never forgotten by a running loop: either its signal is
\* still pending, or a connection is left whose close callback will signal.
StopNotLost ==
    (stopRequested /\ loop \in {"ready", "listening"} /\ ~serverClosed)
        => (mgmtSignal \/ Connections # {})

\* stop ends the loop of a started server, unless a connection was accepted
\* between the round that closed the others and uv_close of the listener.
StopCompletesUnlessLate ==
    (stopRequested /\ loop # "off") ~> (loop = "ended" \/ lateAccept)
=============================================================================
