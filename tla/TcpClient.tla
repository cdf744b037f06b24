------------------------------ MODULE TcpClient ------------------------------
(***************************************************************************)
(* TcpClient: one connection at a time, connected, reconnected, closed and *)
(* released between the API threads and the loop thread.                   *)
(*                                                                         *)
(* An API call is split where it leaves a lock or reads an atomic; a loop  *)
(* callback is one action, except where it reads state_ and sets           *)
(* something later (the connect task, on_connection_connected), and        *)
(* between two tasks of one management round.  Of a TcpConnection only     *)
(* what the client sees is kept: created, open, closing, closed, and       *)
(* whether somebody still refers to it.                                    *)
(***************************************************************************)
EXTENDS Naturals, Sequences, FiniteSets

CONSTANTS
    Conns,      \* addresses of TcpConnection objects: bounds the connects under way
    Threads,    \* API threads
    None

ASSUME ConnsFinite == IsFiniteSet(Conns)
ASSUME NoneIsNew == None \notin Conns \cup {"install"} /\ "install" \notin Conns

VARIABLES
    state,          \* state_
    current,        \* connection_
    pending,        \* pending_connections_
    life,           \* of the object at each address
    closeReq,       \* its close_requested_
    tasks,          \* mgmt_tasks_
    batch,          \* what is left of the tasks onMgmtAsync swapped out
    at,             \* loop callback between a look at state_ and its consequence:
                    \* the connect task ("install"), on_connection_connected of a
                    \* connection, or None
    mgmtSignal,     \* mgmt_async_ is sent and not handled
    timerActive,    \* timer_active_
    timer,          \* timer_req_: closed (timer_closed_), running or closing
    quit,           \* quit_requested_, closeQuit called, loop ended
    quitSignal,     \* quit_async_ is sent and not handled
    call,           \* progress of each API thread's call
    snap,           \* the shared_ptr it has taken
    destroyedOpen,  \* an object was destroyed before its close callback
    astray          \* history: the connections announced while another was current

loopVars == <<tasks, batch, at, mgmtSignal>>
quitVars == <<quit, quitSignal>>
callVars == <<call, snap>>
objVars == <<life, closeReq, destroyedOpen, astray>>
timerVars == <<timerActive, timer>>
vars == <<state, current, pending, objVars, loopVars, timerVars, quitVars, callVars>>

TypeOK ==
    /\ state \in {"Disconnected", "Connecting", "Connected"}
    /\ current \in Conns \cup {None}
    /\ pending \in SUBSET Conns
    /\ life \in [Conns -> {"none", "idle", "open", "closing", "closed"}]
    /\ closeReq \in [Conns -> BOOLEAN]
    /\ tasks \in Seq({"connect", "clear"}) /\ batch \in Seq({"connect", "clear"})
    /\ at \in Conns \cup {"install", None}
    /\ mgmtSignal \in BOOLEAN
    /\ timerActive \in BOOLEAN /\ timer \in {"closed", "running", "closing"}
    /\ quit \in {"no", "requested", "closing", "ended"} /\ quitSignal \in BOOLEAN
    /\ call \in [Threads -> {"idle", "post", "closing", "checked", "sending"}]
    /\ snap \in [Threads -> Conns \cup {None}]
    /\ \A t \in Threads : snap[t] # None <=> call[t] \in {"closing", "sending"}
    /\ destroyedOpen \in BOOLEAN /\ astray \in SUBSET Conns

Init ==
    /\ state = "Disconnected" /\ current = None /\ pending = {}
    /\ life = [c \in Conns |-> "none"]
    /\ closeReq = [c \in Conns |-> FALSE]
    /\ tasks = <<>> /\ batch = <<>> /\ at = None
    /\ mgmtSignal = FALSE /\ timerActive = FALSE /\ timer = "closed"
    /\ quit = "no" /\ quitSignal = FALSE
    /\ call = [t \in Threads |-> "idle"]
    /\ snap = [t \in Threads |-> None]
    /\ destroyedOpen = FALSE /\ astray = {}
-----------------------------------------------------------------------------
(* The objects.                                                            *)

\* What the step leaves without a reference is destroyed.  The program goes
\* wrong if libuv still has handles of it, and no step is taken after that.
Defined == ~destroyedOpen
Release(newLife) ==
    LET kept == {current'} \cup pending' \cup {snap'[t] : t \in Threads}
    IN /\ life' = [c \in Conns |-> IF c \in kept THEN newLife[c] ELSE "none"]
       /\ astray' = astray \cap kept
       /\ destroyedOpen' = \E c \in Conns \ kept : newLife[c] \in {"idle", "open", "closing"}

RequestClose(c) == closeReq' = [closeReq EXCEPT ![c] = TRUE]

\* The connect calls whose object has still to be made.
IsConnect(task) == task = "connect"
Owed ==
    Len(SelectSeq(tasks \o batch, IsConnect)) + Cardinality({t \in Threads : call[t] = "post"})
-----------------------------------------------------------------------------
(* API threads.                                                            *)

Begin(t) == Defined /\ call[t] = "idle" /\ quit = "no"

\* connect: only a disconnected client begins.
ConnectCAS(t) ==
    /\ Begin(t) /\ state = "Disconnected"
    /\ Owed < Cardinality({c \in Conns : life[c] = "none"})
    /\ state' = "Connecting"
    /\ call' = [call EXCEPT ![t] = "post"]
    /\ UNCHANGED <<current, pending, objVars, loopVars, timerVars, quitVars, snap>>

\* Post: the task is queued, then the loop is signalled.
ConnectPost(t) ==
    /\ Defined /\ call[t] = "post"
    /\ tasks' = Append(tasks, "connect")
    /\ mgmtSignal' = TRUE
    /\ call' = [call EXCEPT ![t] = "idle"]
    /\ UNCHANGED <<state, current, pending, objVars, batch, at, timerVars, quitVars, snap>>

\* disconnect: state and snapshot under conn_mutex_ ...
DisconnectMark(t) ==
    /\ Begin(t)
    /\ state' = "Disconnected"
    /\ snap' = [snap EXCEPT ![t] = current]
    /\ call' = [call EXCEPT ![t] = IF current = None THEN "idle" ELSE "closing"]
    /\ UNCHANGED <<current, pending, objVars, loopVars, timerVars, quitVars>>

\* ... and the close without it.
DisconnectClose(t) ==
    /\ Defined /\ call[t] = "closing"
    /\ RequestClose(snap[t])
    /\ snap' = [snap EXCEPT ![t] = None]
    /\ call' = [call EXCEPT ![t] = "idle"]
    /\ UNCHANGED <<state, current, pending, loopVars, timerVars, quitVars>>
    /\ Release(life)

\* sendMessage: the look at state_, the snapshot, the write.
SendCheck(t) ==
    /\ Begin(t) /\ state = "Connected"
    /\ call' = [call EXCEPT ![t] = "checked"]
    /\ UNCHANGED <<state, current, pending, objVars, loopVars, timerVars, quitVars, snap>>

SendSnapshot(t) ==
    /\ Defined /\ call[t] = "checked"
    /\ snap' = [snap EXCEPT ![t] = current]
    /\ call' = [call EXCEPT ![t] = IF current = None THEN "idle" ELSE "sending"]
    /\ UNCHANGED <<state, current, pending, objVars, loopVars, timerVars, quitVars>>

\* A frame drained before the connection is open fails and closes it.
SendWrite(t) ==
    /\ Defined /\ call[t] = "sending"
    /\ \/ UNCHANGED closeReq
       \/ life[snap[t]] = "idle" /\ RequestClose(snap[t])
    /\ snap' = [snap EXCEPT ![t] = None]
    /\ call' = [call EXCEPT ![t] = "idle"]
    /\ UNCHANGED <<state, current, pending, loopVars, timerVars, quitVars>>
    /\ Release(life)

\* ~TcpClient up to the join, when no call is under way.
Quit ==
    /\ Defined /\ quit = "no" /\ \A t \in Threads : call[t] = "idle"
    /\ quit' = "requested" /\ quitSignal' = TRUE
    /\ UNCHANGED <<state, current, pending, objVars, loopVars, timerVars, callVars>>
-----------------------------------------------------------------------------
(* The loop thread: management.                                            *)

LoopFree == Defined /\ quit # "ended" /\ batch = <<>> /\ at = None

\* onMgmtAsync takes the tasks and runs them one by one.
TakeTasks ==
    /\ LoopFree /\ mgmtSignal /\ quit # "closing"
    /\ mgmtSignal' = FALSE
    /\ batch' = tasks /\ tasks' = <<>>
    /\ UNCHANGED <<state, current, pending, objVars, at, timerVars, quitVars, callVars>>

RunConnectCheck ==
    /\ Defined /\ batch # <<>> /\ Head(batch) = "connect" /\ at = None
    /\ IF quit = "no" /\ state = "Connecting"
       THEN at' = "install" /\ UNCHANGED batch
       ELSE batch' = Tail(batch) /\ UNCHANGED at
    /\ UNCHANGED <<state, current, pending, objVars, tasks, mgmtSignal, timerVars, quitVars,
                   callVars>>

\* A new object replaces connection_, which is kept in pending_connections_.
RunConnectInstall ==
    /\ Defined /\ at = "install"
    /\ \E c \in Conns :
          /\ life[c] = "none"
          /\ current' = c
          /\ pending' = pending \cup ({current} \ {None})
          /\ closeReq' = [closeReq EXCEPT ![c] = FALSE]
          /\ UNCHANGED <<state, tasks, mgmtSignal, timerVars, quitVars, callVars>>
          /\ Release([life EXCEPT ![c] = "idle"])
    /\ batch' = Tail(batch) /\ at' = None

\* The task on_connection_closed posts.
RunClear ==
    /\ Defined /\ batch # <<>> /\ Head(batch) = "clear"
    /\ pending' = {}
    /\ batch' = Tail(batch)
    /\ UNCHANGED <<state, current, closeReq, tasks, at, mgmtSignal, timerVars, quitVars, callVars>>
    /\ Release(life)
-----------------------------------------------------------------------------
(* The loop thread: the heartbeat timer.                                   *)

\* startHeartbeat: a timer that runs is left alone, one that is closed is made
\* anew, and one that is being closed is started all the same, which libuv refuses.
StartHeartbeat ==
    /\ timerActive' = TRUE
    /\ timer' = IF ~timerActive /\ timer = "closed" THEN "running" ELSE timer

\* stopHeartbeat closes the timer.  Its close callback comes at once when it is
\* closed in a close callback (win/core.c goes on until none is left), otherwise
\* at the end of that turn of the loop.  The mutant leaves timer_active_ up.
StopKeepsActive(then) ==
    /\ timer' = IF timerActive /\ timer = "running" THEN then ELSE timer
    /\ UNCHANGED timerActive
StopHeartbeat(then) ==
    /\ timer' = IF timerActive /\ timer = "running" THEN then ELSE timer
    /\ timerActive' = FALSE

OnTimerClosed ==
    /\ LoopFree /\ timer = "closing"
    /\ timer' = "closed"
    /\ UNCHANGED <<state, current, pending, objVars, loopVars, timerActive, quitVars, callVars>>
-----------------------------------------------------------------------------
(* The loop thread: the connections.                                       *)

\* Mutant of Connected: a client that no longer wants the connection keeps it.
ConnectedUnwanted(c) ==
    /\ LoopFree /\ life[c] = "idle"
    /\ life' = [life EXCEPT ![c] = "open"]
    /\ at' = IF state = "Connecting" THEN c ELSE None
    /\ UNCHANGED <<state, current, pending, closeReq, destroyedOpen, astray, tasks, batch, mgmtSignal,
                   timerVars, quitVars, callVars>>

\* onConnect with success -> on_connection_connected: a client that is no longer
\* connecting closes it, otherwise ...
Connected(c) ==
    /\ LoopFree /\ life[c] = "idle"
    /\ life' = [life EXCEPT ![c] = "open"]
    /\ \/ state # "Connecting" /\ RequestClose(c) /\ UNCHANGED at
       \/ state = "Connecting" /\ at' = c /\ UNCHANGED closeReq
    /\ UNCHANGED <<state, current, pending, destroyedOpen, astray, tasks, batch, mgmtSignal, timerVars,
                   quitVars, callVars>>

\* ... the state is set and the heartbeat started, whichever connection it is.
ConnectedSet ==
    /\ Defined /\ at \in Conns
    /\ state' = "Connected"
    /\ StartHeartbeat
    /\ astray' = IF at = current THEN astray ELSE astray \cup {at}
    /\ at' = None
    /\ UNCHANGED <<current, pending, life, closeReq, destroyedOpen, tasks, batch, mgmtSignal, quitVars,
                   callVars>>

\* The loop thread calls close: the connect fails or times out, the peer goes,
\* or onHeartbeatTimer waited too long for a PONG.
LoopClose(c) ==
    /\ LoopFree /\ ~closeReq[c]
    /\ RequestClose(c)
    /\ UNCHANGED <<state, current, pending, life, destroyedOpen, astray, loopVars, timerVars, quitVars,
                   callVars>>

ConnectFailed(c) == life[c] = "idle" /\ LoopClose(c)
PeerGone(c) == life[c] = "open" /\ LoopClose(c)
HeartbeatTimeout ==
    /\ timer = "running" /\ state = "Connected" /\ current # None
    /\ LoopClose(current)

DoClose(c) ==
    /\ LoopFree /\ life[c] \in {"idle", "open"} /\ closeReq[c]
    /\ life' = [life EXCEPT ![c] = "closing"]
    /\ UNCHANGED <<state, current, pending, closeReq, destroyedOpen, astray, loopVars, timerVars, quitVars,
                   callVars>>

\* Mutant of IfCurrent: the state of the client is left as it was.
KeepState(c) ==
    \/ /\ c = current
       /\ current' = None
       /\ pending' = pending \cup {c}
       /\ StopHeartbeat("closed")
       /\ UNCHANGED state
    \/ c # current /\ UNCHANGED <<current, pending, timerVars, state>>

\* on_connection_closed: the current connection waits in pending_connections_.
IfCurrent(c) ==
    \/ /\ c = current
       /\ current' = None
       /\ pending' = pending \cup {c}
       /\ StopHeartbeat("closed")
       /\ state' = "Disconnected"
    \/ c # current /\ UNCHANGED <<current, pending, timerVars, state>>

\* Mutant of PostClear: no clean-up is posted.
PostNothing == UNCHANGED <<tasks, mgmtSignal>>

\* Whatever was closed, the clean-up is posted; nobody is signalled once the
\* client quits.
PostClear ==
    /\ tasks' = Append(tasks, "clear")
    /\ mgmtSignal' = (mgmtSignal \/ quit = "no")

\* Mutant of QuitOnClosed: only onQuitAsync ends the loop.
QuitNever == UNCHANGED quit
QuitOnClosed == quit' = IF quit = "requested" THEN "closing" ELSE quit

OnClosed(c) ==
    /\ LoopFree /\ life[c] = "closing"
    /\ IfCurrent(c)
    /\ PostClear
    /\ QuitOnClosed
    /\ UNCHANGED <<closeReq, batch, at, quitSignal, callVars>>
    /\ Release([life EXCEPT ![c] = "closed"])

\* onQuitAsync: the heartbeat ends; the connection is closed, or closeQuit is
\* called at once.
OnQuit ==
    /\ LoopFree /\ quitSignal /\ quit = "requested"
    /\ quitSignal' = FALSE
    /\ StopHeartbeat("closing")
    /\ \/ current # None /\ RequestClose(current) /\ UNCHANGED quit
       \/ current = None /\ quit' = "closing" /\ UNCHANGED closeReq
    /\ UNCHANGED <<state, current, pending, life, destroyedOpen, astray, loopVars, callVars>>

\* onQuitClosed: uv_stop, uv_run returns.
LoopEnd ==
    /\ LoopFree /\ quit = "closing"
    /\ quit' = "ended"
    /\ UNCHANGED <<state, current, pending, objVars, loopVars, timerVars, quitSignal, callVars>>
-----------------------------------------------------------------------------
CallStep(t) ==
    \/ ConnectPost(t) \/ DisconnectClose(t) \/ SendSnapshot(t) \/ SendWrite(t)

RunTask == RunConnectCheck \/ RunConnectInstall \/ RunClear \/ ConnectedSet

Next ==
    \/ \E t \in Threads : ConnectCAS(t) \/ DisconnectMark(t) \/ SendCheck(t) \/ CallStep(t)
    \/ \E c \in Conns : Connected(c) \/ ConnectFailed(c) \/ PeerGone(c) \/ DoClose(c) \/ OnClosed(c)
    \/ TakeTasks \/ RunTask \/ HeartbeatTimeout \/ OnTimerClosed \/ Quit \/ OnQuit \/ LoopEnd

Spec == Init /\ [][Next]_vars

\* A call that has begun returns; a callback that is under way goes on.  A turn
\* of the loop runs every callback that is due, so one that is due again and
\* again, whenever no other is under way, runs: strong fairness.  For the end of
\* the client, when nothing new is begun, weak fairness will do.  An attempt to
\* connect ends one way or the other (the timer, or the system's own limit).
Fairness ==
    /\ \A t \in Threads : WF_vars(CallStep(t))
    /\ WF_vars(RunTask) /\ SF_vars(TakeTasks) /\ WF_vars(OnQuit) /\ WF_vars(LoopEnd)
    /\ \A c \in Conns :
          SF_vars(Connected(c) \/ ConnectFailed(c)) /\ SF_vars(DoClose(c)) /\ SF_vars(OnClosed(c))

FairSpec == Spec /\ Fairness
-----------------------------------------------------------------------------
\* No session stays up behind a client that says it is disconnected: a connection
\* that is up and not being closed is the current one of a connected client, or its
\* on_connection_connected is running, or a disconnect has it in hand.  Excepted is
\* one that was announced while another was current (NothingAstray).
Answered(c) ==
    \/ c = current /\ state = "Connected"
    \/ at = c
    \/ \E t \in Threads : call[t] = "closing" /\ snap[t] = c
NoOrphanSession ==
    \A c \in Conns \ astray : (life[c] = "open" /\ ~closeReq[c]) => Answered(c)

\* A client that says it is connected has its heartbeat timer running, so that a
\* dead peer is noticed, however often the timer was closed and made again before.
ConnectedIsWatched == (state = "Connected" /\ quit = "no") => timer = "running"

\* connect is answered: the client does not stay "Connecting" for ever.
ConnectSettles ==
    (state = "Connecting") ~> (state # "Connecting" \/ quit # "no" \/ destroyedOpen)

\* ~TcpClient returns: whatever connection is there when it is called, the loop
\* ends and the join returns.
QuitEnds == (quit = "requested") ~> (quit = "ended" \/ destroyedOpen)

\* A connection that is asked to close is released in the end.  The objects only
\* differ by name, so what holds of one address holds of all.
AnyConn == CHOOSE c \in Conns : TRUE
ClosedIsReleased ==
    (closeReq[AnyConn] /\ life[AnyConn] # "none")
        ~> (life[AnyConn] = "none" \/ quit # "no" \/ destroyedOpen)

\* What the comments in connect and ~TcpConnection say: an object is destroyed
\* after its close callback.
FreedAfterClosed == ~destroyedOpen

\* What the comment in on_connection_closed says, "late callbacks of an old
\* connection do not touch the reconnect": a connect whose object has still to be
\* made, begun while the heartbeat of the session before it runs on, is undone by a
\* disconnect only.
ReconnectKept ==
    [][(state = "Connecting" /\ Owed > 0 /\ timerActive /\ state' = "Disconnected")
          => \E t \in Threads : DisconnectMark(t)]_vars

\* The same of the other late callback: a connection that has been replaced, and
\* that nobody has closed yet, is not announced as the one the client waits for.
NothingAstray == \A c \in astray : closeReq[c]

\* What the comment in startHeartbeat says, "the handle is not closed and can be
\* restarted": a timer that is said to be active runs.
TimerRestarted == timerActive => timer = "running"
=============================================================================
