# HRTC in TLA+

HRTC is a C++ library for real-time collaboration: a TCP transport with rooms, a
shared whiteboard on top of it, and a small graph of video nodes. This directory
holds TLA+ modules of its concurrent core, TLC configurations that check them on
small instances, and TLAPS proofs of some of their properties for every instance.
Paths below are relative to the repository's `src/`.

## 1. The system

| Component (source) | State | Operations | Runs on |
|---|---|---|---|
| `TcpServer` (`src/Transport/tcp/TcpServer.*`) | `connections_`, `pending_removes_`, `pending_tasks_`, flags `stop_requested_`, `stop_closing_conns_`, `server_closed_`, `loop_ready_` | async_run, stop, Post, close_connection; loop callbacks onNewConnection, onMgmtAsync, on_connection_closed, onServerClosed | API threads + one libuv loop thread |
| `TcpConnection` (`src/Transport/tcp/TcpConnection.*`) | `write_queue_`, `write_pending_`, `close_requested_`, `connect_requested_`, `is_closing_`, `write_in_progress_`, handles | connect, write, close; onIoAsync, onWrite, onConnect, onConnectTimer, onRead, onClose, onAsyncClosed | any thread + loop thread |
| `TcpClient` (`src/Transport/tcp/TcpClient.*`) | `state_`, `connection_`, `pending_connections_`, `mgmt_tasks_`, `timer_active_`, `quit_requested_` | connect, disconnect, sendMessage, destructor; connected / closed / data callbacks, heartbeat timer, onQuitAsync | API threads + loop thread |
| `TcpRoomServer`, `Room`, `RoomManager`, `ServerHeartbeatMonitor` (`src/Transport/server`, `room`, `heartbeat`) | `ctxs_` (connection to room and user), `rooms_`, `users_`, `join_order_`, `active_`, `hb_active_` | JOIN, LEAVE, UNICAST, BROADCAST, PING frames; close callback, heartbeat scan; Start, Stop, KickUser, Unicast, Broadcast | loop thread + API threads |
| `DataStream` (`src/Transport/stream`) | `joined_`, `pending_join_`, server address, observers | Connect, JoinRoom, Unicast, Broadcast, LeaveRoom, Disconnect; on_connected, on_disconnected, on_message | its `api_thread_` (a task queue) |
| `dispatch_task_queue` (`src/Base/Thread/DispatchQueue.*`) | four priority lanes, delayed lanes, `_cancel`, per-task signals | sync, async, async_delay, clear, destruction; worker loop | any thread + worker threads |
| `QtBoardData` (`demo/QtBoard/data/QtBoardData.*`) | pages, current page, strokes being drawn, eraser increments, undo and redo stacks per page | pen, eraser, elements, pages, undo, redo; the same from remote; full sync | its data thread (a task queue) |
| `WhiteboardSession` (`demo/QtBoard/data/WhiteboardSession.*`) | the stream, the outgoing-command callback | Start, Stop, onRequestData, DispatchCommand | UI, data and api threads |
| `Collections`, `CountDownLatch`, `Event`, `SpinLock`, `RefCounter`, `HrtcRefPtr`, `Sigslot` (`src/Base`) | observer lists, counters | add, remove, Foreach, wait, signal | any thread |
| Pins and nodes (`src/Pin`, `src/Node`, `src/VideoNode`, `HrtcEngine.cpp`) | connected pins, node state | ConnectPin, DisconnectPin, Deliver, Start, Stop | capture threads, caller |
| Whiteboard elements, geometry, codecs (`src/Whiteboard`, `src/Transport/common`) | none of their own (data) | serialise, erase, lay out, transform | caller |
| Capture, encoding, rendering (`src/CameraCapture`, `ScreenCapture`, `VideoCodec`, `VideoRender`) | devices of the operating system | start, stop, frames | system threads |
| `AiAgent`, `AiClient` (`demo/QtBoard/ai`) | `history_`, `busy_`, `cancelled_`, `iterations_`, `calledKeys_`, `reply_` | send, cancel, clear; end of the request, its timer, tool calls | UI thread, one event after the other |
| Qt application (`demo/QtBoard/app`, `view`, `panels`, `toolbar`) | widgets | user input | UI thread |

How they interact. `TcpRoomServer` is the observer of `TcpServer`, which is the observer
of its `TcpConnection`s: every protocol handler is a loop callback. `TcpClient` owns one
`TcpConnection` at a time and reports to `DataStream`, which moves every report to its
`api_thread_` with `async` and runs every API call there with `sync`.
`WhiteboardSession` observes `DataStream` on that thread, posts remote commands to the
data thread of `QtBoardData`, and is called by the data thread for every local command.
The assistant (`AiAgent`) performs the operations of the same board between two requests
to a language model. Connections are named by raw pointers in `ctxs_` and in the
heartbeat monitor, so the address of a released connection that is used again is a state
the models keep.

What is hard: flags and queues shared between API threads and a loop thread that
only hear of each other through coalescing libuv signals; objects whose libuv
handles outlive the decision to drop them; a two-stage stop; membership that must
agree in four containers while connections close under it; condition variables
notified without their mutex; two task queues that wait for each other; what
`DataStream` believes of a connection that has already been replaced. The list,
with the lines, is `hazards` in PROJECT.json.

## 2. The modules

| Module | Models | Builds on |
|---|---|---|
| `TcpServer` | the listener, its connections and the two-stage stop | |
| `RoomServer` | `TcpRoomServer`, `Room`, `RoomManager`, the heartbeat monitor | `TcpServer` (INSTANCE; every server action takes the part of the TCP action it runs in) |
| `Places` | abstract: a place in a room is held by one connection, a connection holds one place | refined by `RoomServer` |
| `Framing` | the frames on the wire: header, payload, what `onRead` cuts out | |
| `TcpConnection` | one client connection with its flags, queue and handles, and the connection at the other end that reads it | `Framing` (EXTENDS) |
| `TcpClient` | the client around its connections | |
| `DataStream` | one user's way into a room over connections that are lost and made again | |
| `TaskQueue` | `dispatch_task_queue` | |
| `Board` | `QtBoardData` as functions from a board to a board | |
| `BoardRoom` | members with a data thread and an api thread each, `WhiteboardSession` between them, the room server as a relay | `Board` (EXTENDS) |
| `AiAgent` | the assistant's rounds: request, tool calls, time-out, cancel, history | |
| `MCRoomServer`, `MCTcpConnection`, `MCBoardRoom` | symmetry, views, payloads, founders and one bound for TLC | |
| `RoomServerProofs`, `TcpConnectionProofs`, `TcpClientProofs`, `DataStreamProofs`, `TaskQueueProofs`, `BoardRoomProofs`, `AiAgentProofs` | theorems | the module in their name; `RoomServerProofs` has those about `TcpServer` too, `TcpConnectionProofs` those about `Framing` |
| `BoardAgreementProofs` | the theorems that the boards agree: newcomers with the rest, users that take turns with each other | `BoardRoomProofs` (EXTENDS) |

What an action is. A libuv callback is not interrupted by another one, so a
callback is one action, unless it reads an atomic that API threads write and acts on
it later (`TcpClient!Connected` and `ConnectedSet`, `RunConnectCheck` and
`RunConnectInstall`, `DataStream!Opened` and `Announce`) or calls observers between two frames (`onRead`). A call by any
other thread is split at every lock, CAS and `uv_async_send`. A task of a task queue
is one action when nothing else reads what it changes, and several when it reads an
atomic of another thread (`DataStream!DoJoin` and `JoinSend`) or calls another queue
synchronously (`BoardRoom`: the commands left in `outbox`, the requester in
`serving`). An async handle sent several times before the loop looks wakes it once: a
Boolean. A libuv close is an action that starts it and a later one that is its callback.

**TcpServer.** `phase[c]` is the life of the object at address `c`: `open`, `refused`
and `closing` are in `connections_`, `closed` is in `pending_removes_`, `pinned` left
both but some thread still holds a `shared_ptr`, `none` is free for the next accept.
`MgmtRound(P)` is `onMgmtAsync` whole: posted tasks, `ReleaseClosed` (P is the set
somebody else holds), `StopStage`. `loop` is the progress of `sync_run`. `Stop` sends
the signal only when the handle exists, `LoopInit` makes up for an earlier stop.

**RoomServer.** `ctxs` and `seat` are `ctxs_`; `users` and `joinOrder` are those of
each `Room`; `rooms` those known to `RoomManager`; `monitor` the keys of the heartbeat
monitor with an age of three values. `out` is what the last step wrote. `roster` is
a history: what each member was told of the others by JOIN and LEAVE notices.
`KickUser` is a lookup and a later close. `OnClose` removes the user but posts the
erasure of the context (`eraseTasks`), as the code does; `RunTasks` runs it in the next
management round. A member is never the object `None` and never a reused address by
mistake: that is what `SeatsAgree` and `MonitorAgrees` say, conjunctions of the
relations between two containers that are defined above them.

**Framing, TcpConnection.** A writer is `WriteCheck` (the early return), `WritePush`
(under the mutex), `WriteCAS` (`write_pending_`), `AsyncSend`, at any time in the life of
the connection; a closer is `CloseCAS`, `AsyncSend`. The loop is `OnIoAsync` (a close
and nothing else, or a connect and then, in the same callback, `WorkAsync`, the drain of
what was written before the connection is open: `uv_write` refuses it and the connection
is closed), `OnConnect`, `OnTimeout`, `OnWrite`, `PeerGone`, `OnClose`, `OnAsyncClosed`, `Free`. A frame is its
writer and a number; its bytes, `Framed(PayloadOf(f))`, go into `arriving` when
`uv_write` takes them, and the other end reads them in pieces of any size into `recv`
(`recv_buffer_`). `parsing` is its `onRead` between two frames; it gives each payload
to the observers (`delivered`) and refuses a length above `kMaxFrameSize`. `io` is the
async handle, whose close callback comes in its own time.

**TcpClient.** `life[c]` is what the client sees of a connection; `current` is
`connection_`, `pending` is `pending_connections_`. A management round takes the tasks
(`TakeTasks`) and runs them one by one. `timerActive` is `timer_active_`; `timer` is the
handle, whose `closed` is `timer_closed_`: `StartHeartbeat` has the three branches of
`startHeartbeat`, `StopHeartbeat` begins the close and `OnTimerClosed` is its callback.
`destroyedOpen` remembers that an object was destroyed before its close callback,
`astray` the connections that were announced while another was current.

**DataStream.** `tasks` is the FIFO of `api_thread_`: the bodies of the calls (the caller
waits in `calls`) and the `connected` and `disconnected` tasks that the client's loop
posts, which may therefore be late. `joined` and `pending` are `joined_` and
`pending_join_`. Of `TcpClient` it keeps `state`, `current`, the posted connect task
(`owed`), each connection's `link`, the queue of close requests (`asked`) and whether the
loop is past the look at `state_` in `on_connection_connected` (`announcing`); of the
server the connection that holds the user's place (`seat`) and those whose JOIN found it
taken (`refused`). `uplink` holds the JOINs and LEAVEs not yet read. `joinedOn` and
`wish` are histories: where the last JOIN was written, and whether the user is in as far
as the user can know. `LinkLost` and `Closed` may take frames with them, `ServerCloses`
is the server's side, whenever it likes.

**TaskQueue.** `threads` are the threads the queue was created with (one, mostly: a sync
call from the only worker runs inline), `lanes` are the four priorities, `delayed` the
delayed tasks, `waiter` the progress of a sync call: `TestSignal` finds `_signal` unset,
`Block` goes to sleep, and `Signal` wakes only who sleeps. `TakeTask` is one turn of
the inner loop: the scan moves what is due (`Moved`, by `Pick`) and turns the lane that
holds a task not yet due (`Left`, by `Rotate`), then the first task of the highest lane
starts. `selfRef` and `held` are the references
that keep the queue alive.

**Board.** An element is its id, a number for its content and whether it is a stroke.
A pass of the eraser is the strokes it hits, each with the ids of the fragments it leaves,
none, one or several: where a stroke is cut is geometry. `histories` are the undo and redo stacks per page,
`strokes` the unfinished ones under the keys `l:` and `r:`, `eraserRemoved` and
`eraserAdded` the increments of a drag. `Apply` is `DispatchCommand`.

**BoardRoom.** `Operate` is the common part of all local operations: change the board,
then hand the commands, one after the other and synchronously, to the api thread.
`AskForPages` is `onRequestData`: the api thread waits (`serving`) until the data thread
takes `GET_ALL_PAGES`. `HandleJoin`, `HandleBroadcast` and `HandleUnicast` are the room
server's handlers, reduced to members who stay; who leaves and comes back is `DataStream`.
Commands that draw a preview only are left out, since they change no board.
`Passes` are the passes of the eraser over a page. Ids are time stamps: `nextId` gives
different ones to different operations, whoever performs them, while the fragments of
one pass, which are stamped in a loop, get different ones only with `DistinctStamps`.
`synced`, `early`, `mirrored`, `torn` and `crossed` are histories that the properties are
conditioned on.

**AiAgent.** `history` is the conversation of messages `User`, `Assistant(calls)` and
`Tool(key, done)`; a tool call is its key (name and arguments). `reply` is
`AiClient::reply_`: none, waiting, or finished with its signal still in the event queue,
which is the moment at which `cancel` and the timer behave differently. `ran` is a
history of the tools run in this round.

## 3. What is checked

| Run | Asks | Instance |
|---|---|---|
| `room_order` | Do the server's containers agree with each other, with the join order and with what the members were told; does a member asked for a newcomer's data know of everybody? | 1 room, 3 users, 3 connections; symmetry; `out` left out of the state by a view |
| `room_live` | Do the rooms implement `Places` and the connections `TcpServer`; is a stop lost, and does it end the loop; is a member left behind after a close or silence? | 2 rooms, 1 user, 2 connections, fair |
| `queue` | Are the tasks of a lane serial and in order, none early, each run or cleared in the end; has a sync call's task run when it returns? | 2 workers, 2 tasks, 2 priorities, lanes limited at the first task |
| `queue_sync` | Does every sync call return? (no) | 1 worker, 2 tasks |
| `conn` | Is an accepted frame, before the connection is open or after, stranded, reordered, doubled or not rebuilt at the other end; does every close complete and leave nothing open? | 2 writers, 1 closer; payloads that are empty, at the limit of one byte, and above it |
| `client` | Is a connection up that neither is the current one of a connected client nor being closed; has a connected client its heartbeat timer running; is connect answered, the destructor's join released, a closed connection dropped? | 2 connections, 2 API threads, fair |
| `client_free` | Is a connection destroyed only after its close callback? (no) | 2 connections, 1 API thread |
| `board_turns` | After any operation by either of two members, are both boards, with their histories, the same, and is no element there twice? | 2 members, history of 1, three new ids, up to two fragments of a stroke; the members' names left out by a view |
| `board_sync` | A member joins while both add and remove: same contents, no element twice, answered? | 2 members, two new ids, fair |
| `board_stuck` | Can the two threads of a member wait for each other? (yes) | 2 members |
| `stream` | Over connections lost and made again: is who believes to be in a room on the connection in use; does anybody keep a place it has given up; does a JOIN get sent and answered? | 3 connections, 2 frames, fair |
| `agent` | Does every request begin with the user, its tool results stand behind their calls, and are the calls of its round answered; is a tool run twice or late; does every round end? | 3 tool calls, 2 per reply, 3 requests per round, 2 turns kept, fair |

The properties are stated with their reasons in the modules. The ones to look at first:
`RosterExact` (what members were told equals the room), `SeatsAgree`, `StopCompletes`,
`SerialInOrder`, `NoStrandedFrame`, `FramesRebuilt`, `NoOrphanSession`,
`JoinedOnCurrent`, `NoGhost`, `BoardsAgree`, `ContentsAgree`, `RoundPaired`.

What fails, with the line in PROJECT.json:

* `queue_sync`: `task_signal::signal` sets the flag and notifies without the mutex of
  the waiter, so the notification can fall between its test and its sleep.
* `client_free`: a close callback posts `pending_connections_.clear()`, which also
  releases a connection that a later `connect` put there and that is still open.
* `board_stuck`: a local operation waits in `Broadcast` for the api thread, which waits
  in `GetAllPages` for the data thread. Both threads, and the newcomer, wait for ever.

Beside the runs stand configurations, each with one property that a comment or document of
the code states and that TLC finds violated within a minute:

* `RoomServerNewcomer.cfg` (of `MCRoomServer`; `NewcomerAsked`, TcpRoomServer.cpp:218):
  the member that joined first is asked whatever the state of its connection; one that is
  being closed drops the frame, and no other member is asked.
* `TcpClientReconnect.cfg` (`ReconnectKept`, TcpClient.cpp:245): after `disconnect` and
  `connect` the old connection is still `connection_` until the connect task has run, and
  its close callback sets `Disconnected` over `Connecting`: the attempt is lost.
* `TcpClientStray.cfg` (`NothingAstray`, TcpClient.cpp:245): `on_connection_connected`
  does not ask which connection has come up. One that was replaced makes the client
  connected and stays open, out of reach of `disconnect` and of the heartbeat.
* `TcpClientTimer.cfg` (`TimerRestarted`, TcpClient.cpp:146): `timer_closed_` is false
  during the close of the handle too, so `startHeartbeat` starts a closing handle, which
  libuv refuses, and takes it for active. It takes a connection that comes up while the
  client is being destroyed.
* `BoardIds.cfg` (of `MCBoardRoom`; `NoDoubles` without `DistinctStamps`, page.cpp:289): a
  fragment's id is the time alone. Two made within one tick share it.
* `BoardTorn.cfg` (of `MCBoardRoom`; `ElementsOnce`, page.md:62): who gets the full data
  during a drag of the eraser has the fragments already, and the command at the end of the
  drag adds them again.
* `DataStreamWiped.cfg` (`OnConnectedJoins`, DataStream.cpp:88): the notice of a lost
  connection, late in the queue, clears the `pending_join_` of a `JoinRoom` made since,
  and `on_connected` has nothing to send.
* `AiAgentPairs.cfg` (`PairsComplete`, AiAgent.cpp:351): a repeated call ends the loop
  over the calls of a message that is in `history_` already; those behind it are never
  answered, and every later request carries them.

Behaviours that the models show, and that a property leaves out by a condition of its
own or does not forbid:

* A connection accepted after the round that asks all connections to close keeps the
  server from ending (`lateAccept` in `StopCompletes`).
* Operations that are not `Mirrored`: `CopyPage` inserts after the source page here and
  after the page shown there; batches, removals of several elements and updates without
  a snapshot leave different histories on the two sides, so a later undo differs.
* Members who operate between `Start` and the full data (`early`): the full data
  replaces what they did.
* A command of a third member that the server relays between a JOIN and the full data
  that answers it: the newcomer applies it first, and the full data was read without it
  (`crossed`). It takes three members, one more than `board_sync` has.
* `DataStream`: the late `disconnected` task of an old connection takes back a newer
  `JoinRoom` (`wish = "wiped"`, which `JoinSent` and `NoGhost` set aside and
  `DataStreamWiped.cfg` shows); a JOIN refused because the old connection still holds the user's
  place is answered by nobody (`refused`); a broadcast that is queued in between can go
  out on a new connection before its JOIN.
* `TcpClient`: a connection announced while another is current (`astray`) may stay up
  behind a disconnected client; `NoOrphanSession` sets it aside, `TcpClientStray.cfg` shows it.
* `AiAgent`: calls of an earlier round behind a refused repetition stay unanswered;
  `RoundPaired` speaks of the calls of the current round, `PairsComplete` of all. Replies
  without a call are not added to `history_`.

Bounds, and why they are enough. Two connections already give every order of close,
release and reuse of an address; the third in `room_order` gives an oldest, a middle and
a newest member, the third in `stream` a connection behind one that is still closing. Two
writers are needed for a frame to arrive between another's push and its CAS; the
three lengths are those on both sides of each test in `onRead`, and the pieces a read
takes are all there are. Two tasks give every overlap of two tasks of one lane;
`MaxQueue = 0` makes the limit bite at the first task. A history of one snapshot lets
both stacks overflow, since removing, clearing, undoing and selecting take no id; three
new ids are a stroke and the two fragments it is cut into, the least with an order and
with ids to share; `LightBoards` stops when pages and elements of a board are more than
three, which leaves three pages, or a page more with one element, or the page with two
fragments. In `board_turns` an operation waits until all commands are delivered, which
is when boards can be compared at all; strokes of the two members still overlap.
`board_sync` has no such rule. Three requests and two turns let a round reach its limit
and the history its trimming, in one round and across two. `CHECK_DEADLOCK FALSE` is used
throughout: a stopped server, a quit client, a board at its bound and an idle assistant
really stop.

Mutants. Each property of a passing run has one operator in its module, commented
"Mutant of", that differs from the code as a slip would (a guard dropped, a reset
forgotten, a flag kept) and breaks that property.

Fairness. Weak fairness of loop callbacks: libuv runs every handle that is due. Strong
fairness in `TcpClient` for callbacks that a task in progress disables for a moment
(weak fairness for those that end the client, when nothing new is begun),
and in `BoardRoom` for `DataTask`: the data thread's queue is FIFO, so what is posted is
not overtaken for ever by later input. API threads are fair inside a call (a call that
has begun goes on) and never obliged to make one; a writer between its push and its
signal is such a call. The other end of a connection reads what has arrived (`ReadStep`).
In `DataStream` posted tasks run, connect attempts end one way or the other, closes that
were asked for happen, the server reads its frames, and a link that the server no longer
serves is found dead (end of file or heartbeat). In `AiAgent` the timer fires and a
finished request's signal is delivered. Peers and users are never obliged to act, except
that time passes (`Age`, `Tick`).

## 4. What is proved

TLAPS proves the following for every value of the constants. The assumptions are the
named ones of the modules, which every run evaluates: finitely many connections,
threads, members and tasks (`ConnsFinite`, `ThreadsFinite`, `MembersFinite`,
`WorkersFinite`), `None` and the other marks are new values (`NoneIsNew`, `TasksAreNew`,
`OutsideIsNew`), bounds are numbers of the right kind (`BoundsAreNat`, `BoundsAreBounds`,
`PiecesAreCounted`, `LimitsArePositive`, `HistoryLimitIsPos`, `MaxFrameFits`, `MaxQueueIsNat`), inputs are of
their type and payloads have a length that four bytes hold (`PayloadType`,
`PayloadsFit`, `InUseIsPriority`, `FoundersAreMembers`).

* **TcpServer**: `TcpTypeCorrect`, `TcpStopIsSafe`, `TcpEndedQuiet`, about the actions of
  `TcpServer` by themselves. `StopNotLost /\ ClosedLast` with `TypeOK` is inductive: the
  first says who owes the loop its signal, the second that `Connections` is empty in the
  step that closes the listener; `TcpQuiet` adds what a loop that does not listen leaves.
* **RoomServer**: `TypeCorrect`; `SeatsCorrect` and `MonitorCorrect` from `Core`, the
  conjunction of all relations between two containers, none of which is inductive alone:
  that the seat of a closing connection is freed needs that seats are in rooms, which
  needs that a context exists for living connections only, which needs that the posted
  erasures name dead ones. `OrderCorrect` and `RosterCorrect` come from `Announced`,
  which ties what each member was told to who stands behind it in `join_order_`;
  `AppendLists` and `WithoutLists` are what joining and leaving do to such a list.
  `AskedMemberKnows` is an action property from the same invariants: only the member
  that joined first has been told of all the others.
* **Refinement**: `PlacesImplemented` (a `Join` is an `Enter` of `Places`, a removal an
  `Exit` or a stutter) and `TcpImplemented` (every step of the room server is a step of
  `TcpServer` or leaves it alone; `KickLive` is needed for a `KickUser` in progress).
  Through the second the theorems of `TcpServer` carry over: `StopSafeHere`, and
  `StopCleans` (`StopLeavesNothing`, which no run checks), which adds `Core`.
* **TcpConnection and Framing**: `FrameIsRead` and `RoundTrip` say that reading undoes
  framing. `TypeCorrect`; `NothingStranded` and `ClosesClean` from `FlagInv`, the
  relations between the three flags, the two signals and the writers' progress;
  a frame written before the connection is open is among those that are not stranded;
  `FramesInOrder` from `Ordered`; `PayloadsRebuilt` from `Rebuilt`, which says that what
  is on the wire, in the buffer or delivered is cut from what was written at frame
  boundaries. That cut is a witness kept by the invariant, since an induction over the
  bytes is out of reach.
* **TcpClient**: `TypeCorrect`, `SessionsAnswered`, `HeartbeatRuns`, from `Good`, which
  says of the timer that it runs exactly while it is active, except at the end of the
  client, and that only the end leaves it closing.
* **DataStream**: `TypeCorrect`; `JoinIsCurrent` from `JoinHolds` (the notice of an
  ended connection stays queued until it is run); `EndIsClean` from `EndsQuietly`;
  `NoGhosts` from `GhostInv` (a place that is held belongs to a link in use, and a
  connection not yet made holds none).
* **TaskQueue**: `TypeCorrect`, `OrderKept`, `ReturnsRan`, `DelaysKept`, from `Inv`:
  every lane lists the tasks of its status and priority, once each, and what has run of
  a lane is an initial part of what was pushed.
* **Boards**: `TypeCorrect`, `UndoStaysOnPage`, for any members, limits and operations
  and without the turn-taking of `board_turns`. `Sound` of each board is kept by each
  operation (`LocalKeeps`, `PageKeeps`, `CopyKeeps`, `UndoSound`, `DeleteSound`) and by
  each remote command (`ApplyKeeps`). Page ids are below `nextId`, which makes a new
  page differ from all others. The commands on their way are part of the invariant
  (`Fine`), since `RemoteCreatePage` takes over the id it is sent and a full sync the pages,
  and so is that the api thread holds one command of a waiting data thread at most
  (`SendsOnce`).
* **No element twice**: `NoElementTwice`, for any members, all operations at once, any
  number of fragments and any order of arrival, assuming `DistinctStamps` (`BoardIds.cfg` is
  what happens without it). A page looks at its own elements only, so the invariant must follow
  an id on its way. `Tidy` says, for every queue between the boards (`outbox`, `up`,
  `down`, `apiQueue`, `dataQueue`): an id is announced as new once, before any other
  command of the queue speaks of it (`Neatly`); what is new on the way to a board is on
  none of its pages, snapshots, strokes or eraser fragments (`Known`), and what a member
  has still to announce is known to nobody else (`Apart`); and every board is `Clean`. A
  map K of the ids handed out to whether they are strokes is guessed with it, so that a
  stroke that is drawn, cut or sent is one everywhere. Each operation and each remote
  command is one lemma about what it adds to `Known` (`Becomes`), each thread's step one
  about what it moves from queue to queue (`OperateTidy`, `InMoves`, `RelayTidy`).
* **Newcomers agree**: `NewcomersAgree`, which rests on the theorem above and its
  assumption, where users add and remove elements, for any
  number of members who join at any time. `ContentsAgree` speaks of the moment when
  nothing is on its way, so its invariant (`Agree`) must say at every moment what each
  board will be. It guesses three things: A, the ids whose addition the server has read,
  D, the ids whose removal it has read, and the stage of each member (`out`, `join`,
  `ask`, `answer`, `sync`, `in`). For a member that is in, the page shown is A without D
  but for what its own queues still bring and what it has still to tell (`Right`). The
  full data on its way to a member that is in `sync` is A without D but for what comes
  behind it (`Receives`); the one a founder has sent fits the commands it sent before it
  (`Sends`), since a later removal overtakes nothing. While the answer is on its way up, and
  behind a request on its way down, no command comes to the member who is asked (`Serves`,
  `Before`): this is where the two
  conditions of `ContentsAgree` are needed, `early`, which would change a board that is
  about to be replaced, and `crossed`, which would bring a newcomer a command that the
  full data does not contain. `Seat` and `Wired` tie the stages to what `WhiteboardSession`
  and the room keep. A command of one member changes A or D for everybody at once, so the
  step of the server is proved once for the sender, once for each other member, and for
  the room (`RelayedFrom`, `RelayedTo`, `RelayAgree`); when all queues are empty, every board is A
  without D.
* **Users that take turns agree**: `TurnsAgree`, for any number of members and sessions,
  any history limit and all operations, under `DistinctStamps` and two conditions: everybody was there at the
  start (`Members = Range(Founders)`; a newcomer gets the pages and not the histories, so
  `BoardsAgree` is false of it), and `TurnTaking` (without it commands of concurrent users
  work on the page the receiver shows, and the boards part). `board_turns` is an instance.
  `BoardsAgree` speaks of the moments when everything is delivered; its invariant
  (`Concord`) says that it is always one member's turn. The others show what that member
  shows (`Alike`: the same pages with the same elements, the same open page, the same
  unfinished strokes, the same histories), or will once they have applied the one command
  under way to them (`Saying`, `Sending`, `Heard` follow it from the outbox over the server
  to each `dataQueue`), or, during a drag of the eraser of which nobody has heard yet, would if
  the drag ended now (`Drags`). Order on a page is left aside in `Alike`, since an update
  moves an element to the end on the remote boards only; that an element is on a page once
  (`Tidy`, from the theorem above) is what makes removing, changing and erasing
  independent of that order. Each operation then is one lemma, that it makes of a board what
  its command makes of a board alike (`BeginAlike`, `EndAlike`, `RegionAlike`, `ClearAlike`,
  `AddAlike`, `RemoveAlike`, `UpdateAlike`, `UndoAlike`, `CreateAlike`, `DeleteAlike`;
  `BeginDrags`, `MoveDrags`, `EndDrags` for the eraser). The strokes being drawn go by the key
  of the session on the user's own board and by that of their id elsewhere (`Keyed`,
  `Lone`), without which the end of a stroke could find another one.
* **AiAgent**: `TypeCorrect`, `CalledAtMostOnce`, `ResultsStandWithCalls`. That trimming
  leaves a conversation beginning with the user takes the least index among those kept,
  which replaces an induction.

Only model-checked: all liveness, since fairness and ENABLED are out of this prover's
reach. What a fold over elements computes
for every input would need an induction over data, which is out of reach too. No module
declares a recursive operator; folds and recursive functions of the community modules
take their place.

## 5. What is not modelled

`WhiteboardSession::Stop`; tables (elements inside elements); in `BoardRoom` members who
leave, and agreement while pages are switched concurrently or a member joins during a
drag of the eraser: the boards part there, so no agreement can be stated; clocks of different members, or of
two operations, that give the same id. Of the observer lists (`Collections`) no modelled
part changes one from a callback. The graph of pins and nodes is planned; `CountDownLatch`,
`Event`, `SpinLock` and `Sigslot` are used by no modelled part. Codecs, geometry,
widgets, capture, encoding and rendering are data, devices or user interface; most of
the repository's lines are such parts and vendored libraries, which are not modelled.
PROJECT.json lists each part with its files and the reason. Failures of bind, listen and
memory end a model's run. What libuv does with a signal to a closed handle is not
modelled; that the step can happen is. The close callbacks follow libuv's
Windows loop, which runs that of a handle closed in a close callback before anything
else; its Unix loop runs it at the end of the next turn, which a connection that `connect`
begins meanwhile needs longer than to come up.

Seven hazards of PROJECT.json have no property, each with its reason there.

## 6. Plan

1. Done: the transport (`TcpServer`, `RoomServer`, `Places`, `Framing`, `TcpConnection`,
   `TcpClient`, `DataStream`), `TaskQueue`, the boards, the assistant, with theorems for
   each of them.
2. `BoardRoom` with members who leave and come back, composed with `DataStream`;
   `WhiteboardSession::Stop`; tables.
3. `Graph` (pins and nodes).
4. `TaskQueue` with sync calls from the tasks of a pool of workers.
5. Proofs: agreement of boards whose members come and go, once point 2 is modelled; until
   then every safety property that a run checks is a theorem.
