------------------------------ MODULE RoomServer ------------------------------
(***************************************************************************)
(* TcpRoomServer with its Room objects, RoomManager and heartbeat monitor, *)
(* on top of TcpServer.                                                    *)
(*                                                                         *)
(* The protocol handlers, the heartbeat scan and the management round run  *)
(* on the loop thread, one callback at a time.  KickUser, Unicast and      *)
(* Broadcast come from any thread: they read the rooms under their locks   *)
(* and then call the connection's thread-safe write or close.  KickUser    *)
(* looks the connection up in one step and closes it in a later one.       *)
(*                                                                         *)
(* What a handler writes to the connections is the variable out, replaced  *)
(* by every step; a write to a connection that was asked to close is       *)
(* dropped, as TcpConnection::write does.                                  *)
(***************************************************************************)
EXTENDS Naturals, Sequences, FiniteSets

CONSTANTS
    Conns,      \* addresses a TcpConnection can be allocated at
    Rooms,      \* room ids
    Users,      \* user ids
    None        \* no connection, no seat

ASSUME ConnsFinite == IsFiniteSet(Conns)
ASSUME NoneIsNew == None \notin Conns /\ None \notin Rooms \X Users

VARIABLES
    phase, closeReq, loop, mgmtSignal,                       \* TcpServer
    stopRequested, stopClosingConns, serverClosed, taskPending, lateAccept,
    ctxs,       \* connections with a ConnCtx
    seat,       \* <<roomId, userId>> of a joined ConnCtx, None if not joined
    eraseTasks, \* connections whose ctxs_.erase is posted
    rooms,      \* ids in RoomManager::rooms_
    users,      \* Room::users_, None for an absent user
    joinOrder,  \* Room::join_order_
    monitor,    \* ServerHeartbeatMonitor::active_, with the age of the entry
    hbActive,   \* hb_active_: the scan timer runs
    timerTasks, \* posted starts and stops of the scan timer
    caller,     \* progress of the thread that calls Start and then Stop
    kick,       \* snapshot of the connection a KickUser call is about to close
    roster,     \* history: the members the server has announced to each member
    out         \* messages written by the last step

tcpVars == <<phase, closeReq, loop, mgmtSignal, stopRequested, stopClosingConns,
             serverClosed, taskPending, lateAccept>>
roomVars == <<rooms, users, joinOrder, seat>>
hostVars == <<ctxs, eraseTasks, hbActive, timerTasks, caller>>
vars == <<tcpVars, roomVars, hostVars, monitor, kick, roster, out>>

Tcp == INSTANCE TcpServer

Ages == {"absent", "fresh", "stale"}
Seats == Rooms \X Users
Kinds == {"JOIN", "LEAVE", "REQUEST_DATA", "UNICAST", "BROADCAST", "PONG"}

TypeOK ==
    /\ Tcp!TypeOK
    /\ ctxs \in SUBSET Conns
    /\ seat \in [Conns -> Seats \cup {None}]
    /\ eraseTasks \in SUBSET Conns
    /\ rooms \in SUBSET Rooms
    /\ users \in [Rooms -> [Users -> Conns \cup {None}]]
    /\ joinOrder \in [Rooms -> Seq(Users)]
    /\ monitor \in [Conns -> Ages]
    /\ hbActive \in BOOLEAN
    /\ timerTasks \in Seq({"start", "stop"})
    /\ caller \in {"off", "starting", "started", "stopping", "stopped"}
    /\ kick \in Conns \cup {None}
    /\ roster \in [Conns -> SUBSET Users]
    /\ out \in SUBSET [to : Conns, kind : Kinds, about : Users \cup {None}]

Init ==
    /\ Tcp!Init
    /\ ctxs = {}
    /\ seat = [c \in Conns |-> None]
    /\ eraseTasks = {}
    /\ rooms = {}
    /\ users = [r \in Rooms |-> [u \in Users |-> None]]
    /\ joinOrder = [r \in Rooms |-> <<>>]
    /\ monitor = [c \in Conns |-> "absent"]
    /\ hbActive = FALSE
    /\ timerTasks = <<>>
    /\ caller = "off"
    /\ kick = None
    /\ roster = [c \in Conns |-> {}]
    /\ out = {}
-----------------------------------------------------------------------------
(* Room and the writes.                                                    *)

Joined(c) == c \in ctxs /\ seat[c] # None
RoomOf(c) == seat[c][1]
UserOf(c) == seat[c][2]

Members(r) == {u \in Users : users[r][u] # None}

\* Mutant of Oldest: the member that came last.
Newest(r) == joinOrder[r][Len(joinOrder[r])]

\* Room::GetOldestUserId.
Oldest(r) == Head(joinOrder[r])

\* TcpConnection::write drops the frame once a close was requested.
Writable(c) == ~closeReq[c]

Message(c, kind, u) == [to |-> c, kind |-> kind, about |-> u]

\* Mutant of BroadcastTo: only the oldest member is reached.
BroadcastToFirst(r, us, kind, u) ==
    {Message(users[r][v], kind, u) : v \in {w \in us : w = Oldest(r) /\ Writable(users[r][w])}}

\* Room::Broadcast to the members us of r.
BroadcastTo(r, us, kind, u) ==
    {Message(users[r][v], kind, u) : v \in {w \in us : Writable(users[r][w])}}

\* Mutant of UnicastTo: target and payload are swapped.
UnicastToSwapped(r, v, kind, u) == BroadcastTo(r, Members(r) \cap {u}, kind, v)

\* Room::Unicast: nothing if the target is not a member.
UnicastTo(r, v, kind, u) == BroadcastTo(r, Members(r) \cap {v}, kind, u)

\* Mutants of AcceptsUser (the user takes the place over) and of Without (the
\* last user goes instead).
AcceptsEverybody(r, u) == TRUE
WithoutLast(s, u) == SubSeq(s, 1, Len(s) - 1)

\* Room::AddUser refuses a user id that is in use.
AcceptsUser(r, u) == u \notin Members(r)

\* Room::RemoveUser on join_order_.  std::remove would erase every occurrence of
\* u; there is exactly one (JoinOrderLists).
Without(s, u) ==
    LET i == CHOOSE j \in DOMAIN s : s[j] = u
    IN [k \in 1 .. Len(s) - 1 |-> s[IF k < i THEN k ELSE k + 1]]

\* RoomManager::RemoveIfEmpty once u has left r.
RoomsWithout(r, u) == IF Members(r) \subseteq {u} THEN rooms \ {r} ELSE rooms

\* ServerHeartbeatMonitor; the mutant forgets to erase a key.
Touch(c) == monitor' = [monitor EXCEPT ![c] = "fresh"]
EraseNothing(c) == UNCHANGED monitor
Erase(c) == monitor' = [monitor EXCEPT ![c] = "absent"]

\* TcpRoomServer observers are only told; no action of theirs is modelled.
Silent == out' = {} /\ UNCHANGED roster

\* A frame reached TcpConnection::onRead of c and goes to on_data_received,
\* which touches the monitor before anything else.  A frame is still dispatched
\* after a close request, until doClose stops the reading.
Receive(c) ==
    /\ loop = "listening" /\ phase[c] = "open"
    /\ Touch(c)
    /\ UNCHANGED <<tcpVars, hostVars, kick>>
-----------------------------------------------------------------------------
(* Protocol handlers (loop thread).                                        *)

\* HandleJoin when the user id is in use: AddUser refuses and only the
\* observers of the server hear of it.  GetOrCreate found the room.
JoinRefused(c, r, u) ==
    /\ Receive(c)
    /\ c \in ctxs /\ ~Joined(c) /\ ~AcceptsUser(r, u)
    /\ Silent
    /\ UNCHANGED roomVars

\* HandleJoin of a new user: the others are told, and the oldest of them is
\* asked to send the newcomer everything.
Join(c, r, u) ==
    /\ Receive(c)
    /\ c \in ctxs /\ ~Joined(c) /\ AcceptsUser(r, u)
    /\ rooms' = rooms \cup {r}
    /\ users' = [users EXCEPT ![r][u] = c]
    /\ joinOrder' = [joinOrder EXCEPT ![r] = Append(@, u)]
    /\ seat' = [seat EXCEPT ![c] = <<r, u>>]
    /\ out' = BroadcastTo(r, Members(r), "JOIN", u)
              \cup (IF Members(r) = {} THEN {}
                    ELSE UnicastTo(r, Oldest(r), "REQUEST_DATA", u))
    /\ roster' = [d \in Conns |->
                    IF d = c THEN {}
                    ELSE IF Message(d, "JOIN", u) \in out' THEN roster[d] \cup {u}
                    ELSE roster[d]]

\* HandleJoin of a connection that has joined, a frame that cannot be parsed,
\* lacks parameters or has an unknown type, a PONG, UNICAST or BROADCAST from
\* outside a room: the connection is touched and nothing else changes.
IgnoredFrame(c) ==
    /\ Receive(c)
    /\ Silent
    /\ UNCHANGED roomVars

Ping(c) ==
    /\ Receive(c)
    /\ out' = {Message(d, "PONG", None) : d \in {e \in {c} : Writable(e)}}
    /\ UNCHANGED <<roomVars, roster>>

\* RemoveUserFromRoom of a joined connection: the user leaves the room, the
\* others are told, an empty room is dropped; the ConnCtx is no longer joined.
RemoveJoined(c) ==
    LET r == RoomOf(c)
        u == UserOf(c)
    IN /\ users' = [users EXCEPT ![r][u] = None]
       /\ joinOrder' = [joinOrder EXCEPT ![r] = Without(@, u)]
       /\ rooms' = RoomsWithout(r, u)
       /\ seat' = [seat EXCEPT ![c] = None]
       /\ out' = BroadcastTo(r, Members(r) \ {u}, "LEAVE", u)
       /\ roster' = [d \in Conns |->
                       IF d = c THEN {}
                       ELSE IF Message(d, "LEAVE", u) \in out' THEN roster[d] \ {u}
                       ELSE roster[d]]

\* Mutant of RemoveUserFromRoom: the place of a connection that is being closed
\* is not given back.
RemoveUnlessClosing(c) ==
    \/ Joined(c) /\ Writable(c) /\ RemoveJoined(c)
    \/ (Joined(c) => ~Writable(c)) /\ Silent /\ UNCHANGED roomVars

RemoveUserFromRoom(c) ==
    \/ Joined(c) /\ RemoveJoined(c)
    \/ ~Joined(c) /\ Silent /\ UNCHANGED roomVars

Leave(c) == Receive(c) /\ RemoveUserFromRoom(c)

\* HandleUnicast and HandleBroadcast.  They take the sender from the message; a
\* DataStream client puts its own user id there.
Relay(c, kind, to) ==
    /\ Receive(c)
    /\ Joined(c)
    /\ out' = BroadcastTo(RoomOf(c), Members(RoomOf(c)) \cap to, kind, UserOf(c))
    /\ UNCHANGED <<roomVars, roster>>

RelayBroadcast(c) == Relay(c, "BROADCAST", Users \ {UserOf(c)})
RelayUnicast(c, v) == Relay(c, "UNICAST", {v})
-----------------------------------------------------------------------------
(* Connections and the heartbeat (loop thread).                            *)

\* TcpServer::onNewConnection -> on_new_connection: emplace keeps a ConnCtx
\* that is already at the address.
Accept(c) ==
    /\ Tcp!Accept(c)
    /\ ctxs' = ctxs \cup {c}
    /\ seat' = IF c \in ctxs THEN seat ELSE [seat EXCEPT ![c] = None]
    /\ Silent
    /\ UNCHANGED <<rooms, users, joinOrder, eraseTasks, hbActive, timerTasks, caller,
                   monitor, kick>>

PeerGone(c) ==
    /\ Tcp!PeerGone(c)
    /\ Silent
    /\ UNCHANGED <<roomVars, hostVars, monitor, kick>>

DoClose(c) ==
    /\ Tcp!DoClose(c)
    /\ Silent
    /\ UNCHANGED <<roomVars, hostVars, monitor, kick>>

\* onClose tells TcpServer and then TcpRoomServer, which removes the user,
\* forgets the heartbeat and posts the erasure of the ConnCtx.
OnClose(c) ==
    /\ Tcp!OnClose(c)
    /\ taskPending'
    /\ RemoveUserFromRoom(c)
    /\ Erase(c)
    /\ eraseTasks' = eraseTasks \cup {c}
    /\ UNCHANGED <<ctxs, hbActive, timerTasks, caller, kick>>

\* onMgmtAsync: the posted tasks in their order, then TcpServer's own part.
RunTasks ==
    /\ ctxs' = ctxs \ eraseTasks
    /\ seat' = [c \in Conns |-> IF c \in eraseTasks THEN None ELSE seat[c]]
    /\ eraseTasks' = {}
    /\ hbActive' = IF timerTasks = <<>> THEN hbActive
                   ELSE timerTasks[Len(timerTasks)] = "start"
    /\ timerTasks' = <<>>

MgmtRound ==
    /\ Tcp!MgmtRound({kick} \cap Conns)
    /\ RunTasks
    /\ Silent
    /\ UNCHANGED <<rooms, users, joinOrder, caller, monitor, kick>>

\* The clock passes timeoutMs since the connection was last heard of.
Age(c) ==
    /\ monitor[c] = "fresh"
    /\ monitor' = [monitor EXCEPT ![c] = "stale"]
    /\ Silent
    /\ UNCHANGED <<tcpVars, roomVars, hostVars, kick>>

\* Mutant of Stale: members are spared.
StaleStrangers == {c \in Conns : monitor[c] = "stale" /\ ~Joined(c)}

\* onHeartbeatTimer.
Stale == {c \in Conns : monitor[c] = "stale"}

HeartbeatScan ==
    /\ loop = "listening" /\ hbActive /\ Stale # {}
    /\ monitor' = [c \in Conns |-> IF c \in Stale THEN "absent" ELSE monitor[c]]
    /\ Tcp!CloseConnections(Stale)
    /\ Silent
    /\ UNCHANGED <<roomVars, hostVars, kick>>

LoopBoundary ==
    /\ Tcp!LoopInit \/ Tcp!BindAndListen \/ Tcp!LoopEnd
    /\ Silent
    /\ UNCHANGED <<roomVars, hostVars, monitor, kick>>
-----------------------------------------------------------------------------
(* Any thread.                                                             *)

\* KickUser: room and connection are looked up under their locks ...
KickLookup(r, u) ==
    /\ kick = None /\ u \in Members(r)
    /\ kick' = users[r][u]
    /\ Silent
    /\ UNCHANGED <<tcpVars, roomVars, hostVars, monitor>>

\* Mutant of KickClose: the object is gone with the reference of KickUser, though
\* the server still knows it.
KickCloseFrees ==
    /\ kick # None
    /\ kick' = None
    /\ phase' = [phase EXCEPT ![kick] = "none"]
    /\ Silent
    /\ UNCHANGED <<closeReq, loop, mgmtSignal, stopRequested, stopClosingConns,
                   serverClosed, taskPending, lateAccept, roomVars, hostVars, monitor>>

\* ... and closed later; then the snapshot is dropped, and with it the object
\* if nobody else refers to it any more.
KickClose ==
    /\ kick # None
    /\ kick' = None
    /\ IF phase[kick] = "pinned"
       THEN Tcp!Unpin(kick)
       ELSE Tcp!CloseConnections({kick})
    /\ Silent
    /\ UNCHANGED <<roomVars, hostVars, monitor>>

\* TcpRoomServer::Unicast (one receiver) and Broadcast (the whole room).
ApiSend(r, kind, to) ==
    /\ r \in rooms
    /\ out' = BroadcastTo(r, Members(r) \cap to, kind, None)
    /\ UNCHANGED <<tcpVars, roomVars, hostVars, monitor, kick, roster>>

\* Start runs the loop thread and then posts the start of the timer; Stop posts
\* its end and then stops the server.
ApiStep(from, to) ==
    /\ caller \in from
    /\ caller' = to
    /\ Silent
    /\ UNCHANGED <<roomVars, ctxs, eraseTasks, hbActive, monitor, kick>>

StartRun == ApiStep({"off"}, "starting") /\ Tcp!AsyncRun /\ UNCHANGED timerTasks
StartPost ==
    ApiStep({"starting"}, "started") /\ Tcp!Post /\ timerTasks' = Append(timerTasks, "start")
StopPost ==
    ApiStep({"started"}, "stopping") /\ Tcp!Post /\ timerTasks' = Append(timerTasks, "stop")
StopServer == ApiStep({"stopping"}, "stopped") /\ Tcp!Stop /\ UNCHANGED timerTasks
-----------------------------------------------------------------------------
Handler(c) ==
    \/ \E r \in Rooms, u \in Users : Join(c, r, u) \/ JoinRefused(c, r, u)
    \/ Leave(c) \/ Ping(c) \/ IgnoredFrame(c)
    \/ RelayBroadcast(c) \/ \E v \in Users : RelayUnicast(c, v)

LoopStep ==
    \/ \E c \in Conns : Accept(c) \/ PeerGone(c) \/ DoClose(c) \/ OnClose(c) \/ Handler(c)
    \/ MgmtRound \/ HeartbeatScan \/ LoopBoundary

ApiCall ==
    \/ \E r \in Rooms, u \in Users : KickLookup(r, u) \/ ApiSend(r, "UNICAST", {u})
    \/ \E r \in Rooms : ApiSend(r, "BROADCAST", Users)
    \/ KickClose \/ StartRun \/ StartPost \/ StopPost \/ StopServer

Next == LoopStep \/ ApiCall \/ \E c \in Conns : Age(c)

Spec == Init /\ [][Next]_vars

\* The loop thread runs what is due, the timer fires, a call that has begun
\* returns, and time passes.
Fairness ==
    /\ WF_vars(LoopBoundary) /\ WF_vars(MgmtRound) /\ WF_vars(HeartbeatScan)
    /\ WF_vars(KickClose) /\ WF_vars(StartPost) /\ WF_vars(StopServer)
    /\ \A c \in Conns : WF_vars(DoClose(c)) /\ WF_vars(OnClose(c)) /\ WF_vars(Age(c))

FairSpec == Spec /\ Fairness
-----------------------------------------------------------------------------
(* Safety.                                                                 *)

\* A ConnCtx lives exactly as long as TcpServer knows its connection, and its
\* erasure is posted exactly while the connection waits in pending_removes_: the
\* next object at the address never finds the ConnCtx of the last one.
ContextLife ==
    \A c \in Conns :
        /\ c \in ctxs <=> (c \in Tcp!Connections \/ phase[c] = "closed")
        /\ c \in eraseTasks <=> phase[c] = "closed"
        /\ seat[c] # None => phase[c] \in {"open", "closing"}

\* Contexts, seats and rooms agree: every joined connection holds its user's
\* place in its room ...
SeatsInRooms == \A c \in Conns : Joined(c) => users[RoomOf(c)][UserOf(c)] = c

\* ... every member of a room is there through a connection that is joined as
\* that member, so that a closed or reused connection leaves no ghost ...
MembersSeated ==
    \A r \in Rooms : \A u \in Members(r) :
        users[r][u] \in ctxs /\ seat[users[r][u]] = <<r, u>>

\* Room: join_order_ lists each member once and nobody else, so that
\* GetOldestUserId never names a user who is gone.
JoinOrderLists ==
    \A r \in Rooms :
        /\ \A u \in Users : u \in Members(r) <=> \E i \in DOMAIN joinOrder[r] : joinOrder[r][i] = u
        /\ \A i, j \in DOMAIN joinOrder[r] : joinOrder[r][i] = joinOrder[r][j] => i = j

\* RoomManager keeps exactly the rooms that have members (RemoveIfEmpty).
RoomsInUse == rooms = {r \in Rooms : Members(r) # {}}

\* All of these hold together, in every state between two handlers.
SeatsAgree == ContextLife /\ SeatsInRooms /\ MembersSeated /\ RoomsInUse

\* The keys of the monitor are raw pointers: each belongs to a connection that
\* still exists, so the scan never closes a dead or foreign object.
MonitorKeysLive == \A c \in Conns : monitor[c] # "absent" => c \in Tcp!Connections

\* A member the scan can no longer see is already on its way out: otherwise a
\* dead peer would keep its user id for ever.
MembersWatched == \A c \in Conns : Joined(c) => (monitor[c] # "absent" \/ closeReq[c])

\* The monitor names living connections only, and every member that is to stay.
MonitorAgrees == MonitorKeysLive /\ MembersWatched

\* What a member was told of joins and leaves, read in order, names exactly
\* the members that joined after it.
Later(r, u) ==
    {joinOrder[r][j] : j \in {k \in DOMAIN joinOrder[r] :
                                \E i \in DOMAIN joinOrder[r] : joinOrder[r][i] = u /\ i < k}}
RosterExact ==
    \A c \in Conns : Joined(c) /\ Writable(c) => roster[c] = Later(RoomOf(c), UserOf(c))

\* A stop request is heard as long as the loop runs, and the listener closes
\* only after the last connection object is gone.
StopSafe == Tcp!StopNotLost /\ Tcp!ClosedLast

\* Every step of the room server is one that TcpServer allows, or none: no call
\* reaches a connection object that no longer exists.
TcpKept == Tcp!Spec

\* Once the loop has ended Stop finds nothing to clear: every user has left its
\* room, every ConnCtx is erased, no pointer is left in the monitor. It is not
\* an invariant of a run, but the theorem StopCleans of RoomServerProofs.
StopLeavesNothing ==
    (loop = "ended") => (rooms = {} /\ ctxs = {} /\ \A c \in Conns : monitor[c] = "absent")

\* The rooms hand out places as Places promises: a place to one connection, one
\* place to a connection, and only back to free when its holder goes.
places == [s \in Seats |-> users[s[1]][s[2]]]
Membership == INSTANCE Places WITH holder <- places
PlacesKept == Membership!Spec

\* A member the server asks for the full data has been told of every other
\* member and of nobody else, the newcomer it is to send the data to included
\* (HandleJoin picks the member that joined first, and broadcasts before it asks).
AskedKnowsRoom ==
    [][\A m \in out' : m.kind = "REQUEST_DATA" =>
            /\ Joined(m.to)'
            /\ m.about \in roster'[m.to]
            /\ roster'[m.to] = (Members(RoomOf(m.to)) \ {UserOf(m.to)})']_vars

\* Whoever enters a room that is not empty is sent the full data by a member of
\* it: the server asks one (HandleJoin: "not the first").
Enters(c) == ~Joined(c) /\ Joined(c)'
NewcomerAsked ==
    [][\A c \in Conns : (Enters(c) /\ Members(RoomOf(c)') # {}) =>
            \E m \in out' : m.kind = "REQUEST_DATA" /\ m.about = UserOf(c)']_vars
-----------------------------------------------------------------------------
(* Liveness.                                                               *)

\* A member whose connection was asked to close leaves its room.
ClosedMemberLeaves == \A c \in Conns : (Joined(c) /\ closeReq[c]) ~> ~Joined(c)

\* Stop ends the loop, unless a connection came in too late to be closed.
StopCompletes == Tcp!StopCompletesUnlessLate

\* With the timer running, a member that stays silent loses its place.
SilentMemberLeaves ==
    \A c \in Conns : (Joined(c) /\ monitor[c] = "stale")
                        ~> (~Joined(c) \/ monitor[c] = "fresh" \/ ~hbActive)
=============================================================================
