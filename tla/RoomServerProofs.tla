--------------------------- MODULE RoomServerProofs ---------------------------
(***************************************************************************)
(* Proofs about RoomServer for any finite set of connection addresses and  *)
(* any sets of rooms and users, and about TcpServer, which it builds on.   *)
(***************************************************************************)
EXTENDS RoomServer, SequenceTheorems, TLAPS

\* Removing a user keeps join_order_ a sequence of users.
LEMMA WithoutType ==
    ASSUME NEW s \in Seq(Users), NEW u
    PROVE  Without(s, u) \in Seq(Users)
<1> DEFINE i == CHOOSE j \in DOMAIN s : s[j] = u
<1>1. Without(s, u) = [k \in 1 .. Len(s) - 1 |-> s[IF k < i THEN k ELSE k + 1]]
  BY DEF Without
<1>2. \A k \in 1 .. Len(s) - 1 : s[k] \in Users /\ s[k + 1] \in Users
  BY LenProperties, ElementOfSeq
<1>3. \A k \in 1 .. Len(s) - 1 : s[IF k < i THEN k ELSE k + 1] \in Users
  BY <1>2
<1>4. CASE Len(s) = 0
  <2>1. 1 .. Len(s) - 1 = {}
    BY <1>4
  <2> QED BY <1>1, <2>1, EmptySeq
<1>5. CASE Len(s) # 0
  <2>1. Len(s) - 1 \in Nat
    BY <1>5, LenProperties
  <2> HIDE DEF i
  <2> QED BY <1>1, <1>3, <2>1
<1> QED BY <1>4, <1>5

\* What a broadcast writes is a set of messages to members.
LEMMA BroadcastType ==
    ASSUME TypeOK, NEW r \in Rooms, NEW us \in SUBSET Members(r), NEW kind \in Kinds,
           NEW u \in Users \cup {None}
    PROVE  BroadcastTo(r, us, kind, u) \in SUBSET [to : Conns, kind : Kinds, about : Users \cup {None}]
<1>1. \A v \in us : users[r][v] \in Conns
  BY DEF TypeOK, Members
<1> QED BY <1>1 DEF BroadcastTo, Message
-----------------------------------------------------------------------------
(* Type correctness.                                                       *)

\* The part of TypeOK that is not TcpServer's, in three groups.
HostType ==
    /\ ctxs \in SUBSET Conns
    /\ eraseTasks \in SUBSET Conns
    /\ hbActive \in BOOLEAN
    /\ timerTasks \in Seq({"start", "stop"})
    /\ caller \in {"off", "starting", "started", "stopping", "stopped"}
    /\ monitor \in [Conns -> Ages]
    /\ kick \in Conns \cup {None}
RoomType ==
    /\ seat \in [Conns -> Seats \cup {None}]
    /\ rooms \in SUBSET Rooms
    /\ users \in [Rooms -> [Users -> Conns \cup {None}]]
    /\ joinOrder \in [Rooms -> Seq(Users)]
OutType ==
    /\ roster \in [Conns -> SUBSET Users]
    /\ out \in SUBSET [to : Conns, kind : Kinds, about : Users \cup {None}]

\* The types of TcpServer's state and of the rest.
LEMMA TypeParts == TypeOK <=> Tcp!TypeOK /\ HostType /\ RoomType /\ OutType
  BY DEF TypeOK, HostType, RoomType, OutType

\* A seat is a room and a user of that room.
LEMMA SeatParts ==
    ASSUME RoomType, NEW c \in Conns, Joined(c)
    PROVE  RoomOf(c) \in Rooms /\ UserOf(c) \in Users /\ seat[c] = <<RoomOf(c), UserOf(c)>>
  BY DEF RoomType, Joined, RoomOf, UserOf, Seats

\* The actions of TcpServer that the room server's steps contain.
TcpStep ==
    \/ Tcp!AsyncRun \/ Tcp!Stop \/ Tcp!Post \/ Tcp!LoopInit \/ Tcp!BindAndListen \/ Tcp!LoopEnd
    \/ \E P \in SUBSET Conns : Tcp!MgmtRound(P)
    \/ \E c \in Conns : Tcp!Accept(c) \/ Tcp!PeerGone(c) \/ Tcp!DoClose(c) \/ Tcp!OnClose(c)
                        \/ Tcp!Unpin(c)
    \/ \E S \in SUBSET Conns : Tcp!CloseConnections(S)

\* These actions keep the types of TcpServer.
LEMMA TcpTypeStep ==
    ASSUME Tcp!TypeOK, TcpStep \/ UNCHANGED tcpVars
    PROVE  Tcp!TypeOK'
<1> USE DEF Tcp!TypeOK, Tcp!Phases, Tcp!LoopStates
<1>1. CASE Tcp!AsyncRun \/ Tcp!Stop \/ Tcp!Post \/ Tcp!LoopInit \/ Tcp!BindAndListen \/ Tcp!LoopEnd
  BY <1>1 DEF Tcp!AsyncRun, Tcp!Stop, Tcp!Post, Tcp!LoopInit, Tcp!BindAndListen, Tcp!LoopEnd,
              Tcp!loopReady, Tcp!stopVars
<1>2. CASE \E P \in SUBSET Conns : Tcp!MgmtRound(P)
  BY <1>2 DEF Tcp!MgmtRound, Tcp!ReleaseClosed, Tcp!StopStage, Tcp!CloseRequests, Tcp!Connections
<1>3. CASE \E c \in Conns : Tcp!Accept(c) \/ Tcp!PeerGone(c) \/ Tcp!DoClose(c) \/ Tcp!OnClose(c)
                            \/ Tcp!Unpin(c)
  <2>1. ASSUME NEW c \in Conns, Tcp!Accept(c) PROVE Tcp!TypeOK'
    BY <2>1 DEF Tcp!Accept, Tcp!stopVars
  <2>2. ASSUME NEW c \in Conns, Tcp!PeerGone(c) PROVE Tcp!TypeOK'
    BY <2>2 DEF Tcp!PeerGone, Tcp!CloseConnections, Tcp!CloseRequests, Tcp!stopVars
  <2>3. ASSUME NEW c \in Conns, Tcp!DoClose(c) PROVE Tcp!TypeOK'
    BY <2>3 DEF Tcp!DoClose, Tcp!stopVars
  <2>4. ASSUME NEW c \in Conns, Tcp!OnClose(c) PROVE Tcp!TypeOK'
    BY <2>4 DEF Tcp!OnClose, Tcp!stopVars
  <2>5. ASSUME NEW c \in Conns, Tcp!Unpin(c) PROVE Tcp!TypeOK'
    BY <2>5 DEF Tcp!Unpin, Tcp!stopVars
  <2> QED BY <1>3, <2>1, <2>2, <2>3, <2>4, <2>5
<1>4. CASE \E S \in SUBSET Conns : Tcp!CloseConnections(S)
  BY <1>4 DEF Tcp!CloseConnections, Tcp!CloseRequests, Tcp!stopVars
<1>5. CASE UNCHANGED tcpVars
  BY <1>5 DEF tcpVars
<1> QED BY <1>1, <1>2, <1>3, <1>4, <1>5 DEF TcpStep

\* Each step contains one of them or leaves the server alone.
LEMMA NextIsTcpStep == ASSUME TypeOK, Next PROVE TcpStep \/ UNCHANGED tcpVars
<1>1. ASSUME NEW c \in Conns, Handler(c) \/ Age(c)
      PROVE  UNCHANGED tcpVars
  <2>1. ASSUME NEW r, NEW u, Join(c, r, u) \/ JoinRefused(c, r, u) PROVE Receive(c)
    BY <2>1 DEF Join, JoinRefused
  <2>2. ASSUME NEW kind, NEW to, Relay(c, kind, to) PROVE Receive(c)
    BY <2>2 DEF Relay
  <2>3. ASSUME Leave(c) \/ Ping(c) \/ IgnoredFrame(c) PROVE Receive(c)
    BY <2>3 DEF Leave, Ping, IgnoredFrame
  <2>4. Handler(c) => Receive(c)
    BY <2>1, <2>2, <2>3 DEF Handler, RelayBroadcast, RelayUnicast
  <2>5. Receive(c) => UNCHANGED tcpVars
    BY DEF Receive
  <2>6. Age(c) => UNCHANGED tcpVars
    BY DEF Age
  <2> QED BY <1>1, <2>4, <2>5, <2>6
<1>2. CASE \E c \in Conns : Accept(c) \/ PeerGone(c) \/ DoClose(c) \/ OnClose(c)
  BY <1>2 DEF Accept, PeerGone, DoClose, OnClose, TcpStep
<1>3. CASE MgmtRound \/ HeartbeatScan \/ LoopBoundary
  BY <1>3 DEF MgmtRound, HeartbeatScan, LoopBoundary, TcpStep, Stale
<1>4. CASE ApiCall
  BY <1>4 DEF ApiCall, KickLookup, KickClose, ApiSend, StartRun, StartPost, StopPost, StopServer,
              TcpStep, TypeOK
<1> QED BY <1>1, <1>2, <1>3, <1>4 DEF Next, LoopStep

\* Removing a joined connection's user keeps the types.
LEMMA RemoveType ==
    ASSUME TypeOK, NEW c \in Conns, RemoveUserFromRoom(c)
    PROVE  RoomType' /\ OutType'
<1>1. CASE Joined(c) /\ RemoveJoined(c)
  <2> DEFINE r == RoomOf(c)
             u == UserOf(c)
  <2>1. r \in Rooms /\ u \in Users
    BY <1>1, SeatParts, TypeParts
  <2>2. Without(joinOrder[r], u) \in Seq(Users)
    BY <2>1, WithoutType DEF TypeOK
  <2>3. BroadcastTo(r, Members(r) \ {u}, "LEAVE", u)
            \in SUBSET [to : Conns, kind : Kinds, about : Users \cup {None}]
    BY <2>1, BroadcastType DEF Kinds
  <2> HIDE DEF r, u
  <2>4. RoomType'
    BY <1>1, <2>1, <2>2 DEF RemoveJoined, RoomsWithout, TypeOK, RoomType, r, u
  <2>5. OutType'
    BY <1>1, <2>1, <2>3 DEF RemoveJoined, TypeOK, OutType, r, u
  <2> QED BY <2>4, <2>5
<1>2. CASE Silent /\ UNCHANGED roomVars
  BY <1>2 DEF Silent, roomVars, TypeOK, RoomType, OutType
<1> QED BY <1>1, <1>2 DEF RemoveUserFromRoom

\* The handlers keep the types.
LEMMA HandlerType == ASSUME TypeOK, NEW c \in Conns, Handler(c) PROVE HostType' /\ RoomType' /\ OutType'
<1>0. ASSUME Receive(c) PROVE HostType'
  BY <1>0 DEF Receive, Touch, TypeOK, HostType, Ages, hostVars
<1>1. ASSUME NEW r \in Rooms, NEW u \in Users, Join(c, r, u)
      PROVE  HostType' /\ RoomType' /\ OutType'
  <2>1. HostType'
    BY <1>0, <1>1 DEF Join
  <2>2. RoomType'
    <3>1. Append(joinOrder[r], u) \in Seq(Users)
      BY AppendProperties DEF TypeOK
    <3> QED BY <1>1, <3>1 DEF Join, TypeOK, RoomType, Seats
  <2> DEFINE asked == IF Members(r) = {} THEN {} ELSE UnicastTo(r, Oldest(r), "REQUEST_DATA", u)
  <2>3. BroadcastTo(r, Members(r), "JOIN", u)
            \in SUBSET [to : Conns, kind : Kinds, about : Users \cup {None}]
    BY BroadcastType DEF Kinds
  <2>4. UnicastTo(r, Oldest(r), "REQUEST_DATA", u)
            \in SUBSET [to : Conns, kind : Kinds, about : Users \cup {None}]
    BY BroadcastType DEF Kinds, UnicastTo
  <2>5. OutType'
    BY <1>1, <2>3, <2>4 DEF Join, OutType, TypeOK
  <2> QED BY <2>1, <2>2, <2>5
<1>2. ASSUME NEW r \in Rooms, NEW u \in Users, JoinRefused(c, r, u) \/ IgnoredFrame(c)
      PROVE  HostType' /\ RoomType' /\ OutType'
  BY <1>0, <1>2 DEF JoinRefused, IgnoredFrame, Silent, roomVars, TypeOK, RoomType, OutType
<1>3. ASSUME Ping(c) PROVE HostType' /\ RoomType' /\ OutType'
  BY <1>0, <1>3 DEF Ping, Message, Kinds, roomVars, TypeOK, RoomType, OutType
<1>4. ASSUME Leave(c) PROVE HostType' /\ RoomType' /\ OutType'
  BY <1>0, <1>4, RemoveType DEF Leave
<1>5. ASSUME NEW kind \in {"BROADCAST", "UNICAST"}, NEW to, Relay(c, kind, to)
      PROVE  HostType' /\ RoomType' /\ OutType'
  <2>1. RoomOf(c) \in Rooms /\ UserOf(c) \in Users
    BY <1>5, SeatParts, TypeParts DEF Relay
  <2>2. BroadcastTo(RoomOf(c), Members(RoomOf(c)) \cap to, kind, UserOf(c))
            \in SUBSET [to : Conns, kind : Kinds, about : Users \cup {None}]
    BY <2>1, BroadcastType DEF Kinds
  <2>3. RoomType' /\ OutType'
    BY <1>5, <2>2 DEF Relay, roomVars, TypeOK, RoomType, OutType
  <2> QED BY <1>0, <1>5, <2>3 DEF Relay
<1> QED
  <2>1. CASE \E r \in Rooms, u \in Users : Join(c, r, u)
    BY <1>1, <2>1
  <2>2. CASE IgnoredFrame(c) \/ \E r \in Rooms, u \in Users : JoinRefused(c, r, u)
    BY <1>0, <2>2 DEF JoinRefused, IgnoredFrame, Silent, roomVars, TypeOK, RoomType, OutType
  <2>3. CASE RelayBroadcast(c) \/ \E v \in Users : RelayUnicast(c, v)
    BY <1>5, <2>3 DEF RelayBroadcast, RelayUnicast
  <2> QED BY <1>3, <1>4, <2>1, <2>2, <2>3 DEF Handler

\* Every step keeps the types.
LEMMA TypeStep == ASSUME TypeOK, [Next]_vars PROVE TypeOK'
<1>1. Tcp!TypeOK'
  BY NextIsTcpStep, TcpTypeStep, TypeParts DEF vars
<1>2. HostType' /\ RoomType' /\ OutType'
  <2>1. ASSUME Silent PROVE OutType'
    BY <2>1 DEF Silent, TypeOK, OutType
  <2>2. ASSUME UNCHANGED roomVars PROVE RoomType'
    BY <2>2 DEF roomVars, TypeOK, RoomType
  <2>3. CASE \E c \in Conns : Handler(c)
    BY <2>3, HandlerType
  <2>4. ASSUME NEW c \in Conns, OnClose(c) PROVE HostType' /\ RoomType' /\ OutType'
    BY <2>4, RemoveType DEF OnClose, Erase, TypeOK, HostType, Ages
  <2>5. ASSUME NEW c \in Conns, Accept(c) PROVE HostType' /\ RoomType' /\ OutType'
    BY <2>1, <2>5 DEF Accept, TypeOK, HostType, RoomType
  <2>6. CASE \E c \in Conns : PeerGone(c) \/ DoClose(c) \/ Age(c)
    BY <2>1, <2>2, <2>6 DEF PeerGone, DoClose, Age, hostVars, TypeOK, HostType, Ages
  <2>7. CASE MgmtRound
    <3>1. timerTasks # <<>> => timerTasks[Len(timerTasks)] \in {"start", "stop"}
      BY ElementOfSeq, LenProperties, EmptySeq DEF TypeOK
    <3>2. HostType'
      BY <2>7, <3>1, EmptySeq DEF MgmtRound, RunTasks, TypeOK, HostType
    <3>3. RoomType'
      BY <2>7 DEF MgmtRound, RunTasks, TypeOK, RoomType
    <3> QED BY <2>1, <2>7, <3>2, <3>3 DEF MgmtRound
  <2>8. CASE HeartbeatScan \/ LoopBoundary
    BY <2>1, <2>2, <2>8 DEF HeartbeatScan, LoopBoundary, hostVars, TypeOK, HostType, Ages
  <2>9. CASE KickClose \/ \E r \in Rooms, u \in Users : KickLookup(r, u)
    BY <2>1, <2>2, <2>9 DEF KickLookup, KickClose, hostVars, TypeOK, HostType
  <2>10. CASE StartRun \/ StartPost \/ StopPost \/ StopServer
    <3>1. Append(timerTasks, "start") \in Seq({"start", "stop"})
          /\ Append(timerTasks, "stop") \in Seq({"start", "stop"})
      BY AppendProperties DEF TypeOK
    <3> QED BY <2>1, <2>2, <2>10, <3>1 DEF StartRun, StartPost, StopPost, StopServer, ApiStep,
                                           TypeOK, HostType
  <2>11. ASSUME NEW r \in Rooms, NEW kind \in Kinds, NEW to, ApiSend(r, kind, to)
         PROVE  HostType' /\ RoomType' /\ OutType'
    <3>1. BroadcastTo(r, Members(r) \cap to, kind, None)
              \in SUBSET [to : Conns, kind : Kinds, about : Users \cup {None}]
      BY BroadcastType
    <3> QED BY <2>2, <2>11, <3>1 DEF ApiSend, hostVars, TypeOK, HostType, OutType
  <2>12. CASE UNCHANGED vars
    BY <2>2, <2>12 DEF vars, roomVars, hostVars, TypeOK, HostType, OutType
  <2>13. CASE ApiCall
    BY <2>9, <2>10, <2>11, <2>13 DEF ApiCall, Kinds
  <2>14. CASE LoopStep
    BY <2>3, <2>4, <2>5, <2>6, <2>7, <2>8, <2>14 DEF LoopStep
  <2> QED BY <2>6, <2>12, <2>13, <2>14 DEF Next
<1> QED BY <1>1, <1>2 DEF TypeOK, HostType, RoomType, OutType

\* The initial state is typed.
LEMMA InitType == Init => TypeOK
<1> SUFFICES ASSUME Init PROVE TypeOK
  OBVIOUS
<1>1. Tcp!TypeOK
  BY DEF Init, Tcp!Init, Tcp!TypeOK, Tcp!Phases, Tcp!LoopStates
<1> QED BY <1>1, EmptySeq DEF Init, TypeOK, Ages, Seats

\* The variables of the room server keep their types, whatever the sets of
\* connections, rooms and users.
THEOREM TypeCorrect == Spec => []TypeOK
  BY InitType, TypeStep, PTL DEF Spec

-----------------------------------------------------------------------------
(* Who sits where.  Each of these invariants needs the others: the seats   *)
(* are only removed because a connection's end is seen (ContextLife), and  *)
(* the end of a connection frees its place because its seat is right.      *)

Core ==
    /\ ContextLife /\ SeatsInRooms /\ MembersSeated /\ RoomsInUse
    /\ MonitorKeysLive /\ MembersWatched

\* What the invariants say of the connections, and of the rooms.
ConnCore == ContextLife /\ MonitorKeysLive /\ MembersWatched
RoomCore == SeatsInRooms /\ MembersSeated /\ RoomsInUse

\* Nobody has a seat at first.
LEMMA InitCore == Init => Core
<1> SUFFICES ASSUME Init PROVE Core
  OBVIOUS
<1>1. \A r \in Rooms : Members(r) = {}
  BY DEF Init, Members
<1>2. \A c \in Conns : ~Joined(c) /\ phase[c] = "none"
  BY DEF Init, Joined, Tcp!Init
<1> QED BY <1>1, <1>2 DEF Init, Core, ContextLife, SeatsInRooms, MembersSeated, RoomsInUse,
                           MonitorKeysLive, MembersWatched, Tcp!Connections

\* A step that touches neither the rooms nor the set of ConnCtx keeps RoomCore.
LEMMA RoomsUntouched ==
    ASSUME RoomCore, UNCHANGED <<rooms, users, seat, ctxs>>
    PROVE  RoomCore'
  BY DEF RoomCore, SeatsInRooms, MembersSeated, RoomsInUse, Members, Joined, RoomOf, UserOf

\* A join gives one context and one seat.
LEMMA JoinCore ==
    ASSUME TypeOK, Core, NEW c \in Conns, NEW r \in Rooms, NEW u \in Users, Join(c, r, u)
    PROVE  Core'
<1>1. users[r][u] = None /\ ~Joined(c) /\ c \in ctxs /\ c # None /\ <<r, u>> # None
  BY NoneIsNew DEF Join, AcceptsUser, Members
<1>2. users' = [users EXCEPT ![r][u] = c] /\ seat' = [seat EXCEPT ![c] = <<r, u>>]
      /\ rooms' = rooms \cup {r} /\ ctxs' = ctxs /\ eraseTasks' = eraseTasks
      /\ monitor' = [monitor EXCEPT ![c] = "fresh"] /\ UNCHANGED tcpVars /\ phase[c] = "open"
  BY DEF Join, Receive, Touch, hostVars
<1>3. \A s \in Rooms : Members(s)' = IF s = r THEN Members(r) \cup {u} ELSE Members(s)
  BY <1>1, <1>2 DEF Members, TypeOK
<1>4. SeatsInRooms'
  <2> SUFFICES ASSUME NEW d \in Conns, Joined(d)'
               PROVE  (users[RoomOf(d)][UserOf(d)] = d)'
    BY DEF SeatsInRooms
  <2>1. CASE d = c
    BY <1>2, <2>1 DEF TypeOK, RoomOf, UserOf
  <2>2. CASE d # c
    <3>1. Joined(d) /\ seat'[d] = seat[d]
      BY <1>2, <2>2 DEF Joined, TypeOK
    <3>2. RoomOf(d) \in Rooms /\ UserOf(d) \in Users /\ users[RoomOf(d)][UserOf(d)] = d
      BY <3>1, SeatParts, TypeParts DEF Core, SeatsInRooms
    <3>3. d # None
      BY NoneIsNew
    <3> QED BY <1>1, <1>2, <3>1, <3>2, <3>3 DEF TypeOK, RoomOf, UserOf
  <2> QED BY <2>1, <2>2
<1>5. MembersSeated'
  <2> SUFFICES ASSUME NEW s \in Rooms, NEW v \in Users, users'[s][v] # None
               PROVE  users'[s][v] \in ctxs' /\ seat'[users'[s][v]] = <<s, v>>
    BY DEF MembersSeated, Members
  <2>1. CASE s = r /\ v = u
    BY <1>1, <1>2, <2>1 DEF TypeOK
  <2>2. CASE ~(s = r /\ v = u)
    <3>1. users'[s][v] = users[s][v] /\ v \in Members(s)
      BY <1>2, <2>2 DEF TypeOK, Members
    <3>2. users[s][v] \in ctxs /\ seat[users[s][v]] = <<s, v>>
      BY <3>1 DEF Core, MembersSeated
    <3>3. users[s][v] # c
      BY <1>1, <3>2, NoneIsNew DEF Joined
    <3> QED BY <1>2, <3>1, <3>2, <3>3 DEF TypeOK
  <2> QED BY <2>1, <2>2
<1>6. RoomsInUse'
  BY <1>2, <1>3 DEF Core, RoomsInUse
<1>7. ContextLife'
  BY <1>2, <1>1 DEF Core, ContextLife, Tcp!Connections, tcpVars, TypeOK
<1>8. MonitorKeysLive' /\ MembersWatched'
  BY <1>2 DEF Core, MonitorKeysLive, MembersWatched, Tcp!Connections, tcpVars, TypeOK, Joined
<1> QED BY <1>4, <1>5, <1>6, <1>7, <1>8 DEF Core

\* Removing the user of a joined connection frees exactly its place.
LEMMA RemoveCore ==
    ASSUME TypeOK, Core, NEW c \in Conns, RemoveUserFromRoom(c), UNCHANGED ctxs
    PROVE  /\ RoomCore'
           /\ ~Joined(c)'
           /\ \A d \in Conns : seat'[d] = IF d = c /\ Joined(c) THEN None ELSE seat[d]
<1>1. CASE ~Joined(c) /\ Silent /\ UNCHANGED roomVars
  BY <1>1, RoomsUntouched DEF Core, RoomCore, roomVars, Joined
<1>2. CASE Joined(c) /\ RemoveJoined(c)
  <2> DEFINE r == RoomOf(c)
             u == UserOf(c)
  <2>1. r \in Rooms /\ u \in Users /\ users[r][u] = c /\ seat[c] = <<r, u>>
    BY <1>2, SeatParts, TypeParts DEF Core, SeatsInRooms
  <2>2. users' = [users EXCEPT ![r][u] = None] /\ seat' = [seat EXCEPT ![c] = None]
        /\ rooms' = IF Members(r) \subseteq {u} THEN rooms \ {r} ELSE rooms
    BY <1>2 DEF RemoveJoined, RoomsWithout
  <2> HIDE DEF r, u
  <2>3. \A s \in Rooms : Members(s)' = IF s = r THEN Members(r) \ {u} ELSE Members(s)
    BY <2>1, <2>2 DEF Members, TypeOK
  <2>4. \A d \in Conns : seat'[d] = IF d = c THEN None ELSE seat[d]
    BY <2>2 DEF TypeOK
  <2>5. SeatsInRooms'
    <3> SUFFICES ASSUME NEW d \in Conns, Joined(d)'
                 PROVE  (users[RoomOf(d)][UserOf(d)] = d)'
      BY DEF SeatsInRooms
    <3>1. d # c /\ Joined(d) /\ seat'[d] = seat[d]
      BY <2>4 DEF Joined
    <3>2. RoomOf(d) \in Rooms /\ UserOf(d) \in Users /\ users[RoomOf(d)][UserOf(d)] = d
      BY <3>1, SeatParts, TypeParts DEF Core, SeatsInRooms
    <3> QED BY <2>1, <2>2, <3>1, <3>2 DEF TypeOK, RoomOf, UserOf
  <2>6. MembersSeated'
    <3> SUFFICES ASSUME NEW s \in Rooms, NEW v \in Users, users'[s][v] # None
                 PROVE  users'[s][v] \in ctxs' /\ seat'[users'[s][v]] = <<s, v>>
      BY DEF MembersSeated, Members
    <3>1. ~(s = r /\ v = u) /\ users'[s][v] = users[s][v] /\ v \in Members(s)
      BY <2>1, <2>2 DEF TypeOK, Members
    <3>2. users[s][v] \in ctxs /\ seat[users[s][v]] = <<s, v>>
      BY <3>1 DEF Core, MembersSeated
    <3>3. users[s][v] # c
      BY <2>1, <3>1, <3>2
    <3> QED BY <2>4, <3>1, <3>2, <3>3 DEF TypeOK
  <2>7. RoomsInUse'
    BY <2>1, <2>2, <2>3 DEF Core, RoomsInUse
  <2> QED BY <1>2, <2>4, <2>5, <2>6, <2>7 DEF RoomCore, Joined
<1> QED BY <1>1, <1>2 DEF RemoveUserFromRoom

\* Every step keeps Core.
LEMMA CoreStep == ASSUME TypeOK, Core, [Next]_vars PROVE Core'
<1> USE DEF ConnCore, ContextLife, MonitorKeysLive, MembersWatched
<1>0. RoomCore /\ ConnCore
  BY DEF Core, RoomCore, ConnCore
<1>1. SUFFICES RoomCore' /\ ConnCore'
  BY DEF Core, RoomCore, ConnCore
<1>2. ASSUME UNCHANGED <<roomVars, ctxs>> PROVE RoomCore'
  BY <1>0, <1>2, RoomsUntouched DEF roomVars
<1>3. ASSUME NEW c \in Conns, Handler(c) PROVE RoomCore' /\ ConnCore'
  <2>1. CASE \E r \in Rooms, u \in Users : Join(c, r, u)
    BY <2>1, JoinCore DEF Core, RoomCore, ConnCore
  <2>2. CASE Leave(c)
    <3>1. RoomCore' /\ \A d \in Conns : seat'[d] = seat[d] \/ seat'[d] = None
      BY <2>2, RemoveCore DEF Leave, Receive, hostVars
    <3> QED BY <1>0, <2>2, <3>1 DEF Leave, Receive, Touch, hostVars, tcpVars, TypeOK, Joined,
                                    Tcp!Connections
  <2>3. CASE \/ Ping(c) \/ IgnoredFrame(c) \/ RelayBroadcast(c) \/ \E v \in Users : RelayUnicast(c, v)
             \/ \E r \in Rooms, u \in Users : JoinRefused(c, r, u)
    <3>1. Receive(c) /\ UNCHANGED roomVars
      BY <2>3 DEF Ping, IgnoredFrame, RelayBroadcast, RelayUnicast, Relay, JoinRefused
    <3> QED BY <1>0, <1>2, <3>1 DEF Receive, Touch, hostVars, tcpVars, roomVars, TypeOK, Joined,
                                    Tcp!Connections
  <2> QED BY <1>3, <2>1, <2>2, <2>3 DEF Handler
<1>4. ASSUME NEW c \in Conns, Accept(c) PROVE RoomCore' /\ ConnCore'
  <2>1. /\ phase[c] = "none" /\ phase' \in {[phase EXCEPT ![c] = x] : x \in {"open", "refused"}}
        /\ \A d \in Conns : d # c => closeReq'[d] = closeReq[d]
        /\ ctxs' = ctxs \cup {c} /\ UNCHANGED <<rooms, users, eraseTasks, monitor>>
    <3>1. Tcp!Accept(c) /\ ctxs' = ctxs \cup {c} /\ UNCHANGED <<rooms, users, eraseTasks, monitor>>
      BY <1>4 DEF Accept, roomVars, hostVars
    <3>2. phase[c] = "none" /\ phase' \in {[phase EXCEPT ![c] = x] : x \in {"open", "refused"}}
      BY <3>1 DEF Tcp!Accept
    <3>3. closeReq \in [Conns -> BOOLEAN] /\ \E x : closeReq' = [closeReq EXCEPT ![c] = x]
      BY <3>1 DEF Tcp!Accept, TypeOK, Tcp!TypeOK
    <3> QED BY <3>1, <3>2, <3>3
  <2>2. c \notin ctxs /\ seat[c] = None /\ monitor[c] = "absent"
    BY <1>0, <2>1 DEF Tcp!Connections, TypeOK, Ages
  <2>3. seat' = seat
    BY <1>4, <2>2 DEF Accept, TypeOK
  <2>4. RoomCore'
    BY <1>0, <2>1, <2>2, <2>3 DEF RoomCore, SeatsInRooms, MembersSeated, RoomsInUse, Members,
                                  Joined, RoomOf, UserOf
  <2>5. ConnCore'
    <3>1. /\ \A d \in Conns : d # c => phase'[d] = phase[d]
          /\ phase'[c] \in {"open", "refused"}
      BY <2>1 DEF TypeOK, Tcp!TypeOK
    <3>2. ContextLife'
      BY <1>0, <2>1, <2>2, <2>3, <3>1 DEF Tcp!Connections
    <3>3. MonitorKeysLive'
      BY <1>0, <2>1, <3>1 DEF Tcp!Connections
    <3>4. \A d \in Conns : Joined(d)' => d # c /\ Joined(d)
      BY <2>1, <2>2, <2>3 DEF Joined
    <3>5. MembersWatched'
      BY <1>0, <2>1, <3>4
    <3> QED BY <3>2, <3>3, <3>5
  <2> QED BY <2>4, <2>5
<1>5. ASSUME NEW c \in Conns, OnClose(c) PROVE RoomCore' /\ ConnCore'
  <2>1. /\ phase[c] = "closing" /\ phase' = [phase EXCEPT ![c] = "closed"]
        /\ eraseTasks' = eraseTasks \cup {c} /\ monitor' = [monitor EXCEPT ![c] = "absent"]
        /\ UNCHANGED <<ctxs, closeReq>>
    BY <1>5 DEF OnClose, Erase, Tcp!OnClose
  <2>2. /\ RoomCore' /\ ~Joined(c)'
        /\ \A d \in Conns : seat'[d] = IF d = c /\ Joined(c) THEN None ELSE seat[d]
    BY <1>5, <2>1, RemoveCore DEF OnClose
  <2>3. seat'[c] = None /\ \A d \in Conns : Joined(d)' => d # c /\ Joined(d)
    BY <1>0, <2>1, <2>2 DEF Joined, Tcp!Connections
  <2>4. \A d \in Conns : phase'[d] = IF d = c THEN "closed" ELSE phase[d]
    BY <2>1 DEF TypeOK, Tcp!TypeOK
  <2>5. \A d \in Conns : monitor'[d] = IF d = c THEN "absent" ELSE monitor[d]
    BY <2>1 DEF TypeOK
  <2>6. ContextLife'
    BY <1>0, <2>1, <2>2, <2>3, <2>4 DEF Tcp!Connections
  <2>7. MonitorKeysLive' /\ MembersWatched'
    BY <1>0, <2>1, <2>3, <2>4, <2>5 DEF Tcp!Connections
  <2> QED BY <2>2, <2>6, <2>7
<1>6. ASSUME NEW c \in Conns, PeerGone(c) \/ DoClose(c) \/ Age(c) PROVE RoomCore' /\ ConnCore'
  <2>1. UNCHANGED <<roomVars, ctxs, eraseTasks>>
    BY <1>6 DEF PeerGone, DoClose, Age, hostVars
  <2>2. CASE PeerGone(c)
    BY <1>0, <1>2, <2>1, <2>2 DEF PeerGone, Tcp!PeerGone, Tcp!CloseConnections, Tcp!CloseRequests,
                                  roomVars, Joined, Tcp!Connections
  <2>3. CASE DoClose(c)
    BY <1>0, <1>2, <2>1, <2>3 DEF DoClose, Tcp!DoClose, roomVars, Joined, Tcp!Connections,
                                  TypeOK, Tcp!TypeOK
  <2>4. CASE Age(c)
    BY <1>0, <1>2, <2>1, <2>4 DEF Age, tcpVars, roomVars, Joined, Tcp!Connections, TypeOK
  <2> QED BY <1>6, <2>2, <2>3, <2>4
<1>7. CASE MgmtRound
  <2>1. /\ \A d \in Conns : phase'[d] = phase[d] \/ (phase[d] = "closed" /\ phase'[d] \in {"none", "pinned"})
        /\ \A d \in Conns : phase'[d] # "closed"
        /\ \A d \in Conns : closeReq[d] => closeReq'[d]
    BY <1>7 DEF MgmtRound, Tcp!MgmtRound, Tcp!ReleaseClosed, Tcp!StopStage, Tcp!CloseRequests,
                TypeOK, Tcp!TypeOK
  <2>2. /\ ctxs' = ctxs \ eraseTasks /\ eraseTasks' = {} /\ UNCHANGED <<rooms, users, monitor>>
        /\ seat' = [d \in Conns |-> IF d \in eraseTasks THEN None ELSE seat[d]]
    BY <1>7 DEF MgmtRound, RunTasks
  <2>3. \A d \in eraseTasks : d \in Conns /\ seat[d] = None /\ phase[d] = "closed"
    BY <1>0 DEF TypeOK
  <2>4. seat' = seat
    BY <2>2, <2>3 DEF TypeOK
  <2>5. \A d \in Conns : Joined(d)' = Joined(d)
    BY <2>2, <2>3, <2>4 DEF Joined
  <2>6. RoomCore'
    <3>1. ASSUME NEW r \in Rooms, NEW u \in Members(r)
          PROVE  users[r][u] \notin eraseTasks
      <4>1. seat[users[r][u]] = <<r, u>> /\ <<r, u>> \in Rooms \X Users
        BY <1>0 DEF RoomCore, MembersSeated, Members
      <4> QED BY <2>3, <4>1, NoneIsNew
    <3>2. UNCHANGED <<rooms, users, seat>>
      BY <2>2, <2>4
    <3>3. SeatsInRooms'
      BY <1>0, <2>5, <3>2 DEF RoomCore, SeatsInRooms, RoomOf, UserOf
    <3>4. MembersSeated'
      BY <1>0, <2>2, <3>1, <3>2 DEF RoomCore, MembersSeated, Members
    <3>5. RoomsInUse'
      BY <1>0, <3>2 DEF RoomCore, RoomsInUse, Members
    <3> QED BY <3>3, <3>4, <3>5 DEF RoomCore
  <2>7. ConnCore'
    BY <1>0, <2>1, <2>2, <2>4, <2>5 DEF Tcp!Connections
  <2> QED BY <2>6, <2>7
<1>8. CASE HeartbeatScan
  BY <1>0, <1>2, <1>8 DEF HeartbeatScan, Tcp!CloseConnections, Tcp!CloseRequests, hostVars, roomVars,
                          Joined, Tcp!Connections, TypeOK, Stale
<1>9. CASE LoopBoundary
  BY <1>0, <1>2, <1>9 DEF LoopBoundary, Tcp!LoopInit, Tcp!BindAndListen, Tcp!LoopEnd, hostVars,
                          roomVars, Joined, Tcp!Connections
<1>10. CASE KickClose
  <2>1. CASE phase[kick] = "pinned" /\ Tcp!Unpin(kick)
    BY <1>0, <1>2, <1>10, <2>1 DEF KickClose, Tcp!Unpin, hostVars, roomVars, Joined, Tcp!Connections,
                                   TypeOK, Tcp!TypeOK
  <2>2. CASE Tcp!CloseConnections({kick})
    BY <1>0, <1>2, <1>10, <2>2 DEF KickClose, Tcp!CloseConnections, Tcp!CloseRequests, hostVars,
                                   roomVars, Joined, Tcp!Connections
  <2> QED BY <1>10, <2>1, <2>2 DEF KickClose
<1>11. CASE \/ \E r \in Rooms, u \in Users : KickLookup(r, u) \/ ApiSend(r, "UNICAST", {u})
            \/ \E r \in Rooms : ApiSend(r, "BROADCAST", Users)
            \/ UNCHANGED vars
  BY <1>0, <1>2, <1>11 DEF KickLookup, ApiSend, vars, tcpVars, hostVars, roomVars, Joined,
                           Tcp!Connections
<1>12. CASE StartRun \/ StartPost \/ StopPost \/ StopServer
  BY <1>0, <1>2, <1>12 DEF StartRun, StartPost, StopPost, StopServer, ApiStep, Tcp!AsyncRun, Tcp!Post,
                           Tcp!Stop, roomVars, Joined, Tcp!Connections
<1> QED BY <1>3, <1>4, <1>5, <1>6, <1>7, <1>8, <1>9, <1>10, <1>11, <1>12
        DEF Next, LoopStep, ApiCall

\* No ghosts, for any number of connections, rooms and users: every member of a
\* room is a live joined connection and every joined connection holds its place,
\* over closing, reuse of addresses, kicks, heartbeats and the stop.
THEOREM SeatsCorrect == Spec => []SeatsAgree
<1>1. Init => TypeOK /\ Core
  BY InitType, InitCore
<1>2. TypeOK /\ Core /\ [Next]_vars => (TypeOK /\ Core)'
  BY TypeStep, CoreStep
<1>3. TypeOK /\ Core => SeatsAgree
  BY DEF Core, SeatsAgree
<1> QED BY <1>1, <1>2, <1>3, PTL DEF Spec

\* The raw pointers of the monitor always name connections that exist, and a
\* member the scan cannot see is being closed already.
THEOREM MonitorCorrect == Spec => []MonitorAgrees
<1>1. Init => TypeOK /\ Core
  BY InitType, InitCore
<1>2. TypeOK /\ Core /\ [Next]_vars => (TypeOK /\ Core)'
  BY TypeStep, CoreStep
<1>3. TypeOK /\ Core => MonitorAgrees
  BY DEF Core, MonitorAgrees
<1> QED BY <1>1, <1>2, <1>3, PTL DEF Spec

-----------------------------------------------------------------------------
(* The rooms implement Places.                                             *)

\* A step that changes users at one place changes places there.
LEMMA PlaceUpdate ==
    ASSUME NEW s \in Seats, NEW x,
           \A q \in Rooms, v \in Users : users'[q][v] = IF <<q, v>> = s THEN x ELSE users[q][v]
    PROVE  places' = [places EXCEPT ![s] = x]
<1>1. ASSUME NEW t \in Seats PROVE places'[t] = IF t = s THEN x ELSE places[t]
  <2>1. PICK q \in Rooms, v \in Users : t = <<q, v>>
    BY DEF Seats
  <2>2. places'[t] = users'[q][v] /\ places[t] = users[q][v]
    BY <2>1 DEF places
  <2> QED BY <2>1, <2>2
<1>2. places = [t \in Seats |-> places[t]] /\ places' = [t \in Seats |-> places'[t]]
  BY DEF places
<1> HIDE DEF places
<1> QED BY <1>1, <1>2

\* A join is Places entering.
LEMMA JoinEnters ==
    ASSUME TypeOK, Core, NEW c \in Conns, NEW r \in Rooms, NEW u \in Users, Join(c, r, u)
    PROVE  Membership!Next
<1> DEFINE s == <<r, u>>
<1>1. s \in Seats /\ users[r][u] = None /\ users' = [users EXCEPT ![r][u] = c] /\ ~Joined(c)
  BY DEF Join, AcceptsUser, Members, Seats
<1>2. places[s] = None
  BY <1>1 DEF places
<1>3. \A t \in Seats : places[t] # c
  <2> SUFFICES ASSUME NEW q \in Rooms, NEW v \in Users, users[q][v] = c
               PROVE  FALSE
    BY DEF places, Seats
  <2>1. v \in Members(q)
    BY NoneIsNew DEF Members
  <2>2. c \in ctxs /\ seat[c] = <<q, v>>
    BY <2>1 DEF Core, MembersSeated
  <2>3. <<q, v>> # None
    BY NoneIsNew
  <2> QED BY <1>1, <2>2, <2>3 DEF Joined
<1>4. places' = [places EXCEPT ![s] = c]
  <2>1. \A q \in Rooms, v \in Users : users'[q][v] = IF <<q, v>> = s THEN c ELSE users[q][v]
    BY <1>1 DEF TypeOK
  <2> HIDE DEF s
  <2> QED BY <1>1, <2>1, PlaceUpdate
<1>5. Membership!Enter(c, s)
  BY <1>2, <1>3, <1>4 DEF Membership!Enter
<1> QED BY <1>1, <1>5 DEF Membership!Next

\* A removal is Places leaving.
LEMMA RemoveExits ==
    ASSUME TypeOK, Core, NEW c \in Conns, RemoveUserFromRoom(c)
    PROVE  Membership!Next \/ UNCHANGED places
<1>1. CASE UNCHANGED roomVars
  BY <1>1 DEF roomVars, places
<1>2. CASE Joined(c) /\ RemoveJoined(c)
  <2> DEFINE s == <<RoomOf(c), UserOf(c)>>
  <2>1. s \in Seats /\ users[RoomOf(c)][UserOf(c)] = c
        /\ users' = [users EXCEPT ![RoomOf(c)][UserOf(c)] = None]
    BY <1>2, SeatParts, TypeParts DEF Core, SeatsInRooms, RemoveJoined, Seats
  <2>2. places[s] # None
    BY <2>1, NoneIsNew DEF places
  <2>3. places' = [places EXCEPT ![s] = None]
    <3>1. \A q \in Rooms, v \in Users : users'[q][v] = IF <<q, v>> = s THEN None ELSE users[q][v]
      BY <2>1 DEF TypeOK
    <3> HIDE DEF s
    <3> QED BY <2>1, <3>1, PlaceUpdate
  <2> QED BY <2>1, <2>2, <2>3 DEF Membership!Next, Membership!Exit
<1> QED BY <1>1, <1>2 DEF RemoveUserFromRoom

\* Every step is one of Places or none.
LEMMA StepIsPlacesStep ==
    ASSUME TypeOK, Core, [Next]_vars
    PROVE  [Membership!Next]_places
<1>1. ASSUME UNCHANGED users PROVE UNCHANGED places
  BY <1>1 DEF places
<1>2. ASSUME NEW c \in Conns, Handler(c) PROVE Membership!Next \/ UNCHANGED places
  BY <1>1, <1>2, JoinEnters, RemoveExits
     DEF Handler, Leave, Ping, IgnoredFrame, RelayBroadcast, RelayUnicast, Relay, JoinRefused, roomVars
<1>3. ASSUME NEW c \in Conns, OnClose(c) PROVE Membership!Next \/ UNCHANGED places
  BY <1>3, RemoveExits DEF OnClose
<1>4. CASE \/ \E c \in Conns : Accept(c) \/ PeerGone(c) \/ DoClose(c) \/ Age(c)
           \/ MgmtRound \/ HeartbeatScan \/ LoopBoundary
  BY <1>1, <1>4 DEF Accept, PeerGone, DoClose, Age, MgmtRound, HeartbeatScan, LoopBoundary, roomVars
<1>5. CASE ApiCall \/ UNCHANGED vars
  BY <1>1, <1>5 DEF ApiCall, KickLookup, KickClose, ApiSend, StartRun, StartPost, StopPost,
                    StopServer, ApiStep, roomVars, vars
<1> QED BY <1>2, <1>3, <1>4, <1>5 DEF Next, LoopStep

\* At first no place is held.
LEMMA InitIsPlacesInit == Init => Membership!Init
  BY DEF Init, places, Membership!Init, Seats

\* The rooms, through joins, leaves, closed connections and kicks, hand out
\* places exactly as the abstract specification Places allows.
THEOREM PlacesImplemented == Spec => PlacesKept
<1>1. Init => TypeOK /\ Core
  BY InitType, InitCore
<1>2. TypeOK /\ Core /\ [Next]_vars => (TypeOK /\ Core)'
  BY TypeStep, CoreStep
<1>3. TypeOK /\ Core /\ [Next]_vars => [Membership!Next]_places
  BY StepIsPlacesStep
<1> QED BY <1>1, <1>2, <1>3, InitIsPlacesInit, PTL DEF Spec, PlacesKept, Membership!Spec
-----------------------------------------------------------------------------
(* The room server implements TcpServer.                                   *)

\* The connection a KickUser call has looked up still exists: the call's
\* shared_ptr keeps it when the server lets go of it.
KickLive == kick # None => phase[kick] # "none"

\* The connection a KickUser call has looked up goes on to exist.
LEMMA KickStep == ASSUME TypeOK, Core, KickLive, [Next]_vars PROVE KickLive'
<1> USE DEF KickLive
<1>1. CASE UNCHANGED <<phase, kick>>
  BY <1>1
<1>2. ASSUME NEW c \in Conns, Handler(c) \/ Age(c) PROVE UNCHANGED <<phase, kick>>
  <2>1. Receive(c) => UNCHANGED <<phase, kick>>
    BY DEF Receive, tcpVars
  <2>2. Handler(c) => Receive(c)
    BY DEF Handler, Join, JoinRefused, Leave, Ping, IgnoredFrame, Relay, RelayBroadcast, RelayUnicast
  <2> QED BY <1>2, <2>1, <2>2 DEF Age, tcpVars
<1>3. ASSUME NEW c \in Conns, Accept(c) \/ PeerGone(c) \/ DoClose(c) \/ OnClose(c)
      PROVE  KickLive'
  <2>1. kick' = kick
    BY <1>3 DEF Accept, PeerGone, DoClose, OnClose
  <2>2. \A d \in Conns : phase[d] # "none" => phase'[d] # "none"
    BY <1>3 DEF Accept, PeerGone, DoClose, OnClose, Tcp!Accept, Tcp!PeerGone, Tcp!DoClose, Tcp!OnClose,
                Tcp!CloseConnections, TypeOK, Tcp!TypeOK
  <2> QED BY <2>1, <2>2 DEF TypeOK
<1>4. CASE MgmtRound
  <2>1. kick' = kick
    BY <1>4 DEF MgmtRound
  <2>2. kick \in Conns => kick \in {kick} \cap Conns
    OBVIOUS
  <2>3. phase' = [c \in Conns |-> IF phase[c] # "closed" THEN phase[c]
                                  ELSE IF c \in {kick} \cap Conns THEN "pinned" ELSE "none"]
    BY <1>4 DEF MgmtRound, Tcp!MgmtRound, Tcp!ReleaseClosed
  <2> QED BY <2>1, <2>2, <2>3 DEF TypeOK
<1>5. CASE HeartbeatScan \/ LoopBoundary
  BY <1>5, <1>1 DEF HeartbeatScan, LoopBoundary, Tcp!CloseConnections, Tcp!LoopInit, Tcp!BindAndListen,
                    Tcp!LoopEnd
<1>6. ASSUME NEW r \in Rooms, NEW u \in Users, KickLookup(r, u) PROVE KickLive'
  <2>1. kick' = users[r][u] /\ phase' = phase /\ u \in Members(r)
    BY <1>6 DEF KickLookup, tcpVars
  <2> DEFINE d == users[r][u]
  <2>2. d \in Conns /\ seat[d] # None
    <3>1. d \in Conns
      BY <2>1 DEF TypeOK, Members
    <3>2. seat[d] = <<r, u>>
      BY <2>1 DEF Core, MembersSeated
    <3>3. <<r, u>> \in Rooms \X Users
      OBVIOUS
    <3> HIDE DEF d
    <3> QED BY <3>1, <3>2, <3>3, NoneIsNew
  <2>3. phase[d] \in {"open", "closing"}
    BY <2>2 DEF Core, ContextLife
  <2> QED BY <2>1, <2>3
<1>7. CASE KickClose
  BY <1>7 DEF KickClose
<1>8. ASSUME NEW r \in Rooms, NEW kind, NEW to, ApiSend(r, kind, to) PROVE KickLive'
  BY <1>8, <1>1 DEF ApiSend, tcpVars
<1>9. CASE StartRun \/ StartPost \/ StopPost \/ StopServer
  BY <1>9, <1>1 DEF StartRun, StartPost, StopPost, StopServer, ApiStep, Tcp!AsyncRun, Tcp!Post, Tcp!Stop
<1>10. CASE UNCHANGED vars
  BY <1>10, <1>1 DEF vars, tcpVars
<1> QED BY <1>1, <1>2, <1>3, <1>4, <1>5, <1>6, <1>7, <1>8, <1>9, <1>10 DEF Next, LoopStep, ApiCall

\* Every step is one of TcpServer or none.
LEMMA StepIsTcpStep == ASSUME TypeOK, Core, KickLive, [Next]_vars PROVE [Tcp!Next]_(Tcp!vars)
<1>1. CASE UNCHANGED tcpVars
  BY <1>1 DEF tcpVars, Tcp!vars, Tcp!stopVars
<1>2. ASSUME NEW c \in Conns, Handler(c) \/ Age(c) PROVE UNCHANGED tcpVars
  <2>1. Receive(c) => UNCHANGED tcpVars
    BY DEF Receive
  <2>2. Handler(c) => Receive(c)
    BY DEF Handler, Join, JoinRefused, Leave, Ping, IgnoredFrame, Relay, RelayBroadcast, RelayUnicast
  <2> QED BY <1>2, <2>1, <2>2 DEF Age
<1>3. ASSUME NEW c \in Conns, Accept(c) \/ PeerGone(c) \/ DoClose(c) \/ OnClose(c) PROVE Tcp!Next
  BY <1>3 DEF Accept, PeerGone, DoClose, OnClose, Tcp!Next, Tcp!LoopStep
<1>4. CASE MgmtRound \/ LoopBoundary
  BY <1>4 DEF MgmtRound, LoopBoundary, Tcp!Next, Tcp!LoopStep
<1>5. CASE HeartbeatScan
  <2>1. Stale \in SUBSET Tcp!Existing
    BY DEF Stale, Core, MonitorKeysLive, Tcp!Connections, Tcp!Existing
  <2> QED BY <1>5, <2>1 DEF HeartbeatScan, Tcp!Next
<1>6. CASE KickClose
  <2>1. kick \in Conns /\ {kick} \in SUBSET Tcp!Existing
    BY <1>6 DEF KickClose, KickLive, TypeOK, Tcp!Existing
  <2>2. Tcp!Unpin(kick) \/ Tcp!CloseConnections({kick})
    BY <1>6 DEF KickClose
  <2> QED BY <2>1, <2>2 DEF Tcp!Next
<1>7. ASSUME NEW r \in Rooms, NEW u, NEW kind, NEW to, KickLookup(r, u) \/ ApiSend(r, kind, to)
      PROVE  UNCHANGED tcpVars
  BY <1>7 DEF KickLookup, ApiSend
<1>8. CASE StartRun \/ StartPost \/ StopPost \/ StopServer
  BY <1>8 DEF StartRun, StartPost, StopPost, StopServer, Tcp!Next
<1>9. CASE UNCHANGED vars
  BY <1>9, <1>1 DEF vars
<1> QED BY <1>1, <1>2, <1>3, <1>4, <1>5, <1>6, <1>7, <1>8, <1>9 DEF Next, LoopStep, ApiCall

\* Every behaviour of the room server is one of TcpServer: what is proved there of
\* stopping and closing holds here, and no call reaches a freed connection.
THEOREM TcpImplemented == Spec => TcpKept
<1>1. Init => TypeOK /\ Core /\ KickLive /\ Tcp!Init
  BY InitType, InitCore DEF Init, KickLive
<1>2. TypeOK /\ Core /\ KickLive /\ [Next]_vars => (TypeOK /\ Core /\ KickLive)'
  BY TypeStep, CoreStep, KickStep
<1>3. TypeOK /\ Core /\ KickLive /\ [Next]_vars => [Tcp!Next]_(Tcp!vars)
  BY StepIsTcpStep
<1> QED BY <1>1, <1>2, <1>3, PTL DEF Spec, TcpKept, Tcp!Spec

-----------------------------------------------------------------------------
(* TcpServer by itself, whatever uses it, for any set of addresses.        *)

\* Its steps are those above.
LEMMA TcpTypeKept == Tcp!TypeOK /\ [Tcp!Next]_(Tcp!vars) => Tcp!TypeOK'
<1>1. Tcp!Next => TcpStep
  BY DEF Tcp!Next, Tcp!LoopStep, TcpStep, Tcp!Existing
<1>2. UNCHANGED Tcp!vars => UNCHANGED tcpVars
  BY DEF Tcp!vars, Tcp!stopVars, tcpVars
<1> QED BY <1>1, <1>2, TcpTypeStep

\* TcpServer keeps its variables in their types.
THEOREM TcpTypeCorrect == Tcp!Spec => []Tcp!TypeOK
<1>1. Tcp!Init => Tcp!TypeOK
  BY DEF Tcp!Init, Tcp!TypeOK, Tcp!Phases, Tcp!LoopStates
<1> QED BY <1>1, TcpTypeKept, PTL DEF Tcp!Spec

\* A stop request reaches the loop, and the loop is closed last.
LEMMA TcpStopStep ==
    ASSUME Tcp!TypeOK, Tcp!StopNotLost, Tcp!ClosedLast, [Tcp!Next]_(Tcp!vars)
    PROVE  Tcp!StopNotLost' /\ Tcp!ClosedLast'
<1> USE DEF Tcp!TypeOK, Tcp!Phases, Tcp!LoopStates, Tcp!Connections, Tcp!Existing, Tcp!stopVars,
            Tcp!StopNotLost, Tcp!ClosedLast
<1>1. CASE Tcp!AsyncRun
  BY <1>1 DEF Tcp!AsyncRun
<1>2. CASE Tcp!Stop
  BY <1>2 DEF Tcp!Stop, Tcp!loopReady
<1>3. CASE Tcp!Post
  BY <1>3 DEF Tcp!Post, Tcp!loopReady
<1>4. CASE Tcp!LoopInit
  BY <1>4 DEF Tcp!LoopInit
<1>5. CASE Tcp!BindAndListen
  BY <1>5 DEF Tcp!BindAndListen
<1>6. CASE Tcp!LoopEnd
  BY <1>6 DEF Tcp!LoopEnd
<1>7. ASSUME NEW P \in SUBSET Conns, Tcp!MgmtRound(P) PROVE Tcp!StopNotLost' /\ Tcp!ClosedLast'
  <2>1. Tcp!Connections' = Tcp!Connections
    BY <1>7 DEF Tcp!MgmtRound, Tcp!ReleaseClosed
  <2>2. Tcp!StopNotLost'
    BY <1>7, <2>1 DEF Tcp!MgmtRound, Tcp!StopStage
  <2>3. CASE Tcp!Connections = {}
    <3>1. \A c \in Conns : phase'[c] \in {"none", "pinned"}
      BY <1>7, <2>3 DEF Tcp!MgmtRound, Tcp!ReleaseClosed
    <3> QED BY <2>2, <3>1
  <2>4. CASE Tcp!Connections # {}
    BY <1>7, <2>2, <2>4 DEF Tcp!MgmtRound, Tcp!StopStage
  <2> QED BY <2>3, <2>4
<1>8. ASSUME NEW c \in Conns, Tcp!DoClose(c) PROVE Tcp!StopNotLost' /\ Tcp!ClosedLast'
  BY <1>8 DEF Tcp!DoClose
<1>9. ASSUME NEW c \in Conns, Tcp!OnClose(c) PROVE Tcp!StopNotLost' /\ Tcp!ClosedLast'
  BY <1>9 DEF Tcp!OnClose
<1>10. ASSUME NEW c \in Conns, Tcp!Accept(c) PROVE Tcp!StopNotLost' /\ Tcp!ClosedLast'
  BY <1>10 DEF Tcp!Accept
<1>11. ASSUME NEW c \in Conns, Tcp!PeerGone(c) PROVE Tcp!StopNotLost' /\ Tcp!ClosedLast'
  BY <1>11 DEF Tcp!PeerGone, Tcp!CloseConnections
<1>12. ASSUME NEW c \in Conns, Tcp!Unpin(c) PROVE Tcp!StopNotLost' /\ Tcp!ClosedLast'
  BY <1>12 DEF Tcp!Unpin
<1>13. ASSUME NEW S \in SUBSET Tcp!Existing, Tcp!CloseConnections(S)
       PROVE  Tcp!StopNotLost' /\ Tcp!ClosedLast'
  BY <1>13 DEF Tcp!CloseConnections
<1>14. CASE UNCHANGED Tcp!vars
  BY <1>14 DEF Tcp!vars
<1> QED
  BY <1>1, <1>2, <1>3, <1>4, <1>5, <1>6, <1>7, <1>8, <1>9, <1>10, <1>11, <1>12, <1>13, <1>14
     DEF Tcp!Next, Tcp!LoopStep

\* As long as the loop runs, a stop request has a wakeup to come; and when the
\* listener is closed no connection object is waiting for a callback.
THEOREM TcpStopIsSafe == Tcp!Spec => [](Tcp!StopNotLost /\ Tcp!ClosedLast)
<1>1. Tcp!Init => Tcp!TypeOK /\ Tcp!StopNotLost /\ Tcp!ClosedLast
  BY DEF Tcp!Init, Tcp!TypeOK, Tcp!Phases, Tcp!LoopStates, Tcp!StopNotLost, Tcp!ClosedLast
<1>2. Tcp!TypeOK /\ Tcp!StopNotLost /\ Tcp!ClosedLast /\ [Tcp!Next]_(Tcp!vars)
        => (Tcp!TypeOK /\ Tcp!StopNotLost /\ Tcp!ClosedLast)'
  BY TcpTypeKept, TcpStopStep
<1> QED BY <1>1, <1>2, PTL DEF Tcp!Spec

\* Outside uv_run no connection object has anything left to do: connections are
\* accepted by the running loop only, and it ends after the last of them.
TcpQuiet == loop # "listening" => \A c \in Conns : phase[c] \in {"none", "pinned"}

\* Every step keeps TcpQuiet.
LEMMA TcpQuietStep ==
    ASSUME Tcp!TypeOK, Tcp!ClosedLast, TcpQuiet, [Tcp!Next]_(Tcp!vars)
    PROVE  TcpQuiet'
<1> USE DEF Tcp!TypeOK, TcpQuiet, Tcp!stopVars
<1>1. CASE Tcp!AsyncRun \/ Tcp!Stop \/ Tcp!Post \/ Tcp!LoopInit \/ Tcp!BindAndListen
  BY <1>1 DEF Tcp!AsyncRun, Tcp!Stop, Tcp!Post, Tcp!LoopInit, Tcp!BindAndListen
<1>2. CASE Tcp!LoopEnd
  BY <1>2 DEF Tcp!LoopEnd, Tcp!ClosedLast
<1>3. CASE \E P \in SUBSET Conns : Tcp!MgmtRound(P)
  BY <1>3 DEF Tcp!MgmtRound
<1>4. CASE \E c \in Conns : Tcp!DoClose(c) \/ Tcp!OnClose(c) \/ Tcp!Accept(c)
  BY <1>4 DEF Tcp!DoClose, Tcp!OnClose, Tcp!Accept
<1>5. ASSUME NEW c \in Conns, Tcp!Unpin(c) PROVE TcpQuiet'
  BY <1>5 DEF Tcp!Unpin
<1>6. CASE \/ \E c \in Conns : Tcp!PeerGone(c)
           \/ \E S \in SUBSET Tcp!Existing : Tcp!CloseConnections(S)
  BY <1>6 DEF Tcp!PeerGone, Tcp!CloseConnections
<1>7. CASE UNCHANGED Tcp!vars
  BY <1>7 DEF Tcp!vars
<1> QED BY <1>1, <1>2, <1>3, <1>4, <1>5, <1>6, <1>7 DEF Tcp!Next, Tcp!LoopStep

\* Before the loop runs and after it has ended, no connection object waits for a
\* callback that nobody would make.
THEOREM TcpEndedQuiet == Tcp!Spec => []TcpQuiet
<1>1. Tcp!Init => Tcp!TypeOK /\ Tcp!StopNotLost /\ Tcp!ClosedLast /\ TcpQuiet
  BY DEF Tcp!Init, Tcp!TypeOK, Tcp!Phases, Tcp!LoopStates, Tcp!StopNotLost, Tcp!ClosedLast, TcpQuiet
<1>2. Tcp!TypeOK /\ Tcp!StopNotLost /\ Tcp!ClosedLast /\ TcpQuiet /\ [Tcp!Next]_(Tcp!vars)
        => (Tcp!TypeOK /\ Tcp!StopNotLost /\ Tcp!ClosedLast /\ TcpQuiet)'
  BY TcpTypeKept, TcpStopStep, TcpQuietStep
<1> QED BY <1>1, <1>2, PTL DEF Tcp!Spec

\* Hence a stop request is never lost in the room server either, and its listener
\* closes last.
THEOREM StopSafeHere == Spec => []StopSafe
<1>1. Tcp!StopNotLost /\ Tcp!ClosedLast => StopSafe
  BY DEF StopSafe
<1> QED BY <1>1, TcpImplemented, TcpStopIsSafe, PTL DEF TcpKept

\* When the loop has ended, nothing is left of any user, for any number of them:
\* no connection object is (TcpEndedQuiet), and Core says the rest follows them.
THEOREM StopCleans == Spec => []StopLeavesNothing
<1>1. Init => TypeOK /\ Core
  BY InitType, InitCore
<1>2. TypeOK /\ Core /\ [Next]_vars => (TypeOK /\ Core)'
  BY TypeStep, CoreStep
<1>3. TypeOK /\ Core /\ TcpQuiet => StopLeavesNothing
  <2> SUFFICES ASSUME TypeOK, Core, TcpQuiet, loop = "ended"
               PROVE  rooms = {} /\ ctxs = {} /\ \A c \in Conns : monitor[c] = "absent"
    BY DEF StopLeavesNothing
  <2>1. \A c \in Conns : phase[c] \in {"none", "pinned"}
    BY DEF TcpQuiet
  <2>2. ctxs = {}
    BY <2>1 DEF Core, ContextLife, Tcp!Connections, TypeOK
  <2>3. \A c \in Conns : monitor[c] = "absent"
    BY <2>1 DEF Core, MonitorKeysLive, Tcp!Connections
  <2>4. rooms = {}
    BY <2>2 DEF Core, MembersSeated, RoomsInUse
  <2> QED BY <2>2, <2>3, <2>4
<1> QED BY <1>1, <1>2, <1>3, TcpImplemented, TcpEndedQuiet, PTL DEF Spec, TcpKept
-----------------------------------------------------------------------------
(* The join order, and what members were told.                             *)

\* The sequence s names each member of S once and nobody else; who stands behind
\* u in it.
Lists(s, S) ==
    /\ \A u \in Users : u \in S <=> \E i \in DOMAIN s : s[i] = u
    /\ \A i, j \in DOMAIN s : s[i] = s[j] => i = j
Behind(s, u) == {s[j] : j \in {k \in DOMAIN s : \E i \in DOMAIN s : s[i] = u /\ i < k}}

\* JoinOrderLists, room by room.
LEMMA ListsEverywhere == JoinOrderLists <=> \A r \in Rooms : Lists(joinOrder[r], Members(r))
  BY DEF JoinOrderLists, Lists

\* A user who enters stands behind everybody.
LEMMA AppendLists ==
    ASSUME NEW s \in Seq(Users), NEW S \in SUBSET Users, Lists(s, S), NEW u \in Users, u \notin S
    PROVE  /\ Lists(Append(s, u), S \cup {u})
           /\ Behind(Append(s, u), u) = {}
           /\ \A v \in S : Behind(Append(s, u), v) = Behind(s, v) \cup {u}
<1> DEFINE t == Append(s, u)
           n == Len(s)
<1>1. n \in Nat /\ DOMAIN s = 1 .. n /\ DOMAIN t = 1 .. n + 1
      /\ t[n + 1] = u /\ \A k \in 1 .. n : t[k] = s[k]
  BY AppendProperties, LenProperties
<1>2. \A k \in 1 .. n : s[k] # u /\ s[k] \in Users
  BY <1>1, ElementOfSeq DEF Lists
<1> HIDE DEF t, n
<1>3. Lists(t, S \cup {u})
  <2>1. ASSUME NEW v \in Users PROVE v \in S \cup {u} <=> \E i \in DOMAIN t : t[i] = v
    <3>1. CASE v = u
      BY <1>1, <3>1
    <3>2. CASE v # u
      <4>1. (\E i \in DOMAIN s : s[i] = v) <=> (\E i \in DOMAIN t : t[i] = v)
        BY <1>1, <3>2
      <4> QED BY <3>2, <4>1 DEF Lists
    <3> QED BY <3>1, <3>2
  <2>2. \A i, j \in DOMAIN t : t[i] = t[j] => i = j
    BY <1>1, <1>2 DEF Lists
  <2> QED BY <2>1, <2>2 DEF Lists
<1>4. Behind(t, u) = {}
  BY <1>1, <1>2 DEF Behind
<1>5. ASSUME NEW v \in S PROVE Behind(t, v) = Behind(s, v) \cup {u}
  <2>1. PICK m \in 1 .. n : s[m] = v
    BY <1>1 DEF Lists
  <2>2. ASSUME NEW x \in Behind(t, v) PROVE x \in Behind(s, v) \cup {u}
    <3>1. PICK k \in DOMAIN t, i \in DOMAIN t : x = t[k] /\ t[i] = v /\ i < k
      BY <2>2 DEF Behind
    <3>2. CASE k = n + 1
      BY <1>1, <3>1, <3>2
    <3>3. CASE k # n + 1
      <4>1. k \in 1 .. n /\ i \in 1 .. n
        BY <1>1, <3>1, <3>3
      <4> QED BY <1>1, <3>1, <4>1 DEF Behind
    <3> QED BY <3>2, <3>3
  <2>3. ASSUME NEW x \in Behind(s, v) PROVE x \in Behind(t, v)
    <3>1. PICK k \in DOMAIN s, i \in DOMAIN s : x = s[k] /\ s[i] = v /\ i < k
      BY <2>3 DEF Behind
    <3> QED BY <1>1, <3>1 DEF Behind
  <2>4. u \in Behind(t, v)
    BY <1>1, <2>1 DEF Behind
  <2> QED BY <2>2, <2>3, <2>4
<1> QED BY <1>3, <1>4, <1>5 DEF t

\* A user who leaves is missing, and the order of the others stays.
LEMMA WithoutLists ==
    ASSUME NEW s \in Seq(Users), NEW S \in SUBSET Users, Lists(s, S), NEW u \in S
    PROVE  /\ Lists(Without(s, u), S \ {u})
           /\ \A v \in S \ {u} : Behind(Without(s, u), v) = Behind(s, v) \ {u}
<1> DEFINE t == Without(s, u)
           n == Len(s)
           p == CHOOSE j \in DOMAIN s : s[j] = u
           from(k) == IF k < p THEN k ELSE k + 1
           to(j) == IF j < p THEN j ELSE j - 1
<1>1. n \in Nat /\ DOMAIN s = 1 .. n
  BY LenProperties
<1>2. p \in 1 .. n /\ s[p] = u
  BY <1>1 DEF Lists
<1>3. t = [k \in 1 .. n - 1 |-> s[from(k)]]
  BY DEF Without
<1>4. DOMAIN t = 1 .. n - 1 /\ \A k \in 1 .. n - 1 : t[k] = s[from(k)]
  BY <1>3
<1> HIDE DEF t, n, p
<1>5. /\ \A k \in 1 .. n - 1 : from(k) \in 1 .. n /\ from(k) # p
      /\ \A j, k \in 1 .. n - 1 : j < k <=> from(j) < from(k)
      /\ \A j \in 1 .. n : j # p => to(j) \in 1 .. n - 1 /\ from(to(j)) = j
  BY <1>1, <1>2
<1>6. \A j \in 1 .. n : s[j] = u => j = p
  BY <1>1, <1>2 DEF Lists
<1> HIDE DEF from, to
<1>7. \A k \in 1 .. n - 1 : t[k] # u
  BY <1>4, <1>5, <1>6
<1>8. \A j \in 1 .. n : s[j] # u => to(j) \in 1 .. n - 1 /\ from(to(j)) = j /\ t[to(j)] = s[j]
  BY <1>2, <1>4, <1>5
<1>9. Lists(t, S \ {u})
  <2>1. ASSUME NEW v \in Users PROVE v \in S \ {u} <=> \E i \in DOMAIN t : t[i] = v
    <3>1. ASSUME v \in S \ {u} PROVE \E i \in DOMAIN t : t[i] = v
      <4>1. PICK j \in 1 .. n : s[j] = v
        BY <1>1, <3>1 DEF Lists
      <4> QED BY <1>4, <1>8, <3>1, <4>1
    <3>2. ASSUME NEW i \in DOMAIN t, t[i] = v PROVE v \in S \ {u}
      <4>1. v # u /\ from(i) \in DOMAIN s /\ s[from(i)] = v
        BY <1>1, <1>4, <1>5, <1>7, <3>2
      <4> QED BY <4>1 DEF Lists
    <3> QED BY <3>1, <3>2
  <2>2. ASSUME NEW i \in DOMAIN t, NEW j \in DOMAIN t, t[i] = t[j] PROVE i = j
    <3>1. from(i) = from(j)
      BY <1>1, <1>4, <1>5, <2>2 DEF Lists
    <3>2. ~(i < j) /\ ~(j < i) /\ i \in Int /\ j \in Int
      <4>1. i \in 1 .. n - 1 /\ j \in 1 .. n - 1 /\ from(i) \in 1 .. n
        BY <1>4, <1>5
      <4>2. ~(from(i) < from(i))
        BY <4>1
      <4> QED BY <1>5, <3>1, <4>1, <4>2
    <3> QED BY <3>2
  <2> QED BY <2>1, <2>2 DEF Lists
<1>10. ASSUME NEW v \in S \ {u} PROVE Behind(t, v) = Behind(s, v) \ {u}
  <2>1. ASSUME NEW x \in Behind(t, v) PROVE x \in Behind(s, v) \ {u}
    <3>1. PICK k \in 1 .. n - 1, i \in 1 .. n - 1 : x = t[k] /\ t[i] = v /\ i < k
      BY <1>4, <2>1 DEF Behind
    <3>2. from(k) \in DOMAIN s /\ from(i) \in DOMAIN s /\ from(i) < from(k)
      BY <1>1, <1>5, <3>1
    <3>3. x = s[from(k)] /\ s[from(i)] = v /\ x # u
      BY <1>4, <1>7, <3>1
    <3> QED BY <3>2, <3>3 DEF Behind
  <2>2. ASSUME NEW x \in Behind(s, v), x # u PROVE x \in Behind(t, v)
    <3>1. PICK k \in 1 .. n, i \in 1 .. n : x = s[k] /\ s[i] = v /\ i < k
      BY <1>1, <2>2 DEF Behind
    <3>2. /\ to(k) \in 1 .. n - 1 /\ from(to(k)) = k /\ t[to(k)] = x
          /\ to(i) \in 1 .. n - 1 /\ from(to(i)) = i /\ t[to(i)] = v
      BY <1>8, <2>2, <3>1
    <3>3. to(i) < to(k)
      BY <1>5, <3>1, <3>2
    <3> QED BY <1>4, <3>2, <3>3 DEF Behind
  <2> QED BY <2>1, <2>2, <1>7, <1>4 DEF Behind
<1> QED BY <1>9, <1>10 DEF t

\* A member is told of the members behind it, unless its connection is closing.
Told(c) == Joined(c) /\ Writable(c) => roster[c] = Behind(joinOrder[RoomOf(c)], UserOf(c))

\* The join order lists the members, and what they were told agrees with it.
Announced == JoinOrderLists /\ \A c \in Conns : Told(c)

\* Announced is JoinOrderLists and RosterExact.
LEMMA AnnouncedMeans == Announced <=> JoinOrderLists /\ RosterExact
  BY DEF Announced, Told, RosterExact, Later, Behind

\* Two seats of two connections: the same room is the only thing they may share.
LEMMA SeatOf ==
    ASSUME TypeOK, Core, NEW c \in Conns, Joined(c)
    PROVE  /\ RoomOf(c) \in Rooms /\ UserOf(c) \in Members(RoomOf(c))
           /\ \A r \in Rooms : \A v \in Members(r) :
                users[r][v] = c <=> (r = RoomOf(c) /\ v = UserOf(c))
<1>1. RoomOf(c) \in Rooms /\ UserOf(c) \in Users /\ users[RoomOf(c)][UserOf(c)] = c
      /\ seat[c] = <<RoomOf(c), UserOf(c)>>
  BY SeatParts, TypeParts DEF Core, SeatsInRooms
<1>2. UserOf(c) \in Members(RoomOf(c))
  BY <1>1, NoneIsNew DEF Members
<1>3. ASSUME NEW r \in Rooms, NEW v \in Members(r), users[r][v] = c
      PROVE  r = RoomOf(c) /\ v = UserOf(c)
  BY <1>1, <1>3 DEF Core, MembersSeated
<1> QED BY <1>1, <1>2, <1>3

\* Who hears of a join or a leave: the connections of the members addressed that
\* are not closing.
LEMMA Hears ==
    ASSUME TypeOK, Core, NEW r \in Rooms, NEW us \in SUBSET Members(r), NEW kind, NEW u,
           NEW d \in Conns, Joined(d)
    PROVE  Message(d, kind, u) \in BroadcastTo(r, us, kind, u)
             <=> RoomOf(d) = r /\ UserOf(d) \in us /\ Writable(d)
<1>1. Message(d, kind, u) \in BroadcastTo(r, us, kind, u)
        <=> \E v \in us : Writable(users[r][v]) /\ users[r][v] = d
  BY DEF BroadcastTo, Message
<1>2. \A v \in us : users[r][v] = d <=> (r = RoomOf(d) /\ v = UserOf(d))
  BY SeatOf
<1> QED BY <1>1, <1>2

\* A join tells everybody before it.
LEMMA JoinAnnounces ==
    ASSUME TypeOK, Core, Announced, NEW c \in Conns, NEW r \in Rooms, NEW u \in Users,
           Join(c, r, u)
    PROVE  Announced'
<1>1. /\ users' = [users EXCEPT ![r][u] = c] /\ seat' = [seat EXCEPT ![c] = <<r, u>>]
      /\ joinOrder' = [joinOrder EXCEPT ![r] = Append(@, u)]
      /\ closeReq' = closeReq /\ ctxs' = ctxs /\ c \in ctxs /\ ~Joined(c) /\ u \notin Members(r)
      /\ c # None
  BY NoneIsNew DEF Join, Receive, hostVars, tcpVars, AcceptsUser
<1>2. \A q \in Rooms : /\ Members(q)' = IF q = r THEN Members(r) \cup {u} ELSE Members(q)
                       /\ joinOrder'[q] = IF q = r THEN Append(joinOrder[r], u) ELSE joinOrder[q]
  BY <1>1 DEF Members, TypeOK
<1>3. \A q \in Rooms : Lists(joinOrder[q], Members(q)) /\ joinOrder[q] \in Seq(Users)
                       /\ Members(q) \in SUBSET Users
  BY ListsEverywhere DEF Announced, TypeOK, Members
<1>4. /\ Lists(Append(joinOrder[r], u), Members(r) \cup {u})
      /\ Behind(Append(joinOrder[r], u), u) = {}
      /\ \A v \in Members(r) :
            Behind(Append(joinOrder[r], u), v) = Behind(joinOrder[r], v) \cup {u}
  <2> DEFINE s == joinOrder[r]
             S == Members(r)
  <2>1. Lists(s, S) /\ s \in Seq(Users) /\ S \in SUBSET Users /\ u \in Users /\ u \notin S
    BY <1>1, <1>3
  <2> HIDE DEF s, S
  <2>2. /\ Lists(Append(s, u), S \cup {u})
        /\ Behind(Append(s, u), u) = {}
        /\ \A v \in S : Behind(Append(s, u), v) = Behind(s, v) \cup {u}
    BY ONLY <2>1, AppendLists
  <2> QED BY <2>2 DEF s, S
<1>5. JoinOrderLists'
  <2>1. \A q \in Rooms : Lists(joinOrder'[q], Members(q)')
    BY <1>2, <1>3, <1>4
  <2> QED BY <2>1 DEF JoinOrderLists, Lists
<1>6. ASSUME NEW d \in Conns, Joined(d)', Writable(d)'
      PROVE  roster'[d] = Behind(joinOrder'[RoomOf(d)'], UserOf(d)')
  <2>1. CASE d = c
    <3>1. RoomOf(d)' = r /\ UserOf(d)' = u
      BY <1>1, <2>1 DEF RoomOf, UserOf, TypeOK
    <3>2. roster'[d] = {}
      BY <2>1 DEF Join
    <3> QED BY <1>2, <1>4, <3>1, <3>2
  <2>2. CASE d # c
    <3>1. Joined(d) /\ Writable(d) /\ RoomOf(d)' = RoomOf(d) /\ UserOf(d)' = UserOf(d)
      BY <1>1, <1>6, <2>2 DEF Joined, Writable, RoomOf, UserOf, TypeOK
    <3>2. RoomOf(d) \in Rooms /\ UserOf(d) \in Members(RoomOf(d))
      BY <3>1, SeatOf
    <3>3. roster[d] = Behind(joinOrder[RoomOf(d)], UserOf(d))
      BY <3>1 DEF Announced, Told
    <3>4. Message(d, "JOIN", u) \in out' <=> RoomOf(d) = r
      <4>1. Message(d, "JOIN", u) \in out' <=> Message(d, "JOIN", u) \in BroadcastTo(r, Members(r), "JOIN", u)
        BY DEF Join, UnicastTo, BroadcastTo, Message
      <4> QED BY <3>1, <3>2, <4>1, Hears
    <3>5. roster'[d] = IF RoomOf(d) = r THEN roster[d] \cup {u} ELSE roster[d]
      BY <2>2, <3>4 DEF Join
    <3> QED BY <1>2, <1>4, <3>1, <3>2, <3>3, <3>5
  <2> QED BY <2>1, <2>2
<1> QED BY <1>5, <1>6 DEF Announced, Told

\* A removal tells everybody who stays.
LEMMA RemoveAnnounces ==
    ASSUME TypeOK, Core, Announced, NEW c \in Conns, Joined(c), RemoveJoined(c),
           UNCHANGED <<ctxs, closeReq>>
    PROVE  Announced'
<1> DEFINE r == RoomOf(c)
           u == UserOf(c)
<1>1. r \in Rooms /\ u \in Members(r)
  BY SeatOf
<1>2. /\ users' = [users EXCEPT ![r][u] = None] /\ seat' = [seat EXCEPT ![c] = None]
      /\ joinOrder' = [joinOrder EXCEPT ![r] = Without(@, u)]
      /\ out' = BroadcastTo(r, Members(r) \ {u}, "LEAVE", u)
      /\ roster' = [d \in Conns |-> IF d = c THEN {}
                                    ELSE IF Message(d, "LEAVE", u) \in out' THEN roster[d] \ {u}
                                    ELSE roster[d]]
  BY DEF RemoveJoined
<1> HIDE DEF r, u
<1>3. \A q \in Rooms : /\ Members(q)' = IF q = r THEN Members(r) \ {u} ELSE Members(q)
                       /\ joinOrder'[q] = IF q = r THEN Without(joinOrder[r], u) ELSE joinOrder[q]
  BY <1>1, <1>2 DEF Members, TypeOK
<1>4. \A q \in Rooms : Lists(joinOrder[q], Members(q)) /\ joinOrder[q] \in Seq(Users)
                       /\ Members(q) \in SUBSET Users
  BY ListsEverywhere DEF Announced, TypeOK, Members
<1>5. /\ Lists(Without(joinOrder[r], u), Members(r) \ {u})
      /\ \A v \in Members(r) \ {u} :
            Behind(Without(joinOrder[r], u), v) = Behind(joinOrder[r], v) \ {u}
  <2>1. Lists(joinOrder[r], Members(r)) /\ joinOrder[r] \in Seq(Users)
        /\ Members(r) \in SUBSET Users /\ u \in Members(r)
    BY <1>1, <1>4
  <2> QED BY <2>1, WithoutLists
<1>6. JoinOrderLists'
  <2>1. \A q \in Rooms : Lists(joinOrder'[q], Members(q)')
    BY <1>3, <1>4, <1>5
  <2> QED BY <2>1 DEF JoinOrderLists, Lists
<1>7. ASSUME NEW d \in Conns, Joined(d)', Writable(d)'
      PROVE  roster'[d] = Behind(joinOrder'[RoomOf(d)'], UserOf(d)')
  <2>1. /\ d # c /\ Joined(d) /\ Writable(d)
        /\ RoomOf(d)' = RoomOf(d) /\ UserOf(d)' = UserOf(d)
    BY <1>2, <1>7 DEF Joined, Writable, RoomOf, UserOf, TypeOK
  <2>2. RoomOf(d) \in Rooms /\ UserOf(d) \in Members(RoomOf(d))
    BY <2>1, SeatOf
  <2>3. RoomOf(d) = r => UserOf(d) # u
    <3>1. users[r][u] = c
      BY SeatOf DEF r, u
    <3>2. users[RoomOf(d)][UserOf(d)] = d
      BY <2>1, SeatOf
    <3> QED BY <2>1, <3>1, <3>2
  <2>4. roster[d] = Behind(joinOrder[RoomOf(d)], UserOf(d))
    BY <2>1 DEF Announced, Told
  <2>5. Message(d, "LEAVE", u) \in out' <=> RoomOf(d) = r
    BY <1>1, <1>2, <2>1, <2>2, <2>3, Hears
  <2>6. roster'[d] = IF RoomOf(d) = r THEN roster[d] \ {u} ELSE roster[d]
    BY <1>2, <2>1, <2>5
  <2> QED BY <1>3, <1>5, <2>1, <2>2, <2>3, <2>4, <2>6
<1> QED BY <1>6, <1>7 DEF Announced, Told

\* All other steps tell nobody, and seat nobody.
LEMMA OthersAnnounce ==
    ASSUME Announced, UNCHANGED <<users, joinOrder, roster>>,
           \A c \in Conns : Joined(c)' /\ Writable(c)' =>
                               Joined(c) /\ Writable(c) /\ seat'[c] = seat[c]
    PROVE  Announced'
<1>1. JoinOrderLists'
  BY DEF Announced, JoinOrderLists, Members
<1>2. ASSUME NEW c \in Conns PROVE Told(c)'
  BY DEF Announced, Told, RoomOf, UserOf
<1> QED BY <1>1, <1>2 DEF Announced

\* Every step keeps Announced.
LEMMA AnnouncedStep == ASSUME TypeOK, Core, Announced, [Next]_vars PROVE Announced'
<1>1. ASSUME UNCHANGED <<ctxs, seat, users, joinOrder, roster>>,
             \A c \in Conns : closeReq[c] => closeReq'[c]
      PROVE  Announced'
  BY <1>1, OthersAnnounce DEF Joined, Writable
<1>2. ASSUME NEW c \in Conns, RemoveUserFromRoom(c), UNCHANGED <<ctxs, closeReq>>
      PROVE  Announced'
  BY <1>1, <1>2, RemoveAnnounces DEF RemoveUserFromRoom, Silent, roomVars
<1>3. ASSUME NEW c \in Conns, Handler(c) PROVE Announced'
  <2>1. CASE \E r \in Rooms, u \in Users : Join(c, r, u)
    BY <2>1, JoinAnnounces
  <2>2. CASE Leave(c)
    BY <1>2, <2>2 DEF Leave, Receive, hostVars, tcpVars
  <2>3. CASE \/ Ping(c) \/ IgnoredFrame(c) \/ RelayBroadcast(c) \/ \E v \in Users : RelayUnicast(c, v)
             \/ \E r \in Rooms, u \in Users : JoinRefused(c, r, u)
    BY <1>1, <2>3 DEF Ping, IgnoredFrame, RelayBroadcast, RelayUnicast, Relay, JoinRefused, Receive,
                      Silent, roomVars, hostVars, tcpVars
  <2> QED BY <1>3, <2>1, <2>2, <2>3 DEF Handler
<1>4. ASSUME NEW c \in Conns, OnClose(c) PROVE Announced'
  BY <1>2, <1>4 DEF OnClose, Tcp!OnClose
<1>5. ASSUME NEW c \in Conns, Accept(c) PROVE Announced'
  <2>1. phase[c] = "none" /\ seat[c] = None
    BY <1>5 DEF Accept, Tcp!Accept, Core, ContextLife
  <2>2. ctxs' = ctxs \cup {c} /\ seat' = seat /\ UNCHANGED <<users, joinOrder, roster>>
    BY <1>5, <2>1 DEF Accept, Silent, TypeOK
  <2>3. \A d \in Conns : d # c => closeReq'[d] = closeReq[d]
    <3>1. closeReq \in [Conns -> BOOLEAN] /\ \E x : closeReq' = [closeReq EXCEPT ![c] = x]
      BY <1>5 DEF Accept, Tcp!Accept, TypeOK, Tcp!TypeOK
    <3> QED BY <3>1
  <2> QED BY <2>1, <2>2, <2>3, OthersAnnounce DEF Joined, Writable
<1>6. ASSUME NEW c \in Conns, PeerGone(c) \/ DoClose(c) \/ Age(c) PROVE Announced'
  BY <1>1, <1>6 DEF PeerGone, DoClose, Age, Tcp!PeerGone, Tcp!DoClose, Tcp!CloseConnections,
                    Tcp!CloseRequests, Silent, roomVars, hostVars, tcpVars
<1>7. CASE MgmtRound
  <2>1. \A d \in Conns : closeReq[d] => closeReq'[d]
    BY <1>7 DEF MgmtRound, Tcp!MgmtRound, Tcp!StopStage, Tcp!CloseRequests
  <2>2. /\ ctxs' = ctxs \ eraseTasks /\ UNCHANGED <<users, joinOrder, roster>>
        /\ seat' = [d \in Conns |-> IF d \in eraseTasks THEN None ELSE seat[d]]
    BY <1>7 DEF MgmtRound, RunTasks, Silent
  <2> QED BY <2>1, <2>2, OthersAnnounce DEF Joined, Writable
<1>8. CASE HeartbeatScan \/ LoopBoundary
  BY <1>1, <1>8 DEF HeartbeatScan, LoopBoundary, Tcp!CloseConnections, Tcp!CloseRequests, Tcp!LoopInit,
                    Tcp!BindAndListen, Tcp!LoopEnd, Silent, roomVars, hostVars
<1>9. CASE KickClose
  BY <1>1, <1>9 DEF KickClose, Tcp!Unpin, Tcp!CloseConnections, Tcp!CloseRequests, Silent, roomVars,
                    hostVars
<1>10. CASE \/ \E r \in Rooms, u \in Users : KickLookup(r, u) \/ ApiSend(r, "UNICAST", {u})
            \/ \E r \in Rooms : ApiSend(r, "BROADCAST", Users)
            \/ UNCHANGED vars
  BY <1>1, <1>10 DEF KickLookup, ApiSend, Silent, vars, tcpVars, hostVars, roomVars
<1>11. CASE StartRun \/ StartPost \/ StopPost \/ StopServer
  BY <1>1, <1>11 DEF StartRun, StartPost, StopPost, StopServer, ApiStep, Tcp!AsyncRun, Tcp!Post,
                     Tcp!Stop, Silent, roomVars
<1> QED BY <1>3, <1>4, <1>5, <1>6, <1>7, <1>8, <1>9, <1>10, <1>11 DEF Next, LoopStep, ApiCall

\* At first there is nobody to tell.
LEMMA InitAnnounced == Init => Announced
<1> SUFFICES ASSUME Init PROVE Announced
  OBVIOUS
<1>1. \A r \in Rooms : Members(r) = {} /\ joinOrder[r] = <<>>
  BY DEF Init, Members
<1>2. JoinOrderLists
  BY <1>1 DEF JoinOrderLists
<1>3. \A c \in Conns : ~Joined(c)
  BY DEF Init, Joined
<1> QED BY <1>2, <1>3 DEF Announced, Told

\* Announced holds always.
LEMMA AnnouncedAlways == Spec => []Announced
<1>1. Init => TypeOK /\ Core /\ Announced
  BY InitType, InitCore, InitAnnounced
<1>2. TypeOK /\ Core /\ Announced /\ [Next]_vars => (TypeOK /\ Core /\ Announced)'
  BY TypeStep, CoreStep, AnnouncedStep
<1> QED BY <1>1, <1>2, PTL DEF Spec

\* join_order_ lists each member of its room once and nobody else, so the member
\* asked for the full data is one who is there.
THEOREM OrderCorrect == Spec => []JoinOrderLists
<1>1. Announced => JoinOrderLists
  BY DEF Announced
<1> QED BY <1>1, AnnouncedAlways, PTL

\* Every member whose connection is not closing has been told of exactly the
\* members that joined after it and are still there, for any number of them.
THEOREM RosterCorrect == Spec => []RosterExact
<1>1. Announced => RosterExact
  BY AnnouncedMeans
<1> QED BY <1>1, AnnouncedAlways, PTL

\* Only HandleJoin asks a member for the full data.
LEMMA OnlyJoinAsks ==
    ASSUME Next, NEW m \in out', m.kind = "REQUEST_DATA"
    PROVE  \E c \in Conns, r \in Rooms, u \in Users : Join(c, r, u)
<1>1. ASSUME NEW r, NEW us, NEW kind, NEW u, out' = BroadcastTo(r, us, kind, u)
      PROVE  kind = "REQUEST_DATA"
  BY <1>1 DEF BroadcastTo, Message
<1>2. ASSUME NEW c \in Conns, RemoveUserFromRoom(c) PROVE FALSE
  BY <1>1, <1>2 DEF RemoveUserFromRoom, RemoveJoined, Silent
<1>3. ASSUME NEW c \in Conns, Handler(c) PROVE \E r \in Rooms, u \in Users : Join(c, r, u)
  <2>1. CASE Leave(c)
    BY <1>2, <2>1 DEF Leave
  <2>2. CASE Ping(c)
    BY <2>2 DEF Ping, Message
  <2>3. CASE RelayBroadcast(c) \/ \E v \in Users : RelayUnicast(c, v)
    BY <1>1, <2>3 DEF RelayBroadcast, RelayUnicast, Relay
  <2>4. CASE IgnoredFrame(c) \/ \E r \in Rooms, u \in Users : JoinRefused(c, r, u)
    BY <2>4 DEF IgnoredFrame, JoinRefused, Silent
  <2> QED BY <1>3, <2>1, <2>2, <2>3, <2>4 DEF Handler
<1>4. CASE LoopStep
  <2>1. ASSUME NEW c \in Conns, Accept(c) \/ PeerGone(c) \/ DoClose(c) PROVE FALSE
    BY <2>1 DEF Accept, PeerGone, DoClose, Silent
  <2>2. ASSUME NEW c \in Conns, OnClose(c) PROVE FALSE
    BY <1>2, <2>2 DEF OnClose
  <2>3. ~(MgmtRound \/ HeartbeatScan \/ LoopBoundary)
    BY DEF MgmtRound, HeartbeatScan, LoopBoundary, Silent
  <2> QED BY <1>3, <1>4, <2>1, <2>2, <2>3 DEF LoopStep
<1>5. CASE ApiCall
  <2>1. ASSUME NEW r \in Rooms, NEW kind, NEW us, ApiSend(r, kind, us) PROVE kind = "REQUEST_DATA"
    BY <1>1, <2>1 DEF ApiSend
  <2>2. ASSUME NEW r \in Rooms, NEW u \in Users, KickLookup(r, u) PROVE FALSE
    BY <2>2 DEF KickLookup, Silent
  <2>3. ~(KickClose \/ StartRun \/ StartPost \/ StopPost \/ StopServer)
    BY DEF KickClose, StartRun, StartPost, StopPost, StopServer, ApiStep, Silent
  <2> QED BY <1>5, <2>1, <2>2, <2>3 DEF ApiCall
<1>6. ASSUME NEW c \in Conns, Age(c) PROVE FALSE
  BY <1>6 DEF Age, Silent
<1> QED BY <1>4, <1>5, <1>6 DEF Next

\* Whoever stands first has everybody else behind it.
LEMMA FirstSeesAll ==
    ASSUME NEW s \in Seq(Users), NEW S \in SUBSET Users, Lists(s, S), s # <<>>
    PROVE  /\ Head(s) \in S
           /\ Behind(s, Head(s)) = S \ {Head(s)}
<1>1. Len(s) \in Nat \ {0} /\ DOMAIN s = 1 .. Len(s) /\ Head(s) = s[1]
  BY LenProperties, EmptySeq, HeadTailProperties
<1>2. \A k \in DOMAIN s : s[k] \in Users
  BY ElementOfSeq
<1>3. Head(s) \in S
  BY <1>1, <1>2 DEF Lists
<1>4. ASSUME NEW v \in S \ {Head(s)} PROVE v \in Behind(s, Head(s))
  <2>1. PICK k \in DOMAIN s : s[k] = v
    BY DEF Lists
  <2>2. 1 \in DOMAIN s /\ 1 < k
    BY <1>1, <2>1
  <2> QED BY <1>1, <2>1, <2>2 DEF Behind
<1>5. ASSUME NEW v \in Behind(s, Head(s)) PROVE v \in S \ {Head(s)}
  <2>1. PICK k \in DOMAIN s, i \in DOMAIN s : v = s[k] /\ s[i] = Head(s) /\ i < k
    BY DEF Behind
  <2>2. v \in S
    BY <1>2, <2>1 DEF Lists
  <2>3. v # Head(s)
    BY <1>1, <2>1 DEF Lists
  <2> QED BY <2>2, <2>3
<1> QED BY <1>3, <1>4, <1>5

\* The member a join asks stands first, and has been told of all others.
LEMMA JoinAsksTheFirst ==
    ASSUME TypeOK, Core, Announced, NEW c \in Conns, NEW r \in Rooms, NEW u \in Users,
           Join(c, r, u), NEW m \in out', m.kind = "REQUEST_DATA"
    PROVE  /\ Joined(m.to)'
           /\ m.about \in roster'[m.to]
           /\ roster'[m.to] = (Members(RoomOf(m.to)) \ {UserOf(m.to)})'
<1>1. Members(r) # {} /\ m \in UnicastTo(r, Oldest(r), "REQUEST_DATA", u)
  BY DEF Join, BroadcastTo, Message
<1>2. PICK o \in Members(r) : /\ o = Oldest(r) /\ Writable(users[r][o])
                             /\ m = Message(users[r][o], "REQUEST_DATA", u)
  BY <1>1 DEF UnicastTo, BroadcastTo
<1>3. o \in Users /\ users[r][o] # None
  BY <1>2 DEF Members
<1>4. PICK d \in Conns : d = users[r][o]
  BY <1>3 DEF TypeOK
<1>5. d \in ctxs /\ seat[d] = <<r, o>> /\ <<r, o>> # None
  BY <1>2, <1>3, <1>4, NoneIsNew DEF Core, MembersSeated
<1>6. Joined(d) /\ m.to = d /\ m.about = u /\ Writable(d) /\ d # c
  BY <1>2, <1>4, <1>5 DEF Message, Join, Joined
<1>7. /\ users' = [users EXCEPT ![r][u] = c] /\ seat' = [seat EXCEPT ![c] = <<r, u>>]
      /\ joinOrder' = [joinOrder EXCEPT ![r] = Append(@, u)]
      /\ closeReq' = closeReq /\ ctxs' = ctxs /\ u \notin Members(r) /\ c # None
  BY NoneIsNew DEF Join, Receive, hostVars, tcpVars, AcceptsUser
<1>8. Joined(d)' /\ Writable(d)' /\ RoomOf(d)' = r /\ UserOf(d)' = o
  <2>1. seat'[d] = <<r, o>>
    BY <1>5, <1>6, <1>7 DEF TypeOK
  <2>2. Joined(d)' /\ Writable(d)'
    BY <1>5, <1>6, <1>7, <2>1 DEF Joined, Writable
  <2>3. RoomOf(d)' = r /\ UserOf(d)' = o
    BY <2>1 DEF RoomOf, UserOf
  <2> QED BY <2>2, <2>3
<1>9. /\ joinOrder[r] \in Seq(Users) /\ Members(r) \in SUBSET Users
      /\ Lists(joinOrder[r], Members(r)) /\ joinOrder[r] # <<>>
  <2>1. joinOrder[r] \in Seq(Users) /\ Members(r) \in SUBSET Users /\ Lists(joinOrder[r], Members(r))
    BY ListsEverywhere DEF Announced, TypeOK, Members
  <2>2. DOMAIN joinOrder[r] # {}
    BY <1>2, <1>3, <2>1 DEF Lists
  <2> QED BY <2>1, <2>2, EmptySeq
<1>10. Members(r)' = Members(r) \cup {u} /\ joinOrder'[r] = Append(joinOrder[r], u)
  BY <1>7 DEF Members, TypeOK
<1>11. Announced'
  BY JoinAnnounces
<1>12. PICK s \in Seq(Users), S \in SUBSET Users :
         s = joinOrder'[r] /\ S = Members(r)' /\ s = Append(joinOrder[r], u)
  <2>1. joinOrder'[r] \in Seq(Users)
    BY <1>9, <1>10, AppendProperties
  <2>2. Members(r)' \in SUBSET Users
    BY <1>9, <1>10
  <2> QED BY <1>10, <2>1, <2>2
<1>13. Lists(s, S) /\ s # <<>> /\ Head(s) = o
  <2>1. Lists(s, S)
    <3>1. \A q \in Rooms : Lists(joinOrder'[q], Members(q)')
      BY <1>11 DEF Announced, JoinOrderLists, Lists
    <3> QED BY <1>12, <3>1
  <2>2. s # <<>> /\ Head(s) = Head(joinOrder[r])
    BY <1>9, <1>12, AppendProperties, EmptySeq, LenProperties, HeadTailProperties
  <2> QED BY <1>2, <2>1, <2>2 DEF Oldest
<1>14. Behind(s, Head(s)) = S \ {Head(s)}
  BY ONLY <1>13, <1>12, FirstSeesAll
<1>15. roster'[d] = Members(r)' \ {o}
  <2>1. Told(d)'
    BY <1>11 DEF Announced
  <2>2. roster'[d] = Behind(joinOrder'[r], o)
    BY <1>8, <2>1 DEF Told
  <2> QED BY <1>12, <1>13, <1>14, <2>2
<1>16. u \in roster'[d]
  BY <1>2, <1>7, <1>10, <1>15
<1>17. /\ Joined(d)' /\ u \in roster'[d]
       /\ roster'[d] = (Members(RoomOf(d)) \ {UserOf(d)})'
  BY <1>8, <1>15, <1>16
<1> QED BY <1>6, <1>17

\* The member that is asked to send a newcomer the full data has been told, join
\* by join and leave by leave, of every other member of the room and of nobody
\* else, for any number of users, rooms and connections.
THEOREM AskedMemberKnows == Spec => AskedKnowsRoom
<1> DEFINE Knows == \A m \in out' : m.kind = "REQUEST_DATA" =>
                        /\ Joined(m.to)'
                        /\ m.about \in roster'[m.to]
                        /\ roster'[m.to] = (Members(RoomOf(m.to)) \ {UserOf(m.to)})'
<1>1. ASSUME TypeOK, Core, Announced, Next PROVE Knows
  BY <1>1, OnlyJoinAsks, JoinAsksTheFirst
<1>2. TypeOK /\ Core /\ Announced /\ [Next]_vars => [Knows]_vars
  BY <1>1
<1>3. Init => TypeOK /\ Core /\ Announced
  BY InitType, InitCore, InitAnnounced
<1>4. TypeOK /\ Core /\ Announced /\ [Next]_vars => (TypeOK /\ Core /\ Announced)'
  BY TypeStep, CoreStep, AnnouncedStep
<1> QED BY <1>2, <1>3, <1>4, PTL DEF Spec, AskedKnowsRoom
=============================================================================
