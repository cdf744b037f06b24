------------------------------ MODULE DataStream ------------------------------
(***************************************************************************)
(* DataStream: one user's way into a room, over connections that are lost  *)
(* and made again.                                                         *)
(*                                                                         *)
(* All of DataStream's state belongs to its api thread, a FIFO of the      *)
(* calls' bodies and of the tasks the TcpClient's loop callbacks post, so  *)
(* that a task may be overtaken by what happens on the loop.  Of TcpClient *)
(* the module keeps what decides which connection a frame goes to (state_, *)
(* connection_, the posted connect tasks; module TcpClient has the rest),  *)
(* of the server the place of this user (module RoomServer).               *)
(***************************************************************************)
EXTENDS Naturals, Sequences, FiniteSets

CONSTANTS
    MaxConns,   \* bound: connections made by the client
    MaxFrames   \* bound: frames on the way for which new calls are made

ASSUME BoundsAreNat == MaxConns \in Nat /\ MaxFrames \in Nat

VARIABLES
    tasks,      \* the queue of api_thread_
    calls,      \* API threads that wait for their call
    at,         \* JoinRoom is between isConnected and sendMessage
    joined,     \* joined_
    pending,    \* pending_join_
    alive,      \* progress of ~DataStream
    state,      \* TcpClient::state_
    current,    \* TcpClient::connection_, 0 for none
    owed,       \* a connect task has been posted to the client's loop
    announcing, \* the loop is in on_connection_connected, past the look at state_
    link,       \* life of each connection at the client
    asked,      \* connections asked to close and not yet closed, in that order
    uplink,     \* JOINs and LEAVEs written to each connection and not yet read
    served,     \* connections the server has
    seat,       \* the connection that holds the user's place, 0 for none
    refused,    \* history: connections whose JOIN found the place taken
    joinedOn,   \* history: where the last JOIN was written, 0 for none
    wish        \* history: "in" from a JoinRoom or its JOIN until the user leaves,
                \* is told of a failure or loses the connection; "wiped" once the
                \* notice about an earlier connection made the object forget it

apiVars == <<tasks, calls, at, joined, pending, alive>>
clientVars == <<state, current, owed, announcing, link, asked>>
serverVars == <<served, seat, refused>>
history == <<joinedOn, wish>>
vars == <<apiVars, clientVars, uplink, serverVars, history>>

Conns == 1 .. MaxConns
Owner == "owner"        \* connects, joins, leaves
Sender == "sender"      \* broadcasts: QtBoardData's data thread
Ops == {"Connect", "Disconnect", "Join", "Leave"}
Tasks == Ops \cup {"Send", "connected", "disconnected"}

TypeOK ==
    /\ tasks \in Seq(Tasks)
    /\ calls \in SUBSET {Owner, Sender}
    /\ at \in {"none", "joining"}
    /\ joined \in BOOLEAN /\ pending \in BOOLEAN
    /\ alive \in {"yes", "detached", "no"}
    /\ state \in {"Disconnected", "Connecting", "Connected"}
    /\ current \in Conns \cup {0} /\ seat \in Conns \cup {0} /\ joinedOn \in Conns \cup {0}
    /\ owed \in BOOLEAN /\ announcing \in BOOLEAN
    /\ link \in [Conns -> {"none", "connecting", "open", "closed"}]
    /\ asked \in Seq(Conns) /\ served \in SUBSET Conns /\ refused \in SUBSET Conns
    /\ uplink \in [Conns -> Seq({"JOIN", "LEAVE"})]
    /\ wish \in {"none", "in", "wiped"}

Init ==
    /\ tasks = <<>> /\ calls = {} /\ at = "none"
    /\ joined = FALSE /\ pending = FALSE /\ alive = "yes"
    /\ state = "Disconnected" /\ current = 0
    /\ owed = FALSE /\ announcing = FALSE
    /\ link = [c \in Conns |-> "none"] /\ asked = <<>>
    /\ uplink = [c \in Conns |-> <<>>]
    /\ served = {} /\ seat = 0 /\ refused = {} /\ joinedOn = 0 /\ wish = "none"
-----------------------------------------------------------------------------
(* The callers.                                                            *)

NextConn == CHOOSE c \in Conns : link[c] = "none"
OnTheWay == UNION {{c} \X DOMAIN uplink[c] : c \in Conns}
ConnsLeft == \E c \in Conns : link[c] = "none"

\* A call puts its body into the queue and waits.  Assumed of the owner: it
\* connects again only when the last connect task has run; what two of them at
\* once do to the client is module TcpClient's FreedAfterClosed.
Call(who, op) ==
    /\ alive = "yes" /\ who \notin calls
    /\ op \in {"Connect", "Join"} => ~owed /\ ConnsLeft
    /\ Cardinality(OnTheWay) < MaxFrames
    /\ calls' = calls \cup {who}
    /\ tasks' = Append(tasks, op)
    /\ UNCHANGED <<at, joined, pending, alive, clientVars, uplink, serverVars, history>>

\* ~DataStream, when no call is under way: the observer is removed, after which
\* the loop posts nothing ...
Detach ==
    /\ alive = "yes" /\ calls = {}
    /\ alive' = "detached"
    /\ UNCHANGED <<tasks, calls, at, joined, pending, clientVars, uplink, serverVars, history>>

\* ... the queue is cleared, and sync waits for the task that is running.  The
\* mutant frees the object without a look at the queue.
DestroyUncleared ==
    /\ alive = "detached" /\ at = "none"
    /\ alive' = "no"
    /\ UNCHANGED <<tasks, calls, at, joined, pending, clientVars, uplink, serverVars, history>>
Destroy ==
    /\ alive = "detached" /\ at = "none"
    /\ alive' = "no"
    /\ tasks' = <<>>
    /\ UNCHANGED <<calls, at, joined, pending, clientVars, uplink, serverVars, history>>
-----------------------------------------------------------------------------
(* What DataStream calls of TcpClient.                                     *)

\* close: a request is made once.
Asked(c) == \E i \in DOMAIN asked : asked[i] = c
AskClose(c) == asked' = IF c = 0 \/ Asked(c) \/ link[c] = "closed" THEN asked ELSE Append(asked, c)

\* connect: only a disconnected client posts a connect task.
ClientConnect ==
    /\ IF state = "Disconnected" THEN state' = "Connecting" /\ owed' = TRUE
                                 ELSE UNCHANGED <<state, owed>>
    /\ UNCHANGED <<current, link, asked, uplink>>

ClientDisconnect ==
    /\ state' = "Disconnected"
    /\ AskClose(current)
    /\ UNCHANGED <<current, owed, link, uplink>>

\* sendMessage: FALSE if there is nothing to write to.  A connection asked to
\* close drops the frame, one that is still connecting fails and is closed.  Data
\* changes nobody's place and is not kept.
CanSend == state = "Connected" /\ current # 0
Write(frame) ==
    /\ uplink' = IF Asked(current) \/ link[current] # "open" \/ frame = "DATA" THEN uplink
                 ELSE [uplink EXCEPT ![current] = Append(@, frame)]
    /\ IF link[current] = "connecting" THEN AskClose(current) ELSE UNCHANGED asked
    /\ UNCHANGED <<state, current, owed, link>>
NoWrite == UNCHANGED <<clientVars, uplink>>
-----------------------------------------------------------------------------
(* The tasks of the api thread.                                            *)

Done(who) == calls' = calls \ {who}

DoConnect ==
    /\ ClientConnect
    /\ Done(Owner)
    /\ UNCHANGED <<at, joined, pending, history>>

DoDisconnect ==
    /\ joined' = FALSE /\ pending' = FALSE
    /\ wish' = "none"
    /\ ClientDisconnect
    /\ Done(Owner)
    /\ UNCHANGED <<at, joinedOn>>

\* JoinRoom up to the look at isConnected: a client that is not connected is made
\* to, and on_connected sends the JOIN.  The mutant leaves connecting to others.
DoJoinPassive ==
    /\ pending' = (pending \/ ~joined)
    /\ at' = IF ~joined /\ state = "Connected" THEN "joining" ELSE "none"
    /\ calls' = IF at' = "joining" THEN calls ELSE calls \ {Owner}
    /\ wish' = IF joined THEN wish ELSE "in"
    /\ NoWrite
    /\ UNCHANGED <<joined, joinedOn>>
DoJoin ==
    \/ /\ joined
       /\ NoWrite /\ Done(Owner)
       /\ UNCHANGED <<at, joined, pending, history>>
    \/ /\ ~joined /\ state # "Connected"
       /\ pending' = TRUE /\ wish' = "in"
       /\ ClientConnect /\ Done(Owner)
       /\ UNCHANGED <<at, joined, joinedOn>>
    \/ /\ ~joined /\ state = "Connected"
       /\ pending' = TRUE /\ wish' = "in"
       /\ at' = "joining"
       /\ NoWrite
       /\ UNCHANGED <<calls, joined, joinedOn>>

\* The JOIN itself, from JoinRoom and from on_connected.
SendJoin ==
    IF CanSend
    THEN /\ Write("JOIN")
         /\ joined' = TRUE /\ pending' = FALSE
         /\ joinedOn' = current
    ELSE NoWrite /\ UNCHANGED <<joined, pending, joinedOn>>

\* LeaveRoom: whether the LEAVE could be sent or not, the user is out.  The
\* mutant keeps quiet towards the server.
DoLeaveSilent ==
    /\ joined' = FALSE /\ pending' = IF joined THEN FALSE ELSE pending
    /\ wish' = IF joined THEN "none" ELSE wish
    /\ NoWrite
    /\ Done(Owner)
    /\ UNCHANGED <<at, joinedOn>>
DoLeave ==
    /\ joined' = FALSE /\ pending' = IF joined THEN FALSE ELSE pending
    /\ wish' = IF joined THEN "none" ELSE wish
    /\ IF joined /\ CanSend THEN Write("LEAVE") ELSE NoWrite
    /\ Done(Owner)
    /\ UNCHANGED <<at, joinedOn>>

\* Broadcast, and Unicast alike.
DoSend ==
    /\ IF joined /\ CanSend THEN Write("DATA") ELSE NoWrite
    /\ Done(Sender)
    /\ UNCHANGED <<at, joined, pending, history>>

OnConnected ==
    /\ IF pending THEN SendJoin ELSE NoWrite /\ UNCHANGED <<joined, pending, joinedOn>>
    /\ wish' = IF pending /\ CanSend THEN "in" ELSE wish
    /\ UNCHANGED <<calls, at>>

\* The mutant only forgets what was pending.
OnDisconnectedKeeping ==
    /\ pending' = FALSE
    /\ NoWrite
    /\ UNCHANGED <<calls, at, joined, history>>
OnDisconnected ==
    /\ joined' = FALSE /\ pending' = FALSE
    /\ wish' = IF wish = "in" THEN "wiped" ELSE wish
    /\ NoWrite
    /\ UNCHANGED <<calls, at, joinedOn>>

RunTask ==
    /\ alive # "no" /\ at = "none" /\ tasks # <<>>
    /\ tasks' = Tail(tasks)
    /\ \/ Head(tasks) = "Connect" /\ DoConnect
       \/ Head(tasks) = "Disconnect" /\ DoDisconnect
       \/ Head(tasks) = "Join" /\ DoJoin
       \/ Head(tasks) = "Leave" /\ DoLeave
       \/ Head(tasks) = "Send" /\ DoSend
       \/ Head(tasks) = "connected" /\ OnConnected
       \/ Head(tasks) = "disconnected" /\ OnDisconnected
    /\ UNCHANGED <<alive, announcing, serverVars>>

JoinSend ==
    /\ at = "joining"
    /\ at' = "none"
    /\ SendJoin
    /\ wish' = IF CanSend THEN "in" ELSE "none"
    /\ Done(Owner)
    /\ UNCHANGED <<tasks, alive, announcing, serverVars>>
-----------------------------------------------------------------------------
(* The client's loop thread.                                               *)

Post(task) == tasks' = IF alive = "yes" THEN Append(tasks, task) ELSE tasks
otherApi == <<calls, at, joined, pending, alive>>

\* The connect task: a client that still wants it gets a new connection.
RunConnect ==
    /\ ~announcing /\ owed /\ ConnsLeft
    /\ owed' = FALSE
    /\ IF state = "Connecting"
       THEN current' = NextConn /\ link' = [link EXCEPT ![NextConn] = "connecting"]
       ELSE UNCHANGED <<current, link>>
    /\ UNCHANGED <<apiVars, state, announcing, asked, uplink, serverVars, history>>

\* on_connection_connected, of whichever connection: the look at state_ ...
Opened(c) ==
    /\ ~announcing /\ link[c] = "connecting"
    /\ link' = [link EXCEPT ![c] = "open"]
    /\ served' = served \cup {c}
    /\ announcing' = (state = "Connecting")
    /\ IF state = "Connecting" THEN UNCHANGED asked ELSE AskClose(c)
    /\ UNCHANGED <<apiVars, state, current, owed, uplink, seat, refused, history>>

\* ... and the rest, whatever a disconnect and a connect have made of state_ meanwhile.
Announce ==
    /\ announcing
    /\ announcing' = FALSE
    /\ state' = "Connected"
    /\ Post("connected")
    /\ UNCHANGED <<otherApi, current, owed, link, asked, uplink, serverVars, history>>

\* The connection cannot be made, breaks, or is found dead by the heartbeat; the
\* last frames written may not have left.
LoseTail(c) == \E n \in 0 .. Len(uplink[c]) : uplink' = [uplink EXCEPT ![c] = SubSeq(@, 1, n)]
LinkLost(c) ==
    /\ ~announcing /\ link[c] \in {"connecting", "open"} /\ ~Asked(c)
    /\ AskClose(c)
    /\ LoseTail(c)
    /\ UNCHANGED <<apiVars, state, current, owed, announcing, link, serverVars, history>>

\* on_connection_closed: only the current connection is reported.  The mutant
\* tells nobody.
ReportNothing(c) ==
    IF c = current
    THEN current' = 0 /\ state' = "Disconnected" /\ UNCHANGED tasks
    ELSE UNCHANGED <<current, state, tasks>>
ReportIfCurrent(c) ==
    IF c = current
    THEN current' = 0 /\ state' = "Disconnected" /\ Post("disconnected")
    ELSE UNCHANGED <<current, state, tasks>>

Closed(c) ==
    /\ ~announcing /\ asked # <<>> /\ c = Head(asked)
    /\ asked' = Tail(asked)
    /\ link' = [link EXCEPT ![c] = "closed"]
    /\ LoseTail(c)
    /\ ReportIfCurrent(c)
    /\ wish' = IF c = current THEN "none" ELSE wish
    /\ UNCHANGED <<otherApi, owed, announcing, serverVars, joinedOn>>
-----------------------------------------------------------------------------
(* The server's loop thread.                                               *)

\* HandleJoin and HandleLeave for this user.
ServerFrame(c) ==
    /\ c \in served /\ uplink[c] # <<>>
    /\ uplink' = [uplink EXCEPT ![c] = Tail(@)]
    /\ \/ /\ Head(uplink[c]) = "JOIN"
          /\ seat' = IF seat = 0 THEN c ELSE seat
          /\ refused' = IF seat \in {0, c} THEN refused ELSE refused \cup {c}
       \/ /\ Head(uplink[c]) = "LEAVE"
          /\ seat' = IF seat = c THEN 0 ELSE seat
          /\ UNCHANGED refused
    /\ UNCHANGED <<apiVars, clientVars, served, history>>

\* on_connection_closed at the server: at the end of the stream, or whenever the
\* heartbeat, KickUser or an error asks for it.
ServerCloses(c) ==
    /\ c \in served
    /\ served' = served \ {c}
    /\ seat' = IF seat = c THEN 0 ELSE seat
    /\ uplink' = [uplink EXCEPT ![c] = <<>>]
    /\ UNCHANGED <<apiVars, clientVars, refused, history>>
ServerEof(c) == link[c] = "closed" /\ uplink[c] = <<>> /\ ServerCloses(c)

Next ==
    \/ \E op \in Ops : Call(Owner, op)
    \/ Call(Sender, "Send")
    \/ Detach \/ Destroy \/ RunTask \/ JoinSend \/ RunConnect \/ Announce
    \/ \E c \in Conns : Opened(c) \/ LinkLost(c) \/ Closed(c) \/ ServerFrame(c) \/ ServerCloses(c)

Spec == Init /\ [][Next]_vars

\* Posted tasks run; an attempt to connect ends; a connection asked to close is
\* closed, and one whose server side is gone is found out (EOF or heartbeat); the
\* server reads what arrives.
Fairness ==
    /\ WF_vars(RunTask) /\ WF_vars(JoinSend) /\ WF_vars(RunConnect) /\ WF_vars(Announce)
    /\ \A c \in Conns :
          /\ WF_vars(Opened(c) \/ (link[c] = "connecting" /\ LinkLost(c)))
          /\ WF_vars(Closed(c)) /\ WF_vars(ServerFrame(c)) /\ WF_vars(ServerEof(c))
          /\ WF_vars(link[c] = "open" /\ c \notin served /\ LinkLost(c))

FairSpec == Spec /\ Fairness
-----------------------------------------------------------------------------
Queued(task) == \E i \in DOMAIN tasks : tasks[i] = task

\* A client that believes it has joined wrote its JOIN on the very connection its
\* frames go to now, or the notice that this connection ended is in the queue.
JoinedOnCurrent ==
    (joined /\ alive = "yes") =>
        Queued("disconnected") \/ (current # 0 /\ current = joinedOn)

\* A user who has left, or whose connection is gone, leaves no place behind: the
\* connection that holds one is closing, or its LEAVE is on the way.
NoGhost ==
    (wish = "none" /\ seat # 0) =>
        \/ Asked(seat) \/ link[seat] = "closed"
        \/ \E i \in DOMAIN uplink[seat] : uplink[seat][i] = "LEAVE"

\* No task of the api thread runs on an object that is gone.
NothingLeft == alive = "no" => tasks = <<>> /\ at = "none" /\ calls = {}

\* A user who asked for a room and whose connection lasts gets its JOIN sent, also
\* when JoinRoom came before the connection, unless the notice about an earlier
\* connection, late in the queue, has made the object forget the request.
JoinSent == (wish = "in") ~> (joined \/ wish # "in" \/ alive # "yes")

\* A client that believes it has joined gets its place, or learns that it has not;
\* but a JOIN the server refuses, since an earlier connection still holds the
\* user's place, is answered by nobody.
JoinedIsSeated ==
    joined ~> (~joined \/ (seat # 0 /\ seat = joinedOn) \/ joinedOn \in refused \/ alive # "yes")

\* What the comment in JoinRoom says, "once connected, on_connected sends the JOIN":
\* the notice that the connection is up sends the JOIN of a user who asked for a room
\* and has not lost a connection since, unless it has been written already.
OnConnectedJoins ==
    [][(RunTask /\ Head(tasks) = "connected" /\ wish # "none" /\ CanSend /\ joinedOn # current)
          => joined']_vars
=============================================================================
