--------------------------- MODULE DataStreamProofs ---------------------------
(***************************************************************************)
(* For any number of connections: the types of DataStream, that a user who *)
(* believes to be in the room wrote the JOIN on the connection in use, and *)
(* that nothing of the api thread outlives the object.                     *)
(***************************************************************************)
EXTENDS DataStream, TLAPS

USE DEF Tasks, Ops, Owner, Sender

(* close keeps the list of requests well-typed.                            *)
LEMMA AskCloseTyped ==
    ASSUME TypeOK, NEW c \in Conns \cup {0}, AskClose(c)
    PROVE  asked' \in Seq(Conns)
BY DEF AskClose, TypeOK

(* sendMessage does, and only the lists it writes to change.               *)
LEMMA WriteTyped ==
    ASSUME TypeOK, CanSend, NEW frame \in {"JOIN", "LEAVE", "DATA"}, Write(frame)
    PROVE  /\ asked' \in Seq(Conns)
           /\ uplink' \in [Conns -> Seq({"JOIN", "LEAVE"})]
           /\ UNCHANGED <<state, current, owed, link>>
<1>1. current \in Conns
  BY DEF TypeOK, CanSend
<1>2. asked' \in Seq(Conns)
  <2>1. CASE link[current] = "connecting"
    BY <1>1, <2>1, AskCloseTyped DEF Write
  <2>2. CASE link[current] # "connecting"
    BY <2>2 DEF Write, TypeOK
  <2> QED BY <2>1, <2>2
<1>3. uplink' \in [Conns -> Seq({"JOIN", "LEAVE"})]
  <2>1. CASE Asked(current) \/ link[current] # "open" \/ frame = "DATA"
    BY <2>1 DEF Write, TypeOK
  <2>2. CASE ~(Asked(current) \/ link[current] # "open" \/ frame = "DATA")
    <3>1. frame \in {"JOIN", "LEAVE"}
      BY <2>2
    <3>2. uplink[current] \in Seq({"JOIN", "LEAVE"})
      BY <1>1 DEF TypeOK
    <3>3. Append(uplink[current], frame) \in Seq({"JOIN", "LEAVE"})
      BY <3>1, <3>2
    <3>4. uplink' = [uplink EXCEPT ![current] = Append(uplink[current], frame)]
      BY <2>2 DEF Write
    <3> QED BY <3>3, <3>4 DEF TypeOK
  <2> QED BY <2>1, <2>2
<1> QED BY <1>2, <1>3 DEF Write

(* Frames that are lost do not change the type of those that remain.       *)
LEMMA LoseTailTyped ==
    ASSUME TypeOK, NEW c \in Conns, LoseTail(c)
    PROVE  uplink' \in [Conns -> Seq({"JOIN", "LEAVE"})]
<1>1. PICK n \in 0 .. Len(uplink[c]) : uplink' = [uplink EXCEPT ![c] = SubSeq(@, 1, n)]
  BY DEF LoseTail
<1>2. uplink[c] \in Seq({"JOIN", "LEAVE"})
  BY DEF TypeOK
<1>3. SubSeq(uplink[c], 1, n) \in Seq({"JOIN", "LEAVE"})
  BY <1>2
<1> QED BY <1>1, <1>3 DEF TypeOK

(* A task posted by the loop is one of the queue's.                        *)
LEMMA PostTyped ==
    ASSUME TypeOK, NEW task \in Tasks, Post(task)
    PROVE  tasks' \in Seq(Tasks)
BY DEF Post, TypeOK

(* While a connection is left there is a next one.                         *)
LEMMA FreshConn ==
    ASSUME ConnsLeft
    PROVE  NextConn \in Conns
BY DEF ConnsLeft, NextConn

(* What a task of the api thread may change keeps its type.                *)
ApiTyped ==
    /\ calls' \in SUBSET {Owner, Sender}
    /\ at' \in {"none", "joining"}
    /\ joined' \in BOOLEAN /\ pending' \in BOOLEAN
    /\ state' \in {"Disconnected", "Connecting", "Connected"}
    /\ current' = current /\ link' = link
    /\ joinedOn' \in Conns \cup {0}
    /\ owed' \in BOOLEAN
    /\ asked' \in Seq(Conns)
    /\ uplink' \in [Conns -> Seq({"JOIN", "LEAVE"})]
    /\ wish' \in {"none", "in", "wiped"}

\* SendJoin keeps the types it touches.
LEMMA SendJoinTyped ==
    ASSUME TypeOK, SendJoin
    PROVE  /\ asked' \in Seq(Conns)
           /\ uplink' \in [Conns -> Seq({"JOIN", "LEAVE"})]
           /\ joined' \in BOOLEAN /\ pending' \in BOOLEAN /\ joinedOn' \in Conns \cup {0}
           /\ UNCHANGED <<state, current, owed, link>>
<1>1. CASE CanSend
  <2>1. Write("JOIN")
    BY <1>1 DEF SendJoin
  <2> QED BY <1>1, <2>1, WriteTyped DEF SendJoin, TypeOK
<1>2. CASE ~CanSend
  BY <1>2 DEF SendJoin, NoWrite, clientVars, TypeOK
<1> QED BY <1>1, <1>2

\* So does every task of the api thread.
LEMMA TaskTyped ==
    ASSUME TypeOK,
           DoConnect \/ DoDisconnect \/ DoJoin \/ DoLeave \/ DoSend \/ OnConnected \/ OnDisconnected
    PROVE  ApiTyped
<1>1. CASE DoConnect
  BY <1>1 DEF DoConnect, ClientConnect, Done, history, ApiTyped, TypeOK
<1>2. CASE DoDisconnect
  BY <1>2, AskCloseTyped DEF DoDisconnect, ClientDisconnect, Done, ApiTyped, TypeOK
<1>3. CASE DoJoin
  BY <1>3 DEF DoJoin, ClientConnect, NoWrite, Done, clientVars, history, ApiTyped, TypeOK
<1>4. CASE DoLeave
  <2>1. CASE joined /\ CanSend
    <3>1. Write("LEAVE")
      BY <1>4, <2>1 DEF DoLeave
    <3>2. /\ asked' \in Seq(Conns)
          /\ uplink' \in [Conns -> Seq({"JOIN", "LEAVE"})]
          /\ UNCHANGED <<state, current, owed, link>>
      BY <2>1, <3>1, WriteTyped
    <3> QED BY <1>4, <3>2 DEF DoLeave, Done, ApiTyped, TypeOK
  <2>2. CASE ~(joined /\ CanSend)
    BY <1>4, <2>2 DEF DoLeave, NoWrite, Done, clientVars, ApiTyped, TypeOK
  <2> QED BY <2>1, <2>2
<1>5. CASE DoSend
  <2>1. CASE joined /\ CanSend
    <3>1. Write("DATA")
      BY <1>5, <2>1 DEF DoSend
    <3>2. /\ asked' \in Seq(Conns)
          /\ uplink' \in [Conns -> Seq({"JOIN", "LEAVE"})]
          /\ UNCHANGED <<state, current, owed, link>>
      BY <2>1, <3>1, WriteTyped
    <3> QED BY <1>5, <3>2 DEF DoSend, Done, history, ApiTyped, TypeOK
  <2>2. CASE ~(joined /\ CanSend)
    BY <1>5, <2>2 DEF DoSend, NoWrite, Done, clientVars, history, ApiTyped, TypeOK
  <2> QED BY <2>1, <2>2
<1>6. CASE OnConnected
  <2>1. CASE pending
    <3>1. SendJoin
      BY <1>6, <2>1 DEF OnConnected
    <3> QED BY <1>6, <3>1, SendJoinTyped DEF OnConnected, ApiTyped, TypeOK
  <2>2. CASE ~pending
    BY <1>6, <2>2 DEF OnConnected, NoWrite, clientVars, ApiTyped, TypeOK
  <2> QED BY <2>1, <2>2
<1>7. CASE OnDisconnected
  BY <1>7 DEF OnDisconnected, NoWrite, clientVars, ApiTyped, TypeOK
<1> QED BY <1>1, <1>2, <1>3, <1>4, <1>5, <1>6, <1>7
-----------------------------------------------------------------------------
(* Every step of DataStream, of the client and of the server keeps the types. *)
LEMMA TypeStep == TypeOK /\ [Next]_vars => TypeOK'
<1> SUFFICES ASSUME TypeOK, [Next]_vars PROVE TypeOK'
  OBVIOUS
<1>1. ASSUME NEW op \in Ops, Call(Owner, op) PROVE TypeOK'
  <2>1. op \in Tasks
    OBVIOUS
  <2>2. tasks' \in Seq(Tasks)
    BY <1>1, <2>1 DEF Call, TypeOK
  <2> QED BY <1>1, <2>2 DEF Call, clientVars, serverVars, history, TypeOK
<1>2. CASE Call(Sender, "Send")
  <2>1. tasks' \in Seq(Tasks)
    BY <1>2 DEF Call, TypeOK
  <2> QED BY <1>2, <2>1 DEF Call, clientVars, serverVars, history, TypeOK
<1>3. CASE Detach
  BY <1>3 DEF Detach, clientVars, serverVars, history, TypeOK
<1>4. CASE Destroy
  BY <1>4 DEF Destroy, clientVars, serverVars, history, TypeOK
<1>5. CASE RunTask
  <2>1. DoConnect \/ DoDisconnect \/ DoJoin \/ DoLeave \/ DoSend \/ OnConnected \/ OnDisconnected
    BY <1>5 DEF RunTask
  <2>2. ApiTyped
    BY <2>1, TaskTyped
  <2>3. tasks' \in Seq(Tasks)
    BY <1>5 DEF RunTask, TypeOK
  <2>4. UNCHANGED <<alive, announcing, served, seat, refused>>
    BY <1>5 DEF RunTask, serverVars
  <2> QED BY <2>2, <2>3, <2>4 DEF ApiTyped, TypeOK
<1>6. CASE JoinSend
  <2>1. SendJoin
    BY <1>6 DEF JoinSend
  <2>2. calls' \in SUBSET {Owner, Sender} /\ at' = "none" /\ wish' \in {"none", "in", "wiped"}
    BY <1>6 DEF JoinSend, Done, TypeOK
  <2>3. UNCHANGED <<tasks, alive, announcing, served, seat, refused>>
    BY <1>6 DEF JoinSend, serverVars
  <2> QED BY <2>1, <2>2, <2>3, SendJoinTyped DEF TypeOK
<1>7. CASE RunConnect
  <2>1. owed' = FALSE
    BY <1>7 DEF RunConnect
  <2>2. CASE state = "Connecting"
    <3>1. NextConn \in Conns
      BY <1>7, FreshConn DEF RunConnect
    <3> QED BY <1>7, <2>1, <2>2, <3>1 DEF RunConnect, apiVars, serverVars, history, TypeOK
  <2>3. CASE state # "Connecting"
    BY <1>7, <2>1, <2>3 DEF RunConnect, apiVars, serverVars, history, TypeOK
  <2> QED BY <2>2, <2>3
<1>8. ASSUME NEW c \in Conns, Opened(c) PROVE TypeOK'
  <2>1. asked' \in Seq(Conns)
    BY <1>8, AskCloseTyped DEF Opened, TypeOK
  <2>2. announcing' \in BOOLEAN
    BY <1>8 DEF Opened
  <2> QED BY <1>8, <2>1, <2>2 DEF Opened, apiVars, history, TypeOK
<1>14. CASE Announce
  <2>1. tasks' \in Seq(Tasks)
    BY <1>14, PostTyped DEF Announce
  <2> QED BY <1>14, <2>1 DEF Announce, otherApi, serverVars, history, TypeOK
<1>9. ASSUME NEW c \in Conns, LinkLost(c) PROVE TypeOK'
  <2>1. asked' \in Seq(Conns)
    BY <1>9, AskCloseTyped DEF LinkLost
  <2>2. uplink' \in [Conns -> Seq({"JOIN", "LEAVE"})]
    BY <1>9, LoseTailTyped DEF LinkLost
  <2> QED BY <1>9, <2>1, <2>2 DEF LinkLost, apiVars, serverVars, history, TypeOK
<1>10. ASSUME NEW c \in Conns, Closed(c) PROVE TypeOK'
  <2>1. asked' \in Seq(Conns)
    BY <1>10 DEF Closed, TypeOK
  <2>2. uplink' \in [Conns -> Seq({"JOIN", "LEAVE"})]
    BY <1>10, LoseTailTyped DEF Closed
  <2>3. /\ tasks' \in Seq(Tasks)
        /\ state' \in {"Disconnected", "Connecting", "Connected"}
        /\ current' \in Conns \cup {0}
    <3>1. CASE c = current
      BY <1>10, <3>1, PostTyped DEF Closed, ReportIfCurrent
    <3>2. CASE c # current
      BY <1>10, <3>2 DEF Closed, ReportIfCurrent, TypeOK
    <3> QED BY <3>1, <3>2
  <2>4. wish' \in {"none", "in", "wiped"}
    BY <1>10 DEF Closed, TypeOK
  <2>5. link' \in [Conns -> {"none", "connecting", "open", "closed"}]
    BY <1>10 DEF Closed, TypeOK
  <2> QED BY <1>10, <2>1, <2>2, <2>3, <2>4, <2>5 DEF Closed, otherApi, serverVars, TypeOK
<1>11. ASSUME NEW c \in Conns, ServerFrame(c) PROVE TypeOK'
  <2>1. uplink' \in [Conns -> Seq({"JOIN", "LEAVE"})]
    <3>1. Tail(uplink[c]) \in Seq({"JOIN", "LEAVE"})
      BY <1>11 DEF ServerFrame, TypeOK
    <3> QED BY <1>11, <3>1 DEF ServerFrame, TypeOK
  <2> QED BY <1>11, <2>1 DEF ServerFrame, apiVars, clientVars, history, TypeOK
<1>12. ASSUME NEW c \in Conns, ServerCloses(c) PROVE TypeOK'
  <2>1. uplink' \in [Conns -> Seq({"JOIN", "LEAVE"})]
    BY <1>12 DEF ServerCloses, TypeOK
  <2> QED BY <1>12, <2>1 DEF ServerCloses, apiVars, clientVars, history, TypeOK
<1>13. CASE UNCHANGED vars
  BY <1>13 DEF vars, apiVars, clientVars, serverVars, history, TypeOK
<1> QED BY <1>1, <1>2, <1>3, <1>4, <1>5, <1>6, <1>7, <1>8, <1>9, <1>10, <1>11, <1>12, <1>13, <1>14 DEF Next

(* The variables of DataStream keep their types, whatever the number of     *)
(* connections.                                                            *)
THEOREM TypeCorrect == Spec => []TypeOK
<1>1. ASSUME Init PROVE TypeOK
  <2>1. uplink \in [Conns -> Seq({"JOIN", "LEAVE"})]
    <3>1. <<>> \in Seq({"JOIN", "LEAVE"})
      OBVIOUS
    <3> QED BY <1>1, <3>1 DEF Init
  <2>2. tasks \in Seq(Tasks) /\ asked \in Seq(Conns)
    BY <1>1 DEF Init
  <2>3. link \in [Conns -> {"none", "connecting", "open", "closed"}]
    BY <1>1 DEF Init
  <2> QED BY <1>1, <2>1, <2>2, <2>3 DEF Init, TypeOK
<1> QED BY <1>1, TypeStep, PTL DEF Spec
-----------------------------------------------------------------------------

(* A task that waits behind the first is still there when that one is done. *)
LEMMA StillQueued ==
    ASSUME TypeOK, NEW task, Queued(task), tasks # <<>>, Head(tasks) # task
    PROVE  \E i \in DOMAIN Tail(tasks) : Tail(tasks)[i] = task
<1>1. PICK i \in DOMAIN tasks : tasks[i] = task
  BY DEF Queued
<1>2. i # 1 /\ i \in 1 .. Len(tasks)
  BY <1>1 DEF TypeOK
<1>3. i - 1 \in DOMAIN Tail(tasks) /\ Tail(tasks)[i - 1] = tasks[i]
  BY <1>2 DEF TypeOK
<1> QED BY <1>1, <1>3

(* A task that was queued still is after another has been appended, and the *)
(* appended one is too.                                                    *)
LEMMA AppendQueued ==
    ASSUME TypeOK, NEW task, NEW new, tasks' = Append(tasks, new)
    PROVE  /\ Queued(task) => Queued(task)'
           /\ Queued(new)'
<1>1. DOMAIN tasks = 1 .. Len(tasks) /\ Len(tasks) \in Nat
  BY DEF TypeOK
<1>2. DOMAIN tasks' = 1 .. Len(tasks) + 1
  BY DEF TypeOK
<1>3. \A i \in DOMAIN tasks : tasks'[i] = tasks[i]
  BY DEF TypeOK
<1>4. tasks'[Len(tasks) + 1] = new
  BY DEF TypeOK
<1>5. Queued(task) => Queued(task)'
  BY <1>1, <1>2, <1>3 DEF Queued
<1>6. Len(tasks) + 1 \in DOMAIN tasks'
  BY <1>1, <1>2
<1> QED BY <1>4, <1>5, <1>6 DEF Queued

(* The inductive form of JoinedOnCurrent: unless the notice that the       *)
(* connection ended is queued, a user who believes to be in the room has a *)
(* client that is connected, which is why no connect task can replace the  *)
(* connection meanwhile.                                                   *)
JoinHolds ==
    (joined /\ alive = "yes") =>
        Queued("disconnected") \/ (state = "Connected" /\ current # 0 /\ current = joinedOn)

\* SendJoin marks the connection it sends on.
LEMMA SendJoinHolds ==
    ASSUME TypeOK, JoinHolds, SendJoin, UNCHANGED alive,
           Queued("disconnected") => Queued("disconnected")'
    PROVE  JoinHolds'
<1>1. CASE CanSend
  <2>1. UNCHANGED <<state, current>> /\ joinedOn' = current
    BY <1>1 DEF SendJoin, Write
  <2> QED BY <1>1, <2>1 DEF CanSend, JoinHolds
<1>2. CASE ~CanSend
  <2>1. UNCHANGED <<state, current, joined, joinedOn>>
    BY <1>2 DEF SendJoin, NoWrite, clientVars
  <2> QED BY <2>1 DEF JoinHolds
<1> QED BY <1>1, <1>2

\* Every step keeps JoinHolds.
LEMMA JoinHoldsStep == TypeOK /\ JoinHolds /\ [Next]_vars => JoinHolds'
<1> SUFFICES ASSUME TypeOK, JoinHolds, [Next]_vars PROVE JoinHolds'
  OBVIOUS
<1>1. ASSUME NEW who, NEW op, Call(who, op) PROVE JoinHolds'
  <2>1. tasks' = Append(tasks, op) /\ UNCHANGED <<joined, alive, state, current, joinedOn>>
    BY <1>1 DEF Call, clientVars, history
  <2>2. Queued("disconnected") => Queued("disconnected")'
    BY <2>1, AppendQueued
  <2> QED BY <2>1, <2>2 DEF JoinHolds
<1>2. CASE Detach
  BY <1>2 DEF Detach, JoinHolds
<1>3. CASE Destroy
  BY <1>3 DEF Destroy, JoinHolds
<1>4. CASE RunTask
  <2>1. CASE Head(tasks) = "disconnected"
    BY <1>4, <2>1 DEF RunTask, OnDisconnected, JoinHolds
  <2>2. CASE Head(tasks) # "disconnected"
    <3>1. Queued("disconnected") => Queued("disconnected")'
      <4>1. tasks # <<>> /\ tasks' = Tail(tasks)
        BY <1>4 DEF RunTask
      <4>2. Queued("disconnected") => \E i \in DOMAIN Tail(tasks) : Tail(tasks)[i] = "disconnected"
        BY <2>2, <4>1, StillQueued
      <4> QED BY <4>1, <4>2 DEF Queued
    <3>2. UNCHANGED alive
      BY <1>4 DEF RunTask
    <3>3. CASE DoConnect
      BY <3>1, <3>2, <3>3 DEF DoConnect, ClientConnect, history, JoinHolds
    <3>4. CASE DoDisconnect
      BY <3>4 DEF DoDisconnect, JoinHolds
    <3>5. CASE DoJoin
      BY <3>1, <3>2, <3>5 DEF DoJoin, ClientConnect, NoWrite, clientVars, history, JoinHolds
    <3>6. CASE DoLeave
      BY <3>6 DEF DoLeave, JoinHolds
    <3>7. CASE DoSend
      BY <3>1, <3>2, <3>7 DEF DoSend, Write, NoWrite, clientVars, history, JoinHolds
    <3>8. CASE OnConnected
      <4>1. CASE pending
        BY <3>1, <3>2, <3>8, <4>1, SendJoinHolds DEF OnConnected
      <4>2. CASE ~pending
        BY <3>1, <3>2, <3>8, <4>2 DEF OnConnected, NoWrite, clientVars, JoinHolds
      <4> QED BY <4>1, <4>2
    <3> QED BY <1>4, <2>2, <3>3, <3>4, <3>5, <3>6, <3>7, <3>8 DEF RunTask
  <2> QED BY <2>1, <2>2
<1>5. CASE JoinSend
  <2>1. SendJoin /\ UNCHANGED <<tasks, alive>>
    BY <1>5 DEF JoinSend
  <2>2. Queued("disconnected") => Queued("disconnected")'
    BY <2>1 DEF Queued
  <2> QED BY <2>1, <2>2, SendJoinHolds
<1>6. CASE RunConnect
  <2>1. UNCHANGED <<tasks, joined, alive, state, joinedOn>>
    BY <1>6 DEF RunConnect, apiVars, history
  <2>2. Queued("disconnected") => Queued("disconnected")'
    BY <2>1 DEF Queued
  <2>3. state = "Connected" => UNCHANGED current
    BY <1>6 DEF RunConnect
  <2> QED BY <2>1, <2>2, <2>3 DEF JoinHolds
<1>7. ASSUME NEW c \in Conns, Opened(c) PROVE JoinHolds'
  BY <1>7 DEF Opened, apiVars, history, JoinHolds, Queued
<1>12. CASE Announce
  <2>1. UNCHANGED <<joined, alive, current, joinedOn>> /\ state' = "Connected"
    BY <1>12 DEF Announce, otherApi, history
  <2>2. Post("connected")
    BY <1>12 DEF Announce
  <2>3. alive = "yes" => (Queued("disconnected") => Queued("disconnected")')
    BY <2>2, AppendQueued DEF Post
  <2> QED BY <2>1, <2>3 DEF JoinHolds
<1>8. ASSUME NEW c \in Conns, LinkLost(c) PROVE JoinHolds'
  BY <1>8 DEF LinkLost, apiVars, history, JoinHolds, Queued
<1>9. ASSUME NEW c \in Conns, Closed(c) PROVE JoinHolds'
  <2>1. UNCHANGED <<joined, alive, joinedOn>>
    BY <1>9 DEF Closed, otherApi
  <2>2. CASE c = current
    <3>1. Post("disconnected")
      BY <1>9, <2>2 DEF Closed, ReportIfCurrent
    <3>2. alive = "yes" => Queued("disconnected")'
      BY <3>1, AppendQueued DEF Post
    <3> QED BY <2>1, <3>2 DEF JoinHolds
  <2>3. CASE c # current
    <3>1. UNCHANGED <<state, current, tasks>>
      BY <1>9, <2>3 DEF Closed, ReportIfCurrent
    <3> QED BY <2>1, <3>1 DEF JoinHolds, Queued
  <2> QED BY <2>2, <2>3
<1>10. ASSUME NEW c \in Conns, ServerFrame(c) \/ ServerCloses(c) PROVE JoinHolds'
  BY <1>10 DEF ServerFrame, ServerCloses, apiVars, clientVars, history, JoinHolds, Queued
<1>11. CASE UNCHANGED vars
  BY <1>11 DEF vars, apiVars, clientVars, history, JoinHolds, Queued
<1> QED BY <1>1, <1>2, <1>3, <1>4, <1>5, <1>6, <1>7, <1>8, <1>9, <1>10, <1>11, <1>12 DEF Next

(* A client that believes it has joined wrote its JOIN on the very         *)
(* connection its frames go to, or is about to learn that it ended.        *)
THEOREM JoinIsCurrent == Spec => []JoinedOnCurrent
<1>1. Init => JoinHolds
  BY DEF Init, JoinHolds
<1>2. JoinHolds => JoinedOnCurrent
  BY DEF JoinHolds, JoinedOnCurrent
<1> QED BY <1>1, <1>2, TypeCorrect, JoinHoldsStep, PTL DEF Spec
-----------------------------------------------------------------------------
(* The inductive form of NothingLeft: no call is under way once the         *)
(* destructor has begun.                                                   *)
EndsQuietly == NothingLeft /\ (alive # "yes" => calls = {})

\* Every step keeps EndsQuietly.
LEMMA EndsQuietlyStep == EndsQuietly /\ [Next]_vars => EndsQuietly'
<1> SUFFICES ASSUME EndsQuietly, [Next]_vars PROVE EndsQuietly'
  OBVIOUS
<1> USE DEF EndsQuietly, NothingLeft
<1>1. ASSUME NEW who, NEW op, Call(who, op) PROVE EndsQuietly'
  BY <1>1 DEF Call
<1>2. CASE Detach
  BY <1>2 DEF Detach
<1>3. CASE Destroy
  BY <1>3 DEF Destroy
<1>4. CASE RunTask
  <2>1. alive # "no" /\ UNCHANGED alive
    BY <1>4 DEF RunTask
  <2>2. calls' \subseteq calls
    BY <1>4 DEF RunTask, DoConnect, DoDisconnect, DoJoin, DoLeave, DoSend, OnConnected,
                OnDisconnected, Done
  <2> QED BY <2>1, <2>2
<1>5. CASE JoinSend
  BY <1>5 DEF JoinSend, Done
<1>6. CASE RunConnect
  BY <1>6 DEF RunConnect, apiVars
<1>7. ASSUME NEW c \in Conns, Opened(c) PROVE EndsQuietly'
  BY <1>7 DEF Opened, apiVars
<1>12. CASE Announce
  BY <1>12 DEF Announce, Post, otherApi
<1>8. ASSUME NEW c \in Conns, LinkLost(c) PROVE EndsQuietly'
  BY <1>8 DEF LinkLost, apiVars
<1>9. ASSUME NEW c \in Conns, Closed(c) PROVE EndsQuietly'
  BY <1>9 DEF Closed, ReportIfCurrent, Post, otherApi
<1>10. ASSUME NEW c \in Conns, ServerFrame(c) \/ ServerCloses(c) PROVE EndsQuietly'
  BY <1>10 DEF ServerFrame, ServerCloses, apiVars
<1>11. CASE UNCHANGED vars
  BY <1>11 DEF vars, apiVars
<1> QED BY <1>1, <1>2, <1>3, <1>4, <1>5, <1>6, <1>7, <1>8, <1>9, <1>10, <1>11, <1>12 DEF Next

(* No task of the api thread runs on an object that is gone.               *)
THEOREM EndIsClean == Spec => []NothingLeft
<1>1. Init => EndsQuietly
  BY DEF Init, EndsQuietly, NothingLeft
<1>2. EndsQuietly => NothingLeft
  BY DEF EndsQuietly
<1> QED BY <1>1, <1>2, EndsQuietlyStep, PTL DEF Spec
-----------------------------------------------------------------------------
(* The inductive form of NoGhost.  The server will give c the place, or    *)
(* leave it to c, once it has read all that was written to c.              *)
Held(c) ==
    \/ uplink[c] # <<>> /\ uplink[c][Len(uplink[c])] = "JOIN"
    \/ seat = c /\ \A i \in DOMAIN uplink[c] : uplink[c][i] # "LEAVE"

(* Such a connection, unless it is closing, is the one in use, and its     *)
(* user wants to be in the room: this is why DoLeave finds it for the LEAVE *)
(* and DoDisconnect for the close.                                         *)
Live(c) == Held(c) /\ link[c] # "closed" /\ ~Asked(c)
InUse(c) == link[c] = "open" /\ c = current /\ state = "Connected"
HeldInUse == \A c \in Conns : Live(c) => InUse(c) /\ wish # "none"

(* Nothing is written to a connection before it is made.                   *)
NotYet == \A c \in Conns : link[c] \in {"none", "connecting"} => uplink[c] = <<>> /\ seat # c

GhostInv == HeldInUse /\ NotYet

(* A connection that is not made holds nothing.                            *)
LEMMA NotYetHeld ==
    ASSUME NotYet, NEW c \in Conns, link[c] \in {"none", "connecting"}
    PROVE  ~Held(c)
BY DEF NotYet, Held

(* Requests to close are kept.                                             *)
LEMMA AskCloseKeeps ==
    ASSUME TypeOK, NEW c \in Conns \cup {0}, AskClose(c)
    PROVE  /\ \A d : Asked(d) => Asked(d)'
           /\ c # 0 /\ link[c] # "closed" => Asked(c)'
<1>1. CASE c = 0 \/ Asked(c) \/ link[c] = "closed"
  BY <1>1 DEF AskClose, Asked
<1>2. CASE ~(c = 0 \/ Asked(c) \/ link[c] = "closed")
  <2>1. asked' = Append(asked, c) /\ asked \in Seq(Conns) /\ c \in Conns
    BY <1>2 DEF AskClose, TypeOK
  <2>2. /\ Len(asked) \in Nat /\ DOMAIN asked = 1 .. Len(asked)
        /\ DOMAIN asked' = 1 .. Len(asked) + 1 /\ asked'[Len(asked) + 1] = c
        /\ \A i \in DOMAIN asked : asked'[i] = asked[i]
    BY <2>1
  <2>3. Len(asked) + 1 \in DOMAIN asked'
    BY <2>2
  <2> QED BY <2>2, <2>3 DEF Asked
<1> QED BY <1>1, <1>2

(* A step that writes nothing, and under which no connection in use ceases  *)
(* to be so without being closed.                                          *)
LEMMA Untouched ==
    ASSUME GhostInv, UNCHANGED <<uplink, seat, link>>,
           \A c \in Conns : Asked(c) => Asked(c)',
           \A c \in Conns : InUse(c) /\ ~Asked(c)' => c = current' /\ state' = state,
           \A c \in Conns : Live(c) /\ ~Asked(c)' => wish' # "none"
    PROVE  GhostInv'
<1>1. NotYet'
  BY DEF GhostInv, NotYet
<1>2. ASSUME NEW c \in Conns, Live(c)' PROVE InUse(c)' /\ wish' # "none"
  <2>1. Live(c) /\ ~Asked(c)'
    BY <1>2 DEF Live, Held
  <2> QED BY <2>1 DEF GhostInv, HeldInUse, InUse
<1> QED BY <1>1, <1>2 DEF GhostInv, HeldInUse

(* sendMessage of a JOIN makes the connection in use hold the place, of a   *)
(* LEAVE gives it up, of data changes nothing.                             *)
LEMMA WriteHeld ==
    ASSUME TypeOK, GhostInv, CanSend, NEW frame \in {"JOIN", "LEAVE", "DATA"}, Write(frame),
           UNCHANGED seat,
           frame = "JOIN" => wish' # "none", frame = "DATA" => wish' = wish
    PROVE  GhostInv'
<1>1. current \in Conns /\ state = "Connected" /\ UNCHANGED <<state, current, link>>
  BY DEF TypeOK, CanSend, Write
<1>2. \A d : Asked(d) => Asked(d)'
  <2>1. CASE link[current] = "connecting"
    BY <1>1, <2>1, AskCloseKeeps DEF Write
  <2>2. CASE link[current] # "connecting"
    BY <2>2 DEF Write, Asked
  <2> QED BY <2>1, <2>2
<1>3. CASE frame = "DATA"
  <2>1. uplink' = uplink
    BY <1>3 DEF Write
  <2> QED BY <1>1, <1>2, <1>3, <2>1, Untouched DEF GhostInv, HeldInUse, InUse
<1>4. CASE frame # "DATA" /\ (Asked(current) \/ link[current] # "open")
  <2>1. uplink' = uplink
    BY <1>4 DEF Write
  <2>2. \A c \in Conns : ~Live(c)
    BY <1>4 DEF GhostInv, HeldInUse, InUse, Live
  <2> QED BY <1>1, <1>2, <2>1, <2>2, Untouched DEF InUse
<1>5. CASE frame # "DATA" /\ ~Asked(current) /\ link[current] = "open"
  <2>1. uplink' = [uplink EXCEPT ![current] = Append(uplink[current], frame)]
    BY <1>5 DEF Write
  <2>2. \A d \in Conns : d # current => uplink'[d] = uplink[d]
    BY <2>1 DEF TypeOK
  <2>3. uplink'[current] = Append(uplink[current], frame) /\ uplink[current] \in Seq({"JOIN", "LEAVE"})
    BY <1>1, <2>1 DEF TypeOK
  <2>4. /\ Len(uplink[current]) + 1 \in DOMAIN uplink'[current]
        /\ Len(uplink'[current]) = Len(uplink[current]) + 1
        /\ uplink'[current][Len(uplink[current]) + 1] = frame
    BY <2>3
  <2>5. NotYet'
    BY <1>1, <1>5, <2>2 DEF GhostInv, NotYet
  <2>6. ASSUME NEW c \in Conns, Live(c)' PROVE InUse(c)' /\ wish' # "none"
    <3>1. CASE c = current
      <4>1. frame = "JOIN"
        <5>1. Held(c)' /\ frame \in {"JOIN", "LEAVE"}
          BY <1>5, <2>6 DEF Live
        <5> QED BY <2>4, <3>1, <5>1 DEF Held
      <4> QED BY <1>1, <1>5, <3>1, <4>1 DEF InUse
    <3>2. CASE c # current
      <4>1. Live(c)
        BY <1>1, <1>2, <2>2, <2>6, <3>2 DEF Live, Held
      <4> QED BY <3>2, <4>1 DEF GhostInv, HeldInUse, InUse
    <3> QED BY <3>1, <3>2
  <2> QED BY <2>5, <2>6 DEF GhostInv, HeldInUse
<1> QED BY <1>3, <1>4, <1>5

(* With nothing in use to write to, nobody holds a place.                  *)
LEMMA NobodyHolds ==
    ASSUME GhostInv, ~CanSend
    PROVE  \A c \in Conns : ~Live(c)
BY DEF GhostInv, HeldInUse, InUse, CanSend, Conns

\* SendJoin makes no ghost: the user wants the place.
LEMMA SendJoinHeld ==
    ASSUME TypeOK, GhostInv, SendJoin, UNCHANGED seat, CanSend => wish' # "none"
    PROVE  GhostInv'
<1>1. CASE CanSend
  BY <1>1, WriteHeld DEF SendJoin
<1>2. CASE ~CanSend
  <2>1. UNCHANGED <<uplink, link, state, current, asked>>
    BY <1>2 DEF SendJoin, NoWrite, clientVars
  <2> QED BY <1>2, <2>1, NobodyHolds, Untouched DEF Asked, InUse
<1> QED BY <1>1, <1>2

(* The client's connect does not touch a connection in use.                *)
LEMMA ConnectHeld ==
    ASSUME GhostInv, ClientConnect \/ NoWrite, UNCHANGED seat, wish' \in {wish, "in", "wiped"}
    PROVE  GhostInv'
<1>1. UNCHANGED <<current, link, asked, uplink>>
  BY DEF ClientConnect, NoWrite, clientVars
<1>2. state' = state \/ state = "Disconnected"
  BY DEF ClientConnect, NoWrite, clientVars
<1>3. \A c \in Conns : Live(c) => wish' # "none"
  BY DEF GhostInv, HeldInUse
<1> QED BY <1>1, <1>2, <1>3, Untouched DEF Asked, InUse

\* Every step keeps GhostInv.
LEMMA GhostStep == TypeOK /\ GhostInv /\ [Next]_vars => GhostInv'
<1> SUFFICES ASSUME TypeOK, GhostInv, [Next]_vars PROVE GhostInv'
  OBVIOUS
<1>0. ASSUME UNCHANGED <<clientVars, uplink, seat, wish>> PROVE GhostInv'
  BY <1>0, ConnectHeld DEF NoWrite
<1>1. CASE Detach \/ Destroy \/ \E who, op : Call(who, op)
  BY <1>0, <1>1 DEF Detach, Destroy, Call, serverVars, history
<1>2. CASE RunTask
  <2>0. UNCHANGED seat
    BY <1>2 DEF RunTask, serverVars
  <2>1. CASE DoConnect
    BY <2>0, <2>1, ConnectHeld DEF DoConnect, history
  <2>2. CASE DoDisconnect
    <3>1. ClientDisconnect
      BY <2>2 DEF DoDisconnect
    <3>2. UNCHANGED <<current, link, uplink>> /\ AskClose(current)
      BY <3>1 DEF ClientDisconnect
    <3>3. current \in Conns \cup {0}
      BY DEF TypeOK
    <3>4. /\ \A d : Asked(d) => Asked(d)'
          /\ current # 0 /\ link[current] # "closed" => Asked(current)'
      BY <3>2, <3>3, AskCloseKeeps
    <3>5. ASSUME NEW c \in Conns, InUse(c) PROVE Asked(c)'
      <4>1. c # 0 /\ c = current /\ link[c] # "closed"
        BY <3>5, BoundsAreNat DEF InUse, Conns
      <4> QED BY <3>2, <3>4, <4>1 DEF Asked
    <3>6. \A c \in Conns : Live(c) => Asked(c)'
      BY <3>5 DEF GhostInv, HeldInUse
    <3> QED BY <2>0, <3>2, <3>4, <3>5, <3>6, Untouched
  <2>3. CASE DoJoin
    BY <2>0, <2>3, ConnectHeld DEF DoJoin, history
  <2>4. CASE DoLeave
    <3>1. CASE joined /\ CanSend
      BY <2>0, <2>4, <3>1, WriteHeld DEF DoLeave
    <3>2. CASE joined /\ ~CanSend
      <4>1. UNCHANGED <<uplink, link, state, current, asked>>
        BY <2>4, <3>2 DEF DoLeave, NoWrite, clientVars
      <4> QED BY <2>0, <3>2, <4>1, NobodyHolds, Untouched DEF Asked, InUse
    <3>3. CASE ~joined
      BY <2>0, <2>4, <3>3, ConnectHeld DEF DoLeave
    <3> QED BY <3>1, <3>2, <3>3
  <2>5. CASE DoSend
    <3>1. CASE joined /\ CanSend
      BY <2>0, <2>5, <3>1, WriteHeld DEF DoSend, history
    <3>2. CASE ~(joined /\ CanSend)
      BY <2>0, <2>5, <3>2, ConnectHeld DEF DoSend, history
    <3> QED BY <3>1, <3>2
  <2>6. CASE OnConnected
    <3>1. CASE pending
      BY <2>0, <2>6, <3>1, SendJoinHeld DEF OnConnected
    <3>2. CASE ~pending
      BY <2>0, <2>6, <3>2, ConnectHeld DEF OnConnected
    <3> QED BY <3>1, <3>2
  <2>7. CASE OnDisconnected
    BY <2>0, <2>7, ConnectHeld DEF OnDisconnected
  <2> QED BY <1>2, <2>1, <2>2, <2>3, <2>4, <2>5, <2>6, <2>7 DEF RunTask
<1>3. CASE JoinSend
  BY <1>3, SendJoinHeld DEF JoinSend, serverVars
<1>4. CASE RunConnect
  <2>1. UNCHANGED <<state, asked, uplink, seat, wish>>
    BY <1>4 DEF RunConnect, serverVars, history
  <2>2. CASE state # "Connecting"
    BY <1>0, <1>4, <2>1, <2>2, Untouched DEF RunConnect, Asked, InUse, GhostInv, HeldInUse
  <2>3. CASE state = "Connecting"
    <3> DEFINE n == NextConn
    <3>1. n \in Conns /\ link[n] = "none" /\ link' = [link EXCEPT ![n] = "connecting"]
      BY <1>4, <2>3 DEF RunConnect, ConnsLeft, NextConn
    <3> HIDE DEF n
    <3>2. \A c \in Conns : ~Live(c)
      BY <2>3 DEF GhostInv, HeldInUse, InUse
    <3>3. \A c \in Conns : /\ link'[c] = link[c] \/ c = n
                           /\ Held(c)' = Held(c) /\ Asked(c)' = Asked(c)
      BY <2>1, <3>1 DEF TypeOK, Held, Asked
    <3>4. ~Held(n)
      BY <3>1, NotYetHeld DEF GhostInv
    <3>5. HeldInUse'
      BY <3>2, <3>3, <3>4 DEF HeldInUse, Live
    <3>6. NotYet'
      BY <2>1, <3>1, <3>3 DEF GhostInv, NotYet
    <3> QED BY <3>5, <3>6 DEF GhostInv
  <2> QED BY <2>2, <2>3
<1>5. ASSUME NEW c \in Conns, Opened(c) PROVE GhostInv'
  <2>1. link[c] = "connecting" /\ link' = [link EXCEPT ![c] = "open"]
        /\ UNCHANGED <<current, uplink, seat, wish>>
    BY <1>5 DEF Opened, history
  <2>2. state' = state
    BY <1>5 DEF Opened
  <2>3. \A d : Asked(d) => Asked(d)'
    <3>1. CASE asked' = asked
      BY <3>1 DEF Asked
    <3>2. CASE AskClose(c)
      BY <3>2, AskCloseKeeps
    <3> QED BY <1>5, <3>1, <3>2 DEF Opened
  <2>4. ~Held(c) /\ \A d \in Conns : Held(d)' = Held(d)
    BY <2>1, NotYetHeld DEF GhostInv, Held
  <2>5. \A d \in Conns : d # c => link'[d] = link[d]
    BY <2>1 DEF TypeOK
  <2>6. HeldInUse'
    BY <2>1, <2>2, <2>3, <2>4, <2>5 DEF GhostInv, HeldInUse, Live, InUse
  <2>7. NotYet'
    BY <2>1 DEF GhostInv, NotYet, TypeOK
  <2> QED BY <2>6, <2>7 DEF GhostInv
<1>12. CASE Announce
  <2>1. state' = "Connected" /\ UNCHANGED <<current, link, asked, uplink, seat, wish>>
    BY <1>12 DEF Announce, serverVars, history
  <2> QED BY <2>1, Untouched DEF Asked, InUse, GhostInv, HeldInUse
<1>6. ASSUME NEW c \in Conns, LoseTail(c)
      PROVE  /\ \A d \in Conns : d # c => uplink'[d] = uplink[d]
             /\ uplink[c] = <<>> => uplink'[c] = <<>>
  <2>1. PICK n \in 0 .. Len(uplink[c]) : uplink' = [uplink EXCEPT ![c] = SubSeq(@, 1, n)]
    BY <1>6 DEF LoseTail
  <2>2. uplink[c] = <<>> => SubSeq(uplink[c], 1, n) = <<>>
    <3> SUFFICES ASSUME uplink[c] = <<>> PROVE SubSeq(<<>>, 1, n) = <<>>
      OBVIOUS
    <3>1. n = 0
      BY <2>1
    <3> QED BY <3>1
  <2> QED BY <2>1, <2>2 DEF TypeOK
<1>7. ASSUME NEW c \in Conns, LinkLost(c) PROVE GhostInv'
  <2>1. link[c] \in {"connecting", "open"} /\ AskClose(c) /\ LoseTail(c)
        /\ UNCHANGED <<state, current, link, seat, wish>>
    BY <1>7 DEF LinkLost, serverVars, history
  <2>2. Asked(c)' /\ \A d : Asked(d) => Asked(d)'
    BY <2>1, AskCloseKeeps DEF Conns
  <2>3. \A d \in Conns : Live(d)' => Live(d)
    BY <1>6, <2>1, <2>2 DEF Live, Held
  <2>4. HeldInUse'
    BY <2>1, <2>3 DEF GhostInv, HeldInUse, InUse
  <2>5. NotYet'
    BY <1>6, <2>1 DEF GhostInv, NotYet
  <2> QED BY <2>4, <2>5 DEF GhostInv
<1>8. ASSUME NEW c \in Conns, Closed(c) PROVE GhostInv'
  <2>1. asked # <<>> /\ c = Head(asked) /\ asked' = Tail(asked)
        /\ link' = [link EXCEPT ![c] = "closed"] /\ LoseTail(c) /\ UNCHANGED seat
    BY <1>8 DEF Closed, serverVars
  <2>2. c # current => UNCHANGED <<state, current, wish>>
    BY <1>8 DEF Closed, ReportIfCurrent
  <2>3. link'[c] = "closed" /\ \A d \in Conns : d # c => link'[d] = link[d]
    BY <2>1 DEF TypeOK
  <2>4. ASSUME NEW d \in Conns, d # c, Asked(d) PROVE Asked(d)'
    <3>1. PICK i \in DOMAIN asked : asked[i] = d
      BY <2>4 DEF Asked
    <3>2. i # 1 /\ i \in 1 .. Len(asked)
      BY <2>1, <2>4, <3>1 DEF TypeOK
    <3>3. i - 1 \in DOMAIN Tail(asked) /\ Tail(asked)[i - 1] = asked[i]
      BY <3>2 DEF TypeOK
    <3> QED BY <2>1, <3>1, <3>3 DEF Asked
  <2>5. \A d \in Conns : Live(d)' => d # c /\ Live(d)
    BY <1>6, <2>1, <2>3, <2>4 DEF Live, Held
  <2>6. HeldInUse'
    <3> SUFFICES ASSUME NEW d \in Conns, Live(d)' PROVE InUse(d)' /\ wish' # "none"
      BY DEF HeldInUse
    <3>1. d # c /\ InUse(d) /\ wish # "none"
      BY <2>5 DEF GhostInv, HeldInUse
    <3> QED BY <2>2, <2>3, <3>1 DEF InUse
  <2>7. NotYet'
    BY <1>6, <2>1, <2>3 DEF GhostInv, NotYet
  <2> QED BY <2>6, <2>7 DEF GhostInv
<1>9. ASSUME NEW c \in Conns, ServerFrame(c) PROVE GhostInv'
  <2>1. uplink[c] # <<>> /\ uplink' = [uplink EXCEPT ![c] = Tail(@)]
        /\ UNCHANGED <<state, current, link, asked, wish>>
    BY <1>9 DEF ServerFrame, clientVars, history
  <2>2. /\ uplink[c] \in Seq({"JOIN", "LEAVE"}) /\ uplink'[c] = Tail(uplink[c])
        /\ \A d \in Conns : d # c => uplink'[d] = uplink[d]
    BY <2>1 DEF TypeOK
  <2> DEFINE q == uplink[c]
             n == Len(uplink[c])
  <2>3. /\ n \in Nat /\ n # 0 /\ DOMAIN q = 1 .. n /\ Head(q) = q[1]
        /\ Len(Tail(q)) = n - 1 /\ DOMAIN Tail(q) = 1 .. n - 1
        /\ \A i \in 1 .. n - 1 : Tail(q)[i] = q[i + 1]
        /\ \A i \in 1 .. n : q[i] \in {"JOIN", "LEAVE"}
    BY <2>1, <2>2
  <2>4. \A d \in Conns : d # c => (seat' = d => seat = d)
    BY <1>9 DEF ServerFrame, Conns
  <2>5. ASSUME seat' = c PROVE Head(q) = "JOIN" /\ seat \in {0, c}
    BY <1>9, <2>5 DEF ServerFrame, Conns
  <2>6. Held(c)' => Held(c)
    <3>1. CASE Tail(q) # <<>> /\ Tail(q)[Len(Tail(q))] = "JOIN"
      <4>1. n - 1 \in 1 .. n - 1
        BY <2>3, <3>1
      <4>2. q[n] = "JOIN"
        BY <2>3, <3>1, <4>1
      <4> QED BY <2>1, <4>2 DEF Held
    <3>2. CASE seat' = c /\ \A i \in DOMAIN Tail(q) : Tail(q)[i] # "LEAVE"
      <4>1. q[1] = "JOIN"
        BY <2>3, <2>5, <3>2
      <4>2. ASSUME NEW i \in 1 .. n PROVE q[i] # "LEAVE"
        <5>1. CASE i = 1
          BY <4>1, <5>1
        <5>2. CASE i # 1
          <6>1. i - 1 \in 1 .. n - 1 /\ Tail(q)[i - 1] = q[i]
            BY <2>3, <5>2
          <6> QED BY <2>3, <3>2, <6>1
        <5> QED BY <5>1, <5>2
      <4>3. q[n] = "JOIN"
        BY <2>3, <4>2
      <4> QED BY <2>1, <4>3 DEF Held
    <3> QED BY <2>2, <3>1, <3>2 DEF Held
  <2>7. \A d \in Conns : Live(d)' => Live(d)
    BY <2>1, <2>2, <2>4, <2>6 DEF Live, Held, Asked
  <2>8. HeldInUse'
    BY <2>1, <2>7 DEF GhostInv, HeldInUse, InUse
  <2>9. NotYet'
    BY <2>1, <2>2, <2>4 DEF GhostInv, NotYet
  <2> QED BY <2>8, <2>9 DEF GhostInv
<1>10. ASSUME NEW c \in Conns, ServerCloses(c) PROVE GhostInv'
  <2>1. uplink' = [uplink EXCEPT ![c] = <<>>] /\ seat' = (IF seat = c THEN 0 ELSE seat)
        /\ UNCHANGED <<state, current, link, asked, wish>>
    BY <1>10 DEF ServerCloses, clientVars, history
  <2>2. uplink'[c] = <<>> /\ seat' # c /\ \A d \in Conns : d # c => uplink'[d] = uplink[d] /\ (seat' = d => seat = d)
    BY <2>1 DEF TypeOK, Conns
  <2>3. \A d \in Conns : Live(d)' => Live(d)
    BY <2>1, <2>2 DEF Live, Held, Asked
  <2>4. HeldInUse'
    BY <2>1, <2>3 DEF GhostInv, HeldInUse, InUse
  <2>5. NotYet'
    BY <2>1, <2>2 DEF GhostInv, NotYet
  <2> QED BY <2>4, <2>5 DEF GhostInv
<1>11. CASE UNCHANGED vars
  BY <1>0, <1>11 DEF vars, serverVars, history
<1> QED BY <1>1, <1>2, <1>3, <1>4, <1>5, <1>7, <1>8, <1>9, <1>10, <1>11, <1>12 DEF Next

(* A user who has left the room, or lost the connection, keeps no place in  *)
(* it, over any number of connections.                                     *)
THEOREM NoGhosts == Spec => []NoGhost
<1>1. Init => GhostInv
  BY DEF Init, GhostInv, HeldInUse, NotYet, Live, Held, Conns
<1>2. TypeOK /\ GhostInv => NoGhost
  <2> SUFFICES ASSUME TypeOK, GhostInv, wish = "none", seat # 0, ~Asked(seat), link[seat] # "closed"
               PROVE  \E i \in DOMAIN uplink[seat] : uplink[seat][i] = "LEAVE"
    BY DEF NoGhost
  <2>1. seat \in Conns
    BY DEF TypeOK
  <2> QED BY <2>1 DEF GhostInv, HeldInUse, Live, Held
<1> QED BY <1>1, <1>2, TypeCorrect, GhostStep, PTL DEF Spec
=============================================================================
