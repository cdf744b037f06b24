--------------------------- MODULE TcpClientProofs ---------------------------
(***************************************************************************)
(* For any number of API threads and connections: the types of TcpClient,  *)
(* that no session stays up behind a client that says it is disconnected,  *)
(* and that a connected client has its heartbeat.                          *)
(***************************************************************************)
EXTENDS TcpClient, TLAPS

(* What a step that may drop the last reference to an object leaves: of each *)
(* object what it was, or nothing; and the connection in use is never the    *)
(* one dropped.                                                            *)
Lives == {"none", "idle", "open", "closing", "closed"}
LEMMA ReleaseKeeps ==
    ASSUME NEW newLife \in [Conns -> Lives], Release(newLife), astray \in SUBSET Conns
    PROVE  /\ life' \in [Conns -> Lives] /\ astray' \in SUBSET Conns
           /\ destroyedOpen' \in BOOLEAN
           /\ current' \in Conns => life'[current'] = newLife[current']
           /\ \A c \in Conns : life'[c] = "open" =>
                 newLife[c] = "open" /\ (c \notin astray' => c \notin astray)
<1>1. life' \in [Conns -> Lives]
  BY DEF Release, Lives
<1>2. destroyedOpen' \in BOOLEAN
  BY Zenon DEF Release
<1>3. current' \in Conns => life'[current'] = newLife[current']
  BY DEF Release
<1>4. astray' \in SUBSET Conns
  BY DEF Release
<1>5. \A c \in Conns : life'[c] = "open" =>
         newLife[c] = "open" /\ (c \notin astray' => c \notin astray)
  BY DEF Release
<1> QED BY <1>1, <1>2, <1>3, <1>4, <1>5

(* A close request is a flag of one object.                                *)
LEMMA RequestTyped ==
    ASSUME closeReq \in [Conns -> BOOLEAN], NEW c, RequestClose(c)
    PROVE  /\ closeReq' \in [Conns -> BOOLEAN]
           /\ c \in Conns => closeReq'[c]
           /\ \A d \in Conns : closeReq[d] => closeReq'[d]
BY Zenon DEF RequestClose

(* The parts of the invariant: what the client keeps of its types.         *)
Flags ==
    /\ closeReq \in [Conns -> BOOLEAN] /\ mgmtSignal \in BOOLEAN /\ timerActive \in BOOLEAN
    /\ quitSignal \in BOOLEAN /\ destroyedOpen \in BOOLEAN
Client ==
    /\ state \in {"Disconnected", "Connecting", "Connected"}
    /\ current \in Conns \cup {None}
    /\ pending \in SUBSET Conns
    /\ life \in [Conns -> Lives] /\ astray \in SUBSET Conns
    /\ timer \in {"closed", "running", "closing"}
    /\ quit \in {"no", "requested", "closing", "ended"}
Loop ==
    /\ tasks \in Seq({"connect", "clear"}) /\ batch \in Seq({"connect", "clear"})
    /\ at \in Conns \cup {"install", None}
    /\ at = "install" => batch # <<>> /\ Head(batch) = "connect"
Calls ==
    /\ call \in [Threads -> {"idle", "post", "closing", "checked", "sending"}]
    /\ snap \in [Threads -> Conns \cup {None}]
    /\ \A t \in Threads : snap[t] # None <=> call[t] \in {"closing", "sending"}

(* While a connection object is being made the client is not connected: the *)
(* loop is busy with it, and only the loop connects.                        *)
Making == at = "install" => state # "Connected"

(* Until the client quits the timer is what timer_active_ says: it was closed *)
(* in a close callback, so no step finds it half closed.                    *)
Heart ==
    quit = "no" =>
        /\ timer = IF timerActive THEN "running" ELSE "closed"
        /\ state = "Connected" => timerActive

(* They are TypeOK, with the connect task at the head of the round while   *)
(* its object is being made.  With the first property they are inductive.  *)
Good == Flags /\ Client /\ Loop /\ Calls /\ Making /\ Heart /\ NoOrphanSession

\* The invariant contains the types.
LEMMA GoodTyped == Good => TypeOK
BY Zenon DEF Good, TypeOK, Flags, Client, Loop, Calls, Lives

(* What a step has to show of each open connection: it was open and keeps    *)
(* who answers for it, or there is somebody who answers for it now.         *)
LEMMA OrphanStep ==
    ASSUME NoOrphanSession,
           \A c \in Conns : (c \notin astray' /\ life'[c] = "open" /\ ~closeReq'[c]) =>
              \/ Answered(c)'
              \/ /\ c \notin astray /\ life[c] = "open" /\ ~closeReq[c]
                 /\ Answered(c) => Answered(c)'
    PROVE  NoOrphanSession'
BY Zenon DEF NoOrphanSession

(* A step that touches nothing of this keeps it.                            *)
LEMMA OrphanSame ==
    ASSUME NoOrphanSession, UNCHANGED <<life, closeReq, astray, state, current, at, call, snap>>
    PROVE  NoOrphanSession'
BY Zenon DEF NoOrphanSession, Answered

(* A call of an API thread.                                                *)
LEMMA CallKeeps ==
    ASSUME Good, NEW t \in Threads,
           ConnectCAS(t) \/ DisconnectMark(t) \/ SendCheck(t) \/ CallStep(t)
    PROVE  Good'
<1>0. Flags /\ Client /\ Loop /\ Calls /\ Making /\ Heart /\ NoOrphanSession
  BY Zenon DEF Good
<1>1. CASE ConnectCAS(t)
  <2>1. Flags'
    BY <1>0, <1>1, Zenon DEF ConnectCAS, Flags, objVars, loopVars, timerVars, quitVars
  <2>2. Client' /\ Loop'
    BY <1>0, <1>1 DEF ConnectCAS, Client, Loop, objVars, loopVars, timerVars, quitVars
  <2>3. Calls'
    BY <1>0, <1>1 DEF ConnectCAS, Calls, Client, Begin
  <2>4. NoOrphanSession'
    <3>1. ASSUME NEW c \in Conns, life'[c] = "open"
          PROVE  life[c] = "open" /\ UNCHANGED astray /\ UNCHANGED closeReq /\ (Answered(c) => Answered(c)')
      BY <1>0, <1>1, <3>1 DEF ConnectCAS, Begin, Answered, Calls, Client, objVars, loopVars
    <3> QED BY <1>0, <3>1, OrphanStep, Zenon
  <2>5. Making' /\ Heart'
    BY <1>0, <1>1 DEF ConnectCAS, Making, Heart, loopVars, timerVars, quitVars
  <2> QED BY <2>1, <2>2, <2>3, <2>4, <2>5, Zenon DEF Good
<1>2. CASE ConnectPost(t)
  <2>1. Flags'
    BY <1>0, <1>2, Zenon DEF ConnectPost, Flags, objVars, loopVars, timerVars, quitVars
  <2>2. Client' /\ Loop'
    BY <1>0, <1>2 DEF ConnectPost, Client, Loop, objVars, loopVars, timerVars, quitVars
  <2>3. Calls'
    BY <1>0, <1>2 DEF ConnectPost, Calls, Client, Begin
  <2>4. NoOrphanSession'
    <3>1. ASSUME NEW c \in Conns, life'[c] = "open"
          PROVE  life[c] = "open" /\ UNCHANGED astray /\ UNCHANGED closeReq /\ (Answered(c) => Answered(c)')
      BY <1>0, <1>2, <3>1 DEF ConnectPost, Begin, Answered, Calls, Client, objVars, loopVars
    <3> QED BY <1>0, <3>1, OrphanStep, Zenon
  <2>5. Making' /\ Heart'
    BY <1>0, <1>2 DEF ConnectPost, Making, Heart, loopVars, timerVars, quitVars
  <2> QED BY <2>1, <2>2, <2>3, <2>4, <2>5, Zenon DEF Good
<1>3. CASE DisconnectMark(t)
  <2>1. Flags'
    BY <1>0, <1>3, Zenon DEF DisconnectMark, Flags, objVars, loopVars, timerVars, quitVars
  <2>2. Client' /\ Loop'
    BY <1>0, <1>3 DEF DisconnectMark, Client, Loop, objVars, loopVars, timerVars, quitVars
  <2>3. Calls'
    BY <1>0, <1>3, NoneIsNew DEF DisconnectMark, Calls, Client, Begin
  <2>4. NoOrphanSession'
    <3>1. UNCHANGED <<life, closeReq, astray, current, at>>
      BY <1>3 DEF DisconnectMark, objVars, loopVars
    <3>2. ASSUME NEW c \in Conns, c = current
          PROVE  call'[t] = "closing" /\ snap'[t] = c
      BY <1>0, <1>3, <3>2, NoneIsNew DEF DisconnectMark, Calls
    <3>3. ASSUME NEW c \in Conns, NEW u \in Threads, call[u] = "closing", snap[u] = c
          PROVE  call'[u] = "closing" /\ snap'[u] = c
      <4>1. u # t
        BY <1>3, <3>3 DEF DisconnectMark, Begin
      <4> QED BY <1>0, <1>3, <3>3, <4>1 DEF DisconnectMark, Calls
    <3>4. \A c \in Conns : Answered(c) => Answered(c)'
      BY <3>1, <3>2, <3>3, Zenon DEF Answered
    <3> QED BY <1>0, <3>1, <3>4, OrphanStep, Zenon
  <2>5. Making' /\ Heart'
    BY <1>0, <1>3 DEF DisconnectMark, Making, Heart, loopVars, timerVars, quitVars
  <2> QED BY <2>1, <2>2, <2>3, <2>4, <2>5, Zenon DEF Good
<1>4. CASE DisconnectClose(t)
  <2>1. /\ closeReq' \in [Conns -> BOOLEAN] /\ snap[t] \in Conns /\ closeReq'[snap[t]]
        /\ \A d \in Conns : closeReq[d] => closeReq'[d]
    <3>1. snap[t] \in Conns
      BY <1>0, <1>4 DEF DisconnectClose, Calls
    <3> QED BY <1>0, <1>4, <3>1, RequestTyped, Zenon DEF DisconnectClose, Flags
  <2>2. /\ life' \in [Conns -> Lives] /\ astray' \in SUBSET Conns /\ destroyedOpen' \in BOOLEAN
        /\ \A c \in Conns : life'[c] = "open" =>
              life[c] = "open" /\ (c \notin astray' => c \notin astray)
    BY <1>0, <1>4, ReleaseKeeps, Zenon DEF DisconnectClose, Client
  <2>3. Flags'
    BY <1>0, <1>4, <2>1, <2>2, Zenon DEF DisconnectClose, Flags, loopVars, timerVars, quitVars
  <2>4. Client' /\ Loop'
    BY <1>0, <1>4, <2>2 DEF DisconnectClose, Client, Loop, loopVars, timerVars, quitVars
  <2>5. Calls'
    BY <1>0, <1>4 DEF DisconnectClose, Calls
  <2>6. NoOrphanSession'
    <3>1. ASSUME NEW c \in Conns, c \notin astray', life'[c] = "open", ~closeReq'[c]
          PROVE  /\ c \notin astray /\ life[c] = "open" /\ ~closeReq[c]
                 /\ Answered(c) => Answered(c)'
      <4>1. c \notin astray /\ life[c] = "open" /\ ~closeReq[c]
        BY <2>1, <2>2, <3>1, Zenon
      <4>2. UNCHANGED <<current, state, at>>
        BY <1>4 DEF DisconnectClose, loopVars
      <4>3. ASSUME NEW u \in Threads, call[u] = "closing", snap[u] = c
            PROVE  call'[u] = "closing" /\ snap'[u] = c
        <5>1. u # t
          BY <2>1, <3>1, <4>3, Zenon
        <5> QED BY <1>0, <1>4, <4>3, <5>1 DEF DisconnectClose, Calls
      <4> QED BY <4>1, <4>2, <4>3, Zenon DEF Answered
    <3> QED BY <1>0, <3>1, OrphanStep, Zenon
  <2>7. Making' /\ Heart'
    BY <1>0, <1>4, Zenon DEF DisconnectClose, Making, Heart, loopVars, timerVars, quitVars
  <2> QED BY <2>3, <2>4, <2>5, <2>6, <2>7, Zenon DEF Good
<1>5. CASE SendCheck(t)
  <2>1. Flags'
    BY <1>0, <1>5, Zenon DEF SendCheck, Flags, objVars, loopVars, timerVars, quitVars
  <2>2. Client' /\ Loop'
    BY <1>0, <1>5 DEF SendCheck, Client, Loop, objVars, loopVars, timerVars, quitVars
  <2>3. Calls'
    BY <1>0, <1>5 DEF SendCheck, Calls, Client, Begin
  <2>4. NoOrphanSession'
    <3>1. ASSUME NEW c \in Conns, life'[c] = "open"
          PROVE  life[c] = "open" /\ UNCHANGED astray /\ UNCHANGED closeReq /\ (Answered(c) => Answered(c)')
      BY <1>0, <1>5, <3>1 DEF SendCheck, Begin, Answered, Calls, Client, objVars, loopVars
    <3> QED BY <1>0, <3>1, OrphanStep, Zenon
  <2>5. Making' /\ Heart'
    BY <1>0, <1>5 DEF SendCheck, Making, Heart, loopVars, timerVars, quitVars
  <2> QED BY <2>1, <2>2, <2>3, <2>4, <2>5, Zenon DEF Good
<1>6. CASE SendSnapshot(t)
  <2>1. Flags'
    BY <1>0, <1>6, Zenon DEF SendSnapshot, Flags, objVars, loopVars, timerVars, quitVars
  <2>2. Client' /\ Loop'
    BY <1>0, <1>6 DEF SendSnapshot, Client, Loop, objVars, loopVars, timerVars, quitVars
  <2>3. Calls'
    BY <1>0, <1>6, NoneIsNew DEF SendSnapshot, Calls, Client, Begin
  <2>4. NoOrphanSession'
    <3>1. ASSUME NEW c \in Conns, life'[c] = "open"
          PROVE  life[c] = "open" /\ UNCHANGED astray /\ UNCHANGED closeReq /\ (Answered(c) => Answered(c)')
      BY <1>0, <1>6, <3>1 DEF SendSnapshot, Begin, Answered, Calls, Client, objVars, loopVars
    <3> QED BY <1>0, <3>1, OrphanStep, Zenon
  <2>5. Making' /\ Heart'
    BY <1>0, <1>6 DEF SendSnapshot, Making, Heart, loopVars, timerVars, quitVars
  <2> QED BY <2>1, <2>2, <2>3, <2>4, <2>5, Zenon DEF Good
<1>7. CASE SendWrite(t)
  <2>1. closeReq' \in [Conns -> BOOLEAN] /\ \A d \in Conns : closeReq[d] => closeReq'[d]
    BY <1>0, <1>7, RequestTyped, Zenon DEF SendWrite, Flags
  <2>2. /\ life' \in [Conns -> Lives] /\ astray' \in SUBSET Conns /\ destroyedOpen' \in BOOLEAN
        /\ \A c \in Conns : life'[c] = "open" =>
              life[c] = "open" /\ (c \notin astray' => c \notin astray)
    BY <1>0, <1>7, ReleaseKeeps, Zenon DEF SendWrite, Client
  <2>3. Flags'
    BY <1>0, <1>7, <2>1, <2>2, Zenon DEF SendWrite, Flags, loopVars, timerVars, quitVars
  <2>4. Client' /\ Loop'
    BY <1>0, <1>7, <2>2 DEF SendWrite, Client, Loop, loopVars, timerVars, quitVars
  <2>5. Calls'
    BY <1>0, <1>7 DEF SendWrite, Calls
  <2>6. NoOrphanSession'
    <3>1. ASSUME NEW c \in Conns, c \notin astray', life'[c] = "open", ~closeReq'[c]
          PROVE  /\ c \notin astray /\ life[c] = "open" /\ ~closeReq[c]
                 /\ Answered(c) => Answered(c)'
      <4>1. c \notin astray /\ life[c] = "open" /\ ~closeReq[c]
        BY <2>1, <2>2, <3>1, Zenon
      <4>2. UNCHANGED <<current, state, at>>
        BY <1>7 DEF SendWrite, loopVars
      <4>3. ASSUME NEW u \in Threads, call[u] = "closing", snap[u] = c
            PROVE  call'[u] = "closing" /\ snap'[u] = c
        BY <1>0, <1>7, <4>3 DEF SendWrite, Calls
      <4> QED BY <4>1, <4>2, <4>3, Zenon DEF Answered
    <3> QED BY <1>0, <3>1, OrphanStep, Zenon
  <2>7. Making' /\ Heart'
    BY <1>0, <1>7, Zenon DEF SendWrite, Making, Heart, loopVars, timerVars, quitVars
  <2> QED BY <2>3, <2>4, <2>5, <2>6, <2>7, Zenon DEF Good
<1> QED BY <1>1, <1>2, <1>3, <1>4, <1>5, <1>6, <1>7, Zenon DEF CallStep

(* A task of the management round.                                         *)
LEMMA TaskKeeps ==
    ASSUME Good, TakeTasks \/ RunTask
    PROVE  Good'
<1>0. Flags /\ Client /\ Loop /\ Calls /\ Making /\ Heart /\ NoOrphanSession
  BY Zenon DEF Good
<1>1. CASE TakeTasks
  <2>1. Flags'
    BY <1>0, <1>1, Zenon DEF TakeTasks, Flags, objVars, timerVars, quitVars
  <2>2. Client' /\ Calls'
    BY <1>0, <1>1 DEF TakeTasks, Client, Calls, objVars, timerVars, quitVars, callVars
  <2>3. Loop'
    BY <1>0, <1>1, NoneIsNew DEF TakeTasks, LoopFree, Loop
  <2>4. NoOrphanSession' /\ Making' /\ Heart'
    BY <1>0, <1>1, OrphanSame, Zenon
       DEF TakeTasks, Making, Heart, objVars, timerVars, quitVars, callVars
  <2> QED BY <2>1, <2>2, <2>3, <2>4, Zenon DEF Good
<1>2. CASE RunConnectCheck
  <2>1. Flags'
    BY <1>0, <1>2, Zenon DEF RunConnectCheck, Flags, objVars, timerVars, quitVars
  <2>2. Client' /\ Calls'
    BY <1>0, <1>2 DEF RunConnectCheck, Client, Calls, objVars, timerVars, quitVars, callVars
  <2>3. Loop'
    <3>1. CASE at' = "install" /\ UNCHANGED batch
      BY <1>0, <1>2, <3>1 DEF RunConnectCheck, Loop
    <3>2. CASE batch' = Tail(batch) /\ UNCHANGED at
      BY <1>0, <1>2, <3>2, NoneIsNew DEF RunConnectCheck, Loop
    <3> QED BY <1>2, <3>1, <3>2, Zenon DEF RunConnectCheck
  <2>4. NoOrphanSession'
    <3>1. at = None /\ UNCHANGED <<state, current, life, closeReq, astray, call, snap>>
      BY <1>2 DEF RunConnectCheck, objVars, callVars
    <3>2. \A c \in Conns : Answered(c) => Answered(c)'
      BY <3>1, NoneIsNew, Zenon DEF Answered
    <3> QED BY <1>0, <3>1, <3>2, OrphanStep, Zenon
  <2>5. Making' /\ Heart'
    BY <1>0, <1>2 DEF RunConnectCheck, Making, Heart, timerVars, quitVars
  <2> QED BY <2>1, <2>2, <2>3, <2>4, <2>5, Zenon DEF Good
<1>3. CASE RunConnectInstall
  <2>1. PICK c \in Conns :
          /\ life[c] = "none" /\ current' = c
          /\ pending' = pending \cup ({current} \ {None})
          /\ closeReq' = [closeReq EXCEPT ![c] = FALSE]
          /\ UNCHANGED <<state, tasks, mgmtSignal, timerVars, quitVars, callVars>>
          /\ Release([life EXCEPT ![c] = "idle"])
    BY <1>3, Zenon DEF RunConnectInstall
  <2> DEFINE newLife == [life EXCEPT ![c] = "idle"]
  <2>2. /\ newLife \in [Conns -> Lives] /\ newLife[c] = "idle"
        /\ \A d \in Conns : newLife[d] = "open" => life[d] = "open" /\ d # c
    BY <1>0 DEF Client, Lives
  <2>3. /\ life' \in [Conns -> Lives] /\ astray' \in SUBSET Conns /\ destroyedOpen' \in BOOLEAN
        /\ \A d \in Conns : life'[d] = "open" =>
              newLife[d] = "open" /\ (d \notin astray' => d \notin astray)
    <3>1. Release(newLife) /\ astray \in SUBSET Conns
      BY <1>0, <2>1 DEF Client
    <3> HIDE DEF newLife
    <3> QED BY <2>2, <3>1, ReleaseKeeps, Zenon
  <2>4. batch' = Tail(batch) /\ at' = None /\ at = "install" /\ batch # <<>>
    BY <1>0, <1>3 DEF RunConnectInstall, Loop
  <2> HIDE DEF newLife
  <2>5. Flags'
    BY <1>0, <2>1, <2>3, Zenon DEF Flags, timerVars, quitVars
  <2>6. Client' /\ Calls'
    BY <1>0, <2>1, <2>3 DEF Client, Calls, timerVars, quitVars, callVars
  <2>7. Loop'
    BY <1>0, <2>1, <2>4, NoneIsNew DEF Loop
  <2>8. NoOrphanSession'
    <3>1. ASSUME NEW d \in Conns, d \notin astray', life'[d] = "open", ~closeReq'[d]
          PROVE  /\ d \notin astray /\ life[d] = "open" /\ ~closeReq[d]
                 /\ Answered(d) => Answered(d)'
      <4>1. d \notin astray /\ life[d] = "open" /\ d # c
        BY <2>2, <2>3, <3>1, Zenon
      <4>2. ~closeReq[d]
        BY <1>0, <2>1, <3>1, <4>1 DEF Flags
      <4>3. state # "Connected" /\ at # d
        BY <1>0, <2>4, NoneIsNew DEF Making
      <4>4. UNCHANGED <<call, snap>>
        BY <2>1 DEF callVars
      <4> QED BY <4>1, <4>2, <4>3, <4>4, Zenon DEF Answered
    <3> QED BY <1>0, <3>1, OrphanStep, Zenon
  <2>9. Making' /\ Heart'
    BY <1>0, <2>1, <2>4, NoneIsNew DEF Making, Heart, timerVars, quitVars
  <2> QED BY <2>5, <2>6, <2>7, <2>8, <2>9, Zenon DEF Good
<1>4. CASE RunClear
  <2>1. /\ life' \in [Conns -> Lives] /\ astray' \in SUBSET Conns /\ destroyedOpen' \in BOOLEAN
        /\ \A c \in Conns : life'[c] = "open" =>
              life[c] = "open" /\ (c \notin astray' => c \notin astray)
    BY <1>0, <1>4, ReleaseKeeps, Zenon DEF RunClear, Client
  <2>2. Flags'
    BY <1>0, <1>4, <2>1, Zenon DEF RunClear, Flags, timerVars, quitVars
  <2>3. Client' /\ Calls'
    BY <1>0, <1>4, <2>1 DEF RunClear, Client, Calls, timerVars, quitVars, callVars
  <2>4. Loop'
    BY <1>0, <1>4 DEF RunClear, Loop
  <2>5. NoOrphanSession'
    <3>1. UNCHANGED <<current, state, at, closeReq, call, snap>>
      BY <1>4 DEF RunClear, callVars
    <3>2. \A c \in Conns : Answered(c) => Answered(c)'
      BY <3>1, Zenon DEF Answered
    <3> QED BY <1>0, <2>1, <3>1, <3>2, OrphanStep, Zenon
  <2>6. Making' /\ Heart'
    BY <1>0, <1>4, Zenon DEF RunClear, Making, Heart, timerVars, quitVars
  <2> QED BY <2>2, <2>3, <2>4, <2>5, <2>6, Zenon DEF Good
<1>5. CASE ConnectedSet
  <2>1. Flags'
    BY <1>0, <1>5, Zenon DEF ConnectedSet, StartHeartbeat, Flags, quitVars
  <2>2. Client' /\ Calls'
    BY <1>0, <1>5 DEF ConnectedSet, StartHeartbeat, Client, Calls, quitVars, callVars
  <2>3. Loop'
    BY <1>0, <1>5, NoneIsNew DEF ConnectedSet, Loop
  <2>4. NoOrphanSession'
    <3>1. ASSUME NEW c \in Conns, c \notin astray', life'[c] = "open", ~closeReq'[c]
          PROVE  \/ Answered(c)'
                 \/ /\ c \notin astray /\ life[c] = "open" /\ ~closeReq[c]
                    /\ Answered(c) => Answered(c)'
      <4>1. c \notin astray /\ life[c] = "open" /\ ~closeReq[c] /\ (at = c => c = current)
        BY <1>5, <3>1 DEF ConnectedSet
      <4>2. UNCHANGED <<current, call, snap>> /\ state' = "Connected"
        BY <1>5 DEF ConnectedSet, callVars
      <4> QED BY <4>1, <4>2, Zenon DEF Answered
    <3> QED BY <1>0, <3>1, OrphanStep, Zenon
  <2>5. Making' /\ Heart'
    BY <1>0, <1>5, NoneIsNew DEF ConnectedSet, StartHeartbeat, Making, Heart, quitVars
  <2> QED BY <2>1, <2>2, <2>3, <2>4, <2>5, Zenon DEF Good
<1> QED BY <1>1, <1>2, <1>3, <1>4, <1>5, Zenon DEF RunTask

(* What the loop does when it asks for a close, or makes one.              *)
LEMMA RequestKeeps ==
    ASSUME Good, NEW c, RequestClose(c),
           UNCHANGED <<state, current, pending, life, destroyedOpen, astray, loopVars, callVars>>,
           quitSignal' \in BOOLEAN, timerActive' \in BOOLEAN, Heart',
           timer' \in {"closed", "running", "closing"},
           quit' \in {"no", "requested", "closing", "ended"}
    PROVE  Good'
<1>0. Flags /\ Client /\ Loop /\ Calls /\ Making /\ NoOrphanSession
  BY Zenon DEF Good
<1>1. closeReq' \in [Conns -> BOOLEAN] /\ \A d \in Conns : closeReq[d] => closeReq'[d]
  BY <1>0, RequestTyped, Zenon DEF Flags
<1>2. Flags'
  BY <1>0, <1>1, Zenon DEF Flags, loopVars
<1>3. Client' /\ Loop' /\ Calls'
  BY <1>0 DEF Client, Loop, Calls, loopVars, callVars
<1>4. NoOrphanSession' /\ Making'
  <2>1. \A d \in Conns : Answered(d) => Answered(d)'
    BY Zenon DEF Answered, loopVars, callVars
  <2>2. Making'
    BY <1>0, Zenon DEF Making, loopVars
  <2> QED BY <1>0, <1>1, <2>1, <2>2, OrphanStep, Zenon
<1> QED BY <1>2, <1>3, <1>4, Zenon DEF Good

(* A callback of a connection.                                             *)
LEMMA ConnKeeps ==
    ASSUME Good, NEW c \in Conns,
           Connected(c) \/ ConnectFailed(c) \/ PeerGone(c) \/ DoClose(c) \/ OnClosed(c)
    PROVE  Good'
<1>0. Flags /\ Client /\ Loop /\ Calls /\ Making /\ Heart /\ NoOrphanSession
  BY Zenon DEF Good
<1>1. CASE Connected(c)
  <2>1. closeReq' \in [Conns -> BOOLEAN] /\ \A d \in Conns : closeReq[d] => closeReq'[d]
    BY <1>0, <1>1, RequestTyped, Zenon DEF Connected, Flags
  <2>2. closeReq'[c] \/ at' = c
    BY <1>0, <1>1, RequestTyped, Zenon DEF Connected, Flags
  <2>3. Flags'
    BY <1>0, <1>1, <2>1, Zenon DEF Connected, Flags, timerVars, quitVars
  <2>4. Client' /\ Calls'
    BY <1>0, <1>1 DEF Connected, Client, Calls, Lives, timerVars, quitVars, callVars
  <2>5. Loop'
    BY <1>0, <1>1, NoneIsNew DEF Connected, LoopFree, Loop
  <2>6. NoOrphanSession'
    <3>1. /\ at = None /\ life' = [life EXCEPT ![c] = "open"]
          /\ UNCHANGED <<state, current, astray, call, snap>>
      BY <1>1 DEF Connected, LoopFree, callVars
    <3>2. ASSUME NEW d \in Conns, life'[d] = "open", ~closeReq'[d]
          PROVE  \/ Answered(d)'
                 \/ /\ life[d] = "open" /\ ~closeReq[d]
                    /\ Answered(d) => Answered(d)'
      <4>1. CASE d = c
        BY <2>2, <3>2, <4>1, Zenon DEF Answered
      <4>2. CASE d # c
        <5>1. life[d] = "open" /\ ~closeReq[d] /\ at # d
          BY <1>0, <2>1, <3>1, <3>2, <4>2, NoneIsNew DEF Client
        <5> QED BY <3>1, <5>1, Zenon DEF Answered
      <4> QED BY <4>1, <4>2
    <3> QED BY <1>0, <3>1, <3>2, OrphanStep, Zenon
  <2>7. Making' /\ Heart'
    BY <1>0, <1>1, NoneIsNew DEF Connected, LoopFree, Making, Heart, timerVars, quitVars
  <2> QED BY <2>3, <2>4, <2>5, <2>6, <2>7, Zenon DEF Good
<1>2. CASE ConnectFailed(c) \/ PeerGone(c)
  <2>1. LoopClose(c)
    BY <1>2, Zenon DEF ConnectFailed, PeerGone
  <2>2. /\ Heart' /\ quitSignal' \in BOOLEAN /\ timerActive' \in BOOLEAN
        /\ timer' \in {"closed", "running", "closing"}
        /\ quit' \in {"no", "requested", "closing", "ended"}
    BY <1>0, <2>1, Zenon DEF LoopClose, Heart, Flags, Client, timerVars, quitVars
  <2> QED BY <2>1, <2>2, RequestKeeps, Zenon DEF LoopClose
<1>3. CASE DoClose(c)
  <2>1. Flags'
    BY <1>0, <1>3, Zenon DEF DoClose, Flags, loopVars, timerVars, quitVars
  <2>2. Client' /\ Loop' /\ Calls'
    BY <1>0, <1>3 DEF DoClose, Client, Lives, Loop, Calls, loopVars, timerVars, quitVars, callVars
  <2>3. NoOrphanSession'
    <3>1. /\ life' = [life EXCEPT ![c] = "closing"]
          /\ UNCHANGED <<state, current, closeReq, astray, at, call, snap>>
      BY <1>3 DEF DoClose, loopVars, callVars
    <3>2. \A d \in Conns : life'[d] = "open" => life[d] = "open"
      BY <1>0, <3>1 DEF Client
    <3>3. \A d \in Conns : Answered(d) => Answered(d)'
      BY <3>1, Zenon DEF Answered
    <3> QED BY <1>0, <3>1, <3>2, <3>3, OrphanStep, Zenon
  <2>4. Making' /\ Heart'
    BY <1>0, <1>3, Zenon DEF DoClose, Making, Heart, loopVars, timerVars, quitVars
  <2> QED BY <2>1, <2>2, <2>3, <2>4, Zenon DEF Good
<1>4. CASE OnClosed(c)
  <2> DEFINE newLife == [life EXCEPT ![c] = "closed"]
  <2>1. /\ newLife \in [Conns -> Lives]
        /\ \A d \in Conns : newLife[d] = "open" => life[d] = "open" /\ d # c
    BY <1>0 DEF Client, Lives
  <2>2. /\ life' \in [Conns -> Lives] /\ astray' \in SUBSET Conns /\ destroyedOpen' \in BOOLEAN
        /\ \A d \in Conns : life'[d] = "open" =>
              newLife[d] = "open" /\ (d \notin astray' => d \notin astray)
    <3>1. Release(newLife) /\ astray \in SUBSET Conns
      BY <1>0, <1>4 DEF OnClosed, Client
    <3> HIDE DEF newLife
    <3> QED BY <2>1, <3>1, ReleaseKeeps, Zenon
  <2> HIDE DEF newLife
  <2>3. Flags'
    BY <1>0, <1>4, <2>2, Zenon DEF OnClosed, IfCurrent, StopHeartbeat, PostClear, Flags, timerVars
  <2>4. Client' /\ Calls'
    <3>1. timer' \in {"closed", "running", "closing"}
      BY <1>0, <1>4 DEF OnClosed, IfCurrent, StopHeartbeat, Client, timerVars
    <3>2. quit' \in {"no", "requested", "closing", "ended"}
      BY <1>0, <1>4 DEF OnClosed, QuitOnClosed, Client
    <3>3. /\ state' \in {"Disconnected", "Connecting", "Connected"}
          /\ current' \in Conns \cup {None} /\ pending' \in SUBSET Conns
      BY <1>0, <1>4 DEF OnClosed, IfCurrent, Client
    <3>4. Calls'
      BY <1>0, <1>4 DEF OnClosed, Calls, callVars
    <3> QED BY <2>2, <3>1, <3>2, <3>3, <3>4, Zenon DEF Client
  <2>5. Loop'
    BY <1>0, <1>4 DEF OnClosed, PostClear, Loop
  <2>6. NoOrphanSession'
    <3>1. UNCHANGED <<closeReq, at, call, snap>>
      BY <1>4 DEF OnClosed, callVars
    <3>2. ASSUME NEW d \in Conns, d # c, Answered(d)
          PROVE  Answered(d)'
      <4>1. CASE c = current
        BY <3>1, <3>2, <4>1, Zenon DEF Answered
      <4>2. CASE c # current
        <5>1. UNCHANGED <<current, state>>
          BY <1>4, <4>2 DEF OnClosed, IfCurrent
        <5> QED BY <3>1, <3>2, <5>1, Zenon DEF Answered
      <4> QED BY <4>1, <4>2
    <3> QED BY <1>0, <2>1, <2>2, <3>1, <3>2, OrphanStep, Zenon
  <2>7. Making' /\ Heart'
    <3>1. quit' = "no" => quit = "no"
      BY <1>4 DEF OnClosed, QuitOnClosed
    <3>2. at' = at /\ at = None
      BY <1>4 DEF OnClosed, LoopFree
    <3>3. CASE state' = "Disconnected" /\ StopHeartbeat("closed")
      BY <1>0, <3>1, <3>2, <3>3 DEF StopHeartbeat, Making, Heart
    <3>4. CASE UNCHANGED <<state, timerVars>>
      BY <1>0, <3>1, <3>2, <3>4 DEF Making, Heart, timerVars
    <3> QED BY <1>4, <3>3, <3>4 DEF OnClosed, IfCurrent
  <2> QED BY <2>3, <2>4, <2>5, <2>6, <2>7, Zenon DEF Good
<1> QED BY <1>1, <1>2, <1>3, <1>4

(* The heartbeat and the end of the client.                                *)
LEMMA QuitKeeps ==
    ASSUME Good, HeartbeatTimeout \/ OnTimerClosed \/ Quit \/ OnQuit \/ LoopEnd
    PROVE  Good'
<1>0. Flags /\ Client /\ Loop /\ Calls /\ Making /\ Heart /\ NoOrphanSession
  BY Zenon DEF Good
<1>1. CASE HeartbeatTimeout
  <2>1. /\ Heart' /\ quitSignal' \in BOOLEAN /\ timerActive' \in BOOLEAN
        /\ timer' \in {"closed", "running", "closing"}
        /\ quit' \in {"no", "requested", "closing", "ended"}
    BY <1>0, <1>1, Zenon DEF HeartbeatTimeout, LoopClose, Heart, Flags, Client, timerVars, quitVars
  <2> QED BY <1>1, <2>1, RequestKeeps, Zenon DEF HeartbeatTimeout, LoopClose
<1>2. CASE Quit \/ LoopEnd \/ OnTimerClosed
  <2>1. Flags'
    BY <1>0, <1>2, Zenon DEF Quit, LoopEnd, OnTimerClosed, Flags, objVars, loopVars, timerVars, quitVars
  <2>2. Client' /\ Loop' /\ Calls'
    BY <1>0, <1>2 DEF Quit, LoopEnd, OnTimerClosed, Client, Loop, Calls, objVars, loopVars, timerVars,
                      quitVars, callVars
  <2>3. NoOrphanSession'
    BY <1>0, <1>2, OrphanSame, Zenon DEF Quit, LoopEnd, OnTimerClosed, objVars, loopVars, callVars
  <2>4. Making' /\ Heart'
    BY <1>0, <1>2 DEF Quit, LoopEnd, OnTimerClosed, Making, Heart, loopVars, timerVars, quitVars
  <2> QED BY <2>1, <2>2, <2>3, <2>4, Zenon DEF Good
<1>3. CASE OnQuit
  <2>1. quitSignal' \in BOOLEAN /\ timerActive' \in BOOLEAN
    BY <1>3, Zenon DEF OnQuit, StopHeartbeat
  <2>2. quit' \in {"requested", "closing"} /\ timer' \in {"closed", "running", "closing"}
    BY <1>0, <1>3 DEF OnQuit, StopHeartbeat, Client
  <2>3. Heart'
    BY <2>2 DEF Heart
  <2>4. UNCHANGED <<state, current, pending, life, destroyedOpen, astray, loopVars, callVars>>
    BY <1>3 DEF OnQuit
  <2>5. CASE RequestClose(current)
    BY <2>1, <2>2, <2>3, <2>4, <2>5, RequestKeeps
  <2>6. CASE UNCHANGED closeReq
    <3>1. Flags'
      BY <1>0, <2>1, <2>4, <2>6, Zenon DEF Flags, loopVars
    <3>2. Client' /\ Loop' /\ Calls'
      BY <1>0, <2>2, <2>4 DEF Client, Loop, Calls, loopVars, callVars
    <3>3. NoOrphanSession' /\ Making'
      BY <1>0, <2>4, <2>6, OrphanSame, Zenon DEF Making, loopVars, callVars
    <3> QED BY <2>3, <3>1, <3>2, <3>3, Zenon DEF Good
  <2> QED BY <1>3, <2>5, <2>6 DEF OnQuit
<1> QED BY <1>1, <1>2, <1>3

\* The invariant holds always.
LEMMA GoodInvariant == Spec => []Good
<1>1. Init => Good
  <2> SUFFICES ASSUME Init PROVE Good
    OBVIOUS
  <2>1. Flags
    BY Zenon DEF Init, Flags
  <2>2. Client /\ Loop /\ Calls
    BY NoneIsNew DEF Init, Client, Lives, Loop, Calls
  <2>3. NoOrphanSession /\ Making /\ Heart
    BY DEF Init, NoOrphanSession, Making, Heart
  <2> QED BY <2>1, <2>2, <2>3, Zenon DEF Good
<1>2. Good /\ [Next]_vars => Good'
  <2> SUFFICES ASSUME Good, [Next]_vars PROVE Good'
    OBVIOUS
  <2>1. CASE UNCHANGED vars
    <3>1. UNCHANGED <<state, current, pending, life, closeReq, destroyedOpen, astray, tasks, batch, at,
                      mgmtSignal, timerActive, timer, quit, quitSignal, call, snap>>
      BY <2>1 DEF vars, objVars, loopVars, timerVars, quitVars, callVars
    <3>2. Flags' /\ NoOrphanSession' /\ Making' /\ Heart'
      BY <3>1, OrphanSame, Zenon DEF Good, Flags, Making, Heart
    <3>3. Client' /\ Loop' /\ Calls'
      BY <3>1 DEF Good, Client, Loop, Calls
    <3> QED BY <3>2, <3>3, Zenon DEF Good
  <2>2. CASE Next
    BY <2>2, CallKeeps, TaskKeeps, ConnKeeps, QuitKeeps, Zenon DEF Next
  <2> QED BY <2>1, <2>2
<1> QED BY <1>1, <1>2, PTL DEF Spec

\* TcpClient keeps its variables in their types, whatever API threads and
\* connections there are.
THEOREM TypeCorrect == Spec => []TypeOK
BY GoodInvariant, GoodTyped, PTL

\* However connect, disconnect, closes and reconnects interleave, every connection
\* that is up, the current one or one it replaced, is answered for or being closed,
\* unless it was announced while another was current.
THEOREM SessionsAnswered == Spec => []NoOrphanSession
BY GoodInvariant, PTL DEF Good

\* A client that says it is connected has its heartbeat timer running: whenever
\* startHeartbeat is called before the client quits, the timer runs already or its
\* close callback has come.
THEOREM HeartbeatRuns == Spec => []ConnectedIsWatched
<1>1. Good => ConnectedIsWatched
  BY DEF Good, Heart, ConnectedIsWatched
<1> QED BY <1>1, GoodInvariant, PTL
=============================================================================
