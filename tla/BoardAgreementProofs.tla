------------------------- MODULE BoardAgreementProofs -------------------------
(***************************************************************************)
(* The members' boards agree, in the two cases that the code provides for. *)
(*                                                                         *)
(* Newcomers agree.  While elements are added and removed only, every      *)
(* member is at one stage of joining (st): out, joining, asking the first  *)
(* member, being answered, about to be synchronised, or in.  Let A be the  *)
(* ids added through the server and D the ids whose removal has come       *)
(* through it.  What a member shows, but for what is still on its way to   *)
(* it and from it, is A without D (Local): for a member that is in, the    *)
(* frames not worked off yet make up the difference; for a newcomer the    *)
(* full data that is on its way; before that, the request in the queues of *)
(* the first member, and the answer in the frames that member sends.       *)
(*                                                                         *)
(* Users that take turns agree.  When everybody was there at the start and *)
(* nobody operates before all has been delivered, it is always one         *)
(* member's turn (Concord): the others show what it shows (Alike), or will *)
(* once they have worked off the one command that is under way to them, or *)
(* would if the drag of the eraser that it is in ended now (Drags).  Alike *)
(* covers the histories, so that an undo keeps the boards alike; each      *)
(* operation is shown to make of a board what its command makes of a board *)
(* alike.  Strokes that are drawn have the key of the session on the board *)
(* of the user and that of their id on all others (Keyed, Lone).           *)
(***************************************************************************)
EXTENDS BoardRoomProofs

\* What a task or frame takes from a page, what a queue of them takes; whether one
\* brings the full data, of what elements; and whether it asks for that.
TakenIn(t) == IF t.kind \in Bearing /\ t.cmd.type = "ElementRemove" THEN {t.cmd.id} ELSE {}
Taken(q) == UNION {TakenIn(q[i]) : i \in DOMAIN q}
Syncs(t) == t.kind \in Bearing /\ t.cmd.type = "FullSync"
SyncIds(t) == ElementIds(t.cmd.pages[1].elements)
Asks(t) == t.kind \in {"REQUEST_DATA", "GET_ALL_PAGES"}

\* What may come before what on the way to a board, when D are the ids taken.
Before(s, t, D) ==
    /\ NewIn(t) \cap TakenIn(s) = {}
    /\ Syncs(t) => NewIn(s) \subseteq SyncIds(t) \cup D /\ TakenIn(s) \cap SyncIds(t) = {} /\ ~Syncs(s)
    /\ Asks(s) => t.kind \notin Bearing
    /\ s.kind = "REQUEST_DATA" /\ t.kind = "REQUEST_DATA" => s.from # t.from
    /\ ~(s.kind = "GET_ALL_PAGES" /\ t.kind = "GET_ALL_PAGES")
\* A queue in such an order.
InTurn(q, D) == \A i, j \in DOMAIN q : i < j => Before(q[i], q[j], D)

\* What is new or taken in the frames before the ith.
NewBefore(q, i) == UNION {NewIn(q[j]) : j \in 1 .. i - 1}
TakenBefore(q, i) == UNION {TakenIn(q[j]) : j \in 1 .. i - 1}

\* What one task of a queue says, the queue says.
LEMMA QueueHas ==
    ASSUME NEW q, NEW t \in Range(q)
    PROVE  NewIn(t) \subseteq News(q) /\ TakenIn(t) \subseteq Taken(q) /\ SaidIn(t) \subseteq AllSaid(q)
<1>1. PICK i \in DOMAIN q : q[i] = t
  BY DEF Range
<1> QED BY <1>1 DEF News, Taken, AllSaid

\* More ids may be taken.
LEMMA BeforeLasts ==
    ASSUME NEW D, NEW E, D \subseteq E, NEW s, NEW t, Before(s, t, D)
    PROVE  Before(s, t, E)
BY DEF Before

\* An empty queue.
LEMMA NoTokens == ASSUME NEW D PROVE Taken(<<>>) = {} /\ InTurn(<<>>, D) /\ Range(<<>>) = {} /\ News(<<>>) = {}
<1>1. DOMAIN <<>> = {}
  OBVIOUS
<1> QED BY <1>1 DEF Taken, InTurn, Range, News

\* One more in the queue.
LEMMA TokensMore ==
    ASSUME NEW q, IsList(q), NEW t
    PROVE  /\ Range(Append(q, t)) = Range(q) \cup {t} /\ Taken(Append(q, t)) = Taken(q) \cup TakenIn(t)
           /\ \A D : InTurn(q, D) /\ (\A s \in Range(q) : Before(s, t, D)) => InTurn(Append(q, t), D)
           /\ \A i \in DOMAIN q : i \in DOMAIN Append(q, t) /\ Append(q, t)[i] = q[i]
                                  /\ NewBefore(Append(q, t), i) = NewBefore(q, i)
                                  /\ TakenBefore(Append(q, t), i) = TakenBefore(q, i)
           /\ \A i \in DOMAIN Append(q, t) : \/ i \in DOMAIN q
                                             \/ /\ Append(q, t)[i] = t /\ i = Len(q) + 1
                                                /\ NewBefore(Append(q, t), i) = News(q)
                                                /\ TakenBefore(Append(q, t), i) = Taken(q)
<1> DEFINE r == Append(q, t)
<1>1. /\ DOMAIN r = 1 .. Len(q) + 1 /\ Len(q) \in Nat /\ DOMAIN q = 1 .. Len(q)
      /\ \A i \in 1 .. Len(q) : r[i] = q[i]
      /\ r[Len(q) + 1] = t
  BY AppendList
<1> HIDE DEF r
<1>2. /\ \A i \in DOMAIN r : (i \in DOMAIN q /\ r[i] = q[i]) \/ (i = Len(q) + 1 /\ r[i] = t)
      /\ \A i \in DOMAIN q : i \in DOMAIN r /\ r[i] = q[i] /\ i < Len(q) + 1
      /\ Len(q) + 1 \in DOMAIN r
  BY <1>1
<1>3. Range(r) = Range(q) \cup {t}
  BY <1>1, <1>2 DEF Range
<1>4. Taken(r) = Taken(q) \cup TakenIn(t)
  BY <1>1, <1>2 DEF Taken
<1>5. ASSUME NEW D, InTurn(q, D), \A s \in Range(q) : Before(s, t, D) PROVE InTurn(r, D)
  <2>1. ASSUME NEW i \in DOMAIN r, NEW j \in DOMAIN r, i < j PROVE Before(r[i], r[j], D)
    <3>1. i \in DOMAIN q /\ r[i] = q[i] /\ q[i] \in Range(q)
      BY <1>1, <1>2, <2>1 DEF Range
    <3>2. CASE j \in DOMAIN q
      BY <1>2, <1>5, <2>1, <3>1, <3>2 DEF InTurn
    <3>3. CASE r[j] = t
      BY <1>5, <3>1, <3>3
    <3> QED BY <1>2, <3>2, <3>3
  <2> QED BY <2>1 DEF InTurn
<1>6. ASSUME NEW i \in DOMAIN q
      PROVE  NewBefore(r, i) = NewBefore(q, i) /\ TakenBefore(r, i) = TakenBefore(q, i)
  <2>1. \A j \in 1 .. i - 1 : r[j] = q[j]
    BY <1>1
  <2> QED BY <2>1 DEF NewBefore, TakenBefore
<1>7. NewBefore(r, Len(q) + 1) = News(q) /\ TakenBefore(r, Len(q) + 1) = Taken(q)
  <2>1. 1 .. (Len(q) + 1) - 1 = DOMAIN q
    BY <1>1
  <2>2. \A j \in DOMAIN q : r[j] = q[j]
    BY <1>1
  <2> QED BY <2>1, <2>2 DEF NewBefore, TakenBefore, News, Taken
<1> QED BY <1>2, <1>3, <1>4, <1>5, <1>6, <1>7 DEF r

\* The first in the queue is taken.
LEMMA TokensLess ==
    ASSUME NEW q, IsList(q), q # <<>>
    PROVE  /\ Range(q) = {Head(q)} \cup Range(Tail(q)) /\ Taken(q) = TakenIn(Head(q)) \cup Taken(Tail(q))
           /\ \A D : InTurn(q, D) => InTurn(Tail(q), D) /\ \A t \in Range(Tail(q)) : Before(Head(q), t, D)
           /\ 1 \in DOMAIN q /\ q[1] = Head(q) /\ NewBefore(q, 1) = {} /\ TakenBefore(q, 1) = {}
           /\ \A i \in DOMAIN Tail(q) : /\ i + 1 \in DOMAIN q /\ q[i + 1] = Tail(q)[i] /\ i + 1 # 1
                                        /\ NewBefore(q, i + 1) = NewIn(Head(q)) \cup NewBefore(Tail(q), i)
                                        /\ TakenBefore(q, i + 1) = TakenIn(Head(q)) \cup TakenBefore(Tail(q), i)
<1> DEFINE r == Tail(q)
           h == Head(q)
<1>1. /\ DOMAIN r = 1 .. Len(q) - 1 /\ Len(q) \in Nat \ {0} /\ DOMAIN q = 1 .. Len(q) /\ h = q[1]
      /\ \A i \in DOMAIN r : r[i] = q[i + 1]
  BY TailList
<1> HIDE DEF r, h
<1>2. /\ 1 \in DOMAIN q /\ q[1] = h
      /\ \A i \in DOMAIN r : i + 1 \in DOMAIN q /\ r[i] = q[i + 1] /\ 1 < i + 1 /\ i + 1 # 1
      /\ \A i, j \in DOMAIN r : i < j => i + 1 < j + 1
      /\ \A i \in DOMAIN q : i = 1 \/ (i - 1 \in DOMAIN r /\ r[i - 1] = q[i])
  <2>1. \A i \in DOMAIN q : i = 1 \/ (i - 1 \in DOMAIN r /\ (i - 1) + 1 = i)
    BY <1>1
  <2> QED BY <1>1, <2>1
<1>3. Range(q) = {h} \cup Range(r)
  BY <1>2 DEF Range
<1>4. Taken(q) = TakenIn(h) \cup Taken(r)
  BY <1>2 DEF Taken
<1>5. ASSUME NEW D, InTurn(q, D) PROVE InTurn(r, D) /\ \A t \in Range(r) : Before(h, t, D)
  <2>1. InTurn(r, D)
    BY <1>2, <1>5 DEF InTurn
  <2>2. \A i \in DOMAIN r : Before(h, r[i], D)
    BY <1>2, <1>5 DEF InTurn
  <2> QED BY <2>1, <2>2 DEF Range
<1>6. NewBefore(q, 1) = {} /\ TakenBefore(q, 1) = {}
  <2>1. 1 .. 1 - 1 = {}
    OBVIOUS
  <2> QED BY <2>1 DEF NewBefore, TakenBefore
<1>7. ASSUME NEW i \in DOMAIN r
      PROVE  /\ NewBefore(q, i + 1) = NewIn(h) \cup NewBefore(r, i)
             /\ TakenBefore(q, i + 1) = TakenIn(h) \cup TakenBefore(r, i)
  <2>1. ASSUME NEW j \in 1 .. (i + 1) - 1, j # 1
        PROVE  j - 1 \in 1 .. i - 1 /\ r[j - 1] = q[j]
    <3>1. j - 1 \in DOMAIN r /\ (j - 1) + 1 = j /\ j - 1 \in 1 .. i - 1
      BY <1>1, <2>1
    <3> QED BY <1>1, <3>1
  <2>2. \A j \in 1 .. i - 1 : j + 1 \in 1 .. (i + 1) - 1 /\ r[j] = q[j + 1]
    BY <1>1
  <2>3. 1 \in 1 .. (i + 1) - 1 /\ q[1] = h
    BY <1>1
  <2> QED BY <2>1, <2>2, <2>3 DEF NewBefore, TakenBefore
<1> QED BY <1>2, <1>3, <1>4, <1>5, <1>6, <1>7 DEF r, h

\* What is taken by what is on its way to m and from m; all that is on its way to m;
\* the elements m shows; and the member who is asked for the full data.
InTaken(m) == Taken(dataQueue[m]) \cup Taken(apiQueue[m]) \cup Taken(down[m])
OutTaken(m) == Taken(up[m]) \cup Taken(Wrapped(outbox[m]))
Flow(m) == Range(dataQueue[m]) \cup Range(apiQueue[m]) \cup Range(down[m])
Shown(m) == ElementIds(Elements(board[m]))
Oldest == Founders[1]

\* Only elements that are no strokes, all on one page.
PlainPage(p) == \A e \in Range(p.elements) : e = Element(e.id, FALSE)
PlainBoard(b) == Len(b.pages) = 1 /\ b.currentPage = 1 /\ PlainPage(b.pages[1]) /\ b.eraserAdded = <<>>
PlainCommand(c) ==
    \/ c.type = "ElementAdd" /\ c.element = Element(c.element.id, FALSE)
    \/ c.type = "ElementRemove"
    \/ c.type = "FullSync" /\ Len(c.pages) = 1 /\ PlainPage(c.pages[1]) /\ c.pages[1].pageId = 1
PlainIn(t) ==
    /\ t.kind \in Bearing => PlainCommand(t.cmd)
    /\ t.kind = "BROADCAST" => t.cmd.type # "FullSync"
    /\ t.kind = "UNICAST" => t.to \in Members

\* All of p may come before all of q, and so m's queues, one after the other.
Follows(p, q, D) == \A s \in Range(p), t \in Range(q) : Before(s, t, D)
Chain(m, D) ==
    /\ InTurn(dataQueue[m], D) /\ InTurn(apiQueue[m], D) /\ InTurn(down[m], D)
    /\ Follows(dataQueue[m], apiQueue[m], D) /\ Follows(dataQueue[m], down[m], D)
    /\ Follows(apiQueue[m], down[m], D)

\* The full data on its way to m is what was added and not taken, but for what
\* comes to m after it.
SyncRight(m, t, A, D) ==
    Syncs(t) => /\ SyncIds(t) \subseteq A /\ SyncIds(t) \cap D \subseteq InTaken(m)
                /\ A \subseteq SyncIds(t) \cup In(m) \cup D

\* What is on its way to m.
Receives(m, A, D) ==
    /\ Chain(m, D)
    /\ In(m) \subseteq A /\ In(m) \cap D \subseteq InTaken(m) /\ InTaken(m) \subseteq D
    /\ \A t \in Flow(m) : PlainIn(t) /\ SyncRight(m, t, A, D)

\* A frame on its way from m: an answer fits what m sent before it.
FrameRight(q, i, A, D) ==
    /\ PlainIn(q[i]) /\ TakenIn(q[i]) \subseteq A \cup NewBefore(q, i)
    /\ q[i].kind = "UNICAST" =>
          /\ SyncIds(q[i]) \subseteq A \cup NewBefore(q, i)
          /\ SyncIds(q[i]) \cap TakenBefore(q, i) = {} /\ SyncIds(q[i]) \cap D = {}
          /\ A \cup NewBefore(q, i) \subseteq SyncIds(q[i]) \cup D \cup TakenBefore(q, i)
          /\ \A j \in DOMAIN q : q[j].kind = "UNICAST" /\ q[j].to = q[i].to => j = i

\* What is on its way from m.
Sends(m, A, D) ==
    /\ outbox[m] # <<>> => Len(outbox[m]) = 1 /\ PlainIn([kind |-> "BROADCAST", cmd |-> outbox[m][1]])
    /\ Out(m) \cap A = {} /\ Taken(Wrapped(outbox[m])) \subseteq A \cup News(up[m])
    /\ \A i \in DOMAIN up[m] : FrameRight(up[m], i, A, D)

\* Requests are for the oldest member only, one after the other, and while one is
\* under way nothing else comes to that member.
Requested(m) == {n \in Members : Asked(n) \in Range(apiQueue[m]) \cup Range(down[m])}
Answered(m) == {n \in Members : \E t \in Range(up[m]) : t.kind = "UNICAST" /\ t.to = n}
Serves(m) ==
    /\ serving[m] = None => \A t \in Range(dataQueue[m]) : t.kind # "GET_ALL_PAGES"
    /\ serving[m] \notin Requested(m)
    /\ \A t \in Range(apiQueue[m]) \cup Range(down[m]) : t.kind = "REQUEST_DATA" => t = Asked(t.from)
    /\ Answered(m) # {} => \A t \in Flow(m) : t.kind \notin Bearing
    /\ m # Oldest => Requested(m) = {} /\ serving[m] = None /\ Answered(m) = {}

\* How far m has come.
Stages == {"out", "join", "ask", "answer", "sync", "in"}
Seat(m, st) ==
    /\ st[m] = "in" <=> synced[m]
    /\ st[m] \in {"out", "join"} <=> m \notin Range(order)
    /\ st[m] = "out" <=> link[m] # "joined"
    /\ st[m] = "sync" <=> \E t \in Flow(m) : Syncs(t)
    /\ st[m] = "join" => Len(up[m]) = 1 /\ up[m][1].kind = "JOIN"
    /\ st[m] \notin {"join", "in"} => up[m] = <<>>
    /\ st[m] = "in" => \A t \in Range(up[m]) : t.kind # "JOIN"
    /\ st[m] # "in" => outbox[m] = <<>>
    /\ st[m] \in {"out", "join"} => /\ apiQueue[m] = <<>> /\ down[m] = <<>>
                                    /\ \A t \in Range(dataQueue[m]) : t.kind \notin Bearing

\* A member that is in has its callback, others may have it on its way.
Wired(m) ==
    /\ synced[m] => callback[m]
    /\ \/ callback[m]
       \/ dataQueue[m] # <<>> /\ dataQueue[m][1].kind = "SET_CALLBACK"
       \/ link[m] = "off" /\ dataQueue[m] = <<>>

\* A member's page shows what was added and not taken, but for what is under way.
Right(m, A, D) ==
    /\ PlainBoard(board[m]) /\ OutTaken(m) \cap In(m) = {}
    /\ synced[m] =>
          /\ board[m].pages[1].pageId = 1
          /\ Shown(m) \subseteq A \cup Out(m) /\ Shown(m) \cap OutTaken(m) = {}
          /\ Shown(m) \cap D \subseteq InTaken(m)
          /\ A \cup Out(m) \subseteq Shown(m) \cup In(m) \cup D \cup OutTaken(m)

\* All that is claimed of one member.
Local(m, A, D, st) ==
    Receives(m, A, D) /\ Sends(m, A, D) /\ Serves(m) /\ Seat(m, st) /\ Wired(m) /\ Right(m, A, D)

\* The stages of the whole room; nobody erases; ids are given in order; and the oldest
\* founder stays the first member.
Stage(st) ==
    /\ st[Oldest] = "in"
    /\ \A n \in Members : st[n] = "ask" <=> (n \in Requested(Oldest) \/ serving[Oldest] = n)
    /\ \A n \in Members : st[n] = "answer" <=> n \in Answered(Oldest)
Calm == ~torn /\ \A m \in Members : \A s \in Sessions : tool[m][s] = "none"
Numbered(A, D) == D \subseteq A /\ A \subseteq 1 .. nextId - 1
Founded == order # <<>> /\ order[1] = Oldest

\* The invariant, as long as nobody operated early and no relay crossed an answer.
AgreeWith(A, D, st) ==
    /\ st \in [Members -> Stages] /\ Stage(st) /\ Calm /\ Numbered(A, D) /\ Founded
    /\ \A m \in Members : Local(m, A, D, st)
Open == ~crossed /\ \A m \in Members : ~early[m]
Agree == Open => \E A, D : \E st : AgreeWith(A, D, st)

\* A member to whom nothing happens stands where it stood.
LEMMA Untouched ==
    ASSUME NEW m \in Members, NEW A, NEW D, NEW st, NEW su,
           su[m] = st[m] \/ (su[m] \in {"ask", "answer"} /\ st[m] \in {"ask", "answer"}),
           /\ board'[m] = board[m] /\ dataQueue'[m] = dataQueue[m] /\ apiQueue'[m] = apiQueue[m]
           /\ down'[m] = down[m] /\ up'[m] = up[m] /\ outbox'[m] = outbox[m] /\ serving'[m] = serving[m]
           /\ link'[m] = link[m] /\ callback'[m] = callback[m] /\ synced'[m] = synced[m]
           /\ m \in Range(order') <=> m \in Range(order),
           Local(m, A, D, st)
    PROVE  Local(m, A, D, su)'
<1>1. In(m)' = In(m) /\ InTaken(m)' = InTaken(m) /\ Flow(m)' = Flow(m) /\ Chain(m, D)' = Chain(m, D)
  BY DEF In, InTaken, Flow, Chain
<1>2. Receives(m, A, D)'
  BY <1>1 DEF Local, Receives, SyncRight
<1>3. Out(m)' = Out(m) /\ OutTaken(m)' = OutTaken(m)
  BY DEF Out, OutTaken
<1>4. Sends(m, A, D)'
  BY <1>3 DEF Local, Sends
<1>5. Requested(m)' = Requested(m) /\ Answered(m)' = Answered(m)
  BY DEF Requested, Answered
<1>6. Serves(m)'
  BY <1>1, <1>5 DEF Local, Serves
<1>7. Seat(m, su)'
  BY <1>1 DEF Local, Seat
<1>8. Wired(m)'
  BY DEF Local, Wired
<1>9. Right(m, A, D)'
  BY <1>1, <1>3 DEF Local, Right, Shown
<1> QED BY <1>2, <1>4, <1>6, <1>7, <1>8, <1>9 DEF Local

\* The first of q goes, as u, to the end of p.
LEMMA Passed ==
    ASSUME NEW p, NEW q, NEW D, NEW u, IsList(p), IsList(q), q # <<>>,
           InTurn(p, D), InTurn(q, D), Follows(p, q, D),
           \A s \in Range(p) : Before(s, u, D), \A t \in Range(Tail(q)) : Before(u, t, D)
    PROVE  InTurn(Append(p, u), D) /\ InTurn(Tail(q), D) /\ Follows(Append(p, u), Tail(q), D)
<1>1. InTurn(Append(p, u), D) /\ Range(Append(p, u)) = Range(p) \cup {u}
  BY TokensMore
<1>2. InTurn(Tail(q), D) /\ Range(Tail(q)) \subseteq Range(q)
  BY TokensLess
<1> QED BY <1>1, <1>2 DEF Follows

\* One more in p or q, one less in p or q.
LEMMA FollowsMore ==
    ASSUME NEW p, NEW q, NEW D, NEW u, Follows(p, q, D)
    PROVE  /\ IsList(p) /\ (\A t \in Range(q) : Before(u, t, D)) => Follows(Append(p, u), q, D)
           /\ IsList(q) /\ (\A s \in Range(p) : Before(s, u, D)) => Follows(p, Append(q, u), D)
           /\ IsList(p) /\ p # <<>> => Follows(Tail(p), q, D)
           /\ IsList(q) /\ q # <<>> => Follows(p, Tail(q), D)
<1>1. ASSUME IsList(p) PROVE Range(Append(p, u)) = Range(p) \cup {u}
  BY <1>1, TokensMore
<1>2. ASSUME IsList(q) PROVE Range(Append(q, u)) = Range(q) \cup {u}
  BY <1>2, TokensMore
<1>3. ASSUME IsList(p), p # <<>> PROVE Range(Tail(p)) \subseteq Range(p)
  BY <1>3, TokensLess
<1>4. ASSUME IsList(q), q # <<>> PROVE Range(Tail(q)) \subseteq Range(q)
  BY <1>4, TokensLess
<1> QED BY <1>1, <1>2, <1>3, <1>4 DEF Follows

\* What is on its way to m is the same, whatever queue it is in.
LEMMA FlowStays ==
    ASSUME NEW m, NEW A, NEW D, Receives(m, A, D), Chain(m, D)', In(m)' = In(m), InTaken(m)' = InTaken(m),
           \A t \in Flow(m)' : t.kind \in Bearing => \E s \in Flow(m) : s.kind \in Bearing /\ s.cmd = t.cmd,
           \A t \in Flow(m)' : t.kind \notin {"BROADCAST", "UNICAST"},
           \A s \in Flow(m) : s.kind \in Bearing => \E t \in Flow(m)' : t.kind \in Bearing /\ t.cmd = s.cmd
    PROVE  /\ Receives(m, A, D)'
           /\ (\E t \in Flow(m)' : Syncs(t)) <=> \E t \in Flow(m) : Syncs(t)
           /\ (\A t \in Flow(m)' : t.kind \notin Bearing) <=> \A t \in Flow(m) : t.kind \notin Bearing
<1>1. (\E t \in Flow(m)' : Syncs(t)) <=> \E t \in Flow(m) : Syncs(t)
  BY DEF Syncs
<1>2. ASSUME NEW t \in Flow(m)' PROVE PlainIn(t) /\ SyncRight(m, t, A, D)'
  <2>1. CASE t.kind \notin Bearing
    BY <2>1 DEF PlainIn, SyncRight, Syncs, Bearing
  <2>2. CASE t.kind \in Bearing
    <3>1. PICK s \in Flow(m) : s.kind \in Bearing /\ s.cmd = t.cmd
      BY <2>2
    <3>2. PlainIn(s) /\ SyncRight(m, s, A, D)
      BY DEF Receives
    <3>3. PlainIn(t)
      BY <3>1, <3>2 DEF PlainIn
    <3>4. SyncRight(m, t, A, D)'
      BY <2>2, <3>1, <3>2 DEF SyncRight, Syncs, SyncIds
    <3> QED BY <3>3, <3>4
  <2> QED BY <2>1, <2>2
<1>3. Receives(m, A, D)'
  BY <1>2 DEF Receives
<1> QED BY <1>1, <1>3

\* Then m stands where it stood, if nothing else happens.
LEMMA InStays ==
    ASSUME NEW m \in Members, NEW A, NEW D, NEW st, Local(m, A, D, st),
           board'[m] = board[m], up'[m] = up[m], outbox'[m] = outbox[m],
           link'[m] = link[m], synced'[m] = synced[m], order' = order,
           Chain(m, D)', In(m)' = In(m), InTaken(m)' = InTaken(m),
           \A t \in Flow(m)' : t.kind \in Bearing => \E s \in Flow(m) : s.kind \in Bearing /\ s.cmd = t.cmd,
           \A t \in Flow(m)' : t.kind \notin {"BROADCAST", "UNICAST"},
           \A s \in Flow(m) : s.kind \in Bearing => \E t \in Flow(m)' : t.kind \in Bearing /\ t.cmd = s.cmd,
           (\A t \in Flow(m)' : t.kind \notin Bearing) <=> (\A t \in Flow(m) : t.kind \notin Bearing)
              => Serves(m)',
           st[m] \in {"out", "join"} => apiQueue'[m] = <<>> /\ down'[m] = <<>>,
           Wired(m)'
    PROVE  Local(m, A, D, st)'
<1>1. /\ Receives(m, A, D)'
      /\ (\E t \in Flow(m)' : Syncs(t)) <=> \E t \in Flow(m) : Syncs(t)
      /\ (\A t \in Flow(m)' : t.kind \notin Bearing) <=> \A t \in Flow(m) : t.kind \notin Bearing
  BY FlowStays DEF Local
<1>2. Out(m)' = Out(m) /\ OutTaken(m)' = OutTaken(m)
  BY DEF Out, OutTaken
<1>3. Sends(m, A, D)'
  BY <1>2 DEF Local, Sends
<1>4. Serves(m)'
  BY <1>1
<1>5. Seat(m, st)'
  <2>1. ASSUME st[m] \in {"out", "join"} PROVE \A t \in Range(dataQueue'[m]) : t.kind \notin Bearing
    <3>1. \A t \in Flow(m) : t.kind \notin Bearing
      BY <2>1, NoTokens DEF Local, Seat, Flow
    <3> QED BY <1>1, <3>1 DEF Flow
  <2> QED BY <1>1, <2>1 DEF Local, Seat
<1>6. Right(m, A, D)'
  BY <1>2 DEF Local, Right, Shown
<1> QED BY <1>1, <1>3, <1>4, <1>5, <1>6 DEF Local

\* The kinds of what is in the queues.
LEMMA KindsIn ==
    ASSUME Inv, NEW m \in Members
    PROVE  /\ \A t \in Range(dataQueue[m]) : t.kind \in Tasks /\ Carried(t, Tasks, nextId)
           /\ \A t \in Range(apiQueue[m]) : t.kind \in Calls /\ Carried(t, Calls, nextId)
           /\ \A t \in Range(down[m]) : t.kind \in Deliveries /\ Carried(t, Deliveries, nextId)
           /\ \A t \in Range(up[m]) : t.kind \in Frames /\ Carried(t, Frames, nextId)
           /\ \A t \in Flow(m) : t.kind \notin {"BROADCAST", "UNICAST"}
<1>1. /\ \A t \in Range(dataQueue[m]) : t.kind \in Tasks /\ Carried(t, Tasks, nextId)
      /\ \A t \in Range(apiQueue[m]) : t.kind \in Calls /\ Carried(t, Calls, nextId)
      /\ \A t \in Range(down[m]) : t.kind \in Deliveries /\ Carried(t, Deliveries, nextId)
      /\ \A t \in Range(up[m]) : t.kind \in Frames /\ Carried(t, Frames, nextId)
  BY DEF Inv, QueuesSound, Carrying, Carried, Range
<1> QED BY <1>1 DEF Flow, Tasks, Calls, Deliveries

\* Where the member stands.
LEMMA Placed ==
    ASSUME NEW m, NEW A, NEW D, NEW st, Local(m, A, D, st)
    PROVE  /\ InTurn(dataQueue[m], D) /\ InTurn(apiQueue[m], D) /\ InTurn(down[m], D)
           /\ Follows(dataQueue[m], apiQueue[m], D) /\ Follows(dataQueue[m], down[m], D)
           /\ Follows(apiQueue[m], down[m], D)
           /\ In(m) \subseteq A /\ In(m) \cap D \subseteq InTaken(m) /\ InTaken(m) \subseteq D
           /\ \A t \in Flow(m) : PlainIn(t) /\ SyncRight(m, t, A, D)
BY DEF Local, Receives, Chain

\* Nothing that concerns the whole room happens, and nothing to other members.
LEMMA RoomStays ==
    ASSUME NEW m \in Members, NEW A, NEW D, NEW st, AgreeWith(A, D, st), Local(m, A, D, st)',
           order' = order /\ tool' = tool /\ torn' = torn /\ nextId' = nextId,
           Answered(m)' = Answered(m),
           \A n \in Members : n \in Requested(m)' \/ serving'[m] = n <=> n \in Requested(m) \/ serving[m] = n,
           \A n \in Members \ {m} :
              /\ board'[n] = board[n] /\ dataQueue'[n] = dataQueue[n] /\ apiQueue'[n] = apiQueue[n]
              /\ down'[n] = down[n] /\ up'[n] = up[n] /\ outbox'[n] = outbox[n] /\ serving'[n] = serving[n]
              /\ link'[n] = link[n] /\ callback'[n] = callback[n] /\ synced'[n] = synced[n]
    PROVE  AgreeWith(A, D, st)'
<1>1. ASSUME NEW n \in Members PROVE Local(n, A, D, st)'
  <2>1. Local(n, A, D, st)
    BY DEF AgreeWith
  <2>2. CASE n # m
    BY <2>1, <2>2, Untouched
  <2> QED BY <2>2
<1>2. ASSUME NEW n \in Members
      PROVE  /\ Answered(n)' = Answered(n)
             /\ \A k \in Members : k \in Requested(n)' \/ serving'[n] = k <=> k \in Requested(n) \/ serving[n] = k
  BY DEF Requested, Answered
<1>3. Oldest \in Members
  BY FoundersAreMembers DEF Oldest
<1>4. Stage(st)'
  BY <1>2, <1>3 DEF AgreeWith, Stage
<1>5. Calm' /\ Numbered(A, D)' /\ Founded'
  BY DEF AgreeWith, Calm, Numbered, Founded
<1> QED BY <1>1, <1>4, <1>5 DEF AgreeWith

\* A frame arrives.
LEMMA MessageAgree ==
    ASSUME Inv, NEW m \in Members, NEW A, NEW D, NEW st, AgreeWith(A, D, st), OnMessage(m)
    PROVE  AgreeWith(A, D, st)'
<1> DEFINE t == Head(down[m])
<1>1. /\ down[m] # <<>>
      /\ apiQueue' = [apiQueue EXCEPT ![m] = Append(@, t)] /\ down' = [down EXCEPT ![m] = Tail(@)]
      /\ board' = board /\ outbox' = outbox /\ up' = up /\ nextId' = nextId /\ dataQueue' = dataQueue
      /\ tool' = tool /\ callback' = callback /\ link' = link /\ serving' = serving /\ order' = order
      /\ synced' = synced /\ torn' = torn
  BY DEF OnMessage, boardVars, dataVars, historyVars
<1>2. IsList(dataQueue[m]) /\ IsList(apiQueue[m]) /\ IsList(down[m]) /\ PerMember(apiQueue) /\ PerMember(down)
  BY Lists
<1>3. Local(m, A, D, st)
  BY DEF AgreeWith
<1>4. /\ apiQueue'[m] = Append(apiQueue[m], t) /\ \A n \in Members \ {m} : apiQueue'[n] = apiQueue[n]
      /\ down'[m] = Tail(down[m]) /\ \A n \in Members \ {m} : down'[n] = down[n]
  BY <1>1, <1>2 DEF PerMember
<1>16. t = Head(down[m])
  OBVIOUS
<1> HIDE DEF t
<1>5. /\ Range(down[m]) = {t} \cup Range(down'[m]) /\ Taken(down[m]) = TakenIn(t) \cup Taken(down'[m])
      /\ InTurn(down[m], D) => InTurn(down'[m], D) /\ \A u \in Range(down'[m]) : Before(t, u, D)
  BY <1>1, <1>2, <1>4, <1>16, TokensLess
<1>6. /\ Range(apiQueue'[m]) = Range(apiQueue[m]) \cup {t} /\ Taken(apiQueue'[m]) = Taken(apiQueue[m]) \cup TakenIn(t)
  BY <1>2, <1>4, TokensMore
<1>7. News(down[m]) = NewIn(t) \cup News(down'[m])
  BY <1>1, <1>2, <1>4, <1>16, QueueLess
<1>8. News(apiQueue'[m]) = News(apiQueue[m]) \cup NewIn(t)
  BY <1>2, <1>4, QueueMore
<1>9. In(m)' = In(m) /\ InTaken(m)' = InTaken(m) /\ Flow(m)' = Flow(m)
  BY <1>1, <1>5, <1>6, <1>7, <1>8 DEF In, InTaken, Flow
<1>10. Chain(m, D)'
  <2>1. /\ InTurn(dataQueue[m], D) /\ InTurn(apiQueue[m], D) /\ InTurn(down[m], D)
        /\ Follows(dataQueue[m], apiQueue[m], D) /\ Follows(dataQueue[m], down[m], D)
        /\ Follows(apiQueue[m], down[m], D)
    BY <1>3, Placed
  <2>2. t \in Range(down[m])
    BY <1>5
  <2>3. /\ \A s \in Range(apiQueue[m]) : Before(s, t, D) 
        /\ \A s \in Range(dataQueue[m]) : Before(s, t, D)
    BY <2>1, <2>2 DEF Follows
  <2>4. \A u \in Range(Tail(down[m])) : Before(t, u, D)
    BY <1>4, <1>5, <2>1
  <2>5. InTurn(Append(apiQueue[m], t), D) /\ InTurn(Tail(down[m]), D)
        /\ Follows(Append(apiQueue[m], t), Tail(down[m]), D)
    BY <1>1, <1>2, <2>1, <2>3, <2>4, Passed
  <2>6. Follows(dataQueue[m], Append(apiQueue[m], t), D)
    BY <1>2, <2>1, <2>3, FollowsMore
  <2>7. Follows(dataQueue[m], Tail(down[m]), D)
    BY <1>1, <1>2, <2>1, FollowsMore
  <2> QED BY <1>1, <1>4, <2>1, <2>5, <2>6, <2>7 DEF Chain
<1>11. Requested(m)' = Requested(m) /\ Answered(m)' = Answered(m)
  BY <1>1, <1>5, <1>6 DEF Requested, Answered
<1>12. Serves(m)'
  <2>1. Range(apiQueue'[m]) \cup Range(down'[m]) = Range(apiQueue[m]) \cup Range(down[m])
    BY <1>5, <1>6
  <2> QED BY <1>1, <1>3, <1>9, <1>11, <2>1 DEF Local, Serves
<1>13. Wired(m)'
  BY <1>1, <1>3 DEF Local, Wired
<1>14. st[m] \notin {"out", "join"}
  BY <1>1, <1>3 DEF Local, Seat
<1>15. Local(m, A, D, st)'
  BY <1>1, <1>3, <1>9, <1>10, <1>12, <1>13, <1>14, KindsIn, InStays
<1> QED BY <1>1, <1>4, <1>11, <1>15, RoomStays

\* The first call of the api thread becomes a task u of the data thread.
LEMMA Handed ==
    ASSUME Inv, NEW m \in Members, NEW A, NEW D, NEW st, Local(m, A, D, st), NEW t, NEW u,
           apiQueue[m] # <<>>, t = Head(apiQueue[m]),
           dataQueue'[m] = Append(dataQueue[m], u), apiQueue'[m] = Tail(apiQueue[m]), down'[m] = down[m],
           NewIn(u) = NewIn(t), TakenIn(u) = TakenIn(t),
           \A s \in Range(dataQueue[m]) : Before(s, t, D) => Before(s, u, D),
           \A x \in Range(apiQueue[m]) \cup Range(down[m]) : Before(t, x, D) => Before(u, x, D)
    PROVE  /\ Chain(m, D)' /\ In(m)' = In(m) /\ InTaken(m)' = InTaken(m)
           /\ Range(dataQueue'[m]) = Range(dataQueue[m]) \cup {u} /\ Range(apiQueue[m]) = {t} \cup Range(apiQueue'[m])
           /\ Range(down'[m]) = Range(down[m])
           /\ \A x \in Range(apiQueue'[m]) \cup Range(down[m]) : Before(t, x, D)
<1>1. IsList(dataQueue[m]) /\ IsList(apiQueue[m]) /\ IsList(down[m])
  BY Lists
<1>2. /\ InTurn(dataQueue[m], D) /\ InTurn(apiQueue[m], D) /\ InTurn(down[m], D)
      /\ Follows(dataQueue[m], apiQueue[m], D) /\ Follows(dataQueue[m], down[m], D)
      /\ Follows(apiQueue[m], down[m], D)
  BY Placed
<1>3. /\ Range(apiQueue[m]) = {t} \cup Range(Tail(apiQueue[m])) 
      /\ Taken(apiQueue[m]) = TakenIn(t) \cup Taken(Tail(apiQueue[m]))
      /\ \A x \in Range(Tail(apiQueue[m])) : Before(t, x, D)
  BY <1>1, <1>2, TokensLess
<1>4. /\ Range(dataQueue'[m]) = Range(dataQueue[m]) \cup {u}
      /\ Taken(dataQueue'[m]) = Taken(dataQueue[m]) \cup TakenIn(u)
  BY <1>1, TokensMore
<1>5. News(apiQueue[m]) = NewIn(t) \cup News(Tail(apiQueue[m]))
  BY <1>1, QueueLess
<1>6. News(dataQueue'[m]) = News(dataQueue[m]) \cup NewIn(u)
  BY <1>1, QueueMore
<1>7. In(m)' = In(m) /\ InTaken(m)' = InTaken(m)
  BY <1>3, <1>4, <1>5, <1>6 DEF In, InTaken
<1>8. \A s \in Range(dataQueue[m]) : Before(s, u, D)
  BY <1>2, <1>3 DEF Follows
<1>9. /\ \A x \in Range(Tail(apiQueue[m])) : Before(u, x, D)
      /\ \A x \in Range(down[m]) : Before(u, x, D) /\ Before(t, x, D)
  BY <1>2, <1>3 DEF Follows
<1>10. InTurn(Append(dataQueue[m], u), D) /\ InTurn(Tail(apiQueue[m]), D)
       /\ Follows(Append(dataQueue[m], u), Tail(apiQueue[m]), D)
  BY <1>1, <1>2, <1>8, <1>9, Passed
<1>11. Follows(Append(dataQueue[m], u), down[m], D)
  BY <1>1, <1>2, <1>9, FollowsMore
<1>12. Follows(Tail(apiQueue[m]), down[m], D)
  BY <1>1, <1>2, FollowsMore
<1>13. Chain(m, D)'
  BY <1>2, <1>10, <1>11, <1>12 DEF Chain
<1> QED BY <1>3, <1>4, <1>7, <1>9, <1>13

\* A message goes to the data thread, or a request for the data.
LEMMA CallAgree ==
    ASSUME Inv, NEW m \in Members, NEW A, NEW D, NEW st, AgreeWith(A, D, st), ApiTask(m),
           Head(apiQueue[m]).kind # "SEND"
    PROVE  AgreeWith(A, D, st)'
<1> DEFINE t == Head(apiQueue[m])
           u == IF t.kind = "MESSAGE" THEN [kind |-> "APPLY", cmd |-> t.cmd] ELSE [kind |-> "GET_ALL_PAGES"]
<1>1. /\ serving[m] = None /\ apiQueue[m] # <<>> /\ t.kind \in {"MESSAGE", "REQUEST_DATA"}
      /\ dataQueue' = [dataQueue EXCEPT ![m] = Append(@, u)] /\ apiQueue' = [apiQueue EXCEPT ![m] = Tail(@)]
      /\ board' = board /\ outbox' = outbox /\ up' = up /\ nextId' = nextId /\ down' = down
      /\ tool' = tool /\ callback' = callback /\ link' = link /\ order' = order
      /\ synced' = synced /\ torn' = torn
      /\ t.kind = "MESSAGE" => serving' = serving
      /\ t.kind = "REQUEST_DATA" => serving' = [serving EXCEPT ![m] = t.from]
  BY DEF ApiTask, Broadcast, AskForPages, boardVars, historyVars
<1>2. /\ IsList(dataQueue[m]) /\ IsList(apiQueue[m]) /\ PerMember(apiQueue) /\ PerMember(dataQueue)
      /\ serving \in [Members -> Members \cup {None}]
  BY Lists DEF Inv, ServingType
<1>3. Local(m, A, D, st)
  BY DEF AgreeWith
<1>4. t \in Range(apiQueue[m]) /\ t.kind \in Calls /\ Carried(t, Calls, nextId)
  <2>1. t \in Range(apiQueue[m])
    BY <1>1, <1>2, TokensLess
  <2> QED BY <2>1, KindsIn
<1>5. /\ t.kind = "MESSAGE" => u.kind = "APPLY" /\ u.cmd = t.cmd
      /\ t.kind = "REQUEST_DATA" => u.kind = "GET_ALL_PAGES" /\ t.from \in Members /\ t.from # None
      /\ t = Head(apiQueue[m])
  BY <1>4, MembersFinite DEF Carried
<1> HIDE DEF t, u
<1>6. /\ dataQueue'[m] = Append(dataQueue[m], u) /\ \A n \in Members \ {m} : dataQueue'[n] = dataQueue[n]
      /\ apiQueue'[m] = Tail(apiQueue[m]) /\ \A n \in Members \ {m} : apiQueue'[n] = apiQueue[n]
  BY <1>1, <1>2 DEF PerMember
<1>7. NewIn(u) = NewIn(t) /\ TakenIn(u) = TakenIn(t)
  BY <1>1, <1>5 DEF NewIn, TakenIn, Bearing
<1>8. \A s \in Range(dataQueue[m]) : Before(s, t, D) => Before(s, u, D)
  <2>1. \A s \in Range(dataQueue[m]) : s.kind # "GET_ALL_PAGES"
    BY <1>1, <1>3 DEF Local, Serves
  <2> QED BY <1>1, <1>5, <1>7, <2>1 DEF Before, Syncs, SyncIds, Bearing
<1>9. \A x \in Range(apiQueue[m]) \cup Range(down[m]) : Before(t, x, D) => Before(u, x, D)
  <2>1. \A x \in Range(apiQueue[m]) \cup Range(down[m]) : x.kind # "GET_ALL_PAGES"
    BY KindsIn DEF Calls, Deliveries
  <2> QED BY <1>1, <1>5, <1>7, <2>1 DEF Before, Asks, Syncs, SyncIds, Bearing
<1>10. /\ Chain(m, D)' /\ In(m)' = In(m) /\ InTaken(m)' = InTaken(m)
       /\ Range(dataQueue'[m]) = Range(dataQueue[m]) \cup {u} /\ Range(apiQueue[m]) = {t} \cup Range(apiQueue'[m])
       /\ Range(down'[m]) = Range(down[m])
       /\ \A x \in Range(apiQueue'[m]) \cup Range(down[m]) : Before(t, x, D)
  <2>1. apiQueue[m] # <<>> /\ t = Head(apiQueue[m]) /\ down'[m] = down[m]
    BY <1>1, <1>5
  <2>2. dataQueue'[m] = Append(dataQueue[m], u) /\ apiQueue'[m] = Tail(apiQueue[m])
    BY <1>6
  <2>3. \A x, y :
           /\ apiQueue[m] # <<>> /\ x = Head(apiQueue[m])
           /\ dataQueue'[m] = Append(dataQueue[m], y) /\ apiQueue'[m] = Tail(apiQueue[m]) /\ down'[m] = down[m]
           /\ NewIn(y) = NewIn(x) /\ TakenIn(y) = TakenIn(x)
           /\ \A s \in Range(dataQueue[m]) : Before(s, x, D) => Before(s, y, D)
           /\ \A z \in Range(apiQueue[m]) \cup Range(down[m]) : Before(x, z, D) => Before(y, z, D)
           => /\ Chain(m, D)' /\ In(m)' = In(m) /\ InTaken(m)' = InTaken(m)
              /\ Range(dataQueue'[m]) = Range(dataQueue[m]) \cup {y} /\ Range(apiQueue[m]) = {x} \cup Range(apiQueue'[m])
              /\ Range(down'[m]) = Range(down[m])
              /\ \A z \in Range(apiQueue'[m]) \cup Range(down[m]) : Before(x, z, D)
    BY <1>3, Handed
  <2> QED BY <1>7, <1>8, <1>9, <2>1, <2>2, <2>3
<1>11. /\ Flow(m)' \subseteq Flow(m) \cup {u} /\ Flow(m) \subseteq Flow(m)' \cup {t} /\ t \in Flow(m) /\ u \in Flow(m)'
       /\ t.kind \in Bearing => u.kind \in Bearing /\ u.cmd = t.cmd
       /\ u.kind \in Bearing => t.kind \in Bearing /\ u.cmd = t.cmd
       /\ u.kind \in {"APPLY", "GET_ALL_PAGES"}
  BY <1>1, <1>5, <1>10 DEF Flow, Bearing
<1>12. Answered(m)' = Answered(m)
  BY <1>1 DEF Answered
<1>13. t.kind = "REQUEST_DATA" => t = Asked(t.from)
  BY <1>3, <1>4 DEF Local, Serves
<1>14. \A x \in Range(apiQueue'[m]) \cup Range(down'[m]) : x.kind = "REQUEST_DATA" => x = Asked(x.from)
  BY <1>1, <1>3, <1>10 DEF Local, Serves
<1>15. /\ \A n \in Members : n \in Requested(m)' \/ serving'[m] = n <=> n \in Requested(m) \/ serving[m] = n
       /\ (\A x \in Flow(m)' : x.kind \notin Bearing) <=> (\A x \in Flow(m) : x.kind \notin Bearing) => Serves(m)'
  <2>1. CASE t.kind = "MESSAGE"
    <3>1. Requested(m)' = Requested(m) /\ serving'[m] = serving[m]
      BY <1>1, <1>10, <2>1 DEF Requested, Asked
    <3>2. \A x \in Range(dataQueue'[m]) : x.kind # "GET_ALL_PAGES"
      BY <1>1, <1>3, <1>5, <1>10, <2>1 DEF Local, Serves
    <3>3. ASSUME (\A x \in Flow(m)' : x.kind \notin Bearing) <=> (\A x \in Flow(m) : x.kind \notin Bearing)
          PROVE  Serves(m)'
      BY <1>1, <1>3, <1>12, <1>14, <3>1, <3>2, <3>3 DEF Local, Serves
    <3> QED BY <3>1, <3>3
  <2>2. CASE t.kind = "REQUEST_DATA"
    <3>1. serving'[m] = t.from /\ t.from \in Members /\ t.from # None
      BY <1>1, <1>2, <1>5, <2>2
    <3>2. Asked(t.from) \notin Range(apiQueue'[m]) \cup Range(down'[m])
      <4>1. \A x \in Range(apiQueue'[m]) \cup Range(down'[m]) : x.kind = "REQUEST_DATA" => x.from # t.from
        BY <1>1, <1>10, <2>2 DEF Before
      <4>2. Asked(t.from).kind = "REQUEST_DATA" /\ Asked(t.from).from = t.from
        BY DEF Asked
      <4> QED BY <4>1, <4>2
    <3>3. \A n \in Members : n \in Requested(m) <=> (n \in Requested(m)' \/ n = t.from)
      <4>1. \A n \in Members : Asked(n) = t <=> n = t.from
        BY <1>13, <2>2 DEF Asked
      <4> QED BY <1>1, <1>10, <4>1 DEF Requested
    <3>4. \A n \in Members : serving[m] # n
      BY <1>1, MembersFinite
    <3>5. m = Oldest
      BY <1>3, <3>1, <3>3 DEF Local, Serves
    <3>6. t.from \notin Requested(m)'
      BY <3>2 DEF Requested
    <3>7. ASSUME (\A x \in Flow(m)' : x.kind \notin Bearing) <=> (\A x \in Flow(m) : x.kind \notin Bearing)
          PROVE  Serves(m)'
      BY <1>3, <1>12, <1>14, <3>1, <3>5, <3>6, <3>7 DEF Local, Serves
    <3> QED BY <3>1, <3>3, <3>4, <3>7
  <2> QED BY <1>1, <2>1, <2>2
<1>16. Wired(m)'
  <2>1. dataQueue'[m] # <<>> /\ (dataQueue[m] # <<>> => dataQueue'[m][1] = dataQueue[m][1])
    <3> DEFINE q == dataQueue[m]
               r == Append(q, u)
    <3>1. /\ DOMAIN r = 1 .. Len(q) + 1 /\ Len(q) \in Nat /\ DOMAIN q = 1 .. Len(q)
          /\ \A i \in 1 .. Len(q) : r[i] = q[i]
      BY <1>2, AppendList
    <3>2. r # <<>>
      <4>1. 1 \in DOMAIN r /\ DOMAIN <<>> = {}
        BY <3>1
      <4> HIDE DEF r
      <4> QED BY <4>1
    <3>3. q # <<>> => 1 \in 1 .. Len(q)
      BY <1>2, TailList
    <3> QED BY <1>6, <3>1, <3>2, <3>3
  <2>2. link[m] # "off"
    BY <1>1, <1>3 DEF Local, Seat
  <2> QED BY <1>1, <1>3, <2>1, <2>2 DEF Local, Wired
<1>17. st[m] \notin {"out", "join"}
  BY <1>1, <1>3 DEF Local, Seat
<1>18. Local(m, A, D, st)'
  <2>1. \A x \in Flow(m)' : x.kind \notin {"BROADCAST", "UNICAST"}
    BY <1>11, KindsIn
  <2>2. \A x \in Flow(m)' : x.kind \in Bearing => \E s \in Flow(m) : s.kind \in Bearing /\ s.cmd = x.cmd
    BY <1>11
  <2>3. \A s \in Flow(m) : s.kind \in Bearing => \E x \in Flow(m)' : x.kind \in Bearing /\ x.cmd = s.cmd
    BY <1>11
  <2> QED BY <1>1, <1>3, <1>10, <1>15, <1>16, <1>17, <2>1, <2>2, <2>3, InStays
<1>19. \A n \in Members \ {m} : serving'[n] = serving[n]
  BY <1>1, <1>2
<1> QED BY <1>1, <1>6, <1>12, <1>15, <1>18, <1>19, RoomStays

\* One command or none, as frames.
LEMMA OneOut ==
    /\ News(Wrapped(<<>>)) = {} /\ Taken(Wrapped(<<>>)) = {}
    /\ \A cmds : IsList(cmds) /\ Len(cmds) = 1 =>
          /\ Tail(cmds) = <<>> /\ News(Wrapped(cmds)) = New(cmds[1])
          /\ Taken(Wrapped(cmds)) = TakenIn([kind |-> "BROADCAST", cmd |-> cmds[1]])
<1>1. News(Wrapped(<<>>)) = {} /\ Taken(Wrapped(<<>>)) = {}
  BY WrappedIs, NoTokens
<1>2. ASSUME NEW cmds, IsList(cmds), Len(cmds) = 1
      PROVE  /\ Tail(cmds) = <<>> /\ News(Wrapped(cmds)) = New(cmds[1])
             /\ Taken(Wrapped(cmds)) = TakenIn([kind |-> "BROADCAST", cmd |-> cmds[1]])
  <2> DEFINE w == [kind |-> "BROADCAST", cmd |-> cmds[1]]
             q == Wrapped(cmds)
  <2>1. DOMAIN cmds = {1} /\ cmds # <<>>
    <3>1. DOMAIN cmds = 1 .. 1
      BY <1>2, ListIs DEF IsList
    <3> QED BY <3>1
  <2>2. DOMAIN q = {1} /\ q[1] = w
    BY <2>1 DEF Wrapped
  <2>3. Tail(cmds) = <<>>
    <3>1. cmds \in Seq({cmds[i] : i \in DOMAIN cmds})
      BY <1>2 DEF IsList
    <3>2. Tail(cmds) \in Seq({cmds[i] : i \in DOMAIN cmds}) /\ Len(Tail(cmds)) = 0
      BY <1>2, <2>1, <3>1
    <3>3. \A S : \A x \in Seq(S) : Len(x) = 0 => x = <<>>
      OBVIOUS
    <3> QED BY <3>2, <3>3
  <2>4. NewIn(w) = New(cmds[1])
    BY DEF NewIn, Bearing
  <2> HIDE DEF w, q
  <2>5. News(q) = NewIn(w) /\ Taken(q) = TakenIn(w)
    BY <2>2 DEF News, Taken
  <2> QED BY <2>3, <2>4, <2>5 DEF w, q
<1> QED BY <1>1, <1>2

\* One more frame.
LEMMA FramesMore ==
    ASSUME NEW q, IsList(q), NEW t, NEW A, NEW D, \A i \in DOMAIN q : FrameRight(q, i, A, D),
           PlainIn(t), TakenIn(t) \subseteq A \cup News(q),
           t.kind = "UNICAST" =>
              /\ SyncIds(t) \subseteq A \cup News(q) /\ SyncIds(t) \cap Taken(q) = {} /\ SyncIds(t) \cap D = {}
              /\ A \cup News(q) \subseteq SyncIds(t) \cup D \cup Taken(q)
              /\ \A s \in Range(q) : s.kind = "UNICAST" => s.to # t.to
    PROVE  \A i \in DOMAIN Append(q, t) : FrameRight(Append(q, t), i, A, D)
<1> DEFINE r == Append(q, t)
<1>1. /\ \A i \in DOMAIN q : /\ i \in DOMAIN r /\ r[i] = q[i] /\ NewBefore(r, i) = NewBefore(q, i)
                             /\ TakenBefore(r, i) = TakenBefore(q, i)
      /\ \A i \in DOMAIN r : \/ i \in DOMAIN q
                             \/ /\ r[i] = t /\ i = Len(q) + 1
                                /\ NewBefore(r, i) = News(q) /\ TakenBefore(r, i) = Taken(q)
  BY TokensMore
<1> HIDE DEF r
<1>2. ASSUME NEW i \in DOMAIN r PROVE FrameRight(r, i, A, D)
  <2>1. CASE i \in DOMAIN q
    <3>1. FrameRight(q, i, A, D) /\ r[i] = q[i] /\ q[i] \in Range(q)
      BY <1>1, <2>1 DEF Range
    <3>2. ASSUME q[i].kind = "UNICAST"
          PROVE  \A j \in DOMAIN r : r[j].kind = "UNICAST" /\ r[j].to = q[i].to => j = i
      BY <1>1, <3>1, <3>2 DEF FrameRight
    <3> QED BY <1>1, <2>1, <3>1, <3>2 DEF FrameRight
  <2>2. CASE i \notin DOMAIN q
    <3>1. /\ r[i] = t /\ i = Len(q) + 1
          /\ NewBefore(r, i) = News(q) /\ TakenBefore(r, i) = Taken(q)
      BY <1>1, <2>2
    <3>2. ASSUME t.kind = "UNICAST"
          PROVE  \A j \in DOMAIN r : r[j].kind = "UNICAST" /\ r[j].to = t.to => j = i
      BY <1>1, <3>1, <3>2 DEF Range
    <3> QED BY <3>1, <3>2 DEF FrameRight
  <2> QED BY <2>1, <2>2
<1> QED BY <1>2 DEF r

\* The first frame is taken, and counted among what was added and taken.
LEMMA FramesLess ==
    ASSUME NEW q, IsList(q), q # <<>>, NEW A, NEW D, \A i \in DOMAIN q : FrameRight(q, i, A, D)
    PROVE  \A i \in DOMAIN Tail(q) : FrameRight(Tail(q), i, A \cup NewIn(Head(q)), D \cup TakenIn(Head(q)))
<1> DEFINE r == Tail(q)
           h == Head(q)
<1>1. \A i \in DOMAIN r : /\ i + 1 \in DOMAIN q /\ q[i + 1] = r[i]
                          /\ NewBefore(q, i + 1) = NewIn(h) \cup NewBefore(r, i)
                          /\ TakenBefore(q, i + 1) = TakenIn(h) \cup TakenBefore(r, i)
  BY TokensLess
<1>2. DOMAIN r \subseteq Nat
  <2>1. DOMAIN r = 1 .. Len(q) - 1 /\ Len(q) \in Nat \ {0}
    BY TailList
  <2> QED BY <2>1
<1> HIDE DEF r, h
<1>3. ASSUME NEW i \in DOMAIN r PROVE FrameRight(r, i, A \cup NewIn(h), D \cup TakenIn(h))
  <2>1. FrameRight(q, i + 1, A, D)
    BY <1>1
  <2>2. /\ q[i + 1] = r[i] /\ NewBefore(q, i + 1) = NewIn(h) \cup NewBefore(r, i)
        /\ TakenBefore(q, i + 1) = TakenIn(h) \cup TakenBefore(r, i)
    BY <1>1
  <2>3. ASSUME r[i].kind = "UNICAST"
        PROVE  \A j \in DOMAIN r : r[j].kind = "UNICAST" /\ r[j].to = r[i].to => j = i
    <3> SUFFICES ASSUME NEW j \in DOMAIN r, r[j].kind = "UNICAST", r[j].to = r[i].to PROVE j = i
      OBVIOUS
    <3>1. j + 1 \in DOMAIN q /\ q[j + 1] = r[j]
      BY <1>1
    <3>2. j + 1 = i + 1
      BY <2>1, <2>2, <2>3, <3>1 DEF FrameRight
    <3> QED BY <1>2, <3>2
  <2> DEFINE n == NewBefore(q, i + 1)
             k == TakenBefore(q, i + 1)
  <2>4. /\ PlainIn(r[i]) /\ TakenIn(r[i]) \subseteq A \cup n
        /\ r[i].kind = "UNICAST" =>
          /\ SyncIds(r[i]) \subseteq A \cup n
          /\ SyncIds(r[i]) \cap k = {} /\ SyncIds(r[i]) \cap D = {}
          /\ A \cup n \subseteq SyncIds(r[i]) \cup D \cup k
    BY <2>1, <2>2 DEF FrameRight
  <2>5. n = NewIn(h) \cup NewBefore(r, i) /\ k = TakenIn(h) \cup TakenBefore(r, i)
    BY <2>2
  <2> HIDE DEF n, k
  <2> QED BY <2>3, <2>4, <2>5 DEF FrameRight
<1> QED BY <1>3 DEF r, h

\* The call that hands a command over says nothing by itself.
LEMMA SendSilent ==
    ASSUME NEW t, t.kind = "SEND"
    PROVE  /\ NewIn(t) = {} /\ TakenIn(t) = {} /\ t.kind \notin Bearing /\ ~Syncs(t)
           /\ \A n : t # Asked(n)
           /\ \A s, D : Before(s, t, D) /\ Before(t, s, D)
BY DEF NewIn, TakenIn, Bearing, Syncs, Asked, Before, Asks

\* A command of m's goes to the server.
LEMMA SendAgree ==
    ASSUME Inv, NEW K \in Kinds, TidyWith(K), NEW m \in Members, NEW A, NEW D, NEW st, AgreeWith(A, D, st),
           ApiTask(m), Head(apiQueue[m]).kind = "SEND"
    PROVE  AgreeWith(A, D, st)'
<1> DEFINE t == Head(apiQueue[m])
           c == outbox[m][1]
           w == [kind |-> "BROADCAST", cmd |-> c]
<1>1. apiQueue[m] # <<>> /\ t.kind = "SEND" /\ Broadcast(m, t.cmd)
      /\ board' = board /\ nextId' = nextId /\ down' = down
      /\ tool' = tool /\ callback' = callback /\ link' = link /\ order' = order
      /\ synced' = synced /\ torn' = torn
  BY DEF ApiTask, boardVars, historyVars
<1>2. /\ IsList(dataQueue[m]) /\ IsList(apiQueue[m]) /\ IsList(down[m]) /\ IsList(up[m]) /\ IsList(outbox[m])
      /\ PerMember(apiQueue) /\ PerMember(up) /\ PerMember(outbox)
  BY Lists
<1>3. Local(m, A, D, st)
  BY DEF AgreeWith
<1>4. t \in Range(apiQueue[m]) /\ 1 \in DOMAIN apiQueue[m] /\ apiQueue[m][1] = t
  BY <1>1, <1>2, TokensLess
<1>5. outbox[m] # <<>> /\ t.cmd = c
  BY <1>1, <1>4 DEF Inv, SendsSound, SendsOnce, TidyWith, SendIsFirst
<1>6. Len(outbox[m]) = 1 /\ PlainIn(w) /\ st[m] = "in" /\ link[m] = "joined" /\ synced[m]
  BY <1>3, <1>5 DEF Local, Sends, Seat
<1>7. t = Head(apiQueue[m]) /\ w.kind = "BROADCAST" /\ w.cmd = c
  OBVIOUS
<1> HIDE DEF t, w, c
<1>8. /\ apiQueue'[m] = Tail(apiQueue[m]) /\ \A n \in Members \ {m} : apiQueue'[n] = apiQueue[n]
      /\ outbox'[m] = Tail(outbox[m]) /\ \A n \in Members \ {m} : outbox'[n] = outbox[n]
      /\ up'[m] = Append(up[m], w) /\ \A n \in Members \ {m} : up'[n] = up[n]
      /\ dataQueue' = dataQueue /\ serving' = serving
  <2>1. ~(Len(outbox[m]) > 1)
    BY <1>6
  <2>2. apiQueue' = [apiQueue EXCEPT ![m] = Tail(@)]
    BY <1>1, <2>1 DEF Broadcast
  <2>3. up' = [up EXCEPT ![m] = Append(@, w)]
    BY <1>1, <1>5, <1>6 DEF Broadcast, w
  <2>4. outbox' = [outbox EXCEPT ![m] = Tail(@)] /\ dataQueue' = dataQueue /\ serving' = serving
    BY <1>1 DEF Broadcast
  <2> QED BY <1>2, <2>2, <2>3, <2>4 DEF PerMember
<1>9. /\ Tail(outbox[m]) = <<>> /\ News(Wrapped(outbox[m])) = New(c) /\ Taken(Wrapped(outbox[m])) = TakenIn(w)
      /\ News(Wrapped(<<>>)) = {} /\ Taken(Wrapped(<<>>)) = {}
  BY <1>2, <1>6, OneOut DEF w, c
<1>10. NewIn(w) = New(c)
  BY <1>7 DEF NewIn, Bearing
<1>11. /\ NewIn(t) = {} /\ TakenIn(t) = {} /\ t.kind \notin Bearing /\ \A n : t # Asked(n)
  BY <1>1, SendSilent
<1>12. /\ Range(apiQueue[m]) = {t} \cup Range(apiQueue'[m]) /\ Taken(apiQueue[m]) = TakenIn(t) \cup Taken(apiQueue'[m])
       /\ News(apiQueue[m]) = NewIn(t) \cup News(apiQueue'[m])
       /\ InTurn(apiQueue[m], D) => InTurn(apiQueue'[m], D)
  BY <1>1, <1>2, <1>7, <1>8, TokensLess, QueueLess
<1>13. In(m)' = In(m) /\ InTaken(m)' = InTaken(m)
  BY <1>1, <1>8, <1>11, <1>12 DEF In, InTaken
<1>14. Flow(m) = Flow(m)' \cup {t} /\ \A x \in Flow(m)' : x.kind \notin {"BROADCAST", "UNICAST"}
  <2>1. Flow(m) = Flow(m)' \cup {t}
    BY <1>1, <1>8, <1>12 DEF Flow
  <2> QED BY <2>1, KindsIn
<1>15. Chain(m, D)'
  <2>1. Follows(dataQueue[m], apiQueue'[m], D) /\ Follows(apiQueue'[m], down[m], D)
    <3>1. Follows(dataQueue[m], apiQueue[m], D) /\ Follows(apiQueue[m], down[m], D)
      BY <1>3, Placed
    <3>2. Follows(dataQueue[m], Tail(apiQueue[m]), D)
      BY <1>1, <1>2, <3>1, FollowsMore
    <3>3. Follows(Tail(apiQueue[m]), down[m], D)
      BY <1>1, <1>2, <3>1, FollowsMore
    <3> QED BY <1>8, <3>2, <3>3
  <2> QED BY <1>1, <1>3, <1>8, <1>12, <2>1, Placed DEF Chain
<1>16. /\ Receives(m, A, D)'
       /\ (\E x \in Flow(m)' : Syncs(x)) <=> \E x \in Flow(m) : Syncs(x)
       /\ (\A x \in Flow(m)' : x.kind \notin Bearing) <=> \A x \in Flow(m) : x.kind \notin Bearing
  <2>1. \A x \in Flow(m)' : x.kind \in Bearing => \E s \in Flow(m) : s.kind \in Bearing /\ s.cmd = x.cmd
    BY <1>14
  <2>2. \A s \in Flow(m) : s.kind \in Bearing => \E x \in Flow(m)' : x.kind \in Bearing /\ x.cmd = s.cmd
    BY <1>11, <1>14
  <2> QED BY <1>3, <1>13, <1>14, <1>15, <2>1, <2>2, FlowStays DEF Local
<1>17. Requested(m)' = Requested(m)
  BY <1>1, <1>11, <1>12 DEF Requested
<1>18. /\ News(up'[m]) = News(up[m]) \cup NewIn(w) /\ Taken(up'[m]) = Taken(up[m]) \cup TakenIn(w)
       /\ Range(up'[m]) = Range(up[m]) \cup {w}
  BY <1>2, <1>8, QueueMore, TokensMore
<1>19. Out(m)' = Out(m) /\ OutTaken(m)' = OutTaken(m)
  BY <1>8, <1>9, <1>10, <1>18 DEF Out, OutTaken
<1>20. Answered(m)' = Answered(m)
  BY <1>7, <1>18 DEF Answered
<1>21. Sends(m, A, D)'
  <2>1. \A i \in DOMAIN up'[m] : FrameRight(up'[m], i, A, D)
    <3>1. \A i \in DOMAIN up[m] : FrameRight(up[m], i, A, D)
      BY <1>3 DEF Local, Sends
    <3>2. TakenIn(w) \subseteq A \cup News(up[m]) /\ w.kind # "UNICAST"
      BY <1>3, <1>7, <1>9 DEF Local, Sends
    <3>3. \A i \in DOMAIN Append(up[m], w) : FrameRight(Append(up[m], w), i, A, D)
      BY <1>2, <1>6, <3>1, <3>2, FramesMore
    <3> QED BY <1>8, <3>3
  <2> QED BY <1>3, <1>8, <1>9, <1>19, <2>1 DEF Local, Sends
<1>22. Serves(m)'
  BY <1>1, <1>3, <1>8, <1>12, <1>16, <1>17, <1>20 DEF Local, Serves
<1>23. Seat(m, st)' /\ Wired(m)'
  BY <1>1, <1>3, <1>6, <1>7, <1>8, <1>16, <1>18 DEF Local, Seat, Wired
<1>24. Right(m, A, D)'
  BY <1>1, <1>3, <1>13, <1>19 DEF Local, Right, Shown
<1>25. Local(m, A, D, st)'
  BY <1>16, <1>21, <1>22, <1>23, <1>24 DEF Local
<1> QED BY <1>1, <1>8, <1>17, <1>20, <1>25, RoomStays

\* The page of a plain board gets other plain elements.
LEMMA PlainWritten ==
    ASSUME NEW b, NEW n, Sound(b, n), PlainBoard(b), NEW es, \A e \in Range(es) : e = Element(e.id, FALSE)
    PROVE  /\ PlainBoard(WithElements(b, es)) /\ Elements(WithElements(b, es)) = es
           /\ WithElements(b, es).pages[1].pageId = b.pages[1].pageId
<1> DEFINE c == WithElements(b, es)
           p == [b.pages[b.currentPage] EXCEPT !.elements = es]
<1>1. b = [f \in Fields |-> b[f]] /\ IsPage(b.pages[1]) /\ IsList(b.pages) /\ b.currentPage = 1 /\ Len(b.pages) = 1
      /\ b.eraserAdded = <<>> /\ b.pages[b.currentPage] = b.pages[1] /\ 1 \in DOMAIN b.pages
  BY DEF Sound, IsBoard, PagesSound, PlainBoard
<1>2. c = [b EXCEPT !.pages = [b.pages EXCEPT ![b.currentPage] = p]]
  BY DEF WithElements
<1>3. p.elements = es /\ p.pageId = b.pages[1].pageId
  BY <1>1 DEF IsPage
<1> HIDE DEF c, p
<1>4. /\ c.pages = [b.pages EXCEPT ![b.currentPage] = p] /\ c.currentPage = b.currentPage
      /\ c.eraserAdded = b.eraserAdded
  BY <1>1, <1>2 DEF Fields
<1>5. b.pages \in Seq({b.pages[i] : i \in DOMAIN b.pages})
  BY <1>1 DEF IsList
<1>6. c.pages[1] = p /\ Len(c.pages) = 1
  BY <1>1, <1>4, <1>5
<1>7. Elements(c) = es
  BY <1>1, <1>3, <1>4, <1>6 DEF Elements, CurrentPage
<1>8. PlainBoard(c)
  BY <1>1, <1>3, <1>4, <1>6 DEF PlainBoard, PlainPage
<1> QED BY <1>3, <1>6, <1>7, <1>8 DEF c

\* A snapshot changes histories only.
LEMMA PlainSnapshot ==
    ASSUME NEW b, NEW n, Sound(b, n), PlainBoard(b)
    PROVE  LET c == PushSnapshot(b)
           IN Sound(c, n) /\ PlainBoard(c) /\ Elements(c) = Elements(b) /\ c.pages = b.pages
<1> DEFINE c == PushSnapshot(b)
<1>1. Sound(c, n) /\ Elements(c) = Elements(b)
  BY SnapshotSound, SnapshotKeeps
<1>2. c.pages = b.pages /\ c.currentPage = b.currentPage /\ c.eraserAdded = b.eraserAdded
  <2>1. b = [f \in Fields |-> b[f]]
    BY DEF Sound, IsBoard
  <2> QED BY <2>1 DEF PushSnapshot, WithHistory, Fields
<1> HIDE DEF c
<1>3. PlainBoard(c)
  BY <1>2 DEF PlainBoard
<1> QED BY <1>1, <1>2, <1>3 DEF c

\* The elements of a plain board.
LEMMA PlainElements ==
    ASSUME NEW b, NEW n, Sound(b, n), PlainBoard(b), NEW K, Clean(b, K)
    PROVE  /\ Elements(b) = b.pages[1].elements /\ Distinct(Elements(b), K) /\ IsList(Elements(b))
           /\ \A e \in Range(Elements(b)) : e = Element(e.id, FALSE)
<1>1. Distinct(Elements(b), K)
  BY ShownClean
<1> QED BY <1>1 DEF PlainBoard, PlainPage, Elements, CurrentPage, Distinct

\* One element more.
LEMMA PlainAdded ==
    ASSUME NEW b, NEW n, Sound(b, n), PlainBoard(b), NEW K, Clean(b, K), NEW e, e = Element(e.id, FALSE)
    PROVE  LET c == AddElement(b, e)
           IN /\ PlainBoard(c) /\ c.pages[1].pageId = b.pages[1].pageId
              /\ ElementIds(Elements(c)) = ElementIds(Elements(b)) \cup {e.id}
<1> DEFINE s == PushSnapshot(b)
           es == Append(Elements(s), e)
           c == WithElements(s, es)
<1>1. Sound(s, n) /\ PlainBoard(s) /\ Elements(s) = Elements(b) /\ s.pages = b.pages
  BY PlainSnapshot
<1>2. IsList(Elements(b)) /\ \A d \in Range(Elements(b)) : d = Element(d.id, FALSE)
  BY PlainElements
<1> HIDE DEF s
<1>3. Range(es) = Range(Elements(b)) \cup {e}
  BY <1>1, <1>2, TokensMore
<1>4. ElementIds(es) = ElementIds(Elements(b)) \cup {e.id}
  BY <1>3, IdsOfRange
<1> HIDE DEF es
<1>5. PlainBoard(c) /\ Elements(c) = es /\ c.pages[1].pageId = s.pages[1].pageId
  BY <1>1, <1>2, <1>3, PlainWritten
<1> QED BY <1>1, <1>4, <1>5 DEF AddElement, AppendElement, s, es

\* Some elements less.
LEMMA PlainRemoved ==
    ASSUME NEW b, NEW n, Sound(b, n), PlainBoard(b), NEW K, Clean(b, K), NEW ids, IsFiniteSet(ids)
    PROVE  LET c == RemoveAll(PushSnapshot(b), ids)
           IN /\ PlainBoard(c) /\ c.pages[1].pageId = b.pages[1].pageId
              /\ ElementIds(Elements(c)) = ElementIds(Elements(b)) \ ids
<1> DEFINE s == PushSnapshot(b)
           es == FoldSet(LAMBDA id, t : Without(t, id), Elements(s), ids)
           c == WithElements(s, es)
<1>1. Sound(s, n) /\ PlainBoard(s) /\ Elements(s) = Elements(b) /\ s.pages = b.pages
  BY PlainSnapshot
<1>2. Distinct(Elements(b), K) /\ \A d \in Range(Elements(b)) : d = Element(d.id, FALSE)
  BY PlainElements
<1>3. Range(es) = {e \in Range(Elements(b)) : e.id \notin ids}
  BY <1>1, <1>2, RemovedIs
<1> HIDE DEF s, es
<1>4. ElementIds(es) = ElementIds(Elements(b)) \ ids
  BY <1>3, IdsOfRange
<1>5. PlainBoard(c) /\ Elements(c) = es /\ c.pages[1].pageId = s.pages[1].pageId
  BY <1>1, <1>2, <1>3, PlainWritten
<1> QED BY <1>1, <1>4, <1>5 DEF RemoveAll, s, es

\* A command of another.
LEMMA PlainApplied ==
    ASSUME NEW b, NEW n, Sound(b, n), PlainBoard(b), NEW K, Clean(b, K), NEW t, t.kind = "APPLY", PlainIn(t)
    PROVE  LET c == Apply(b, t.cmd)
           IN /\ PlainBoard(c)
              /\ Syncs(t) => c.pages[1].pageId = 1 /\ ElementIds(Elements(c)) = SyncIds(t)
              /\ ~Syncs(t) => /\ c.pages[1].pageId = b.pages[1].pageId
                              /\ ElementIds(Elements(c)) = (ElementIds(Elements(b)) \ TakenIn(t)) \cup NewIn(t)
<1>1. PlainCommand(t.cmd) /\ t.kind \in Bearing
  BY DEF PlainIn, Bearing
<1>2. CASE t.cmd.type = "ElementAdd"
  <2>1. t.cmd.element = Element(t.cmd.element.id, FALSE)
    BY <1>1, <1>2 DEF PlainCommand
  <2>2. NewIn(t) = {t.cmd.element.id} /\ TakenIn(t) = {} /\ ~Syncs(t)
    BY <1>1, <1>2 DEF NewIn, New, TakenIn, Syncs
  <2>3. Apply(b, t.cmd) = AddElement(b, t.cmd.element)
    BY <1>2 DEF Apply
  <2> DEFINE e == t.cmd.element
             c == AddElement(b, e)
  <2>4. e = Element(e.id, FALSE)
    BY <2>1
  <2> HIDE DEF e
  <2>5. /\ PlainBoard(c) /\ c.pages[1].pageId = b.pages[1].pageId
        /\ ElementIds(Elements(c)) = ElementIds(Elements(b)) \cup {e.id}
    BY <2>4, PlainAdded
  <2>6. Apply(b, t.cmd) = c /\ NewIn(t) = {e.id}
    BY <2>2, <2>3 DEF e
  <2> HIDE DEF c
  <2> QED BY <2>2, <2>5, <2>6
<1>3. CASE t.cmd.type = "ElementRemove"
  <2> DEFINE id == t.cmd.id
             s == PushSnapshot(b)
             es == Without(Elements(s), id)
             c == WithElements(s, es)
  <2>1. NewIn(t) = {} /\ TakenIn(t) = {id} /\ ~Syncs(t)
    BY <1>1, <1>3 DEF NewIn, New, TakenIn, Syncs
  <2>2. Apply(b, t.cmd) = IF id \notin ElementIds(Elements(b)) THEN b ELSE c
    BY <1>3 DEF Apply, RemoteRemove, RemoveElement
  <2>3. Sound(s, n) /\ PlainBoard(s) /\ Elements(s) = Elements(b) /\ s.pages = b.pages
    BY PlainSnapshot
  <2>4. Distinct(Elements(b), K) /\ \A d \in Range(Elements(b)) : d = Element(d.id, FALSE)
    BY PlainElements
  <2> HIDE DEF s, id
  <2>5. Range(es) = {e \in Range(Elements(b)) : e.id # id}
    BY <2>3, <2>4, WithoutDistinct
  <2> HIDE DEF es
  <2>6. ElementIds(es) = ElementIds(Elements(b)) \ {id}
    BY <2>5, IdsOfRange
  <2>7. PlainBoard(c) /\ Elements(c) = es /\ c.pages[1].pageId = s.pages[1].pageId
    BY <2>3, <2>4, <2>5, PlainWritten
  <2> HIDE DEF c
  <2> QED BY <2>1, <2>2, <2>3, <2>6, <2>7
<1>4. CASE t.cmd.type = "FullSync"
  <2> DEFINE d == [b EXCEPT !.pages = t.cmd.pages, !.histories = <<>>]
             c == Show(d, 1)
  <2>1. Len(t.cmd.pages) = 1 /\ PlainPage(t.cmd.pages[1]) /\ t.cmd.pages[1].pageId = 1
    BY <1>1, <1>4 DEF PlainCommand
  <2>2. b = [f \in Fields |-> b[f]]
    BY DEF Sound, IsBoard
  <2>3. d = [f \in Fields |-> d[f]] /\ d.pages = t.cmd.pages
    BY <2>2 DEF Fields
  <2>4. Apply(b, t.cmd) = c
    BY <1>4 DEF Apply, ApplyFullSync
  <2> HIDE DEF d
  <2>5. c.pages = t.cmd.pages /\ c.currentPage = 1 /\ c.eraserAdded = <<>>
    BY <2>3 DEF Show, ResetTransientState, Fields
  <2> HIDE DEF c
  <2>6. PlainBoard(c) /\ Elements(c) = t.cmd.pages[1].elements
    BY <2>1, <2>5 DEF PlainBoard, Elements, CurrentPage
  <2>7. Syncs(t)
    BY <1>1, <1>4 DEF Syncs
  <2> QED BY <2>1, <2>4, <2>5, <2>6, <2>7 DEF SyncIds
<1> QED BY <1>1, <1>2, <1>3, <1>4 DEF PlainCommand

\* What three queues say is what their tasks say.
LEMMA FlowSays ==
    ASSUME NEW p, NEW q, NEW r
    PROVE  LET F == Range(p) \cup Range(q) \cup Range(r)
           IN /\ News(p) \cup News(q) \cup News(r) = UNION {NewIn(x) : x \in F}
              /\ Taken(p) \cup Taken(q) \cup Taken(r) = UNION {TakenIn(x) : x \in F}
<1>1. \A s : News(s) = UNION {NewIn(x) : x \in Range(s)} /\ Taken(s) = UNION {TakenIn(x) : x \in Range(s)}
  BY DEF News, Taken, Range
<1> QED BY <1>1

\* The first task is taken from the data thread's queue.
LEMMA DataLess ==
    ASSUME Inv, NEW m \in Members, NEW A, NEW D, NEW st, Local(m, A, D, st), NEW t,
           dataQueue[m] # <<>>, t = Head(dataQueue[m]),
           dataQueue'[m] = Tail(dataQueue[m]), apiQueue'[m] = apiQueue[m], down'[m] = down[m]
    PROVE  /\ In(m) = NewIn(t) \cup In(m)' /\ InTaken(m) = TakenIn(t) \cup InTaken(m)'
           /\ Flow(m) = {t} \cup Flow(m)' /\ Range(dataQueue[m]) = {t} \cup Range(dataQueue'[m])
           /\ \A x \in Flow(m)' : Before(t, x, D)
           /\ In(m)' \cap TakenIn(t) = {}
           /\ Receives(m, A, D)'
<1>1. IsList(dataQueue[m]) /\ IsList(apiQueue[m]) /\ IsList(down[m])
  BY Lists
<1>2. /\ InTurn(dataQueue[m], D) /\ InTurn(apiQueue[m], D) /\ InTurn(down[m], D)
      /\ Follows(dataQueue[m], apiQueue[m], D) /\ Follows(dataQueue[m], down[m], D)
      /\ Follows(apiQueue[m], down[m], D)
      /\ In(m) \subseteq A /\ In(m) \cap D \subseteq InTaken(m) /\ InTaken(m) \subseteq D
      /\ \A x \in Flow(m) : PlainIn(x) /\ SyncRight(m, x, A, D)
  BY Placed
<1>3. /\ Range(dataQueue[m]) = {t} \cup Range(dataQueue'[m])
      /\ Taken(dataQueue[m]) = TakenIn(t) \cup Taken(dataQueue'[m])
      /\ InTurn(dataQueue'[m], D) /\ \A x \in Range(dataQueue'[m]) : Before(t, x, D)
  BY <1>1, <1>2, TokensLess
<1>4. News(dataQueue[m]) = NewIn(t) \cup News(dataQueue'[m])
  BY <1>1, QueueLess
<1>5. In(m) = NewIn(t) \cup In(m)' /\ InTaken(m) = TakenIn(t) \cup InTaken(m)'
  BY <1>3, <1>4 DEF In, InTaken
<1>6. Flow(m) = {t} \cup Flow(m)'
  BY <1>3 DEF Flow
<1>7. \A x \in Flow(m)' : Before(t, x, D)
  BY <1>2, <1>3 DEF Follows, Flow
<1>8. In(m)' \cap TakenIn(t) = {}
  <2>1. In(m)' = UNION {NewIn(x) : x \in Flow(m)'}
    BY FlowSays DEF In, Flow
  <2>2. \A x \in Flow(m)' : NewIn(x) \cap TakenIn(t) = {}
    BY <1>7 DEF Before
  <2> QED BY <2>1, <2>2
<1>9. Chain(m, D)'
  <2>1. Follows(Tail(dataQueue[m]), apiQueue[m], D)
    BY <1>1, <1>2, FollowsMore
  <2>2. Follows(Tail(dataQueue[m]), down[m], D)
    BY <1>1, <1>2, FollowsMore
  <2> QED BY <1>2, <1>3, <2>1, <2>2 DEF Chain
<1>10. ASSUME NEW x \in Flow(m)' PROVE PlainIn(x) /\ SyncRight(m, x, A, D)'
  <2>1. PlainIn(x) /\ SyncRight(m, x, A, D) /\ Before(t, x, D)
    BY <1>2, <1>6, <1>7
  <2>2. ASSUME Syncs(x)
        PROVE  /\ SyncIds(x) \subseteq A /\ SyncIds(x) \cap D \subseteq InTaken(m)'
               /\ A \subseteq SyncIds(x) \cup In(m)' \cup D
    <3>1. /\ SyncIds(x) \subseteq A /\ SyncIds(x) \cap D \subseteq InTaken(m)
          /\ A \subseteq SyncIds(x) \cup In(m) \cup D
      BY <2>1, <2>2 DEF SyncRight
    <3>2. NewIn(t) \subseteq SyncIds(x) \cup D /\ TakenIn(t) \cap SyncIds(x) = {}
      BY <2>1, <2>2 DEF Before
    <3> QED BY <1>5, <3>1, <3>2
  <2> QED BY <2>1, <2>2 DEF SyncRight
<1>11. Receives(m, A, D)'
  <2>1. In(m)' \subseteq A /\ In(m)' \cap D \subseteq InTaken(m)' /\ InTaken(m)' \subseteq D
    BY <1>2, <1>5, <1>8
  <2> QED BY <1>9, <1>10, <2>1 DEF Receives
<1> QED BY <1>3, <1>5, <1>6, <1>7, <1>8, <1>11

\* Nothing happens to n.
Undisturbed(n) ==
    /\ board'[n] = board[n] /\ dataQueue'[n] = dataQueue[n] /\ apiQueue'[n] = apiQueue[n]
    /\ down'[n] = down[n] /\ up'[n] = up[n] /\ outbox'[n] = outbox[n] /\ serving'[n] = serving[n]
    /\ link'[n] = link[n] /\ callback'[n] = callback[n] /\ synced'[n] = synced[n]
\* A stage that stays, or one of those the first member's queues tell apart.
Onward(s, t) == t = s \/ (s \in {"ask", "answer"} /\ t \in {"ask", "answer"})

\* Something happens to m only, and to the stage of whoever waits for m's answer.
LEMMA RoomMoves ==
    ASSUME NEW m \in Members, NEW A, NEW D, NEW st, AgreeWith(A, D, st),
           NEW su \in [Members -> Stages], Local(m, A, D, su)', Stage(su)',
           order' = order /\ tool' = tool /\ torn' = torn /\ nextId' = nextId,
           \A n \in Members \ {m} : Undisturbed(n) /\ Onward(st[n], su[n])
    PROVE  AgreeWith(A, D, su)'
<1>1. ASSUME NEW n \in Members PROVE Local(n, A, D, su)'
  <2>1. Local(n, A, D, st)
    BY DEF AgreeWith
  <2>2. CASE n # m
    <3>1. su[n] = st[n] \/ (su[n] \in {"ask", "answer"} /\ st[n] \in {"ask", "answer"})
      BY <2>2 DEF Onward
    <3>2. /\ board'[n] = board[n] /\ dataQueue'[n] = dataQueue[n] /\ apiQueue'[n] = apiQueue[n]
          /\ down'[n] = down[n] /\ up'[n] = up[n] /\ outbox'[n] = outbox[n] /\ serving'[n] = serving[n]
          /\ link'[n] = link[n] /\ callback'[n] = callback[n] /\ synced'[n] = synced[n]
      BY <2>2 DEF Undisturbed
    <3> QED BY <2>1, <3>1, <3>2, Untouched
  <2> QED BY <2>2
<1>2. Calm' /\ Numbered(A, D)' /\ Founded'
  BY DEF AgreeWith, Calm, Numbered, Founded
<1> QED BY <1>1, <1>2 DEF AgreeWith

\* What a task of the data thread changes.
LEMMA DataTaken ==
    ASSUME Inv, NEW m \in Members, DataTask(m), NEW t, t = Head(dataQueue[m])
    PROVE  /\ dataQueue[m] # <<>> /\ outbox[m] = <<>>
           /\ dataQueue'[m] = Tail(dataQueue[m]) /\ \A n \in Members \ {m} : dataQueue'[n] = dataQueue[n]
           /\ apiQueue' = apiQueue /\ down' = down /\ outbox' = outbox /\ link' = link /\ order' = order
           /\ tool' = tool /\ nextId' = nextId
           /\ t \in Range(dataQueue[m]) /\ t = dataQueue[m][1]
<1>1. /\ dataQueue[m] # <<>> /\ dataQueue' = [dataQueue EXCEPT ![m] = Tail(@)]
      /\ apiQueue' = apiQueue /\ down' = down /\ outbox' = outbox /\ link' = link /\ order' = order
      /\ tool' = tool /\ nextId' = nextId /\ outbox[m] = <<>>
  BY DEF DataTask, DataFree
<1>2. IsList(dataQueue[m]) /\ PerMember(dataQueue)
  BY Lists
<1>3. t \in Range(dataQueue[m]) /\ t = dataQueue[m][1]
  BY <1>1, <1>2, TokensLess
<1> QED BY <1>1, <1>2, <1>3 DEF PerMember

\* The callback is set.
LEMMA CallbackAgree ==
    ASSUME Inv, NEW m \in Members, NEW A, NEW D, NEW st, AgreeWith(A, D, st), DataTask(m),
           Head(dataQueue[m]).kind = "SET_CALLBACK"
    PROVE  AgreeWith(A, D, st)'
<1> DEFINE t == Head(dataQueue[m])
<1>1. /\ callback' = [callback EXCEPT ![m] = TRUE] /\ board' = board /\ synced' = synced
      /\ serving' = serving /\ up' = up /\ torn' = torn
  BY DEF DataTask, Inv, HistoryType
<1>2. t = Head(dataQueue[m]) /\ t.kind = "SET_CALLBACK"
  OBVIOUS
<1> HIDE DEF t
<1>3. /\ dataQueue[m] # <<>>
      /\ dataQueue'[m] = Tail(dataQueue[m]) /\ \A n \in Members \ {m} : dataQueue'[n] = dataQueue[n]
      /\ apiQueue' = apiQueue /\ down' = down /\ outbox' = outbox /\ link' = link /\ order' = order
      /\ tool' = tool /\ nextId' = nextId
  BY <1>2, DataTaken
<1>4. Local(m, A, D, st)
  BY DEF AgreeWith
<1>5. /\ In(m) = NewIn(t) \cup In(m)' /\ InTaken(m) = TakenIn(t) \cup InTaken(m)'
      /\ Flow(m) = {t} \cup Flow(m)' /\ Range(dataQueue[m]) = {t} \cup Range(dataQueue'[m])
      /\ Receives(m, A, D)'
  BY <1>2, <1>3, <1>4, DataLess
<1>6. NewIn(t) = {} /\ TakenIn(t) = {} /\ t.kind \notin Bearing
  BY <1>2 DEF NewIn, TakenIn, Bearing
<1>7. Chain(m, D)'
  BY <1>5 DEF Receives
<1>8. Requested(m)' = Requested(m) /\ Answered(m)' = Answered(m)
  BY <1>1, <1>3 DEF Requested, Answered
<1>9. Serves(m)'
  BY <1>1, <1>3, <1>4, <1>5, <1>8 DEF Local, Serves
<1>10. callback'[m] = TRUE /\ \A n \in Members \ {m} : callback'[n] = callback[n]
  BY <1>1 DEF Inv, CallbackType
<1>11. Wired(m)'
  BY <1>10 DEF Wired
<1>12. Local(m, A, D, st)'
  <2>1. In(m)' = In(m) /\ InTaken(m)' = InTaken(m)
    BY <1>5, <1>6
  <2>2. \A x \in Flow(m)' : x.kind \notin {"BROADCAST", "UNICAST"}
    BY <1>5, KindsIn
  <2>3. \A x \in Flow(m)' : x.kind \in Bearing => \E s \in Flow(m) : s.kind \in Bearing /\ s.cmd = x.cmd
    BY <1>5
  <2>4. \A s \in Flow(m) : s.kind \in Bearing => \E x \in Flow(m)' : x.kind \in Bearing /\ x.cmd = s.cmd
    BY <1>5, <1>6
  <2>5. st[m] \in {"out", "join"} => apiQueue'[m] = <<>> /\ down'[m] = <<>>
    BY <1>3, <1>4 DEF Local, Seat
  <2> QED BY <1>1, <1>3, <1>4, <1>7, <1>9, <1>11, <2>1, <2>2, <2>3, <2>4, <2>5, InStays
<1> QED BY <1>1, <1>3, <1>8, <1>10, <1>12, RoomStays

\* A command of another is applied.
LEMMA ApplyAgree ==
    ASSUME Inv, NEW K \in Kinds, TidyWith(K), NEW m \in Members, NEW A, NEW D, NEW st, AgreeWith(A, D, st),
           DataTask(m), Head(dataQueue[m]).kind = "APPLY", ~Syncs(Head(dataQueue[m]))
    PROVE  AgreeWith(A, D, st)'
<1> DEFINE t == Head(dataQueue[m])
<1>1. /\ board' = [board EXCEPT ![m] = Apply(@, t.cmd)] /\ synced' = [synced EXCEPT ![m] = @ \/ t.cmd.type = "FullSync"]
      /\ serving' = serving /\ up' = up /\ torn' = torn /\ callback' = callback
  BY DEF DataTask, Inv, HistoryType
<1>2. t = Head(dataQueue[m]) /\ t.kind = "APPLY" /\ ~Syncs(t)
  OBVIOUS
<1> HIDE DEF t
<1>3. /\ dataQueue[m] # <<>> /\ outbox[m] = <<>>
      /\ dataQueue'[m] = Tail(dataQueue[m]) /\ \A n \in Members \ {m} : dataQueue'[n] = dataQueue[n]
      /\ apiQueue' = apiQueue /\ down' = down /\ outbox' = outbox /\ link' = link /\ order' = order
      /\ tool' = tool /\ nextId' = nextId
      /\ t \in Range(dataQueue[m]) /\ t = dataQueue[m][1]
  BY <1>2, DataTaken
<1>4. Local(m, A, D, st)
  BY DEF AgreeWith
<1>5. /\ In(m) = NewIn(t) \cup In(m)' /\ InTaken(m) = TakenIn(t) \cup InTaken(m)'
      /\ Flow(m) = {t} \cup Flow(m)' /\ Range(dataQueue[m]) = {t} \cup Range(dataQueue'[m])
      /\ In(m)' \cap TakenIn(t) = {}
      /\ Receives(m, A, D)'
  BY <1>2, <1>3, <1>4, DataLess
<1>6. /\ synced' = synced /\ PerMember(board) /\ Sound(board[m], nextId) /\ Clean(board[m], K)
      /\ t.kind \in Bearing
  <2>1. t.kind \in Bearing /\ t.cmd.type # "FullSync"
    BY <1>2 DEF Syncs, Bearing
  <2> QED BY <1>1, <2>1, OwnBoard, Lists DEF Inv, HistoryType
<1>7. board'[m] = Apply(board[m], t.cmd) /\ \A n \in Members \ {m} : board'[n] = board[n]
  BY <1>1, <1>6 DEF PerMember
<1>8. PlainIn(t) /\ PlainBoard(board[m])
  BY <1>4, <1>5 DEF Local, Receives, Right
<1>9. /\ PlainBoard(board'[m]) /\ board'[m].pages[1].pageId = board[m].pages[1].pageId
      /\ Shown(m)' = (Shown(m) \ TakenIn(t)) \cup NewIn(t)
  BY <1>2, <1>6, <1>7, <1>8, PlainApplied DEF Shown
<1>10. Requested(m)' = Requested(m) /\ Answered(m)' = Answered(m) /\ Out(m)' = Out(m) /\ OutTaken(m)' = OutTaken(m)
  BY <1>1, <1>3 DEF Requested, Answered, Out, OutTaken
<1>11. Sends(m, A, D)'
  BY <1>1, <1>3, <1>4, <1>10 DEF Local, Sends
<1>12. Serves(m)'
  BY <1>1, <1>3, <1>4, <1>5, <1>10 DEF Local, Serves
<1>13. Seat(m, st)'
  <2>1. (\E x \in Flow(m)' : Syncs(x)) <=> \E x \in Flow(m) : Syncs(x)
    BY <1>2, <1>5
  <2> QED BY <1>1, <1>3, <1>4, <1>5, <1>6, <2>1 DEF Local, Seat
<1>14. Wired(m)'
  BY <1>1, <1>2, <1>3, <1>4, <1>6 DEF Local, Wired
<1>15. Right(m, A, D)'
  <2>1. In(m) \subseteq A /\ In(m) \cap D \subseteq InTaken(m) /\ InTaken(m) \subseteq D
    BY <1>4, Placed
  <2>2. NewIn(t) \cap TakenIn(t) = {}
    BY <1>6, <1>8 DEF NewIn, TakenIn, New, PlainIn, PlainCommand
  <2>3. OutTaken(m) \cap In(m) = {}
    BY <1>4 DEF Local, Right
  <2>4. ASSUME synced[m]
        PROVE  /\ board'[m].pages[1].pageId = 1
               /\ Shown(m)' \subseteq A \cup Out(m)' /\ Shown(m)' \cap OutTaken(m)' = {}
               /\ Shown(m)' \cap D \subseteq InTaken(m)'
               /\ A \cup Out(m)' \subseteq Shown(m)' \cup In(m)' \cup D \cup OutTaken(m)'
    <3>1. /\ board[m].pages[1].pageId = 1
          /\ Shown(m) \subseteq A \cup Out(m) /\ Shown(m) \cap OutTaken(m) = {}
          /\ Shown(m) \cap D \subseteq InTaken(m)
          /\ A \cup Out(m) \subseteq Shown(m) \cup In(m) \cup D \cup OutTaken(m)
      BY <1>4, <2>4 DEF Local, Right
    <3>2. Shown(m)' \subseteq A \cup Out(m)' /\ Shown(m)' \cap OutTaken(m)' = {}
      BY <1>5, <1>9, <1>10, <2>1, <2>3, <3>1
    <3>3. Shown(m)' \cap D \subseteq InTaken(m)'
      BY <1>5, <1>9, <2>1, <2>2, <3>1
    <3>4. A \cup Out(m)' \subseteq Shown(m)' \cup In(m)' \cup D \cup OutTaken(m)'
      BY <1>5, <1>9, <1>10, <2>1, <3>1
    <3> QED BY <1>9, <3>1, <3>2, <3>3, <3>4
  <2>5. PlainBoard(board'[m]) /\ OutTaken(m)' \cap In(m)' = {}
    BY <1>5, <1>9, <1>10, <2>3
  <2> QED BY <1>6, <2>4, <2>5 DEF Right
<1>16. Local(m, A, D, st)'
  BY <1>5, <1>11, <1>12, <1>13, <1>14, <1>15 DEF Local
<1> QED BY <1>1, <1>3, <1>6, <1>7, <1>10, <1>16, RoomStays

\* The full data arrives at the newcomer's board.
LEMMA SyncAgree ==
    ASSUME Inv, NEW K \in Kinds, TidyWith(K), NEW m \in Members, NEW A, NEW D, NEW st, AgreeWith(A, D, st),
           DataTask(m), Head(dataQueue[m]).kind = "APPLY", Syncs(Head(dataQueue[m])),
           NEW su, su = [st EXCEPT ![m] = "in"]
    PROVE  AgreeWith(A, D, su)'
<1> DEFINE t == Head(dataQueue[m])
<1>1. /\ board' = [board EXCEPT ![m] = Apply(@, t.cmd)] /\ synced' = [synced EXCEPT ![m] = @ \/ t.cmd.type = "FullSync"]
      /\ serving' = serving /\ up' = up /\ torn' = torn /\ callback' = callback
  BY DEF DataTask, Inv, HistoryType
<1>2. t = Head(dataQueue[m]) /\ t.kind = "APPLY" /\ Syncs(t)
  OBVIOUS
<1> HIDE DEF t
<1>3. /\ dataQueue[m] # <<>> /\ outbox[m] = <<>>
      /\ dataQueue'[m] = Tail(dataQueue[m]) /\ \A n \in Members \ {m} : dataQueue'[n] = dataQueue[n]
      /\ apiQueue' = apiQueue /\ down' = down /\ outbox' = outbox /\ link' = link /\ order' = order
      /\ tool' = tool /\ nextId' = nextId
      /\ t \in Range(dataQueue[m]) /\ t = dataQueue[m][1]
  BY <1>2, DataTaken
<1>4. Local(m, A, D, st) /\ st \in [Members -> Stages] /\ Stage(st)
  BY DEF AgreeWith
<1>5. /\ In(m) = NewIn(t) \cup In(m)' /\ InTaken(m) = TakenIn(t) \cup InTaken(m)'
      /\ Flow(m) = {t} \cup Flow(m)' /\ Range(dataQueue[m]) = {t} \cup Range(dataQueue'[m])
      /\ \A x \in Flow(m)' : Before(t, x, D)
      /\ Receives(m, A, D)'
  BY <1>2, <1>3, <1>4, DataLess
<1>6. /\ synced'[m] = TRUE /\ \A n \in Members \ {m} : synced'[n] = synced[n]
      /\ PerMember(board) /\ Sound(board[m], nextId) /\ Clean(board[m], K) /\ t.kind \in Bearing
  <2>1. t.kind \in Bearing /\ t.cmd.type = "FullSync"
    BY <1>2 DEF Syncs
  <2>2. synced \in [Members -> BOOLEAN]
    BY DEF Inv, HistoryType
  <2> QED BY <1>1, <2>1, <2>2, OwnBoard, Lists
<1>7. board'[m] = Apply(board[m], t.cmd) /\ \A n \in Members \ {m} : board'[n] = board[n]
  BY <1>1, <1>6 DEF PerMember
<1>8. PlainIn(t) /\ PlainBoard(board[m]) /\ SyncRight(m, t, A, D)
  BY <1>4, <1>5 DEF Local, Receives, Right
<1>9. PlainBoard(board'[m]) /\ board'[m].pages[1].pageId = 1 /\ Shown(m)' = SyncIds(t)
  BY <1>2, <1>6, <1>7, <1>8, PlainApplied DEF Shown
<1>10. st[m] = "sync" /\ up[m] = <<>> /\ m \in Range(order) /\ link[m] = "joined" /\ m # Oldest
  BY <1>2, <1>4, <1>5 DEF Local, Seat, Stage
<1>11. /\ su \in [Members -> Stages] /\ su[m] = "in" /\ \A n \in Members \ {m} : su[n] = st[n]
       /\ \A n \in Members : (su[n] = "ask" <=> st[n] = "ask") /\ (su[n] = "answer" <=> st[n] = "answer")
  BY <1>4, <1>10 DEF Stages
<1>12. NewIn(t) = {} /\ TakenIn(t) = {}
  BY <1>2 DEF Syncs, NewIn, TakenIn, New
<1>13. /\ Requested(m)' = Requested(m) /\ Answered(m)' = Answered(m)
       /\ Out(m) = {} /\ OutTaken(m) = {} /\ Out(m)' = {} /\ OutTaken(m)' = {}
  <2>1. News(Wrapped(<<>>)) = {} /\ Taken(Wrapped(<<>>)) = {} /\ News(<<>>) = {} /\ Taken(<<>>) = {}
    BY OneOut, NoTokens
  <2>2. Out(m) = {} /\ OutTaken(m) = {}
    BY <1>3, <1>10, <2>1 DEF Out, OutTaken
  <2>3. Out(m)' = Out(m) /\ OutTaken(m)' = OutTaken(m)
    BY <1>1, <1>3 DEF Out, OutTaken
  <2> QED BY <1>1, <1>3, <2>2, <2>3 DEF Requested, Answered
<1>14. Sends(m, A, D)'
  BY <1>1, <1>3, <1>4, <1>13 DEF Local, Sends
<1>15. Serves(m)'
  BY <1>1, <1>3, <1>4, <1>5, <1>13 DEF Local, Serves
<1>16. Seat(m, su)'
  <2>1. \A x \in Flow(m)' : ~Syncs(x)
    BY <1>2, <1>5 DEF Before
  <2>2. \A x \in Range(up'[m]) : x.kind # "JOIN"
    BY <1>1, <1>10, NoTokens
  <2> QED BY <1>1, <1>3, <1>6, <1>10, <1>11, <2>1, <2>2 DEF Seat
<1>17. Wired(m)'
  BY <1>1, <1>2, <1>3, <1>4 DEF Local, Wired
<1>18. Right(m, A, D)'
  <2>1. /\ SyncIds(t) \subseteq A /\ SyncIds(t) \cap D \subseteq InTaken(m)
        /\ A \subseteq SyncIds(t) \cup In(m) \cup D
    BY <1>2, <1>8 DEF SyncRight
  <2> QED BY <1>5, <1>9, <1>12, <1>13, <2>1 DEF Right
<1>19. Local(m, A, D, su)'
  BY <1>5, <1>14, <1>15, <1>16, <1>17, <1>18 DEF Local
<1>20. Stage(su)'
  <2>1. \A n \in Members : Requested(n)' = Requested(n) /\ Answered(n)' = Answered(n)
    BY <1>1, <1>3 DEF Requested, Answered
  <2>2. Oldest \in Members
    BY FoundersAreMembers DEF Oldest
  <2>3. su[Oldest] = "in"
    BY <1>4, <1>10, <1>11, <2>2 DEF Stage
  <2>4. ASSUME NEW n \in Members
        PROVE  /\ su[n] = "ask" <=> (n \in Requested(Oldest)' \/ serving'[Oldest] = n)
               /\ su[n] = "answer" <=> n \in Answered(Oldest)'
    <3>1. /\ st[n] = "ask" <=> (n \in Requested(Oldest) \/ serving[Oldest] = n)
          /\ st[n] = "answer" <=> n \in Answered(Oldest)
      BY <1>4 DEF Stage
    <3> QED BY <1>1, <1>11, <2>1, <2>2, <3>1
  <2> QED BY <2>3, <2>4 DEF Stage
<1>21. \A k \in Members \ {m} : Undisturbed(k) /\ Onward(st[k], su[k])
  BY <1>1, <1>3, <1>6, <1>7, <1>11 DEF Undisturbed, Onward
<1>22. order' = order /\ tool' = tool /\ torn' = torn /\ nextId' = nextId /\ su \in [Members -> Stages]
  BY <1>1, <1>3, <1>11
<1> QED BY <1>19, <1>20, <1>21, <1>22, RoomMoves

\* The oldest member's data thread reads the pages for the newcomer.
LEMMA ServeAgree ==
    ASSUME Inv, NEW K \in Kinds, TidyWith(K), NEW m \in Members, NEW A, NEW D, NEW st, AgreeWith(A, D, st),
           DataTask(m), Head(dataQueue[m]).kind = "GET_ALL_PAGES",
           NEW su, su = [st EXCEPT ![serving[m]] = "answer"]
    PROVE  AgreeWith(A, D, su)'
<1> DEFINE t == Head(dataQueue[m])
           n == serving[m]
           c == FullSync(board[m])
           w == [kind |-> "UNICAST", to |-> n, cmd |-> c]
<1>1. /\ board' = board /\ synced' = synced /\ callback' = callback
      /\ serving' = [serving EXCEPT ![m] = None] /\ up' = [up EXCEPT ![m] = Append(@, w)]
      /\ torn' = (torn \/ board[m].eraserAdded # <<>>)
  BY DEF DataTask
<1>2. /\ t = Head(dataQueue[m]) /\ t.kind = "GET_ALL_PAGES" /\ n = serving[m]
      /\ w.kind = "UNICAST" /\ w.to = n /\ w.cmd = c /\ c.type = "FullSync" /\ c.pages = board[m].pages
  BY DEF FullSync
<1> HIDE DEF t, n, c, w
<1>3. /\ dataQueue[m] # <<>> /\ outbox[m] = <<>>
      /\ dataQueue'[m] = Tail(dataQueue[m]) /\ \A k \in Members \ {m} : dataQueue'[k] = dataQueue[k]
      /\ apiQueue' = apiQueue /\ down' = down /\ outbox' = outbox /\ link' = link /\ order' = order
      /\ tool' = tool /\ nextId' = nextId
      /\ t \in Range(dataQueue[m]) /\ t = dataQueue[m][1]
  BY <1>2, DataTaken
<1>4. Local(m, A, D, st) /\ st \in [Members -> Stages] /\ Stage(st) /\ ~torn
  BY DEF AgreeWith, Calm
<1>5. /\ In(m) = NewIn(t) \cup In(m)' /\ InTaken(m) = TakenIn(t) \cup InTaken(m)'
      /\ Flow(m) = {t} \cup Flow(m)' /\ Range(dataQueue[m]) = {t} \cup Range(dataQueue'[m])
      /\ \A x \in Flow(m)' : Before(t, x, D)
      /\ Receives(m, A, D)'
  BY <1>2, <1>3, <1>4, DataLess
<1>6. /\ serving \in [Members -> Members \cup {None}] /\ None \notin Members /\ torn \in BOOLEAN
      /\ PerMember(up) /\ IsList(up[m])
  BY Lists, MembersFinite DEF Inv, ServingType, HistoryType
<1>7. n \in Members /\ m = Oldest /\ n \notin Requested(m)
  BY <1>2, <1>3, <1>4, <1>6 DEF Local, Serves
<1>8. st[m] = "in" /\ st[n] = "ask" /\ n # m
  BY <1>2, <1>4, <1>7 DEF Stage
<1>9. /\ up'[m] = Append(up[m], w) /\ \A k \in Members \ {m} : up'[k] = up[k]
      /\ serving'[m] = None /\ \A k \in Members \ {m} : serving'[k] = serving[k]
  BY <1>1, <1>6 DEF PerMember
<1>10. \A x \in Flow(m) : x.kind \notin Bearing /\ NewIn(x) = {} /\ TakenIn(x) = {} /\ ~Syncs(x)
  <2>1. \A x \in Flow(m)' : x.kind \notin Bearing
    BY <1>2, <1>5 DEF Before, Asks
  <2>2. t.kind \notin Bearing
    BY <1>2 DEF Bearing
  <2> QED BY <1>5, <2>1, <2>2 DEF NewIn, TakenIn, Syncs
<1>11. In(m) = {} /\ InTaken(m) = {} /\ In(m)' = {} /\ InTaken(m)' = {}
  <2>1. In(m) = UNION {NewIn(x) : x \in Flow(m)}
    BY FlowSays DEF In, Flow
  <2>3. InTaken(m) = UNION {TakenIn(x) : x \in Flow(m)}
    <3>1. \A p, q, r : Taken(p) \cup Taken(q) \cup Taken(r)
                         = UNION {TakenIn(x) : x \in Range(p) \cup Range(q) \cup Range(r)}
      BY FlowSays
    <3> QED BY <3>1 DEF InTaken, Flow
  <2>2. In(m) = {} /\ InTaken(m) = {}
    BY <1>10, <2>1, <2>3
  <2> QED BY <1>5, <2>2
<1>12. /\ PlainBoard(board[m]) /\ board[m].pages[1].pageId = 1
       /\ Shown(m) \subseteq A \cup Out(m) /\ Shown(m) \cap OutTaken(m) = {}
       /\ Shown(m) \cap D = {} /\ A \cup Out(m) \subseteq Shown(m) \cup D \cup OutTaken(m)
       /\ synced[m]
  BY <1>4, <1>8, <1>11 DEF Local, Right, Seat
<1>13. torn' = torn
  BY <1>1, <1>6, <1>12 DEF PlainBoard
<1>14. Out(m) = News(up[m]) /\ OutTaken(m) = Taken(up[m])
  <2>1. News(Wrapped(<<>>)) = {} /\ Taken(Wrapped(<<>>)) = {}
    BY OneOut
  <2> QED BY <1>3, <2>1 DEF Out, OutTaken
<1>15. NewIn(w) = {} /\ TakenIn(w) = {} /\ SyncIds(w) = Shown(m) /\ PlainIn(w)
  <2>1. NewIn(w) = {} /\ TakenIn(w) = {}
    BY <1>2 DEF NewIn, New, TakenIn
  <2>2. SyncIds(w) = Shown(m)
    BY <1>2, <1>12 DEF SyncIds, Shown, Elements, CurrentPage, PlainBoard
  <2>3. PlainIn(w)
    BY <1>2, <1>7, <1>12 DEF PlainIn, PlainCommand, PlainBoard
  <2> QED BY <2>1, <2>2, <2>3
<1>16. /\ News(up'[m]) = News(up[m]) /\ Taken(up'[m]) = Taken(up[m])
       /\ Range(up'[m]) = Range(up[m]) \cup {w}
  <2>1. /\ News(Append(up[m], w)) = News(up[m]) \cup NewIn(w) /\ Taken(Append(up[m], w)) = Taken(up[m]) \cup TakenIn(w)
        /\ Range(Append(up[m], w)) = Range(up[m]) \cup {w}
    BY <1>6, QueueMore, TokensMore
  <2> QED BY <1>9, <1>15, <2>1
<1>17. Out(m)' = Out(m) /\ OutTaken(m)' = OutTaken(m)
  BY <1>3, <1>16 DEF Out, OutTaken
<1>18. Requested(m)' = Requested(m) /\ Answered(m)' = Answered(m) \cup {n} /\ n \notin Answered(m)
  <2>1. n \notin Answered(m)
    BY <1>4, <1>7, <1>8 DEF Stage
  <2> QED BY <1>2, <1>3, <1>7, <1>16, <2>1 DEF Requested, Answered
<1>19. Sends(m, A, D)'
  <2>1. \A i \in DOMAIN up[m] : FrameRight(up[m], i, A, D)
    BY <1>4 DEF Local, Sends
  <2>2. \A s \in Range(up[m]) : s.kind = "UNICAST" => s.to # w.to
    BY <1>2, <1>7, <1>18 DEF Answered
  <2>3. /\ SyncIds(w) \subseteq A \cup News(up[m]) /\ SyncIds(w) \cap Taken(up[m]) = {} /\ SyncIds(w) \cap D = {}
        /\ A \cup News(up[m]) \subseteq SyncIds(w) \cup D \cup Taken(up[m])
    BY <1>12, <1>14, <1>15
  <2>4. \A i \in DOMAIN Append(up[m], w) : FrameRight(Append(up[m], w), i, A, D)
    BY <1>6, <1>15, <2>1, <2>2, <2>3, FramesMore
  <2>5. \A i \in DOMAIN up'[m] : FrameRight(up'[m], i, A, D)
    BY <1>9, <2>4
  <2> QED BY <1>3, <1>4, <1>16, <1>17, <2>5 DEF Local, Sends
<1>20. Serves(m)'
  <2>1. \A x \in Range(dataQueue'[m]) : x.kind # "GET_ALL_PAGES"
    <3>1. \A x \in Range(dataQueue'[m]) : x \in Flow(m)'
      BY DEF Flow
    <3> QED BY <1>2, <1>5, <3>1 DEF Before
  <2>2. None \notin Requested(m)
    BY <1>6 DEF Requested
  <2> QED BY <1>3, <1>4, <1>5, <1>7, <1>9, <1>10, <1>18, <2>1, <2>2 DEF Local, Serves
<1>21. /\ su \in [Members -> Stages] /\ su[n] = "answer" /\ \A k \in Members \ {n} : su[k] = st[k]
  BY <1>2, <1>4, <1>7 DEF Stages
<1>22. Seat(m, su)'
  <2>1. su[m] = "in" /\ m \in Range(order) /\ link[m] = "joined"
    BY <1>4, <1>7, <1>8, <1>21 DEF Local, Seat
  <2>2. \A x \in Flow(m)' : ~Syncs(x)
    BY <1>5, <1>10
  <2>3. \A x \in Range(up'[m]) : x.kind # "JOIN"
    BY <1>2, <1>4, <1>8, <1>16 DEF Local, Seat
  <2> QED BY <1>1, <1>3, <1>12, <2>1, <2>2, <2>3 DEF Seat
<1>23. Wired(m)'
  BY <1>1, <1>4, <1>12 DEF Local, Wired
<1>24. Right(m, A, D)'
  <2>1. Shown(m)' = Shown(m)
    BY <1>1 DEF Shown
  <2> QED BY <1>1, <1>11, <1>12, <1>17, <2>1 DEF Right
<1>25. Local(m, A, D, su)'
  BY <1>5, <1>19, <1>20, <1>22, <1>23, <1>24 DEF Local
<1>26. Stage(su)'
  <2>1. su[Oldest] = "in"
    BY <1>7, <1>8, <1>21
  <2>2. ASSUME NEW k \in Members
        PROVE  /\ su[k] = "ask" <=> (k \in Requested(Oldest)' \/ serving'[Oldest] = k)
               /\ su[k] = "answer" <=> k \in Answered(Oldest)'
    <3>1. /\ st[k] = "ask" <=> (k \in Requested(Oldest) \/ serving[Oldest] = k)
          /\ st[k] = "answer" <=> k \in Answered(Oldest)
      BY <1>4 DEF Stage
    <3> QED BY <1>2, <1>6, <1>7, <1>9, <1>18, <1>21, <3>1
  <2> QED BY <2>1, <2>2 DEF Stage
<1>27. \A k \in Members \ {m} : Onward(st[k], su[k])
  BY <1>8, <1>21 DEF Onward
<1>28. \A k \in Members \ {m} : Undisturbed(k) /\ Onward(st[k], su[k])
  BY <1>1, <1>3, <1>9, <1>27 DEF Undisturbed
<1>29. order' = order /\ tool' = tool /\ torn' = torn /\ nextId' = nextId /\ su \in [Members -> Stages]
  BY <1>3, <1>13, <1>21
<1> QED BY <1>25, <1>26, <1>28, <1>29, RoomMoves

\* A task of the data thread.
LEMMA DataAgree ==
    ASSUME Inv, NEW K \in Kinds, TidyWith(K), NEW m \in Members, NEW A, NEW D, NEW st, AgreeWith(A, D, st),
           DataTask(m)
    PROVE  \E su : AgreeWith(A, D, su)'
<1>1. CASE Head(dataQueue[m]).kind = "SET_CALLBACK"
  BY <1>1, CallbackAgree
<1>2. CASE Head(dataQueue[m]).kind = "APPLY" /\ ~Syncs(Head(dataQueue[m]))
  BY <1>2, ApplyAgree
<1>3. CASE Head(dataQueue[m]).kind = "APPLY" /\ Syncs(Head(dataQueue[m]))
  BY <1>3, SyncAgree
<1>4. CASE Head(dataQueue[m]).kind = "GET_ALL_PAGES"
  BY <1>4, ServeAgree
<1> QED BY <1>1, <1>2, <1>3, <1>4 DEF DataTask

\* The callback is posted and the connection begun.
LEMMA StartAgree ==
    ASSUME Inv, NEW m \in Members, NEW A, NEW D, NEW st, AgreeWith(A, D, st), Start(m)
    PROVE  AgreeWith(A, D, st)'
<1> DEFINE t == [kind |-> "SET_CALLBACK"]
<1>1. /\ link[m] = "off" /\ link' = [link EXCEPT ![m] = "connecting"]
      /\ dataQueue' = [dataQueue EXCEPT ![m] = Append(@, t)]
      /\ board' = board /\ tool' = tool /\ nextId' = nextId /\ callback' = callback /\ outbox' = outbox
      /\ apiQueue' = apiQueue /\ serving' = serving /\ up' = up /\ down' = down /\ order' = order
      /\ synced' = synced /\ torn' = torn
  BY DEF Start, boardVars, netVars, historyVars
<1>2. t.kind = "SET_CALLBACK"
  OBVIOUS
<1> HIDE DEF t
<1>3. /\ IsList(dataQueue[m]) /\ IsList(apiQueue[m]) /\ IsList(down[m]) /\ PerMember(dataQueue)
      /\ link \in [Members -> {"off", "connecting", "joined"}]
  BY Lists DEF Inv, LinkType
<1>4. Local(m, A, D, st) /\ st \in [Members -> Stages] /\ Stage(st)
  BY DEF AgreeWith
<1>5. /\ dataQueue'[m] = Append(dataQueue[m], t) /\ \A n \in Members \ {m} : dataQueue'[n] = dataQueue[n]
      /\ link'[m] = "connecting" /\ \A n \in Members \ {m} : link'[n] = link[n]
  BY <1>1, <1>3 DEF PerMember
<1>6. st[m] = "out" /\ apiQueue[m] = <<>> /\ down[m] = <<>>
  BY <1>1, <1>4 DEF Local, Seat
<1>7. /\ NewIn(t) = {} /\ TakenIn(t) = {} /\ t.kind \notin Bearing /\ ~Syncs(t)
      /\ \A s : Before(s, t, D)
  BY <1>2 DEF NewIn, TakenIn, Bearing, Syncs, Before
<1>8. /\ Range(dataQueue'[m]) = Range(dataQueue[m]) \cup {t} /\ Taken(dataQueue'[m]) = Taken(dataQueue[m])
      /\ InTurn(dataQueue'[m], D) /\ News(dataQueue'[m]) = News(dataQueue[m])
  <2>1. /\ Range(Append(dataQueue[m], t)) = Range(dataQueue[m]) \cup {t}
        /\ Taken(Append(dataQueue[m], t)) = Taken(dataQueue[m]) \cup TakenIn(t)
        /\ InTurn(dataQueue[m], D) /\ (\A s \in Range(dataQueue[m]) : Before(s, t, D))
             => InTurn(Append(dataQueue[m], t), D)
        /\ News(Append(dataQueue[m], t)) = News(dataQueue[m]) \cup NewIn(t)
    BY <1>3, TokensMore, QueueMore
  <2>2. InTurn(dataQueue[m], D)
    BY <1>4, Placed
  <2> QED BY <1>5, <1>7, <2>1, <2>2
<1>9. In(m)' = In(m) /\ InTaken(m)' = InTaken(m) /\ Flow(m)' = Flow(m) \cup {t}
  BY <1>1, <1>8 DEF In, InTaken, Flow
<1>10. Chain(m, D)'
  <2>1. InTurn(<<>>, D) /\ Range(<<>>) = {}
    BY NoTokens
  <2> QED BY <1>1, <1>6, <1>8, <2>1 DEF Chain, Follows
<1>11. /\ Receives(m, A, D)'
       /\ (\E x \in Flow(m)' : Syncs(x)) <=> \E x \in Flow(m) : Syncs(x)
       /\ (\A x \in Flow(m)' : x.kind \notin Bearing) <=> \A x \in Flow(m) : x.kind \notin Bearing
  <2>1. \A x \in Flow(m)' : x.kind \notin {"BROADCAST", "UNICAST"}
    BY <1>2, <1>9, KindsIn
  <2>2. \A x \in Flow(m)' : x.kind \in Bearing => \E s \in Flow(m) : s.kind \in Bearing /\ s.cmd = x.cmd
    BY <1>7, <1>9
  <2>3. \A s \in Flow(m) : s.kind \in Bearing => \E x \in Flow(m)' : x.kind \in Bearing /\ x.cmd = s.cmd
    BY <1>9
  <2> QED BY <1>4, <1>9, <1>10, <2>1, <2>2, <2>3, FlowStays DEF Local
<1>12. /\ Out(m)' = Out(m) /\ OutTaken(m)' = OutTaken(m)
       /\ \A n \in Members : Requested(n)' = Requested(n) /\ Answered(n)' = Answered(n)
  BY <1>1 DEF Out, OutTaken, Requested, Answered
<1>13. Sends(m, A, D)'
  BY <1>1, <1>4, <1>12 DEF Local, Sends
<1>14. Serves(m)'
  BY <1>1, <1>2, <1>4, <1>8, <1>11, <1>12 DEF Local, Serves
<1>15. Seat(m, st)'
  BY <1>1, <1>4, <1>5, <1>6, <1>7, <1>8, <1>11 DEF Local, Seat
<1>16. Wired(m)'
  <2> DEFINE q == dataQueue[m]
             r == Append(q, t)
  <2>1. /\ DOMAIN r = 1 .. Len(q) + 1 /\ Len(q) \in Nat /\ DOMAIN q = 1 .. Len(q)
        /\ \A i \in 1 .. Len(q) : r[i] = q[i]
        /\ r[Len(q) + 1] = t
    BY <1>3, AppendList
  <2>2. r # <<>>
    <3>1. 1 \in DOMAIN r /\ DOMAIN <<>> = {}
      BY <2>1
    <3> HIDE DEF r
    <3> QED BY <3>1
  <2>3. q # <<>> => 1 \in 1 .. Len(q)
    BY <1>3, TailList
  <2>4. q = <<>> => r[1] = t
    <3> SUFFICES ASSUME q = <<>> PROVE r[1] = t
      OBVIOUS
    <3>1. Len(q) = 0
      OBVIOUS
    <3> HIDE DEF q, r
    <3> QED BY <2>1, <3>1
  <2> QED BY <1>1, <1>2, <1>4, <1>5, <2>1, <2>2, <2>3, <2>4 DEF Local, Wired
<1>17. Right(m, A, D)'
  BY <1>1, <1>4, <1>9, <1>12 DEF Local, Right, Shown
<1>18. Local(m, A, D, st)'
  BY <1>11, <1>13, <1>14, <1>15, <1>16, <1>17 DEF Local
<1>19. Stage(st)'
  BY <1>1, <1>4, <1>12, FoundersAreMembers DEF Stage, Oldest
<1>20. \A n \in Members \ {m} : Undisturbed(n) /\ Onward(st[n], st[n])
  BY <1>1, <1>5 DEF Undisturbed, Onward
<1> QED BY <1>1, <1>4, <1>18, <1>19, <1>20, RoomMoves

\* JOIN is sent.
LEMMA ConnectAgree ==
    ASSUME Inv, NEW m \in Members, NEW A, NEW D, NEW st, AgreeWith(A, D, st), OnConnected(m),
           NEW su, su = [st EXCEPT ![m] = "join"]
    PROVE  AgreeWith(A, D, su)'
<1> DEFINE t == [kind |-> "JOIN"]
<1>1. /\ link[m] = "connecting" /\ link' = [link EXCEPT ![m] = "joined"] /\ serving[m] = None
      /\ up' = [up EXCEPT ![m] = Append(@, t)]
      /\ board' = board /\ tool' = tool /\ nextId' = nextId /\ callback' = callback /\ outbox' = outbox
      /\ apiQueue' = apiQueue /\ serving' = serving /\ dataQueue' = dataQueue /\ down' = down /\ order' = order
      /\ synced' = synced /\ torn' = torn
  BY DEF OnConnected, boardVars, dataVars, historyVars
<1>2. t.kind = "JOIN"
  OBVIOUS
<1> HIDE DEF t
<1>3. IsList(up[m]) /\ PerMember(up) /\ link \in [Members -> {"off", "connecting", "joined"}]
  BY Lists DEF Inv, LinkType
<1>4. Local(m, A, D, st) /\ st \in [Members -> Stages] /\ Stage(st)
  BY DEF AgreeWith
<1>5. /\ up'[m] = Append(up[m], t) /\ \A n \in Members \ {m} : up'[n] = up[n]
      /\ link'[m] = "joined" /\ \A n \in Members \ {m} : link'[n] = link[n]
  BY <1>1, <1>3 DEF PerMember
<1>6. st[m] = "out" /\ up[m] = <<>>
  BY <1>1, <1>4 DEF Local, Seat
<1>7. /\ su \in [Members -> Stages] /\ su[m] = "join" /\ \A n \in Members \ {m} : su[n] = st[n]
      /\ m # Oldest
  BY <1>4, <1>6 DEF Stages, Stage
<1>8. NewIn(t) = {} /\ TakenIn(t) = {} /\ t.kind \notin Bearing /\ PlainIn(t)
  BY <1>2 DEF NewIn, TakenIn, Bearing, PlainIn
<1>9. /\ Range(up'[m]) = Range(up[m]) \cup {t} /\ Taken(up'[m]) = Taken(up[m]) /\ News(up'[m]) = News(up[m])
  <2>1. /\ News(Append(up[m], t)) = News(up[m]) \cup NewIn(t) /\ Taken(Append(up[m], t)) = Taken(up[m]) \cup TakenIn(t)
        /\ Range(Append(up[m], t)) = Range(up[m]) \cup {t}
    BY <1>3, QueueMore, TokensMore
  <2> QED BY <1>5, <1>8, <2>1
<1>10. /\ In(m)' = In(m) /\ InTaken(m)' = InTaken(m) /\ Flow(m)' = Flow(m) /\ Chain(m, D)' = Chain(m, D)
       /\ Out(m)' = Out(m) /\ OutTaken(m)' = OutTaken(m)
  BY <1>1, <1>9 DEF In, InTaken, Flow, Chain, Out, OutTaken
<1>11. Receives(m, A, D)'
  BY <1>4, <1>10 DEF Local, Receives, SyncRight
<1>12. \A n \in Members : Requested(n)' = Requested(n) /\ Answered(n)' = Answered(n)
  <2>1. Answered(m)' = Answered(m)
    BY <1>2, <1>9 DEF Answered
  <2> QED BY <1>1, <1>5, <2>1 DEF Requested, Answered
<1>13. Sends(m, A, D)'
  <2>1. \A i \in DOMAIN up[m] : FrameRight(up[m], i, A, D)
    BY <1>4 DEF Local, Sends
  <2>2. \A i \in DOMAIN Append(up[m], t) : FrameRight(Append(up[m], t), i, A, D)
    BY <1>2, <1>3, <1>8, <2>1, FramesMore
  <2> QED BY <1>1, <1>4, <1>5, <1>9, <1>10, <2>2 DEF Local, Sends
<1>14. Serves(m)'
  BY <1>1, <1>4, <1>10, <1>12 DEF Local, Serves
<1>15. Seat(m, su)'
  <2>1. Len(up'[m]) = 1 /\ up'[m][1].kind = "JOIN"
    BY <1>2, <1>5, <1>6
  <2> QED BY <1>1, <1>4, <1>5, <1>6, <1>7, <1>10, <2>1 DEF Local, Seat
<1>16. Wired(m)'
  BY <1>1, <1>4 DEF Local, Wired
<1>17. Right(m, A, D)'
  BY <1>1, <1>4, <1>10 DEF Local, Right, Shown
<1>18. Local(m, A, D, su)'
  BY <1>11, <1>13, <1>14, <1>15, <1>16, <1>17 DEF Local
<1>19. Stage(su)'
  <2>1. Oldest \in Members
    BY FoundersAreMembers DEF Oldest
  <2>2. ASSUME NEW n \in Members
        PROVE  (su[n] = "ask" <=> st[n] = "ask") /\ (su[n] = "answer" <=> st[n] = "answer")
    BY <1>6, <1>7
  <2> QED BY <1>1, <1>4, <1>7, <1>12, <2>1, <2>2 DEF Stage
<1>20. \A n \in Members \ {m} : Undisturbed(n) /\ Onward(st[n], su[n])
  BY <1>1, <1>5, <1>7 DEF Undisturbed, Onward
<1> QED BY <1>1, <1>7, <1>18, <1>19, <1>20, RoomMoves

\* The ids a member has said it takes were handed out.
LEMMA TakenHandedOut ==
    ASSUME NEW q, NEW A, NEW D, \A i \in DOMAIN q : FrameRight(q, i, A, D), IsList(q)
    PROVE  Taken(q) \subseteq A \cup News(q)
<1>1. DOMAIN q = 1 .. Len(q) /\ Len(q) \in Nat
  BY AppendList
<1>2. \A i \in DOMAIN q : NewBefore(q, i) \subseteq News(q)
  <2>1. \A i \in DOMAIN q : \A j \in 1 .. i - 1 : j \in DOMAIN q
    BY <1>1
  <2> QED BY <2>1 DEF NewBefore, News
<1>3. \A i \in DOMAIN q : TakenIn(q[i]) \subseteq A \cup News(q)
  BY <1>2 DEF FrameRight
<1> QED BY <1>3 DEF Taken

\* A member that shows the room's board operates, and has one command for the room.
LEMMA SayAgree ==
    ASSUME Inv, NEW K \in Kinds, TidyWith(K), NEW m \in Members, NEW A, NEW D, NEW st, AgreeWith(A, D, st),
           NEW b, NEW cmds, NEW used \in Nat, Operate(m, b, cmds, used), tool' = tool, synced[m],
           IsList(cmds), Len(cmds) = 1, NEW w, w = [kind |-> "BROADCAST", cmd |-> cmds[1]],
           PlainIn(w), PlainBoard(b), b.pages[1].pageId = board[m].pages[1].pageId,
           ElementIds(Elements(b)) = (Shown(m) \ TakenIn(w)) \cup NewIn(w),
           NewIn(w) \subseteq nextId .. nextId + used - 1,
           TakenIn(w) \subseteq Shown(m)
    PROVE  AgreeWith(A, D, st)'
<1> DEFINE c == cmds[1]
           t == Send(c)
<1>1. Local(m, A, D, st) /\ st \in [Members -> Stages] /\ Stage(st) /\ Numbered(A, D)
  BY DEF AgreeWith
<1>2. st[m] = "in" /\ callback[m]
  BY <1>1 DEF Local, Seat, Wired
<1>3. /\ IsList(apiQueue[m]) /\ IsList(dataQueue[m]) /\ IsList(down[m]) /\ IsList(up[m])
      /\ PerMember(apiQueue) /\ PerMember(board) /\ PerMember(outbox)
  BY Lists
<1>4. DOMAIN cmds = {1} /\ cmds # <<>> /\ Head(cmds) = c
  <2>1. DOMAIN cmds = 1 .. 1
    BY AppendList
  <2>2. cmds # <<>>
    <3>1. 1 \in DOMAIN cmds /\ DOMAIN <<>> = {}
      BY <2>1
    <3> QED BY <3>1
  <2> QED BY <2>1, <2>2, TailList
<1>5. w.kind = "BROADCAST" /\ w.cmd = c /\ t.kind = "SEND"
  BY DEF Send
<1> HIDE DEF c
<1>6. /\ outbox[m] = <<>>
      /\ board' = [board EXCEPT ![m] = b] /\ nextId' = nextId + used
      /\ outbox' = [outbox EXCEPT ![m] = cmds]
      /\ apiQueue' = [apiQueue EXCEPT ![m] = Append(@, t)]
      /\ link' = link /\ callback' = callback /\ dataQueue' = dataQueue /\ serving' = serving
      /\ up' = up /\ down' = down /\ order' = order /\ synced' = synced /\ torn' = torn
  BY <1>2, <1>4 DEF Operate, DataFree, netVars
<1> HIDE DEF t
<1>7. /\ board'[m] = b /\ \A n \in Members \ {m} : board'[n] = board[n]
      /\ outbox'[m] = cmds /\ \A n \in Members \ {m} : outbox'[n] = outbox[n]
      /\ apiQueue'[m] = Append(apiQueue[m], t) /\ \A n \in Members \ {m} : apiQueue'[n] = apiQueue[n]
  BY <1>3, <1>6 DEF PerMember
<1>8. /\ NewIn(t) = {} /\ TakenIn(t) = {} /\ t.kind \notin Bearing /\ ~Syncs(t)
      /\ \A n : t # Asked(n)
      /\ \A s, E : Before(s, t, E) /\ Before(t, s, E)
  BY <1>5, SendSilent
<1>9. /\ Range(apiQueue'[m]) = Range(apiQueue[m]) \cup {t} /\ Taken(apiQueue'[m]) = Taken(apiQueue[m])
      /\ News(apiQueue'[m]) = News(apiQueue[m])
      /\ InTurn(apiQueue[m], D) => InTurn(apiQueue'[m], D)
  <2>1. /\ Range(Append(apiQueue[m], t)) = Range(apiQueue[m]) \cup {t}
        /\ Taken(Append(apiQueue[m], t)) = Taken(apiQueue[m]) \cup TakenIn(t)
        /\ News(Append(apiQueue[m], t)) = News(apiQueue[m]) \cup NewIn(t)
        /\ InTurn(apiQueue[m], D) /\ (\A s \in Range(apiQueue[m]) : Before(s, t, D))
             => InTurn(Append(apiQueue[m], t), D)
    BY <1>3, TokensMore, QueueMore
  <2> QED BY <1>7, <1>8, <2>1
<1>10. In(m)' = In(m) /\ InTaken(m)' = InTaken(m) /\ Flow(m)' = Flow(m) \cup {t}
  BY <1>6, <1>9 DEF In, InTaken, Flow
<1>11. Chain(m, D)'
  <2>1. /\ InTurn(dataQueue[m], D) /\ InTurn(apiQueue[m], D) /\ InTurn(down[m], D)
        /\ Follows(dataQueue[m], apiQueue[m], D) /\ Follows(dataQueue[m], down[m], D)
        /\ Follows(apiQueue[m], down[m], D)
    BY <1>1, Placed
  <2>2. Follows(dataQueue[m], apiQueue'[m], D) /\ Follows(apiQueue'[m], down[m], D)
    BY <1>8, <1>9, <2>1 DEF Follows
  <2> QED BY <1>6, <1>9, <2>1, <2>2 DEF Chain
<1>12. /\ Receives(m, A, D)'
       /\ (\E x \in Flow(m)' : Syncs(x)) <=> \E x \in Flow(m) : Syncs(x)
       /\ (\A x \in Flow(m)' : x.kind \notin Bearing) <=> \A x \in Flow(m) : x.kind \notin Bearing
  <2>1. \A x \in Flow(m)' : x.kind \notin {"BROADCAST", "UNICAST"}
    BY <1>5, <1>10, KindsIn
  <2>2. \A x \in Flow(m)' : x.kind \in Bearing => \E s \in Flow(m) : s.kind \in Bearing /\ s.cmd = x.cmd
    BY <1>8, <1>10
  <2>3. \A s \in Flow(m) : s.kind \in Bearing => \E x \in Flow(m)' : x.kind \in Bearing /\ x.cmd = s.cmd
    BY <1>10
  <2> QED BY <1>1, <1>10, <1>11, <2>1, <2>2, <2>3, FlowStays DEF Local
<1>13. /\ Out(m) = News(up[m]) /\ OutTaken(m) = Taken(up[m])
       /\ Out(m)' = News(up[m]) \cup NewIn(w) /\ OutTaken(m)' = Taken(up[m]) \cup TakenIn(w)
       /\ Taken(Wrapped(outbox'[m])) = TakenIn(w)
  <2>1. News(Wrapped(<<>>)) = {} /\ Taken(Wrapped(<<>>)) = {}
    BY OneOut
  <2>2. News(Wrapped(cmds)) = New(c) /\ Taken(Wrapped(cmds)) = TakenIn(w)
    BY OneOut DEF c
  <2>3. NewIn(w) = New(c)
    BY <1>5 DEF NewIn, Bearing
  <2>4. Out(m) = News(up[m]) /\ OutTaken(m) = Taken(up[m])
    BY <1>6, <2>1 DEF Out, OutTaken
  <2> QED BY <1>6, <1>7, <2>2, <2>3, <2>4 DEF Out, OutTaken
<1>14. /\ PlainBoard(board[m]) /\ OutTaken(m) \cap In(m) = {} /\ board[m].pages[1].pageId = 1
       /\ Shown(m) \subseteq A \cup Out(m) /\ Shown(m) \cap OutTaken(m) = {}
       /\ Shown(m) \cap D \subseteq InTaken(m)
       /\ A \cup Out(m) \subseteq Shown(m) \cup In(m) \cup D \cup OutTaken(m)
  BY <1>1 DEF Local, Right
<1>15. /\ \A i \in DOMAIN up[m] : FrameRight(up[m], i, A, D)
       /\ Out(m) \cap A = {} /\ Taken(up[m]) \subseteq A \cup News(up[m])
  <2>1. \A i \in DOMAIN up[m] : FrameRight(up[m], i, A, D)
    BY <1>1 DEF Local, Sends
  <2>2. Taken(up[m]) \subseteq A \cup News(up[m])
    BY <1>3, <2>1, TakenHandedOut
  <2> QED BY <1>1, <2>1, <2>2 DEF Local, Sends
<1>16. /\ nextId \in Nat \ {0} /\ A \subseteq 1 .. nextId - 1 /\ D \subseteq A /\ Out(m) \subseteq 1 .. nextId - 1
       /\ In(m) \cap Shown(m) = {}
  <2>1. nextId \in Nat \ {0} /\ DOMAIN K = 1 .. nextId - 1 /\ Sound(board[m], nextId)
    BY OwnBoard
  <2>2. Out(m) \subseteq DOMAIN K
    BY SaysHandedOut
  <2>3. In(m) \cap Known(board[m]) = {}
    BY DEF TidyWith, Neatly
  <2>4. Shown(m) \subseteq Known(board[m])
    BY <2>1, ShownIsSheet DEF Shown
  <2> QED BY <1>1, <2>1, <2>2, <2>3, <2>4 DEF Numbered
<1>17. NewIn(w) \cap 1 .. nextId - 1 = {}
  <2>1. (nextId .. nextId + used - 1) \cap (1 .. nextId - 1) = {}
    BY <1>16
  <2> QED BY <2>1
<1>18. Sends(m, A, D)'
  <2>1. Out(m)' \cap A = {}
    BY <1>13, <1>15, <1>16, <1>17
  <2>2. Taken(Wrapped(outbox'[m])) \subseteq A \cup News(up[m])
    BY <1>13, <1>14
  <2>3. Len(outbox'[m]) = 1 /\ PlainIn([kind |-> "BROADCAST", cmd |-> outbox'[m][1]])
    BY <1>7
  <2> QED BY <1>6, <1>15, <2>1, <2>2, <2>3 DEF Sends
<1>19. Requested(m)' = Requested(m) /\ Answered(m)' = Answered(m)
  BY <1>6, <1>8, <1>9 DEF Requested, Answered
<1>20. Serves(m)'
  BY <1>1, <1>5, <1>6, <1>9, <1>12, <1>19 DEF Local, Serves
<1>21. Seat(m, st)' /\ Wired(m)'
  BY <1>1, <1>2, <1>6, <1>12 DEF Local, Seat, Wired
<1>22. Right(m, A, D)'
  <2>1. Shown(m)' = (Shown(m) \ TakenIn(w)) \cup NewIn(w)
    BY <1>7 DEF Shown
  <2>2. OutTaken(m)' \cap In(m)' = {}
    BY <1>10, <1>13, <1>14, <1>16
  <2>3. NewIn(w) \cap TakenIn(w) = {}
    BY <1>5 DEF NewIn, TakenIn, New
  <2>4. Shown(m)' \subseteq A \cup Out(m)'
    BY <1>13, <1>14, <2>1
  <2>5. Shown(m)' \cap OutTaken(m)' = {}
    BY <1>13, <1>14, <1>15, <1>16, <1>17, <2>1, <2>3
  <2>6. Shown(m)' \cap D \subseteq InTaken(m)'
    BY <1>10, <1>14, <1>16, <1>17, <2>1
  <2>7. A \cup Out(m)' \subseteq Shown(m)' \cup In(m)' \cup D \cup OutTaken(m)'
    BY <1>10, <1>13, <1>14, <2>1
  <2> QED BY <1>7, <1>14, <2>2, <2>4, <2>5, <2>6, <2>7 DEF Right
<1>23. Local(m, A, D, st)'
  BY <1>12, <1>18, <1>20, <1>21, <1>22 DEF Local
<1>24. ASSUME NEW n \in Members PROVE Local(n, A, D, st)'
  <2>1. CASE n = m
    BY <1>23, <2>1
  <2>2. CASE n # m
    <3>1. Local(n, A, D, st)
      BY DEF AgreeWith
    <3> QED BY <1>6, <1>7, <2>2, <3>1, Untouched
  <2> QED BY <2>1, <2>2
<1>25. Stage(st)'
  <2>1. \A n \in Members : Requested(n)' = Requested(n) /\ Answered(n)' = Answered(n)
    <3>1. \A n \in Members \ {m} : Requested(n)' = Requested(n) /\ Answered(n)' = Answered(n)
      BY <1>6, <1>7 DEF Requested, Answered
    <3> QED BY <1>19, <3>1
  <2> QED BY <1>1, <1>6, <2>1, FoundersAreMembers DEF Stage, Oldest
<1>26. Numbered(A, D)'
  <2>1. 1 .. nextId - 1 \subseteq 1 .. nextId' - 1
    BY <1>6, <1>16
  <2> QED BY <1>16, <2>1 DEF Numbered
<1>27. Calm' /\ Founded'
  BY <1>6 DEF AgreeWith, Calm, Founded
<1> QED BY <1>1, <1>24, <1>25, <1>26, <1>27 DEF AgreeWith

\* An element is added.
LEMMA AddAgree ==
    ASSUME Inv, NEW K \in Kinds, TidyWith(K), NEW m \in Members, NEW A, NEW D, NEW st, AgreeWith(A, D, st),
           DoAddElement(m), synced[m]
    PROVE  AgreeWith(A, D, st)'
<1> DEFINE e == Element(nextId, FALSE)
           b == AddElement(board[m], e)
           c == ElementCommand("ElementAdd", e)
           cmds == <<c>>
           w == [kind |-> "BROADCAST", cmd |-> cmds[1]]
<1>1. Operate(m, b, cmds, 1) /\ tool' = tool
  BY DEF DoAddElement
<1>2. e = Element(e.id, FALSE) /\ e.id = nextId
  BY DEF Element
<1>3. c.type = "ElementAdd" /\ c.element = e
  BY DEF ElementCommand
<1> HIDE DEF e, c
<1>4. IsList(cmds) /\ Len(cmds) = 1 /\ cmds[1] = c
  BY OneList
<1>5. w = [kind |-> "BROADCAST", cmd |-> cmds[1]] /\ w.kind = "BROADCAST" /\ w.cmd = c
  BY <1>4
<1> HIDE DEF cmds, w
<1>6. NewIn(w) = {nextId} /\ TakenIn(w) = {} /\ PlainIn(w)
  BY <1>2, <1>3, <1>5 DEF NewIn, New, TakenIn, PlainIn, PlainCommand, Bearing
<1>7. Sound(board[m], nextId) /\ Clean(board[m], K) /\ nextId \in Nat \ {0}
  BY OwnBoard
<1>8. PlainBoard(board[m])
  BY DEF AgreeWith, Local, Right
<1>9. /\ PlainBoard(b) /\ b.pages[1].pageId = board[m].pages[1].pageId
      /\ ElementIds(Elements(b)) = Shown(m) \cup {nextId}
  BY <1>2, <1>7, <1>8, PlainAdded DEF Shown
<1> HIDE DEF b
<1>10. /\ ElementIds(Elements(b)) = (Shown(m) \ TakenIn(w)) \cup NewIn(w)
       /\ NewIn(w) \subseteq nextId .. nextId + 1 - 1 /\ TakenIn(w) \subseteq Shown(m) /\ 1 \in Nat
  BY <1>6, <1>7, <1>9
<1> QED BY <1>1, <1>4, <1>5, <1>6, <1>9, <1>10, SayAgree

\* The one id of a set, read from the sequence made of it.
LEMMA SoleId ==
    ASSUME NEW ids, IsFiniteSet(ids), Cardinality(ids) = 1
    PROVE  ids = {SetToSeq(ids)[1]}
<1>1. PICK x : ids = {x}
  BY FS_Singleton
<1>2. \E f \in [1 .. Cardinality(ids) -> ids] : \A i, j \in DOMAIN f : f[i] = f[j] => i = j
  <2> DEFINE f == [i \in 1 .. 1 |-> x]
  <2>1. f \in [1 .. 1 -> ids] /\ \A i, j \in DOMAIN f : i = j
    BY <1>1
  <2> QED BY <2>1
<1>3. SetToSeq(ids) \in [1 .. 1 -> ids]
  BY <1>2 DEF SetToSeq, IsInjective
<1> QED BY <1>1, <1>3

\* An element is removed.
LEMMA RemoveAgree ==
    ASSUME Inv, NEW K \in Kinds, TidyWith(K), NEW m \in Members, NEW A, NEW D, NEW st, AgreeWith(A, D, st),
           DoRemoveElements(m), synced[m], "RemoveMany" \notin Ops
    PROVE  AgreeWith(A, D, st)'
<1>1. PICK ids \in SUBSET ElementIds(Elements(board[m])) :
          /\ Cardinality(ids) = 1
          /\ Operate(m, RemoveAll(PushSnapshot(board[m]), ids),
                     [i \in 1 .. Cardinality(ids) |-> Command("ElementRemove", SetToSeq(ids)[i])], 0)
          /\ tool' = tool
  BY DEF DoRemoveElements, May
<1> DEFINE b == RemoveAll(PushSnapshot(board[m]), ids)
           cmds == [i \in 1 .. Cardinality(ids) |-> Command("ElementRemove", SetToSeq(ids)[i])]
           c == Command("ElementRemove", SetToSeq(ids)[1])
           w == [kind |-> "BROADCAST", cmd |-> cmds[1]]
<1>2. Operate(m, b, cmds, 0)
  BY <1>1
<1>3. Sound(board[m], nextId) /\ Clean(board[m], K) /\ nextId \in Nat \ {0} /\ DOMAIN K = 1 .. nextId - 1
      /\ Known(board[m]) \subseteq DOMAIN K
  BY OwnBoard
<1>4. IsFiniteSet(ids)
  <2>1. ids \subseteq 1 .. nextId - 1
    BY <1>3, ShownIsSheet
  <2>2. IsFiniteSet(1 .. nextId - 1)
    BY <1>3, FS_Interval
  <2> QED BY <2>1, <2>2, FS_Subset
<1>5. IsList(cmds) /\ Len(cmds) = 1 /\ cmds[1] = c
  <2> DEFINE q == [i \in 1 .. 1 |-> Command("ElementRemove", SetToSeq(ids)[i])]
  <2>1. cmds = q /\ DOMAIN q = 1 .. 1 /\ q[1] = c
    BY <1>1
  <2>2. q = [i \in 1 .. 1 |-> q[i]] /\ 1 \in Nat
    OBVIOUS
  <2> HIDE DEF q, cmds, c
  <2>3. IsList(q) /\ Len(q) = 1
    BY <2>2, MadeList
  <2> QED BY <2>1, <2>3
<1>6. ids = {SetToSeq(ids)[1]}
  BY <1>1, <1>4, SoleId
<1>7. w = [kind |-> "BROADCAST", cmd |-> cmds[1]] /\ w.kind = "BROADCAST" /\ w.cmd = c
  BY <1>5
<1>8. c.type = "ElementRemove" /\ c.id = SetToSeq(ids)[1]
  BY DEF Command
<1>9. PlainBoard(board[m])
  BY DEF AgreeWith, Local, Right
<1>10. /\ PlainBoard(b) /\ b.pages[1].pageId = board[m].pages[1].pageId
       /\ ElementIds(Elements(b)) = Shown(m) \ ids
  BY <1>3, <1>4, <1>9, PlainRemoved DEF Shown
<1> HIDE DEF b, cmds, c, w
<1>11. NewIn(w) = {} /\ TakenIn(w) = ids /\ PlainIn(w)
  BY <1>6, <1>7, <1>8 DEF NewIn, New, TakenIn, PlainIn, PlainCommand, Bearing
<1>12. /\ ElementIds(Elements(b)) = (Shown(m) \ TakenIn(w)) \cup NewIn(w)
       /\ NewIn(w) \subseteq nextId .. nextId + 0 - 1 /\ TakenIn(w) \subseteq Shown(m) /\ 0 \in Nat
  BY <1>10, <1>11 DEF Shown
<1> QED BY <1>1, <1>2, <1>5, <1>7, <1>10, <1>11, <1>12, SayAgree

\* Where nothing else is done, these are the user's operations.
LEMMA UserAgree ==
    ASSUME Inv, NEW K \in Kinds, TidyWith(K), NEW m \in Members, NEW A, NEW D, NEW st, AgreeWith(A, D, st),
           UserStep(m), Ops \subseteq {"Add", "Remove"}, synced[m]
    PROVE  AgreeWith(A, D, st)'
<1>1. \A s \in Sessions : tool[m][s] = "none"
  BY DEF AgreeWith, Calm
<1>2. \A s \in Sessions : /\ ~DoPenBegin(m, s) /\ ~DoPenEnd(m, s) /\ ~DoEraserBegin(m, s)
                          /\ ~DoEraserMove(m, s) /\ ~DoEraserEnd(m, s)
  BY <1>1 DEF DoPenBegin, DoPenEnd, DoEraserBegin, DoEraserMove, DoEraserEnd, May
<1>3. ~DoEraseRegion(m) /\ ~DoClear(m) /\ ~DoUpdate(m) /\ ~DoBatch(m) /\ ~DoUndoRedo(m)
  BY DEF DoEraseRegion, DoClear, DoUpdate, DoBatch, DoUndoRedo, May
<1>4. ~DoCreatePage(m) /\ ~DoSelectPage(m) /\ ~DoDeletePage(m) /\ ~DoCopyPage(m)
  BY DEF DoCreatePage, DoSelectPage, DoDeletePage, DoCopyPage, May
<1>5. CASE DoAddElement(m)
  BY <1>5, AddAgree
<1>6. CASE DoRemoveElements(m)
  BY <1>6, RemoveAgree
<1> QED BY <1>2, <1>3, <1>4, <1>5, <1>6 DEF UserStep

\* Whatever a user does is an operation.
LEMMA Operates == ASSUME NEW m \in Members, UserStep(m) PROVE \E b, cmds, used : Operate(m, b, cmds, used)
<1>1. ASSUME ~\E b, cmds, used : Operate(m, b, cmds, used) PROVE FALSE
  <2>1. \A s \in Sessions : ~DoPenBegin(m, s) /\ ~DoPenEnd(m, s)
    BY <1>1, Zenon DEF DoPenBegin, DoPenEnd
  <2>2. \A s \in Sessions : ~DoEraserBegin(m, s) /\ ~DoEraserMove(m, s) /\ ~DoEraserEnd(m, s)
    BY <1>1, Zenon DEF DoEraserBegin, DoEraserMove, DoEraserEnd
  <2>3. ~DoEraseRegion(m) /\ ~DoClear(m) /\ ~DoAddElement(m) /\ ~DoRemoveElements(m)
    BY <1>1, Zenon DEF DoEraseRegion, DoClear, DoAddElement, DoRemoveElements
  <2>4. ~DoUpdate(m) /\ ~DoBatch(m) /\ ~DoUndoRedo(m)
    BY <1>1, Zenon DEF DoUpdate, DoBatch, DoUndoRedo
  <2>5. ~DoCreatePage(m) /\ ~DoSelectPage(m) /\ ~DoDeletePage(m) /\ ~DoCopyPage(m)
    BY <1>1, Zenon DEF DoCreatePage, DoSelectPage, DoDeletePage, DoCopyPage
  <2> QED BY <2>1, <2>2, <2>3, <2>4, <2>5 DEF UserStep
<1> QED BY <1>1

\* An operation of a member that does not show the room's board yet closes the question.
LEMMA EarlyCloses ==
    ASSUME Inv, NEW m \in Members, UserStep(m), Open'
    PROVE  synced[m]
<1>1. \A b, cmds, used : Operate(m, b, cmds, used) => early'[m] = (early[m] \/ ~synced[m])
  BY DEF Operate, Inv, HistoryType
<1> QED BY <1>1, Operates DEF Open

\* More ids may be taken.
LEMMA ChainLasts ==
    ASSUME NEW n, NEW D, NEW E, D \subseteq E, Chain(n, D)
    PROVE  Chain(n, E)
<1>1. \A q : InTurn(q, D) => InTurn(q, E)
  BY BeforeLasts DEF InTurn
<1>2. \A p, q : Follows(p, q, D) => Follows(p, q, E)
  BY BeforeLasts DEF Follows
<1> QED BY <1>1, <1>2 DEF Chain

\* What n's three queues say.
LEMMA FlowIs ==
    ASSUME NEW n
    PROVE  In(n) = UNION {NewIn(s) : s \in Flow(n)} /\ InTaken(n) = UNION {TakenIn(s) : s \in Flow(n)}
<1>1. \A p, q, r : /\ News(p) \cup News(q) \cup News(r) = UNION {NewIn(x) : x \in Range(p) \cup Range(q) \cup Range(r)}
                   /\ Taken(p) \cup Taken(q) \cup Taken(r)
                        = UNION {TakenIn(x) : x \in Range(p) \cup Range(q) \cup Range(r)}
  BY FlowSays
<1> QED BY <1>1 DEF In, InTaken, Flow

\* The server sends x to n.
LEMMA DownMore ==
    ASSUME Inv, NEW n \in Members, NEW D, Chain(n, D), NEW x,
           dataQueue'[n] = dataQueue[n] /\ apiQueue'[n] = apiQueue[n] /\ down'[n] = Append(down[n], x),
           \A s \in Flow(n) : Before(s, x, D)
    PROVE  /\ Chain(n, D)' /\ In(n)' = In(n) \cup NewIn(x) /\ InTaken(n)' = InTaken(n) \cup TakenIn(x)
           /\ Flow(n)' = Flow(n) \cup {x} /\ Range(down'[n]) = Range(down[n]) \cup {x}
<1>1. IsList(down[n])
  BY Lists
<1>2. /\ Range(Append(down[n], x)) = Range(down[n]) \cup {x}
      /\ Taken(Append(down[n], x)) = Taken(down[n]) \cup TakenIn(x)
      /\ InTurn(down[n], D) /\ (\A s \in Range(down[n]) : Before(s, x, D)) => InTurn(Append(down[n], x), D)
      /\ News(Append(down[n], x)) = News(down[n]) \cup NewIn(x)
  BY <1>1, TokensMore, QueueMore
<1>3. In(n)' = In(n) \cup NewIn(x) /\ InTaken(n)' = InTaken(n) \cup TakenIn(x) /\ Flow(n)' = Flow(n) \cup {x}
  BY <1>2 DEF In, InTaken, Flow
<1>4. /\ \A s \in Range(dataQueue[n]) : Before(s, x, D)
      /\ \A s \in Range(apiQueue[n]) : Before(s, x, D)
      /\ \A s \in Range(down[n]) : Before(s, x, D)
  BY DEF Flow
<1>5. Chain(n, D)'
  <2>1. /\ InTurn(dataQueue[n], D) /\ InTurn(apiQueue[n], D) /\ InTurn(down[n], D)
        /\ Follows(dataQueue[n], apiQueue[n], D) /\ Follows(dataQueue[n], down[n], D)
        /\ Follows(apiQueue[n], down[n], D)
    BY DEF Chain
  <2>2. Follows(dataQueue[n], Append(down[n], x), D)
    BY <1>1, <1>4, <2>1, FollowsMore
  <2>3. Follows(apiQueue[n], Append(down[n], x), D)
    BY <1>1, <1>4, <2>1, FollowsMore
  <2> QED BY <1>2, <1>4, <2>1, <2>2, <2>3 DEF Chain
<1> QED BY <1>2, <1>3, <1>5

\* The server takes the frame t from m.
LEMMA UpLess ==
    ASSUME Inv, NEW m \in Members, up[m] # <<>>, NEW t, t = Head(up[m]),
           up'[m] = Tail(up[m]) /\ outbox'[m] = outbox[m]
    PROVE  /\ Out(m) = NewIn(t) \cup Out(m)' /\ OutTaken(m) = TakenIn(t) \cup OutTaken(m)'
           /\ Range(up[m]) = {t} \cup Range(up'[m]) /\ t = up[m][1] /\ 1 \in DOMAIN up[m]
           /\ News(up[m]) = NewIn(t) \cup News(up'[m])
           /\ NewBefore(up[m], 1) = {} /\ TakenBefore(up[m], 1) = {}
<1>1. IsList(up[m])
  BY Lists
<1>2. /\ News(up[m]) = NewIn(t) \cup News(Tail(up[m])) /\ Taken(up[m]) = TakenIn(t) \cup Taken(Tail(up[m]))
      /\ Range(up[m]) = {t} \cup Range(Tail(up[m])) /\ t = up[m][1] /\ 1 \in DOMAIN up[m]
      /\ NewBefore(up[m], 1) = {} /\ TakenBefore(up[m], 1) = {}
  BY <1>1, TokensLess, QueueLess
<1> QED BY <1>2 DEF Out, OutTaken

\* Who is in the room, when m joins.
LEMMA OneJoins ==
    ASSUME NEW m \in Members, order \in Seq(Members), order # <<>>, order' = Append(order, m)
    PROVE  Range(order') = Range(order) \cup {m} /\ order' # <<>> /\ order'[1] = order[1]
<1>1. IsList(order)
  <2>1. DOMAIN order = 1 .. Len(order) /\ Len(order) \in Nat
    OBVIOUS
  <2>2. order = [i \in 1 .. Len(order) |-> order[i]]
    OBVIOUS
  <2> QED BY <2>1, <2>2, MadeList
<1>2. Range(Append(order, m)) = Range(order) \cup {m}
  BY <1>1, TokensMore
<1>3. Append(order, m)[1] = order[1] /\ Append(order, m) # <<>>
  BY <1>1, <1>2, TailList
<1> QED BY <1>2, <1>3

\* What the server's step changes.
LEMMA ServerTaken ==
    ASSUME Inv, NEW m \in Members, ServerTask(m)
    PROVE  /\ up[m] # <<>> /\ up'[m] = Tail(up[m]) /\ \A n \in Members \ {m} : up'[n] = up[n]
           /\ board' = board /\ tool' = tool /\ nextId' = nextId /\ callback' = callback /\ outbox' = outbox
           /\ dataQueue' = dataQueue /\ link' = link /\ apiQueue' = apiQueue /\ serving' = serving
           /\ synced' = synced /\ torn' = torn
           /\ \A n \in Members : Range(up'[n]) \subseteq Range(up[n])
<1>1. /\ up[m] # <<>> /\ up' = [up EXCEPT ![m] = Tail(@)]
      /\ board' = board /\ tool' = tool /\ nextId' = nextId /\ callback' = callback /\ outbox' = outbox
      /\ dataQueue' = dataQueue /\ link' = link /\ apiQueue' = apiQueue /\ serving' = serving
      /\ synced' = synced /\ torn' = torn
  BY DEF ServerTask, boardVars, dataVars, apiVars
<1>2. PerMember(up) /\ IsList(up[m])
  BY Lists
<1>3. Range(Tail(up[m])) \subseteq Range(up[m])
  BY <1>1, <1>2, TokensLess
<1> QED BY <1>1, <1>2, <1>3 DEF PerMember

\* The oldest member is asked for the full data for the newcomer m.
LEMMA AskAgree ==
    ASSUME Inv, NEW m \in Members, NEW A, NEW D, NEW st, AgreeWith(A, D, st), ServerTask(m),
           Head(up[m]).kind = "JOIN", NEW su, su = [st EXCEPT ![m] = "ask"]
    PROVE  AgreeWith(A, D, su)'
<1> DEFINE t == Head(up[m])
           x == Asked(m)
<1>1. /\ up[m] # <<>> /\ up'[m] = Tail(up[m]) /\ \A n \in Members \ {m} : up'[n] = up[n]
      /\ board' = board /\ tool' = tool /\ nextId' = nextId /\ callback' = callback /\ outbox' = outbox
      /\ dataQueue' = dataQueue /\ link' = link /\ apiQueue' = apiQueue /\ serving' = serving
      /\ synced' = synced /\ torn' = torn
  BY ServerTaken
<1>2. Local(m, A, D, st) /\ st \in [Members -> Stages] /\ Stage(st) /\ Calm /\ Founded /\ Numbered(A, D)
  BY DEF AgreeWith
<1>3. HandleJoin(m)
  BY DEF ServerTask
<1>4. Oldest \in Members /\ Head(order) = Oldest /\ PerMember(down) /\ order \in Seq(Members) /\ order # <<>>
  <2>1. Oldest \in Members
    BY FoundersAreMembers DEF Oldest
  <2> QED BY <1>2, <2>1, Lists DEF Founded, Inv, OrderType
<1>5. x.kind = "REQUEST_DATA" /\ x.from = m /\ t = Head(up[m]) /\ t.kind = "JOIN"
  BY DEF Asked
<1>6. x = Asked(m)
  OBVIOUS
<1> HIDE DEF t, x
<1>7. /\ down'[Oldest] = Append(down[Oldest], x) /\ \A n \in Members \ {Oldest} : down'[n] = down[n]
      /\ order' = Append(order, m)
  BY <1>3, <1>4, <1>6 DEF HandleJoin, PerMember
<1>8. /\ Range(order') = Range(order) \cup {m} /\ order' # <<>> /\ order'[1] = order[1]
  BY <1>4, <1>7, OneJoins
<1>9. /\ Out(m) = NewIn(t) \cup Out(m)' /\ OutTaken(m) = TakenIn(t) \cup OutTaken(m)'
      /\ Range(up[m]) = {t} \cup Range(up'[m]) /\ t = up[m][1]
  BY <1>1, <1>5, UpLess
<1>10. st[m] = "join" /\ Len(up[m]) = 1
  BY <1>2, <1>5, <1>9, NoTokens DEF Local, Seat, Stages
<1>11. up'[m] = <<>>
  <2>1. IsList(up[m])
    BY Lists
  <2> QED BY <1>1, <1>10, <2>1, OneOut
<1>12. m # Oldest /\ st[Oldest] = "in"
  BY <1>2, <1>10 DEF Stage
<1>13. /\ su \in [Members -> Stages] /\ su[m] = "ask" /\ \A n \in Members \ {m} : su[n] = st[n]
  BY <1>2 DEF Stages
<1>14. m \notin Requested(Oldest) /\ serving[Oldest] # m
  BY <1>2, <1>10 DEF Stage
<1>15. NewIn(x) = {} /\ TakenIn(x) = {} /\ ~Syncs(x) /\ x.kind \notin Bearing /\ PlainIn(x)
  BY <1>5 DEF NewIn, TakenIn, Syncs, Bearing, PlainIn
<1>16. Local(Oldest, A, D, st)
  BY <1>4 DEF AgreeWith
<1>17. \A s \in Flow(Oldest) : Before(s, x, D)
  <2>1. ASSUME NEW s \in Flow(Oldest), s.kind = "REQUEST_DATA" PROVE s.from # m
    <3>1. s \in Range(apiQueue[Oldest]) \cup Range(down[Oldest])
      BY <1>4, <2>1, KindsIn DEF Flow, Tasks
    <3>2. s = Asked(s.from)
      BY <1>16, <2>1, <3>1 DEF Local, Serves
    <3> QED BY <1>14, <3>1, <3>2 DEF Requested
  <2> QED BY <1>5, <1>15, <2>1 DEF Before
<1>18. /\ Chain(Oldest, D)' /\ In(Oldest)' = In(Oldest) /\ InTaken(Oldest)' = InTaken(Oldest)
       /\ Flow(Oldest)' = Flow(Oldest) \cup {x} /\ Range(down'[Oldest]) = Range(down[Oldest]) \cup {x}
  <2>1. Chain(Oldest, D)
    BY <1>16 DEF Local, Receives
  <2>2. /\ Chain(Oldest, D)' /\ In(Oldest)' = In(Oldest) \cup NewIn(x)
        /\ InTaken(Oldest)' = InTaken(Oldest) \cup TakenIn(x)
        /\ Flow(Oldest)' = Flow(Oldest) \cup {x} /\ Range(down'[Oldest]) = Range(down[Oldest]) \cup {x}
    BY <1>1, <1>4, <1>7, <1>17, <2>1, DownMore
  <2> QED BY <1>15, <2>2
<1>19. /\ Requested(Oldest)' = Requested(Oldest) \cup {m} /\ Answered(Oldest)' = Answered(Oldest)
       /\ \A n \in Members \ {Oldest} : Requested(n)' = Requested(n) 
       /\ Answered(m)' = {}
  <2>1. \A n : Asked(n) = x <=> n = m
    BY <1>6 DEF Asked
  <2>2. Requested(Oldest)' = Requested(Oldest) \cup {m}
    BY <1>1, <1>18, <2>1 DEF Requested
  <2>3. Answered(m)' = {}
    BY <1>11, NoTokens DEF Answered
  <2> QED BY <1>1, <1>4, <1>7, <1>12, <2>2, <2>3 DEF Requested, Answered
<1>20. Local(Oldest, A, D, su)'
  <2>1. /\ Receives(Oldest, A, D)'
        /\ (\E s \in Flow(Oldest)' : Syncs(s)) <=> \E s \in Flow(Oldest) : Syncs(s)
        /\ (\A s \in Flow(Oldest)' : s.kind \notin Bearing) <=> \A s \in Flow(Oldest) : s.kind \notin Bearing
    <3>1. \A s \in Flow(Oldest)' : s.kind \notin {"BROADCAST", "UNICAST"}
      BY <1>4, <1>5, <1>18, KindsIn
    <3>2. \A s \in Flow(Oldest)' : s.kind \in Bearing => \E u \in Flow(Oldest) : u.kind \in Bearing /\ u.cmd = s.cmd
      BY <1>15, <1>18
    <3>3. \A s \in Flow(Oldest) : s.kind \in Bearing => \E u \in Flow(Oldest)' : u.kind \in Bearing /\ u.cmd = s.cmd
      BY <1>18
    <3> QED BY <1>16, <1>18, <3>1, <3>2, <3>3, FlowStays DEF Local
  <2>2. Out(Oldest)' = Out(Oldest) /\ OutTaken(Oldest)' = OutTaken(Oldest) /\ up'[Oldest] = up[Oldest]
    BY <1>1, <1>4, <1>12 DEF Out, OutTaken
  <2>3. Sends(Oldest, A, D)'
    BY <1>1, <1>16, <2>2 DEF Local, Sends
  <2>4. Serves(Oldest)'
    BY <1>1, <1>5, <1>6, <1>14, <1>16, <1>18, <1>19, <2>1 DEF Local, Serves
  <2>5. Seat(Oldest, su)'
    BY <1>1, <1>4, <1>8, <1>12, <1>13, <1>16, <2>1, <2>2 DEF Local, Seat
  <2>6. Wired(Oldest)'
    BY <1>1, <1>16 DEF Local, Wired
  <2>7. Right(Oldest, A, D)'
    BY <1>1, <1>16, <1>18, <2>2 DEF Local, Right, Shown
  <2> QED BY <2>1, <2>3, <2>4, <2>5, <2>6, <2>7 DEF Local
<1>21. Local(m, A, D, su)'
  <2>1. /\ In(m)' = In(m) /\ InTaken(m)' = InTaken(m) /\ Flow(m)' = Flow(m) /\ Chain(m, D)' = Chain(m, D)
        /\ down'[m] = down[m]
    BY <1>1, <1>7, <1>12 DEF In, InTaken, Flow, Chain
  <2>2. Receives(m, A, D)'
    BY <1>2, <2>1 DEF Local, Receives, SyncRight
  <2>3. Sends(m, A, D)'
    <3>1. News(up'[m]) = {} /\ DOMAIN up'[m] = {}
      BY <1>11, NoTokens
    <3>2. outbox'[m] = <<>>
      BY <1>1, <1>2, <1>10 DEF Local, Seat
    <3>3. Taken(Wrapped(<<>>)) = {}
      BY OneOut
    <3>4. Out(m)' \cap A = {}
      BY <1>2, <1>9 DEF Local, Sends
    <3> QED BY <3>1, <3>2, <3>3, <3>4 DEF Sends
  <2>4. Serves(m)'
    BY <1>1, <1>2, <1>12, <1>19, <2>1 DEF Local, Serves
  <2>5. Seat(m, su)'
    BY <1>1, <1>2, <1>8, <1>10, <1>11, <1>13, <2>1 DEF Local, Seat
  <2>6. Wired(m)'
    BY <1>1, <1>2 DEF Local, Wired
  <2>7. Right(m, A, D)'
    <3>1. ~synced[m]
      BY <1>2, <1>10 DEF Local, Seat
    <3> QED BY <1>1, <1>2, <1>9, <2>1, <3>1 DEF Local, Right
  <2> QED BY <2>2, <2>3, <2>4, <2>5, <2>6, <2>7 DEF Local
<1>22. ASSUME NEW n \in Members PROVE Local(n, A, D, su)'
  <2>1. CASE n \in Members \ {m, Oldest}
    <3>1. Local(n, A, D, st) /\ su[n] = st[n] /\ (n \in Range(order') <=> n \in Range(order))
      BY <1>8, <1>13, <2>1 DEF AgreeWith
    <3> QED BY <1>1, <1>7, <2>1, <3>1, Untouched
  <2> QED BY <1>20, <1>21, <2>1
<1>23. Stage(su)'
  <2>1. ASSUME NEW n \in Members
        PROVE  /\ su[n] = "ask" <=> (n \in Requested(Oldest)' \/ serving'[Oldest] = n)
               /\ su[n] = "answer" <=> n \in Answered(Oldest)'
    <3>1. /\ st[n] = "ask" <=> (n \in Requested(Oldest) \/ serving[Oldest] = n)
          /\ st[n] = "answer" <=> n \in Answered(Oldest)
      BY <1>2 DEF Stage
    <3> QED BY <1>1, <1>10, <1>13, <1>19, <3>1
  <2> QED BY <1>4, <1>12, <1>13, <2>1 DEF Stage
<1>24. Calm' /\ Numbered(A, D)' /\ Founded'
  BY <1>1, <1>2, <1>8 DEF Calm, Numbered, Founded
<1> QED BY <1>13, <1>22, <1>23, <1>24 DEF AgreeWith

\* The full data goes to the newcomer n.
LEMMA AnswerAgree ==
    ASSUME Inv, NEW K \in Kinds, TidyWith(K), NEW m \in Members, NEW A, NEW D, NEW st, AgreeWith(A, D, st),
           ServerTask(m), Head(up[m]).kind = "UNICAST", NEW n, n = Head(up[m]).to,
           NEW su, su = [st EXCEPT ![n] = "sync"]
    PROVE  AgreeWith(A, D, su)'
<1> DEFINE t == Head(up[m])
           x == Message(t.cmd)
<1>1. /\ up[m] # <<>> /\ up'[m] = Tail(up[m]) /\ \A k \in Members \ {m} : up'[k] = up[k]
      /\ board' = board /\ tool' = tool /\ nextId' = nextId /\ callback' = callback /\ outbox' = outbox
      /\ dataQueue' = dataQueue /\ link' = link /\ apiQueue' = apiQueue /\ serving' = serving
      /\ synced' = synced /\ torn' = torn
  BY ServerTaken
<1>2. Local(m, A, D, st) /\ st \in [Members -> Stages] /\ Stage(st) /\ Calm /\ Founded /\ Numbered(A, D)
  BY DEF AgreeWith
<1>3. HandleUnicast(n, t.cmd)
  BY DEF ServerTask
<1>4. Oldest \in Members /\ PerMember(down)
  BY FoundersAreMembers, Lists DEF Oldest
<1>5. x.kind = "MESSAGE" /\ x.cmd = t.cmd /\ t = Head(up[m]) /\ t.kind = "UNICAST" /\ t.to = n
  BY DEF Message
<1>6. x = Message(t.cmd)
  OBVIOUS
<1> HIDE DEF t, x
<1>7. /\ Out(m) = NewIn(t) \cup Out(m)' /\ OutTaken(m) = TakenIn(t) \cup OutTaken(m)'
      /\ Range(up[m]) = {t} \cup Range(up'[m]) /\ t = up[m][1] /\ 1 \in DOMAIN up[m]
      /\ News(up[m]) = NewIn(t) \cup News(up'[m])
      /\ NewBefore(up[m], 1) = {} /\ TakenBefore(up[m], 1) = {}
  BY <1>1, <1>5, UpLess
<1>8. FrameRight(up[m], 1, A, D)
  BY <1>2, <1>7 DEF Local, Sends
<1>9. n \in Members /\ PlainIn(t)
  BY <1>5, <1>7, <1>8 DEF FrameRight, PlainIn
<1>10. t.cmd.type = "FullSync"
  <2>1. AllProper(up[m], K)
    BY Standing
  <2> QED BY <1>5, <1>7, <2>1 DEF AllProper, ProperIn
<1>11. /\ SyncIds(t) \subseteq A /\ SyncIds(t) \cap D = {} /\ A \subseteq SyncIds(t) \cup D
       /\ \A j \in DOMAIN up[m] : up[m][j].kind = "UNICAST" /\ up[m][j].to = n => j = 1
  BY <1>5, <1>7, <1>8 DEF FrameRight
<1>12. /\ NewIn(t) = {} /\ TakenIn(t) = {}
       /\ NewIn(x) = {} /\ TakenIn(x) = {} /\ Syncs(x) /\ x.kind \in Bearing /\ PlainIn(x) /\ SyncIds(x) = SyncIds(t)
  BY <1>5, <1>9, <1>10 DEF NewIn, New, TakenIn, Syncs, Bearing, PlainIn, SyncIds
<1>13. n \in Answered(m)
  BY <1>5, <1>7, <1>9 DEF Answered
<1>14. m = Oldest /\ st[n] = "answer" /\ n # m
  <2>1. m = Oldest
    BY <1>2, <1>13 DEF Local, Serves
  <2> QED BY <1>2, <1>9, <1>13, <2>1 DEF Stage
<1>15. /\ down'[n] = Append(down[n], x) /\ \A k \in Members \ {n} : down'[k] = down[k]
       /\ order' = order
  BY <1>3, <1>4, <1>6, <1>9 DEF HandleUnicast, PerMember
<1>16. /\ su \in [Members -> Stages] /\ su[n] = "sync" /\ \A k \in Members \ {n} : su[k] = st[k]
  BY <1>2, <1>9 DEF Stages
<1>17. Local(n, A, D, st)
  BY <1>9 DEF AgreeWith
<1>18. Requested(n) = {} /\ serving[n] = None /\ Answered(n) = {}
  BY <1>14, <1>17 DEF Local, Serves
<1>19. \A s \in Flow(n) : ~Asks(s) /\ ~Syncs(s)
  <2>1. \A s \in Flow(n) : ~Syncs(s)
    BY <1>14, <1>17 DEF Local, Seat
  <2>2. \A s \in Range(dataQueue[n]) : s.kind # "GET_ALL_PAGES" /\ s.kind # "REQUEST_DATA"
    BY <1>9, <1>17, <1>18, KindsIn DEF Local, Serves, Tasks
  <2>3. ASSUME NEW s \in Range(apiQueue[n]) \cup Range(down[n]) 
        PROVE s.kind # "GET_ALL_PAGES" /\ s.kind # "REQUEST_DATA"
    <3>1. s.kind \in Calls \cup Deliveries /\ (s.kind = "REQUEST_DATA" => s.from \in Members)
      BY <1>9, KindsIn DEF Carried
    <3>2. s.kind = "REQUEST_DATA" => s = Asked(s.from)
      BY <1>17 DEF Local, Serves
    <3> QED BY <1>18, <3>1, <3>2 DEF Requested, Calls, Deliveries
  <2> QED BY <2>1, <2>2, <2>3 DEF Flow, Asks
<1>20. \A s \in Flow(n) : NewIn(s) \subseteq In(n) /\ TakenIn(s) \subseteq InTaken(n)
  BY FlowIs
<1>21. In(n) \subseteq A /\ InTaken(n) \subseteq D /\ Chain(n, D)
  BY <1>17 DEF Local, Receives
<1>22. \A s \in Flow(n) : Before(s, x, D)
  BY <1>5, <1>11, <1>12, <1>19, <1>20, <1>21 DEF Before
<1>23. /\ Chain(n, D)' /\ In(n)' = In(n) /\ InTaken(n)' = InTaken(n)
       /\ Flow(n)' = Flow(n) \cup {x} /\ Range(down'[n]) = Range(down[n]) \cup {x}
  <2>1. /\ Chain(n, D)' /\ In(n)' = In(n) \cup NewIn(x) /\ InTaken(n)' = InTaken(n) \cup TakenIn(x)
        /\ Flow(n)' = Flow(n) \cup {x} /\ Range(down'[n]) = Range(down[n]) \cup {x}
    BY <1>1, <1>9, <1>15, <1>21, <1>22, DownMore
  <2> QED BY <1>12, <2>1
<1>24. /\ Requested(n)' = Requested(n) /\ Answered(n)' = {}
       /\ Requested(m)' = Requested(m) /\ Answered(m)' = Answered(m) \ {n}
  <2>1. \A k : Asked(k) # x
    BY <1>5 DEF Asked
  <2>2. Requested(n)' = Requested(n)
    BY <1>1, <1>23, <2>1 DEF Requested
  <2>3. Requested(m)' = Requested(m)
    BY <1>1, <1>14, <1>15 DEF Requested
  <2>4. Answered(n)' = {}
    BY <1>1, <1>9, <1>14, <1>18 DEF Answered
  <2>5. \A s \in Range(up'[m]) : s.kind = "UNICAST" => s.to # n
    <3>1. IsList(up[m])
      BY Lists
    <3>2. \A i \in DOMAIN Tail(up[m]) : i + 1 \in DOMAIN up[m] /\ up[m][i + 1] = Tail(up[m])[i] /\ i + 1 # 1
      BY <1>1, <3>1, TokensLess
    <3> QED BY <1>1, <1>11, <3>2 DEF Range
  <2>6. Answered(m)' = Answered(m) \ {n}
    BY <1>5, <1>7, <2>5 DEF Answered
  <2> QED BY <2>2, <2>3, <2>4, <2>6
<1>25. Local(n, A, D, su)'
  <2>0. Receives(n, A, D) /\ Sends(n, A, D) /\ Serves(n) /\ Seat(n, st) /\ Wired(n) /\ Right(n, A, D)
    BY <1>17 DEF Local
  <2>1. Receives(n, A, D)'
    <3>1. ASSUME NEW s \in Flow(n)' PROVE PlainIn(s) /\ SyncRight(n, s, A, D)'
      <4>1. CASE s = x
        BY <1>11, <1>12, <1>23, <4>1 DEF SyncRight
      <4>2. CASE s \in Flow(n)
        BY <1>19, <2>0, <4>2 DEF Receives, SyncRight
      <4> QED BY <1>23, <4>1, <4>2
    <3> QED BY <2>0, <1>23, <3>1 DEF Receives
  <2>2. Out(n)' = Out(n) /\ OutTaken(n)' = OutTaken(n) /\ up'[n] = up[n]
    BY <1>1, <1>9, <1>14 DEF Out, OutTaken
  <2>3. Sends(n, A, D)'
    BY <1>1, <2>0, <2>2 DEF Sends
  <2>4. Serves(n)'
    <3>1. serving'[n] = None /\ dataQueue'[n] = dataQueue[n] /\ apiQueue'[n] = apiQueue[n]
      BY <1>1, <1>18
    <3>2. Requested(n)' = {} /\ Answered(n)' = {} /\ Range(down'[n]) = Range(down[n]) \cup {x}
      BY <1>18, <1>23, <1>24
    <3>3. x.kind # "REQUEST_DATA"
      BY <1>5
    <3>4. /\ \A s \in Range(dataQueue[n]) : s.kind # "GET_ALL_PAGES"
          /\ \A s \in Range(apiQueue[n]) \cup Range(down[n]) : s.kind = "REQUEST_DATA" => s = Asked(s.from)
      BY <1>18, <2>0, Zenon DEF Serves
    <3> QED BY <3>1, <3>2, <3>3, <3>4 DEF Serves
  <2>5. Seat(n, su)'
    <3>1. \E s \in Flow(n)' : Syncs(s)
      BY <1>12, <1>23
    <3>2. /\ synced'[n] = synced[n] /\ link'[n] = link[n] /\ outbox'[n] = outbox[n] /\ up'[n] = up[n]
          /\ order' = order /\ st[n] = "answer" /\ su[n] = "sync"
      BY <1>1, <1>14, <1>15, <1>16, <2>2
    <3> QED BY <2>0, <3>1, <3>2 DEF Seat
  <2>6. Wired(n)'
    BY <1>1, <2>0 DEF Wired
  <2>7. Right(n, A, D)'
    <3>1. ~synced[n]
      BY <1>14, <2>0 DEF Seat
    <3>2. PlainBoard(board[n]) /\ OutTaken(n) \cap In(n) = {}
      BY <2>0 DEF Right
    <3> QED BY <1>1, <1>23, <2>2, <3>1, <3>2 DEF Right
  <2> QED BY <2>1, <2>3, <2>4, <2>5, <2>6, <2>7 DEF Local
<1>26. Local(m, A, D, su)'
  <2>1. /\ In(m)' = In(m) /\ InTaken(m)' = InTaken(m) /\ Flow(m)' = Flow(m) /\ Chain(m, D)' = Chain(m, D)
        /\ down'[m] = down[m]
    BY <1>1, <1>14, <1>15 DEF In, InTaken, Flow, Chain
  <2>2. Receives(m, A, D)'
    BY <1>2, <2>1 DEF Local, Receives, SyncRight
  <2>3. Out(m)' = Out(m) /\ OutTaken(m)' = OutTaken(m) /\ News(up'[m]) = News(up[m])
    BY <1>7, <1>12
  <2>4. Sends(m, A, D)'
    <3>1. \A i \in DOMAIN up[m] : FrameRight(up[m], i, A, D)
      BY <1>2 DEF Local, Sends
    <3>2. IsList(up[m])
      BY Lists
    <3>3. \A i \in DOMAIN Tail(up[m]) : FrameRight(Tail(up[m]), i, A \cup NewIn(Head(up[m])), D \cup TakenIn(Head(up[m])))
      BY <1>1, <3>1, <3>2, FramesLess
    <3>4. A \cup NewIn(t) = A /\ D \cup TakenIn(t) = D
      BY <1>12
    <3>5. \A i \in DOMAIN up'[m] : FrameRight(up'[m], i, A, D)
      BY <1>1, <1>5, <3>3, <3>4
    <3> QED BY <1>1, <1>2, <2>3, <3>5 DEF Local, Sends
  <2>5. Serves(m)'
    BY <1>1, <1>2, <1>14, <1>24, <2>1 DEF Local, Serves
  <2>6. Seat(m, su)'
    <3>1. st[m] = "in"
      BY <1>2, <1>14 DEF Stage
    <3> QED BY <1>1, <1>2, <1>7, <1>14, <1>15, <1>16, <2>1, <3>1 DEF Local, Seat
  <2>7. Wired(m)'
    BY <1>1, <1>2 DEF Local, Wired
  <2>8. Right(m, A, D)'
    BY <1>1, <1>2, <2>1, <2>3 DEF Local, Right, Shown
  <2> QED BY <2>2, <2>4, <2>5, <2>6, <2>7, <2>8 DEF Local
<1>27. ASSUME NEW k \in Members PROVE Local(k, A, D, su)'
  <2>1. CASE k \in Members \ {m, n}
    <3>1. Local(k, A, D, st) /\ su[k] = st[k]
      BY <1>16, <2>1 DEF AgreeWith
    <3> QED BY <1>1, <1>15, <2>1, <3>1, Untouched
  <2> QED BY <1>25, <1>26, <2>1
<1>28. Stage(su)'
  <2>1. ASSUME NEW k \in Members
        PROVE  /\ su[k] = "ask" <=> (k \in Requested(Oldest)' \/ serving'[Oldest] = k)
               /\ su[k] = "answer" <=> k \in Answered(Oldest)'
    <3>1. /\ st[k] = "ask" <=> (k \in Requested(Oldest) \/ serving[Oldest] = k)
          /\ st[k] = "answer" <=> k \in Answered(Oldest)
      BY <1>2 DEF Stage
    <3> QED BY <1>1, <1>14, <1>16, <1>24, <3>1
  <2>2. su[Oldest] = "in"
    BY <1>2, <1>4, <1>14, <1>16 DEF Stage
  <2> QED BY <2>1, <2>2 DEF Stage
<1>29. Calm' /\ Numbered(A, D)' /\ Founded'
  BY <1>1, <1>2, <1>15 DEF Calm, Numbered, Founded
<1> QED BY <1>16, <1>27, <1>28, <1>29 DEF AgreeWith

\* The server takes the command t of k's for the others, of what B and E are then added and taken.
LEMMA RelayIs ==
    ASSUME Inv, NEW K \in Kinds, TidyWith(K), NEW k \in Members, NEW A, NEW D, NEW st, AgreeWith(A, D, st),
           ServerTask(k), NEW t, t = Head(up[k]), t.kind = "BROADCAST", NEW x, x = Message(t.cmd)
    PROVE  /\ \A n \in Members : down'[n] = IF n \in Range(order) \ {k} THEN Append(down[n], x) ELSE down[n]
           /\ order' = order /\ order[1] = Oldest /\ Oldest \in Range(order) /\ k \in Range(order) /\ st[k] = "in"
           /\ x.kind = "MESSAGE" /\ x.cmd = t.cmd /\ PlainIn(x) /\ PlainIn(t) /\ ~Syncs(x)
           /\ NewIn(x) = NewIn(t) /\ TakenIn(x) = TakenIn(t)
           /\ TakenIn(t) \subseteq A /\ NewIn(t) \cap A = {} /\ NewIn(t) \cap D = {} /\ D \subseteq A
           /\ NewIn(t) \subseteq 1 .. nextId - 1
           /\ Out(k) = NewIn(t) \cup Out(k)' /\ OutTaken(k) = TakenIn(t) \cup OutTaken(k)'
           /\ Out(k)' \cap NewIn(t) = {}
           /\ \A n \in Members \ {k} : Out(n) \cap NewIn(t) = {}
<1>1. /\ up[k] # <<>> /\ up'[k] = Tail(up[k]) /\ outbox' = outbox
  BY ServerTaken
<1>2. Local(k, A, D, st) /\ Stage(st) /\ Founded /\ Numbered(A, D) /\ st \in [Members -> Stages]
  BY DEF AgreeWith
<1>3. HandleBroadcast(k, t.cmd)
  BY DEF ServerTask
<1>4. x.kind = "MESSAGE" /\ x.cmd = t.cmd
  BY DEF Message
<1>5. /\ \A n \in Members : down'[n] = IF n \in Range(order) \ {k} THEN Append(down[n], x) ELSE down[n]
      /\ order' = order
  BY <1>3 DEF HandleBroadcast
<1>6. /\ Out(k) = NewIn(t) \cup Out(k)' /\ OutTaken(k) = TakenIn(t) \cup OutTaken(k)'
      /\ Range(up[k]) = {t} \cup Range(up'[k]) /\ t = up[k][1] /\ 1 \in DOMAIN up[k]
      /\ NewBefore(up[k], 1) = {} /\ TakenBefore(up[k], 1) = {}
  BY <1>1, UpLess
<1>7. FrameRight(up[k], 1, A, D)
  BY <1>2, <1>6 DEF Local, Sends
<1>8. PlainIn(t) /\ TakenIn(t) \subseteq A
  BY <1>6, <1>7 DEF FrameRight
<1>9. /\ PlainIn(x) /\ ~Syncs(x) /\ NewIn(x) = NewIn(t) /\ TakenIn(x) = TakenIn(t)
  BY <1>4, <1>8 DEF PlainIn, Bearing, Syncs, NewIn, TakenIn
<1>10. NewIn(t) \cap A = {} /\ D \subseteq A /\ NewIn(t) \cap D = {}
  BY <1>2, <1>6 DEF Local, Sends, Numbered
<1>11. /\ NewIn(t) \subseteq SaidIn(t) /\ News(up'[k]) \cap SaidIn(t) = {}
       /\ News(Wrapped(outbox[k])) \cap AllSaid(up[k]) = {} /\ SaidIn(t) \subseteq AllSaid(up[k])
       /\ NewIn(t) \subseteq 1 .. nextId - 1
  <2>1. /\ AllProper(up[k], K) /\ Neat(up[k]) /\ IsList(up[k])
        /\ News(Wrapped(outbox[k])) \cap AllSaid(up[k]) = {}
    BY Standing
  <2>2. AllSaid(up[k]) = SaidIn(t) \cup AllSaid(Tail(up[k])) /\ News(Tail(up[k])) \cap SaidIn(t) = {} /\ ProperIn(t, K)
    BY <1>1, <2>1, QueueLess
  <2>3. t.kind \in Bearing
    BY DEF Bearing
  <2>4. New(t.cmd) \subseteq Said(t.cmd) /\ Said(t.cmd) \subseteq DOMAIN K
    BY <2>2, <2>3, SaidHandedOut DEF ProperIn
  <2>5. DOMAIN K = 1 .. nextId - 1
    BY DEF Kinds
  <2> QED BY <1>1, <2>1, <2>2, <2>3, <2>4, <2>5 DEF NewIn, SaidIn
<1>12. Out(k)' \cap NewIn(t) = {}
  BY <1>1, <1>11 DEF Out
<1>13. ASSUME NEW n \in Members \ {k} PROVE Out(n) \cap NewIn(t) = {}
  <2>1. Out(k) \cap OutSaid(n) = {}
    BY DEF TidyWith, Apart
  <2>2. Out(n) \subseteq OutSaid(n)
    BY SaysHandedOut
  <2> QED BY <1>6, <2>1, <2>2
<1>14. st[k] = "in" /\ k \in Range(order)
  <2>1. st[k] # "join"
    BY <1>2, <1>6 DEF Local, Seat
  <2>2. st[k] = "in"
    BY <1>1, <1>2, <2>1 DEF Local, Seat
  <2> QED BY <1>2, <2>2 DEF Local, Seat
<1>15. order[1] = Oldest /\ Oldest \in Range(order)
  <2>1. Oldest \in Members
    BY FoundersAreMembers DEF Oldest
  <2>2. Local(Oldest, A, D, st) /\ st[Oldest] = "in"
    BY <2>1 DEF AgreeWith, Stage
  <2> QED BY <1>2, <2>1, <2>2 DEF Founded, Local, Seat
<1> QED BY <1>4, <1>5, <1>6, <1>8, <1>9, <1>10, <1>11, <1>12, <1>13, <1>14, <1>15

\* Nobody waits for an answer, when another than the oldest member is relayed.
LEMMA NobodyAwaits ==
    ASSUME Inv, NEW K \in Kinds, TidyWith(K), NEW k \in Members, NEW A, NEW D, NEW st, AgreeWith(A, D, st),
           ServerTask(k), Head(up[k]).kind = "BROADCAST", ~crossed', NEW n \in Members \ {k}
    PROVE  /\ serving[n] = None /\ Answered(n) = {} /\ Requested(n) = {}
           /\ \A s \in Flow(n) : ~Asks(s)
           /\ \A s \in Range(up[n]) : s.kind # "UNICAST"
<1>1. Local(n, A, D, st) /\ Founded
  BY DEF AgreeWith
<1>2. serving[n] = None /\ Answered(n) = {} /\ Requested(n) = {}
  <2>1. CASE n # Oldest
    BY <1>1, <2>1 DEF Local, Serves
  <2>2. CASE n = Oldest
    <3>1. k # Head(order)
      <4>1. Head(order) = order[1]
        BY <1>1 DEF Inv, OrderType, Founded
      <4> QED BY <1>1, <2>2, <4>1 DEF Founded
    <3>2. \A j \in Members : ~Awaiting(j)
      BY <3>1 DEF ServerTask, Inv, HistoryType
    <3>3. serving[n] \in Members \cup {None}
      BY DEF Inv, ServingType
    <3>4. \A j \in Members : Asked(j) \notin Range(down[n]) \cup Range(apiQueue[n]) /\ serving[n] # j
                             /\ \A s \in Range(up[n]) : ~(s.kind = "UNICAST" /\ s.to = j)
      BY <3>2 DEF Awaiting
    <3> QED BY <3>3, <3>4 DEF Answered, Requested
  <2> QED BY <2>1, <2>2
<1>3. \A s \in Flow(n) : ~Asks(s)
  <2>1. \A s \in Range(dataQueue[n]) : s.kind # "GET_ALL_PAGES" /\ s.kind # "REQUEST_DATA"
    BY <1>1, <1>2, KindsIn DEF Local, Serves, Tasks
  <2>2. ASSUME NEW s \in Range(apiQueue[n]) \cup Range(down[n])
        PROVE s.kind # "GET_ALL_PAGES" /\ s.kind # "REQUEST_DATA"
    <3>1. s.kind \in Calls \cup Deliveries /\ (s.kind = "REQUEST_DATA" => s.from \in Members)
      BY KindsIn DEF Carried
    <3>2. s.kind = "REQUEST_DATA" => s = Asked(s.from)
      BY <1>1 DEF Local, Serves
    <3> QED BY <1>2, <3>1, <3>2 DEF Requested, Calls, Deliveries
  <2> QED BY <2>1, <2>2 DEF Flow, Asks
<1>4. ASSUME NEW s \in Range(up[n]), s.kind = "UNICAST" PROVE FALSE
  <2>1. PICK i \in DOMAIN up[n] : up[n][i] = s
    BY DEF Range
  <2>2. PlainIn(s)
    BY <1>1, <2>1 DEF Local, Sends, FrameRight
  <2>3. s.to \in Members
    BY <1>4, <2>2 DEF PlainIn
  <2> QED BY <1>2, <1>4, <2>3 DEF Answered
<1> QED BY <1>2, <1>3, <1>4

\* The sender's side.
LEMMA RelayedFrom ==
    ASSUME Inv, NEW K \in Kinds, TidyWith(K), NEW k \in Members, NEW A, NEW D, NEW st, AgreeWith(A, D, st),
           ServerTask(k), NEW t, t = Head(up[k]), t.kind = "BROADCAST",
           NEW B, B = A \cup NewIn(t), NEW E, E = D \cup TakenIn(t)
    PROVE  Local(k, B, E, st)'
<1> DEFINE x == Message(t.cmd)
<1>1. /\ up[k] # <<>> /\ up'[k] = Tail(up[k])
      /\ board' = board /\ callback' = callback /\ outbox' = outbox
      /\ dataQueue' = dataQueue /\ link' = link /\ apiQueue' = apiQueue /\ serving' = serving
      /\ synced' = synced
  BY ServerTaken
<1>2. Local(k, A, D, st)
  BY DEF AgreeWith
<1>3. /\ down'[k] = down[k] /\ order' = order /\ st[k] = "in"
      /\ TakenIn(t) \subseteq A /\ NewIn(t) \cap A = {} /\ NewIn(t) \cap D = {} /\ D \subseteq A
      /\ Out(k) = NewIn(t) \cup Out(k)' /\ OutTaken(k) = TakenIn(t) \cup OutTaken(k)'
      /\ Out(k)' \cap NewIn(t) = {}
  <2>1. x = Message(t.cmd)
    OBVIOUS
  <2> HIDE DEF x
  <2>2. \A y : y = Message(t.cmd) => down'[k] = down[k]
    BY RelayIs
  <2> QED BY <2>1, <2>2, RelayIs
<1>4. /\ In(k)' = In(k) /\ InTaken(k)' = InTaken(k) /\ Flow(k)' = Flow(k) /\ Requested(k)' = Requested(k)
      /\ Shown(k)' = Shown(k)
  BY <1>1, <1>3 DEF In, InTaken, Flow, Requested, Shown
<1>5. Receives(k, B, E)'
  <2>1. Chain(k, E)'
    <3>1. Chain(k, E)
      BY <1>2, ChainLasts DEF Local, Receives
    <3> QED BY <1>1, <1>3, <3>1 DEF Chain
  <2>2. In(k) \cap TakenIn(t) = {}
    BY <1>2, <1>3 DEF Local, Right
  <2>3. \A s \in Flow(k) : PlainIn(s) /\ ~Syncs(s)
    BY <1>2, <1>3 DEF Local, Receives, Seat
  <2>4. In(k) \subseteq A /\ In(k) \cap D \subseteq InTaken(k) /\ InTaken(k) \subseteq D
    BY <1>2 DEF Local, Receives
  <2> QED BY <1>4, <2>1, <2>2, <2>3, <2>4 DEF Receives, SyncRight
<1>6. News(up[k]) = NewIn(t) \cup News(up'[k]) /\ Range(up[k]) = {t} \cup Range(up'[k])
  BY <1>1, UpLess
<1>7. Sends(k, B, E)'
  <2>1. \A i \in DOMAIN up[k] : FrameRight(up[k], i, A, D)
    BY <1>2 DEF Local, Sends
  <2>2. IsList(up[k])
    BY Lists
  <2>3. \A i \in DOMAIN Tail(up[k]) : FrameRight(Tail(up[k]), i, A \cup NewIn(Head(up[k])), D \cup TakenIn(Head(up[k])))
    BY <1>1, <2>1, <2>2, FramesLess
  <2>4. \A i \in DOMAIN up'[k] : FrameRight(up'[k], i, B, E)
    BY <1>1, <2>3
  <2>5. /\ outbox[k] # <<>> => Len(outbox[k]) = 1 /\ PlainIn([kind |-> "BROADCAST", cmd |-> outbox[k][1]])
        /\ Out(k) \cap A = {} /\ Taken(Wrapped(outbox[k])) \subseteq A \cup News(up[k])
    BY <1>2 DEF Local, Sends
  <2>6. Out(k)' \cap B = {} /\ Taken(Wrapped(outbox[k])) \subseteq B \cup News(up'[k])
    BY <1>3, <1>6, <2>5
  <2> QED BY <1>1, <2>4, <2>5, <2>6 DEF Sends
<1>8. Answered(k)' = Answered(k)
  BY <1>6 DEF Answered
<1>9. Serves(k)'
  BY <1>1, <1>2, <1>3, <1>4, <1>8 DEF Local, Serves
<1>10. Seat(k, st)' /\ Wired(k)'
  BY <1>1, <1>2, <1>3, <1>4, <1>6 DEF Local, Seat, Wired
<1>11. Right(k, B, E)'
  <2>1. PlainBoard(board[k]) /\ OutTaken(k) \cap In(k) = {}
    BY <1>2 DEF Local, Right
  <2>2. ASSUME synced[k]
        PROVE  /\ board[k].pages[1].pageId = 1
               /\ Shown(k) \subseteq B \cup Out(k)' /\ Shown(k) \cap OutTaken(k)' = {}
               /\ Shown(k) \cap E \subseteq InTaken(k)
               /\ B \cup Out(k)' \subseteq Shown(k) \cup In(k) \cup E \cup OutTaken(k)'
    <3>1. /\ board[k].pages[1].pageId = 1
          /\ Shown(k) \subseteq A \cup Out(k) /\ Shown(k) \cap OutTaken(k) = {}
          /\ Shown(k) \cap D \subseteq InTaken(k)
          /\ A \cup Out(k) \subseteq Shown(k) \cup In(k) \cup D \cup OutTaken(k)
      BY <1>2, <2>2 DEF Local, Right
    <3> QED BY <1>3, <3>1
  <2> QED BY <1>1, <1>3, <1>4, <2>1, <2>2 DEF Right
<1> QED BY <1>5, <1>7, <1>9, <1>10, <1>11 DEF Local

\* The side of another member n in the room.
LEMMA RelayedTo ==
    ASSUME Inv, NEW K \in Kinds, TidyWith(K), NEW k \in Members, NEW A, NEW D, NEW st, AgreeWith(A, D, st),
           ServerTask(k), NEW t, t = Head(up[k]), t.kind = "BROADCAST", ~crossed',
           NEW B, B = A \cup NewIn(t), NEW E, E = D \cup TakenIn(t),
           NEW n \in Members \ {k}, n \in Range(order)
    PROVE  Local(n, B, E, st)'
<1> DEFINE x == Message(t.cmd)
<1>1. /\ up'[n] = up[n]
      /\ board' = board /\ callback' = callback /\ outbox' = outbox
      /\ dataQueue' = dataQueue /\ link' = link /\ apiQueue' = apiQueue /\ serving' = serving
      /\ synced' = synced
  BY ServerTaken
<1>2. Local(n, A, D, st)
  BY DEF AgreeWith
<1>3. x = Message(t.cmd)
  OBVIOUS
<1> HIDE DEF x
<1>4. /\ down'[n] = Append(down[n], x) /\ order' = order
      /\ x.kind = "MESSAGE" /\ x.cmd = t.cmd /\ PlainIn(x) /\ ~Syncs(x)
      /\ NewIn(x) = NewIn(t) /\ TakenIn(x) = TakenIn(t)
      /\ TakenIn(t) \subseteq A /\ NewIn(t) \cap A = {} /\ NewIn(t) \cap D = {} /\ D \subseteq A
      /\ Out(n) \cap NewIn(t) = {}
  <2>1. /\ \A j \in Members : down'[j] = IF j \in Range(order) \ {k} THEN Append(down[j], x) ELSE down[j]
        /\ \A j \in Members \ {k} : Out(j) \cap NewIn(t) = {}
        /\ order' = order
        /\ x.kind = "MESSAGE" /\ x.cmd = t.cmd /\ PlainIn(x) /\ ~Syncs(x)
        /\ NewIn(x) = NewIn(t) /\ TakenIn(x) = TakenIn(t)
        /\ TakenIn(t) \subseteq A /\ NewIn(t) \cap A = {} /\ NewIn(t) \cap D = {} /\ D \subseteq A
    BY <1>3, RelayIs
  <2> QED BY <2>1
<1>5. /\ serving[n] = None /\ Answered(n) = {} /\ Requested(n) = {}
      /\ \A s \in Flow(n) : ~Asks(s)
      /\ \A s \in Range(up[n]) : s.kind # "UNICAST"
  BY NobodyAwaits
<1>6. In(n) \subseteq A /\ In(n) \cap D \subseteq InTaken(n) /\ InTaken(n) \subseteq D /\ Chain(n, E)
      /\ \A s \in Flow(n) : PlainIn(s) /\ SyncRight(n, s, A, D)
  <2>1. Chain(n, E)
    BY <1>2, ChainLasts DEF Local, Receives
  <2> QED BY <1>2, <2>1 DEF Local, Receives
<1>7. \A s \in Flow(n) : Before(s, x, E)
  <2>1. \A s \in Flow(n) : TakenIn(s) \subseteq InTaken(n)
    BY FlowIs
  <2> QED BY <1>4, <1>5, <1>6, <2>1 DEF Before
<1>8. /\ Chain(n, E)' /\ In(n)' = In(n) \cup NewIn(t) /\ InTaken(n)' = InTaken(n) \cup TakenIn(t)
      /\ Flow(n)' = Flow(n) \cup {x} /\ Range(down'[n]) = Range(down[n]) \cup {x}
  <2>1. /\ Chain(n, E)' /\ In(n)' = In(n) \cup NewIn(x) /\ InTaken(n)' = InTaken(n) \cup TakenIn(x)
        /\ Flow(n)' = Flow(n) \cup {x} /\ Range(down'[n]) = Range(down[n]) \cup {x}
    BY <1>1, <1>4, <1>6, <1>7, DownMore
  <2> QED BY <1>4, <2>1
<1>9. Receives(n, B, E)'
  <2>1. ASSUME NEW s \in Flow(n)' PROVE PlainIn(s) /\ SyncRight(n, s, B, E)'
    <3>1. CASE s = x
      BY <1>4, <3>1 DEF SyncRight
    <3>2. CASE s \in Flow(n)
      <4>1. PlainIn(s)
        BY <1>6, <3>2
      <4>2. ASSUME Syncs(s)
            PROVE  /\ SyncIds(s) \subseteq B /\ SyncIds(s) \cap E \subseteq InTaken(n)'
                   /\ B \subseteq SyncIds(s) \cup In(n)' \cup E
        <5>1. /\ SyncIds(s) \subseteq A /\ SyncIds(s) \cap D \subseteq InTaken(n)
              /\ A \subseteq SyncIds(s) \cup In(n) \cup D
          BY <1>6, <3>2, <4>2 DEF SyncRight
        <5> QED BY <1>8, <5>1
      <4> QED BY <4>1, <4>2 DEF SyncRight
    <3> QED BY <1>8, <3>1, <3>2
  <2>2. In(n)' \subseteq B /\ In(n)' \cap E \subseteq InTaken(n)' /\ InTaken(n)' \subseteq E
    BY <1>4, <1>6, <1>8
  <2> QED BY <1>8, <2>1, <2>2 DEF Receives
<1>10. Out(n)' = Out(n) /\ OutTaken(n)' = OutTaken(n)
  BY <1>1 DEF Out, OutTaken
<1>11. /\ outbox[n] # <<>> => Len(outbox[n]) = 1 /\ PlainIn([kind |-> "BROADCAST", cmd |-> outbox[n][1]])
       /\ Out(n) \cap A = {} /\ Taken(Wrapped(outbox[n])) \subseteq A \cup News(up[n])
       /\ \A i \in DOMAIN up[n] : FrameRight(up[n], i, A, D)
  BY <1>2 DEF Local, Sends
<1>12. Sends(n, B, E)'
  <2>1. \A i \in DOMAIN up[n] : up[n][i].kind # "UNICAST"
    BY <1>5 DEF Range
  <2>2. \A i \in DOMAIN up[n] : FrameRight(up[n], i, B, E)
    BY <1>11, <2>1 DEF FrameRight
  <2>3. Out(n) \cap B = {} /\ Taken(Wrapped(outbox[n])) \subseteq B \cup News(up[n])
    BY <1>4, <1>11
  <2> QED BY <1>1, <1>10, <1>11, <2>2, <2>3 DEF Sends
<1>13. Requested(n)' = Requested(n) /\ Answered(n)' = Answered(n)
  <2>1. \A j : Asked(j) # x
    BY <1>4 DEF Asked
  <2> QED BY <1>1, <1>8, <2>1 DEF Requested, Answered
<1>14. Serves(n)'
  BY <1>1, <1>2, <1>4, <1>5, <1>8, <1>13 DEF Local, Serves
<1>15. Seat(n, st)'
  <2>1. (\E s \in Flow(n)' : Syncs(s)) <=> \E s \in Flow(n) : Syncs(s)
    BY <1>4, <1>8
  <2>2. st[n] \notin {"out", "join"}
    BY <1>2 DEF Local, Seat
  <2> QED BY <1>1, <1>2, <1>4, <2>1, <2>2 DEF Local, Seat
<1>16. Wired(n)'
  BY <1>1, <1>2 DEF Local, Wired
<1>17. Right(n, B, E)'
  <2>1. PlainBoard(board[n]) /\ OutTaken(n) \cap In(n) = {}
    BY <1>2 DEF Local, Right
  <2>2. OutTaken(n) \cap NewIn(t) = {}
    <3>1. Taken(up[n]) \subseteq A \cup News(up[n])
      <4>1. IsList(up[n])
        BY Lists
      <4> QED BY <1>11, <4>1, TakenHandedOut
    <3>2. OutTaken(n) \subseteq A \cup Out(n)
      BY <1>11, <3>1 DEF OutTaken, Out
    <3> QED BY <1>4, <3>2
  <2>3. ASSUME synced[n]
        PROVE  /\ board[n].pages[1].pageId = 1
               /\ Shown(n) \subseteq B \cup Out(n) /\ Shown(n) \cap OutTaken(n) = {}
               /\ Shown(n) \cap E \subseteq InTaken(n)'
               /\ B \cup Out(n) \subseteq Shown(n) \cup In(n)' \cup E \cup OutTaken(n)
    <3>1. /\ board[n].pages[1].pageId = 1
          /\ Shown(n) \subseteq A \cup Out(n) /\ Shown(n) \cap OutTaken(n) = {}
          /\ Shown(n) \cap D \subseteq InTaken(n)
          /\ A \cup Out(n) \subseteq Shown(n) \cup In(n) \cup D \cup OutTaken(n)
      BY <1>2, <2>3 DEF Local, Right
    <3> QED BY <1>8, <3>1
  <2>4. Shown(n)' = Shown(n)
    BY <1>1 DEF Shown
  <2> QED BY <1>1, <1>8, <1>10, <2>1, <2>2, <2>3, <2>4 DEF Right
<1> QED BY <1>9, <1>12, <1>14, <1>15, <1>16, <1>17 DEF Local

\* The side of a member n that is not in the room.
LEMMA RelayedPast ==
    ASSUME Inv, NEW K \in Kinds, TidyWith(K), NEW k \in Members, NEW A, NEW D, NEW st, AgreeWith(A, D, st),
           ServerTask(k), NEW t, t = Head(up[k]), t.kind = "BROADCAST",
           NEW B, B = A \cup NewIn(t), NEW E, E = D \cup TakenIn(t),
           NEW n \in Members \ {k}, n \notin Range(order)
    PROVE  Local(n, B, E, st)'
<1> DEFINE x == Message(t.cmd)
<1>1. /\ up'[n] = up[n]
      /\ board' = board /\ callback' = callback /\ outbox' = outbox
      /\ dataQueue' = dataQueue /\ link' = link /\ apiQueue' = apiQueue /\ serving' = serving
      /\ synced' = synced
  BY ServerTaken
<1>2. Local(n, A, D, st) /\ Stage(st)
  BY DEF AgreeWith
<1>3. x = Message(t.cmd)
  OBVIOUS
<1> HIDE DEF x
<1>4. down'[n] = down[n] /\ order' = order /\ Oldest \in Range(order) /\ Out(n) \cap NewIn(t) = {}
  BY <1>3, RelayIs
<1>5. st[n] \in {"out", "join"} /\ n # Oldest
  BY <1>2, <1>4 DEF Local, Seat
<1>6. /\ up[n] = <<>> \/ (Len(up[n]) = 1 /\ up[n][1].kind = "JOIN")
      /\ outbox[n] = <<>> /\ apiQueue[n] = <<>> /\ down[n] = <<>> /\ ~synced[n]
      /\ \A s \in Range(dataQueue[n]) : s.kind \notin Bearing
      /\ \A s \in Flow(n) : ~Syncs(s)
  BY <1>2, <1>5 DEF Local, Seat
<1>7. \A i \in DOMAIN up[n] : up[n][i].kind = "JOIN"
  <2>1. IsList(up[n])
    BY Lists
  <2>2. DOMAIN up[n] = 1 .. Len(up[n])
    BY <2>1, AppendList
  <2>3. up[n] = <<>> => DOMAIN up[n] = {}
    OBVIOUS
  <2> QED BY <1>6, <2>2, <2>3
<1>8. /\ In(n)' = In(n) /\ InTaken(n)' = InTaken(n) /\ Flow(n)' = Flow(n) /\ Requested(n)' = Requested(n)
      /\ Out(n)' = Out(n) /\ OutTaken(n)' = OutTaken(n) /\ Answered(n)' = Answered(n)
  BY <1>1, <1>4 DEF In, InTaken, Flow, Requested, Out, OutTaken, Answered
<1>9. \A s \in Flow(n) : s.kind \notin Bearing /\ NewIn(s) = {} /\ TakenIn(s) = {}
  <2>1. Range(<<>>) = {}
    BY NoTokens
  <2> QED BY <1>6, <2>1 DEF Flow, NewIn, TakenIn
<1>10. In(n) = {} /\ InTaken(n) = {}
  BY <1>9, FlowIs
<1>11. Receives(n, B, E)'
  <2>1. Chain(n, E)'
    <3>1. Chain(n, E)
      BY <1>2, ChainLasts DEF Local, Receives
    <3> QED BY <1>1, <1>4, <3>1 DEF Chain
  <2>2. \A s \in Flow(n) : PlainIn(s)
    BY <1>2 DEF Local, Receives
  <2> QED BY <1>6, <1>8, <1>10, <2>1, <2>2 DEF Receives, SyncRight
<1>12. Sends(n, B, E)'
  <2>1. Out(n) \cap A = {} /\ \A i \in DOMAIN up[n] : FrameRight(up[n], i, A, D)
    BY <1>2 DEF Local, Sends
  <2>2. \A i \in DOMAIN up[n] : FrameRight(up[n], i, B, E)
    BY <1>7, <2>1 DEF FrameRight
  <2>3. Taken(Wrapped(<<>>)) = {}
    BY OneOut
  <2> QED BY <1>1, <1>4, <1>6, <1>8, <2>1, <2>2, <2>3 DEF Sends
<1>13. Serves(n)'
  BY <1>1, <1>2, <1>4, <1>8 DEF Local, Serves
<1>14. Seat(n, st)' /\ Wired(n)'
  BY <1>1, <1>2, <1>4, <1>8 DEF Local, Seat, Wired
<1>15. Right(n, B, E)'
  BY <1>1, <1>2, <1>6, <1>8 DEF Local, Right
<1> QED BY <1>11, <1>12, <1>13, <1>14, <1>15 DEF Local

\* The server relays a command.
LEMMA RelayAgree ==
    ASSUME Inv, NEW K \in Kinds, TidyWith(K), NEW k \in Members, NEW A, NEW D, NEW st, AgreeWith(A, D, st),
           ServerTask(k), NEW t, t = Head(up[k]), t.kind = "BROADCAST", ~crossed',
           NEW B, B = A \cup NewIn(t), NEW E, E = D \cup TakenIn(t)
    PROVE  AgreeWith(B, E, st)'
<1> DEFINE x == Message(t.cmd)
<1>1. /\ up[k] # <<>> /\ up'[k] = Tail(up[k]) /\ \A n \in Members \ {k} : up'[n] = up[n]
      /\ tool' = tool /\ nextId' = nextId
      /\ apiQueue' = apiQueue /\ serving' = serving /\ torn' = torn
  BY ServerTaken
<1>2. st \in [Members -> Stages] /\ Stage(st) /\ Calm /\ Founded /\ Numbered(A, D) /\ Local(k, A, D, st)
  BY DEF AgreeWith
<1>3. x = Message(t.cmd) /\ x.kind = "MESSAGE"
  BY DEF Message
<1> HIDE DEF x
<1>4. /\ \A n \in Members : down'[n] = IF n \in Range(order) \ {k} THEN Append(down[n], x) ELSE down[n]
      /\ order' = order /\ TakenIn(t) \subseteq A /\ NewIn(t) \subseteq 1 .. nextId - 1
  BY <1>3, RelayIs
<1>5. ASSUME NEW n \in Members PROVE Local(n, B, E, st)'
  <2>1. CASE n = k
    BY <2>1, RelayedFrom
  <2>2. CASE n # k /\ n \in Range(order)
    BY <2>2, RelayedTo
  <2>3. CASE n # k /\ n \notin Range(order)
    BY <2>3, RelayedPast
  <2> QED BY <2>1, <2>2, <2>3
<1>6. Stage(st)'
  <2>1. Oldest \in Members
    BY FoundersAreMembers DEF Oldest
  <2>2. Requested(Oldest)' = Requested(Oldest)
    <3>1. \A j : Asked(j) # x
      BY <1>3 DEF Asked
    <3>2. IsList(down[Oldest])
      BY <2>1, Lists
    <3>3. Range(Append(down[Oldest], x)) = Range(down[Oldest]) \cup {x}
      BY <3>2, TokensMore
    <3>4. Range(down'[Oldest]) \subseteq Range(down[Oldest]) \cup {x} /\ Range(down[Oldest]) \subseteq Range(down'[Oldest])
      BY <1>4, <2>1, <3>3
    <3> QED BY <1>1, <3>1, <3>4 DEF Requested
  <2>3. Answered(Oldest)' = Answered(Oldest)
    <3>1. IsList(up[k])
      BY Lists
    <3>2. Range(up[k]) = {t} \cup Range(Tail(up[k]))
      BY <1>1, <3>1, TokensLess
    <3> QED BY <1>1, <2>1, <3>2 DEF Answered
  <2> QED BY <1>1, <1>2, <2>2, <2>3 DEF Stage
<1>7. Numbered(B, E)'
  BY <1>1, <1>2, <1>4 DEF Numbered
<1>8. Calm' /\ Founded'
  BY <1>1, <1>2, <1>4 DEF Calm, Founded
<1> QED BY <1>2, <1>5, <1>6, <1>7, <1>8 DEF AgreeWith

\* The server takes a frame.
LEMMA ServerAgree ==
    ASSUME Inv, NEW K \in Kinds, TidyWith(K), NEW m \in Members, NEW A, NEW D, NEW st, AgreeWith(A, D, st),
           ServerTask(m), ~crossed'
    PROVE  \E B, E : \E su : AgreeWith(B, E, su)'
<1> DEFINE t == Head(up[m])
<1>1. CASE t.kind = "JOIN"
  <2>1. \E su : AgreeWith(A, D, su)'
    BY <1>1, AskAgree
  <2> QED BY <2>1
<1>2. CASE t.kind = "UNICAST"
  <2>1. \E su : AgreeWith(A, D, su)'
    BY <1>2, AnswerAgree
  <2> QED BY <2>1
<1>3. CASE t.kind = "BROADCAST"
  <2> DEFINE B == A \cup NewIn(t)
             E == D \cup TakenIn(t)
  <2>1. \E B1, E1 : B1 = B /\ E1 = E
    OBVIOUS
  <2>2. PICK B1, E1 : B1 = B /\ E1 = E
    BY <2>1
  <2>3. AgreeWith(B1, E1, st)'
    BY <1>3, <2>2, RelayAgree
  <2> QED BY <2>3
<1> QED BY <1>1, <1>2, <1>3 DEF ServerTask

\* The question once closed is not opened again.
LEMMA OpenBefore == ASSUME Inv, [Next]_vars, Open' PROVE Open
<1>1. synced \in [Members -> BOOLEAN] /\ early \in [Members -> BOOLEAN] /\ crossed \in BOOLEAN
  BY DEF Inv, HistoryType
<1>2. CASE UNCHANGED vars
  BY <1>2 DEF vars, historyVars, Open
<1>3. CASE Next
  <2>1. PICK m \in Members : UserStep(m) \/ Start(m) \/ ThreadStep(m)
    BY <1>3 DEF Next
  <2>2. CASE UserStep(m)
    <3>1. \A b, cmds, used : Operate(m, b, cmds, used) =>
             crossed' = crossed /\ early' = [early EXCEPT ![m] = @ \/ ~synced[m]]
      BY DEF Operate
    <3>2. crossed' = crossed /\ early' = [early EXCEPT ![m] = @ \/ ~synced[m]]
      BY <2>2, <3>1, Operates
    <3> QED BY <1>1, <3>2 DEF Open
  <2>3. CASE Start(m) \/ OnConnected(m) \/ OnMessage(m) \/ ApiTask(m)
    BY <2>3 DEF Start, OnConnected, OnMessage, ApiTask, historyVars, Open
  <2>4. CASE DataTask(m)
    BY <2>4 DEF DataTask, Open
  <2>5. CASE ServerTask(m)
    BY <2>5 DEF ServerTask, Open
  <2> QED BY <2>1, <2>2, <2>3, <2>4, <2>5 DEF ThreadStep
<1> QED BY <1>2, <1>3

\* Every step keeps the boards in agreement.
LEMMA AgreeKeeps ==
    ASSUME Inv, Tidy, Agree, [Next]_vars, Ops \subseteq {"Add", "Remove"}
    PROVE  Agree'
<1> SUFFICES ASSUME Open' PROVE \E A, D : \E st : AgreeWith(A, D, st)'
  BY DEF Agree
<1>1. Open
  BY OpenBefore
<1>2. PICK A, D, st : AgreeWith(A, D, st)
  BY <1>1 DEF Agree
<1>3. PICK K \in Kinds : TidyWith(K)
  BY <1>2 DEF AgreeWith, Calm, Tidy
<1>4. CASE UNCHANGED vars
  <2>1. /\ board' = board /\ tool' = tool /\ nextId' = nextId /\ callback' = callback /\ outbox' = outbox
        /\ dataQueue' = dataQueue /\ link' = link /\ apiQueue' = apiQueue /\ serving' = serving
        /\ up' = up /\ down' = down /\ order' = order /\ synced' = synced /\ torn' = torn
    BY <1>4 DEF vars, boardVars, dataVars, apiVars, netVars, historyVars
  <2>2. ASSUME NEW n \in Members PROVE Local(n, A, D, st)'
    <3>1. Local(n, A, D, st)
      BY <1>2 DEF AgreeWith
    <3> QED BY <2>1, <3>1, Untouched
  <2>3. Stage(st)' /\ Calm' /\ Numbered(A, D)' /\ Founded' /\ st \in [Members -> Stages]
    BY <1>2, <2>1 DEF AgreeWith, Stage, Requested, Answered, Calm, Numbered, Founded
  <2>4. AgreeWith(A, D, st)'
    BY <2>2, <2>3 DEF AgreeWith
  <2> QED BY <2>4
<1>5. CASE Next
  <2>1. PICK m \in Members : UserStep(m) \/ Start(m) \/ ThreadStep(m)
    BY <1>5 DEF Next
  <2>2. CASE UserStep(m)
    <3>1. synced[m]
      BY <2>2, EarlyCloses
    <3>2. AgreeWith(A, D, st)'
      BY <1>2, <1>3, <2>2, <3>1, UserAgree
    <3> QED BY <3>2
  <2>3. CASE Start(m)
    <3>1. AgreeWith(A, D, st)'
      BY <1>2, <2>3, StartAgree
    <3> QED BY <3>1
  <2>4. CASE OnConnected(m)
    <3>1. \E su : AgreeWith(A, D, su)'
      BY <1>2, <2>4, ConnectAgree
    <3> QED BY <3>1
  <2>5. CASE DataTask(m)
    <3>1. \E su : AgreeWith(A, D, su)'
      BY <1>2, <1>3, <2>5, DataAgree
    <3> QED BY <3>1
  <2>6. CASE ApiTask(m)
    <3>1. CASE Head(apiQueue[m]).kind = "SEND"
      <4>1. AgreeWith(A, D, st)'
        BY <1>2, <1>3, <2>6, <3>1, SendAgree
      <4> QED BY <4>1
    <3>2. CASE Head(apiQueue[m]).kind # "SEND"
      <4>1. AgreeWith(A, D, st)'
        BY <1>2, <2>6, <3>2, CallAgree
      <4> QED BY <4>1
    <3> QED BY <3>1, <3>2
  <2>7. CASE OnMessage(m)
    <3>1. AgreeWith(A, D, st)'
      BY <1>2, <2>7, MessageAgree
    <3> QED BY <3>1
  <2>8. CASE ServerTask(m)
    <3>1. ~crossed'
      BY DEF Open
    <3> QED BY <1>2, <1>3, <2>8, <3>1, ServerAgree
  <2> QED BY <2>1, <2>2, <2>3, <2>4, <2>5, <2>6, <2>7, <2>8 DEF ThreadStep
<1> QED BY <1>4, <1>5

\* In the beginning the founders show the empty page, and nothing is under way.
LEMMA InitAgree == Init => Agree
<1> SUFFICES ASSUME Init PROVE Agree
  OBVIOUS
<1> DEFINE st == [m \in Members |-> IF Founding(m) THEN "in" ELSE "out"]
<1>1. st \in [Members -> Stages] /\ \A m \in Members : st[m] = IF Founding(m) THEN "in" ELSE "out"
  BY DEF Stages
<1>2. ASSUME NEW m \in Members
      PROVE  /\ dataQueue[m] = <<>> /\ outbox[m] = <<>> /\ apiQueue[m] = <<>> /\ up[m] = <<>> /\ down[m] = <<>>
             /\ serving[m] = None /\ callback[m] = Founding(m) /\ synced[m] = Founding(m)
             /\ link[m] = IF Founding(m) THEN "joined" ELSE "off"
             /\ \A s \in Sessions : tool[m][s] = "none"
  BY DEF Init
<1>3. order = Founders /\ torn = FALSE /\ None \notin Members
  BY MembersFinite DEF Init
<1> HIDE DEF st
<1>4. /\ News(<<>>) = {} /\ Taken(<<>>) = {} /\ Range(<<>>) = {} /\ DOMAIN <<>> = {} /\ Wrapped(<<>>) = <<>>
      /\ \A D : InTurn(<<>>, D) /\ Follows(<<>>, <<>>, D)
  BY NoTokens, WrappedIs DEF Follows
<1>5. \A m \in Members : /\ In(m) = {} /\ InTaken(m) = {} /\ Out(m) = {} /\ OutTaken(m) = {} /\ Flow(m) = {}
                         /\ Requested(m) = {} /\ Answered(m) = {}
  BY <1>2, <1>4 DEF In, InTaken, Out, OutTaken, Flow, Requested, Answered
<1>6. ASSUME NEW p
      PROVE  /\ PlainBoard(NewBoard(p)) /\ NewBoard(p).pages[1].pageId = p
             /\ ElementIds(Elements(NewBoard(p))) = {}
  <2> DEFINE b == NewBoard(p)
             new == Page(p, <<>>)
  <2>1. b.pages = <<new>> /\ b.currentPage = 1 /\ b.eraserAdded = <<>> /\ new.elements = <<>> /\ new.pageId = p
    BY DEF NewBoard, Page
  <2> HIDE DEF b, new
  <2>2. Len(b.pages) = 1 /\ b.pages[1] = new
    BY <2>1
  <2>3. Elements(b) = <<>>
    BY <2>1, <2>2 DEF Elements, CurrentPage
  <2>4. PlainBoard(b)
    BY <1>4, <2>1, <2>2 DEF PlainBoard, PlainPage
  <2>5. ElementIds(Elements(b)) = {}
    BY <2>3 DEF ElementIds
  <2> QED BY <2>1, <2>2, <2>4, <2>5 DEF b
<1>7. ASSUME NEW m \in Members
      PROVE  PlainBoard(board[m]) /\ Shown(m) = {} /\ (Founding(m) => board[m].pages[1].pageId = 1)
  <2>1. PICK page \in [Members -> 1 .. Cardinality(Members)] :
            /\ \A n \in Members : (page[n] = 1) <=> Founding(n)
            /\ board = [n \in Members |-> NewBoard(page[n])]
    BY DEF Init
  <2> QED BY <1>6, <2>1 DEF Shown
<1>8. ASSUME NEW m \in Members PROVE Local(m, {}, {}, st)
  <2>1. Receives(m, {}, {})
    BY <1>2, <1>4, <1>5 DEF Receives, Chain
  <2>2. Sends(m, {}, {})
    BY <1>2, <1>4, <1>5 DEF Sends
  <2>3. Serves(m)
    BY <1>2, <1>3, <1>4, <1>5 DEF Serves
  <2>4. Seat(m, st)
    BY <1>1, <1>2, <1>3, <1>4, <1>5 DEF Seat, Founding
  <2>5. Wired(m)
    BY <1>2 DEF Wired
  <2>6. Right(m, {}, {})
    BY <1>2, <1>5, <1>7 DEF Right
  <2> QED BY <2>1, <2>2, <2>3, <2>4, <2>5, <2>6 DEF Local
<1>9. Oldest \in Members /\ Founding(Oldest) /\ Founders # <<>>
  BY FoundersAreMembers DEF Oldest, Founding, Range
<1>10. Stage(st) /\ Calm /\ Numbered({}, {}) /\ Founded
  <2>1. Stage(st)
    BY <1>1, <1>2, <1>3, <1>5, <1>9 DEF Stage
  <2>2. Calm /\ Founded /\ Numbered({}, {})
    BY <1>2, <1>3, <1>9 DEF Calm, Founded, Numbered, Oldest
  <2> QED BY <2>1, <2>2
<1>11. AgreeWith({}, {}, st)
  BY <1>1, <1>8, <1>10 DEF AgreeWith
<1> QED BY <1>11 DEF Agree

\* A page of plain elements is known by its ids.
LEMMA PlainContents ==
    ASSUME NEW b, NEW n, Sound(b, n), PlainBoard(b), b.pages[1].pageId = 1
    PROVE  Contents(b.pages) = [i \in {1} |-> Page(1, {Element(id, FALSE) : id \in ElementIds(Elements(b))})]
<1> DEFINE es == b.pages[1].elements
<1>1. DOMAIN b.pages = {1} /\ Elements(b) = es
  <2>1. IsList(b.pages) /\ Len(b.pages) = 1 /\ b.currentPage = 1
    BY DEF Sound, PagesSound, PlainBoard
  <2>2. DOMAIN b.pages = 1 .. 1
    BY <2>1, AppendList
  <2> QED BY <2>1, <2>2 DEF Elements, CurrentPage
<1>2. \A e \in Range(es) : e = Element(e.id, FALSE)
  BY DEF PlainBoard, PlainPage
<1> HIDE DEF es
<1>3. Range(es) = {Element(id, FALSE) : id \in ElementIds(es)}
  <2>1. ASSUME NEW e \in Range(es) PROVE e \in {Element(id, FALSE) : id \in ElementIds(es)}
    <3>1. e.id \in ElementIds(es) /\ e = Element(e.id, FALSE)
      BY <1>2 DEF Range, ElementIds
    <3> QED BY <3>1
  <2>2. ASSUME NEW id \in ElementIds(es) PROVE Element(id, FALSE) \in Range(es)
    <3>1. PICK i \in DOMAIN es : es[i].id = id
      BY DEF ElementIds
    <3>2. es[i] \in Range(es) /\ es[i] = Element(es[i].id, FALSE)
      BY <1>2 DEF Range
    <3> QED BY <3>1, <3>2
  <2> QED BY <2>1, <2>2
<1> QED BY <1>1, <1>3 DEF Contents, es

\* When all is delivered, everyone in the room shows what was added and not taken.
LEMMA AgreeMeans == ASSUME Inv, Agree PROVE ContentsAgree
<1> SUFFICES ASSUME Quiet, Open, NEW m \in InRoom, NEW n \in InRoom PROVE SameContents(board[m], board[n])
  BY DEF ContentsAgree, Open
<1>1. PICK A, D, st : AgreeWith(A, D, st)
  BY DEF Agree
<1>2. ASSUME NEW k \in Members
      PROVE  /\ dataQueue[k] = <<>> /\ outbox[k] = <<>> /\ apiQueue[k] = <<>> /\ up[k] = <<>> /\ down[k] = <<>>
             /\ serving[k] = None
  BY DEF Quiet, Delivered
<1>3. News(<<>>) = {} /\ Taken(<<>>) = {} /\ Range(<<>>) = {} /\ Wrapped(<<>>) = <<>>
  BY NoTokens, WrappedIs
<1>4. \A k \in Members : /\ In(k) = {} /\ InTaken(k) = {} /\ Out(k) = {} /\ OutTaken(k) = {} /\ Flow(k) = {}
                         /\ Requested(k) = {} /\ Answered(k) = {}
  BY <1>2, <1>3 DEF In, InTaken, Out, OutTaken, Flow, Requested, Answered
<1>5. ASSUME NEW k \in InRoom
      PROVE  k \in Members /\ Contents(board[k].pages) = [i \in {1} |-> Page(1, {Element(id, FALSE) : id \in A \ D})]
  <2>1. k \in Members /\ k \in Range(order)
    BY DEF InRoom, Range
  <2>2. Local(k, A, D, st) /\ Stage(st) /\ st \in [Members -> Stages]
    BY <1>1, <2>1 DEF AgreeWith
  <2>3. Oldest \in Members /\ serving[Oldest] # k
    BY <1>2, <2>1, FoundersAreMembers, MembersFinite DEF Oldest
  <2>4. st[k] # "ask" /\ st[k] # "answer"
    BY <1>4, <2>1, <2>2, <2>3 DEF Stage
  <2>5. st[k] = "in"
    BY <1>4, <2>1, <2>2, <2>4 DEF Local, Seat, Stages
  <2>6. synced[k]
    BY <2>2, <2>5 DEF Local, Seat
  <2>7. /\ PlainBoard(board[k]) /\ board[k].pages[1].pageId = 1
        /\ Shown(k) \subseteq A /\ Shown(k) \cap D = {} /\ A \subseteq Shown(k) \cup D
    BY <1>4, <2>1, <2>2, <2>6 DEF Local, Right
  <2>8. Shown(k) = A \ D
    BY <2>7
  <2>9. Sound(board[k], nextId)
    BY <2>1 DEF Inv, BoardsSound
  <2>10. Contents(board[k].pages) = [i \in {1} |-> Page(1, {Element(id, FALSE) : id \in Shown(k)})]
    BY <2>7, <2>9, PlainContents DEF Shown
  <2> QED BY <2>1, <2>8, <2>10
<1> QED BY <1>5 DEF SameContents

\* What is claimed of rooms where elements are added and removed only.
Together == Ops \subseteq {"Add", "Remove"} => Agree

(* In a room where users only add and remove elements, all boards show the *)
(* same once everything is delivered, for any number of members that join  *)
(* at any time: the full data a newcomer gets fits what is on its way to   *)
(* it, as long as nobody operates before that data has come and the server *)
(* relays no command of a third member meanwhile.                          *)
THEOREM NewcomersAgree ==
    ASSUME DistinctStamps
    PROVE  Spec => []ContentsAgree
<1>1. Inv /\ Tidy /\ Together /\ [Next]_vars => Inv' /\ Tidy' /\ Together'
  <2>1. Inv /\ Tidy /\ Together /\ [Next]_vars => Together'
    BY AgreeKeeps DEF Together
  <2> QED BY <2>1, StepKeeps, TidyKeeps
<1>2. Inv /\ Tidy /\ Together => ContentsAgree
  <2>1. CASE Ops \subseteq {"Add", "Remove"}
    BY <2>1, AgreeMeans DEF Together
  <2>2. CASE ~(Ops \subseteq {"Add", "Remove"})
    BY <2>2 DEF ContentsAgree
  <2> QED BY <2>1, <2>2
<1>3. Init => Inv /\ Tidy /\ Together
  BY InitInv, InitTidy, InitAgree DEF Together
<1> QED BY <1>1, <1>2, <1>3, PTL DEF Spec
-----------------------------------------------------------------------------
(* The room, when everybody was there at the start and users take turns.   *)

\* The case in question: everybody was there at the start, and users take turns.
TakeTurns == TurnTaking /\ Members = Range(Founders)

\* The sessions of m that draw; and whether one of them erases.
Pens(m) == {x \in Sessions : tool[m][x] = "pen"}
Erasing(m) == \E x \in Sessions : tool[m][x] = "eraser"

\* Nothing is on its way to n; n's board shows what b shows; and n hears of the
\* command c that makes it do so: in the room, on its way, or not yet.
Still(n) == dataQueue[n] = <<>> /\ apiQueue[n] = <<>> /\ down[n] = <<>>
Has(n, b) == Still(n) /\ Alike(board[n], b)
Lacks(n, c, b) == Still(n) /\ Alike(Apply(board[n], c), b)
Waits(n, c, b) ==
    /\ Alike(Apply(board[n], c), b)
    /\ \/ dataQueue[n] = <<[kind |-> "APPLY", cmd |-> c]>> /\ apiQueue[n] = <<>> /\ down[n] = <<>>
       \/ dataQueue[n] = <<>> /\ apiQueue[n] = <<Message(c)>> /\ down[n] = <<>>
       \/ dataQueue[n] = <<>> /\ apiQueue[n] = <<>> /\ down[n] = <<Message(c)>>

\* The last operation was m's, and c is its command: it is with m, on its way to the
\* server, or on its way to those who have not worked it off.
Saying(m, c) ==
    outbox[m] = <<c>> /\ apiQueue[m] = <<Send(c)>> /\ up[m] = <<>>
      /\ \A n \in Members \ {m} : Lacks(n, c, board[m])
Sending(m, c) ==
    outbox[m] = <<>> /\ apiQueue[m] = <<>> /\ up[m] = <<[kind |-> "BROADCAST", cmd |-> c]>>
      /\ \A n \in Members \ {m} : Lacks(n, c, board[m])
Heard(m, c) ==
    outbox[m] = <<>> /\ apiQueue[m] = <<>> /\ up[m] = <<>>
      /\ \A n \in Members \ {m} : Waits(n, c, board[m]) \/ Has(n, board[m])
Told(m, c) == ~Erasing(m) /\ (Saying(m, c) \/ Sending(m, c) \/ Heard(m, c))

\* m is in the middle of a drag of the eraser, which nobody else knows of.
Dragging(m) ==
    /\ outbox[m] = <<>> /\ apiQueue[m] = <<>> /\ up[m] = <<>>
    /\ \E s \in Sessions : tool[m][s] = "eraser" /\ \A x \in Sessions \ {s} : tool[m][x] # "eraser"
    /\ \A n \in Members \ {m} : Still(n) /\ Drags(board[m], board[n])

\* It is m's turn: nobody else has anything to say.
Turn(m) ==
    /\ dataQueue[m] = <<>> /\ down[m] = <<>>
    /\ \A n \in Members \ {m} : outbox[n] = <<>> /\ up[n] = <<>> /\ ~Erasing(n)
    /\ Dragging(m) \/ \E c : Told(m, c)

\* What is true of each member all the time.
Settled(m) ==
    /\ link[m] = "joined" /\ callback[m] /\ serving[m] = None
    /\ ~board[m].batchSuppress /\ (Erasing(m) \/ Idle(board[m]))
    /\ Keyed(board[m].strokes, Pens(m))

\* A stroke that two members draw is for one of them that of another.
Lone ==
    \A m, n \in Members : m # n => \A s \in board[m].strokes, t \in board[n].strokes :
        s.id = t.id => s.key = RemoteKey(s.id) \/ t.key = RemoteKey(t.id)

\* What holds as long as every operation was mirrored.
Concord ==
    /\ order = Founders /\ ~torn /\ Lone
    /\ \A m \in Members : Settled(m)
    /\ \E m \in Members : Turn(m)

\* Once everything is delivered, all boards show the same.
LEMMA ConcordAlike ==
    ASSUME Concord, Quiet, NEW m \in Members, NEW n \in Members
    PROVE  Alike(board[m], board[n])
<1>1. PICK k \in Members : Turn(k)
  BY DEF Concord
<1>2. \A i \in Members : ~Erasing(i)
  BY DEF Quiet, Unused, Erasing
<1>3. \A i \in Members : dataQueue[i] = <<>> /\ outbox[i] = <<>> /\ apiQueue[i] = <<>> /\ up[i] = <<>> /\ down[i] = <<>>
  BY DEF Quiet, Delivered
<1>4. ~Dragging(k)
  BY <1>2 DEF Dragging, Erasing
<1>5. PICK c : Told(k, c)
  BY <1>1, <1>4 DEF Turn
<1>6. \A e : <<e>> # <<>>
  OBVIOUS
<1>7. Heard(k, c)
  BY <1>3, <1>5, <1>6 DEF Told, Saying, Sending
<1>8. \A i \in Members \ {k} : Alike(board[i], board[k])
  BY <1>3, <1>6, <1>7 DEF Heard, Waits, Has
<1>9. \A i \in Members : Alike(board[i], board[k])
  BY <1>8, AlikeEqual
<1> QED BY <1>9, AlikeEqual

\* The invariant says what the run checks.
LEMMA ConcordMeans ==
    ASSUME Inv, mirrored => Concord
    PROVE  BoardsAgree
<1> SUFFICES ASSUME Quiet, mirrored, NEW m \in InRoom, NEW n \in InRoom
             PROVE  /\ SameContents(board[m], board[n])
                    /\ board[m].currentPage = board[n].currentPage
                    /\ {s.id : s \in board[m].strokes} = {s.id : s \in board[n].strokes}
                    /\ SameHistories(board[m], board[n])
  BY DEF BoardsAgree
<1>1. Alike(board[m], board[n])
  BY ConcordAlike DEF InRoom
<1>2. SameContents(board[m], board[n])
  BY <1>1, ContentsAreSheets DEF Alike, SameContents
<1>3. SameHistories(board[m], board[n])
  BY <1>1, ContentsAreSheets DEF Alike, SameStacks, SameHistories
<1> QED BY <1>1, <1>2, <1>3 DEF Alike, Drawn

\* In the beginning everybody has the same empty board.
LEMMA InitConcord ==
    ASSUME TakeTurns, Init
    PROVE  Concord
<1>1. \A m \in Members : Founding(m)
  BY DEF TakeTurns, Founding
<1>2. \A m \in Members : board[m] = NewBoard(1)
  BY <1>1 DEF Init
<1>3. /\ NewBoard(1).strokes = {} /\ NewBoard(1).eraserRemoved = {} /\ NewBoard(1).eraserAdded = <<>>
      /\ NewBoard(1).batchSuppress = FALSE
  BY DEF NewBoard
<1>4. \A m \in Members : /\ link[m] = "joined" /\ callback[m] /\ serving[m] = None
                         /\ dataQueue[m] = <<>> /\ apiQueue[m] = <<>> /\ outbox[m] = <<>> /\ up[m] = <<>> /\ down[m] = <<>>
                         /\ \A s \in Sessions : tool[m][s] = "none"
  BY <1>1 DEF Init
<1>5. \A m \in Members : ~Erasing(m)
  BY <1>4 DEF Erasing
<1>6. \A m \in Members : Settled(m)
  BY <1>2, <1>3, <1>4 DEF Settled, Idle, Keyed
<1>7. Lone
  BY <1>2, <1>3 DEF Lone
<1>8. Founders \in Seq(Members) /\ Founders # <<>>
  BY FoundersAreMembers
<1>9. PICK m \in Members : TRUE
  BY <1>8
<1>10. \A n \in Members : Has(n, board[m])
  BY <1>2, <1>4, AlikeEqual DEF Has, Still
<1>11. Heard(m, Command("Undo", 0))
  BY <1>4, <1>10 DEF Heard
<1>12. Turn(m)
  BY <1>4, <1>5, <1>11 DEF Turn, Told
<1>13. order = Founders /\ ~torn
  BY DEF Init
<1> QED BY <1>6, <1>7, <1>12, <1>13 DEF Concord

\* A queue of one.
LEMMA OneTask ==
    ASSUME NEW e
    PROVE  /\ <<e>> # <<>> /\ Head(<<e>>) = e /\ Tail(<<e>>) = <<>> /\ Len(<<e>>) = 1 /\ <<e>>[1] = e
           /\ DOMAIN <<e>> = 1 .. 1 /\ Append(<<>>, e) = <<e>>
OBVIOUS

\* Nobody in the room is away from it.
LEMMA OneRoom == ASSUME TakeTurns, Concord PROVE Range(order) = Members
BY DEF TakeTurns, Concord

\* The data thread works off the command.
LEMMA ApplyConcord ==
    ASSUME Inv, Concord, NEW n \in Members, DataTask(n)
    PROVE  Concord'
<1>1. PICK m \in Members : Turn(m)
  BY DEF Concord
<1>2. dataQueue[n] # <<>> /\ n # m
  BY <1>1 DEF DataTask, Turn
<1>3. PICK c : Told(m, c)
  BY <1>1, <1>2 DEF Turn, Dragging, Still
<1>4. Heard(m, c)
  BY <1>2, <1>3 DEF Told, Saying, Sending, Lacks, Still
<1> DEFINE t == [kind |-> "APPLY", cmd |-> c]
<1>5. /\ dataQueue[n] = <<t>> /\ apiQueue[n] = <<>> /\ down[n] = <<>> /\ Alike(Apply(board[n], c), board[m])
  BY <1>2, <1>4 DEF Heard, Waits, Has, Still
<1>6. t.kind = "APPLY" /\ t.cmd = c
  OBVIOUS
<1> HIDE DEF t
<1>7. Head(dataQueue[n]) = t /\ Tail(dataQueue[n]) = <<>> /\ 1 \in DOMAIN dataQueue[n] /\ dataQueue[n][1] = t
  BY <1>5, OneTask
<1>8. c.type \in Types
  BY <1>6, <1>7 DEF Inv, QueuesSound, Carrying, Carried, Fine
<1>9. /\ dataQueue' = [dataQueue EXCEPT ![n] = <<>>] /\ board' = [board EXCEPT ![n] = Apply(board[n], c)]
      /\ callback' = callback /\ serving' = serving /\ up' = up /\ tool' = tool /\ outbox' = outbox /\ link' = link
      /\ apiQueue' = apiQueue /\ down' = down /\ order' = order /\ ~torn'
  <2>1. t.kind # "SET_CALLBACK" /\ t.kind # "GET_ALL_PAGES" /\ ~torn
    BY <1>6 DEF Concord
  <2>2. /\ dataQueue' = [dataQueue EXCEPT ![n] = <<>>] /\ board' = [board EXCEPT ![n] = Apply(board[n], c)]
        /\ callback' = callback /\ serving' = serving /\ up' = up
    BY <1>6, <1>7, <2>1 DEF DataTask
  <2>3. ~torn'
    BY <1>7, <2>1 DEF DataTask
  <2>4. /\ tool' = tool /\ outbox' = outbox /\ link' = link /\ apiQueue' = apiQueue /\ down' = down /\ order' = order
    BY DEF DataTask
  <2> QED BY <2>2, <2>3, <2>4
<1>10. /\ board'[n] = Apply(board[n], c) /\ dataQueue'[n] = <<>>
       /\ \A i \in Members \ {n} : board'[i] = board[i] /\ dataQueue'[i] = dataQueue[i]
  BY <1>9, Lists DEF PerMember
<1>11. Settled(n) /\ IsBoard(board[n])
  BY DEF Concord, Inv, BoardsSound, Sound
<1>12. /\ IsBoard(board'[n]) /\ board'[n].batchSuppress = board[n].batchSuppress /\ (Idle(board[n]) => Idle(board'[n]))
       /\ Keyed(board'[n].strokes, Pens(n))
       /\ \A s \in board'[n].strokes : s \in board[n].strokes \/ s.key = RemoteKey(s.id)
  BY <1>8, <1>10, <1>11, ApplyKeyed DEF Settled
<1>13. \A i \in Members : Pens(i)' = Pens(i) /\ Erasing(i)' = Erasing(i)
  BY <1>9 DEF Pens, Erasing
<1>14. ASSUME NEW i \in Members PROVE Settled(i)'
  <2>1. CASE i = n
    BY <1>9, <1>11, <1>12, <1>13, <2>1 DEF Settled
  <2>2. CASE i # n
    BY <1>9, <1>10, <1>13, <2>2 DEF Settled, Concord
  <2> QED BY <2>1, <2>2
<1>15. Lone'
  <2> SUFFICES ASSUME NEW i \in Members, NEW j \in Members, i # j,
                      NEW s \in board'[i].strokes, NEW u \in board'[j].strokes, s.id = u.id
               PROVE  s.key = RemoteKey(s.id) \/ u.key = RemoteKey(u.id)
    BY DEF Lone
  <2>1. s \in board[i].strokes \/ s.key = RemoteKey(s.id)
    BY <1>10, <1>12
  <2>2. u \in board[j].strokes \/ u.key = RemoteKey(u.id)
    BY <1>10, <1>12
  <2> QED BY <2>1, <2>2 DEF Concord, Lone
<1>16. Heard(m, c)'
  <2>1. board'[m] = board[m] /\ outbox'[m] = <<>> /\ apiQueue'[m] = <<>> /\ up'[m] = <<>>
    BY <1>2, <1>4, <1>9, <1>10 DEF Heard
  <2>2. Has(n, board[m])'
    BY <1>5, <1>9, <1>10, <2>1 DEF Has, Still
  <2>3. \A i \in Members \ {m} : i # n => Waits(i, c, board[m])' \/ Has(i, board[m])'
    BY <1>4, <1>9, <1>10, <2>1 DEF Heard, Waits, Has, Still
  <2> QED BY <2>1, <2>2, <2>3 DEF Heard
<1>17. Turn(m)'
  <2>1. dataQueue'[m] = <<>> /\ down'[m] = <<>>
    BY <1>1, <1>2, <1>9, <1>10 DEF Turn
  <2>2. \A i \in Members \ {m} : outbox'[i] = <<>> /\ up'[i] = <<>> /\ ~Erasing(i)'
    BY <1>1, <1>9, <1>13 DEF Turn
  <2>3. Told(m, c)'
    BY <1>3, <1>13, <1>16 DEF Told
  <2> QED BY <2>1, <2>2, <2>3 DEF Turn
<1>18. order' = Founders /\ ~torn'
  BY <1>9 DEF Concord
<1> QED BY <1>14, <1>15, <1>17, <1>18 DEF Concord

\* A step that only moves a command on.
LEMMA MovedOn ==
    ASSUME Concord, board' = board, tool' = tool, link' = link, callback' = callback, serving' = serving,
           order' = order, torn' = torn, NEW m \in Members, Turn(m)'
    PROVE  Concord'
<1>1. \A i \in Members : Pens(i)' = Pens(i) /\ Erasing(i)' = Erasing(i)
  BY DEF Pens, Erasing
<1>2. \A i \in Members : Settled(i)'
  BY <1>1 DEF Concord, Settled
<1>3. Lone'
  BY DEF Concord, Lone
<1> QED BY <1>2, <1>3 DEF Concord

\* The turn is the same one's, who has told the same.
LEMMA SameTurn ==
    ASSUME NEW m \in Members, Turn(m), tool' = tool, dataQueue'[m] = <<>>, down'[m] = <<>>,
           \A i \in Members \ {m} : outbox'[i] = outbox[i] /\ up'[i] = up[i],
           NEW c, Told(m, c), (Saying(m, c) \/ Sending(m, c) \/ Heard(m, c))'
    PROVE  Turn(m)'
<1>1. \A i \in Members : Erasing(i)' = Erasing(i)
  BY DEF Erasing
<1>2. Told(m, c)'
  BY <1>1 DEF Told
<1>3. \A i \in Members \ {m} : outbox'[i] = <<>> /\ up'[i] = <<>> /\ ~Erasing(i)'
  BY <1>1 DEF Turn
<1> QED BY <1>2, <1>3 DEF Turn

\* The api thread sends the command, or hands it to the data thread.
LEMMA CallConcord ==
    ASSUME Inv, Concord, NEW n \in Members, ApiTask(n)
    PROVE  Concord'
<1>1. PICK m \in Members : Turn(m)
  BY DEF Concord
<1>2. apiQueue[n] # <<>>
  BY DEF ApiTask
<1>3. PICK c : Told(m, c)
  BY <1>1, <1>2 DEF Turn, Dragging, Still
<1>4. /\ board' = board /\ tool' = tool /\ callback' = callback /\ link' = link /\ down' = down /\ order' = order
      /\ torn' = torn
  BY DEF ApiTask, boardVars, historyVars
<1>5. CASE n = m
  <2> DEFINE t == Send(c)
             w == [kind |-> "BROADCAST", cmd |-> c]
  <2>1. Saying(m, c)
    BY <1>2, <1>3, <1>5 DEF Told, Sending, Heard
  <2>2. t.kind = "SEND" /\ t.cmd = c
    BY DEF Send
  <2>3. apiQueue[m] = <<t>> /\ outbox[m] = <<c>> /\ up[m] = <<>>
    BY <2>1 DEF Saying
  <2> HIDE DEF t
  <2>4. Head(apiQueue[m]) = t /\ Tail(apiQueue[m]) = <<>> /\ Len(outbox[m]) = 1 /\ Tail(outbox[m]) = <<>>
    BY <2>3, OneTask
  <2>5. Broadcast(m, c)
    BY <1>5, <2>2, <2>4 DEF ApiTask
  <2>6. link[m] = "joined"
    BY DEF Concord, Settled
  <2>7. /\ up' = [up EXCEPT ![m] = Append(@, w)] /\ outbox' = [outbox EXCEPT ![m] = <<>>]
        /\ apiQueue' = [apiQueue EXCEPT ![m] = <<>>] /\ dataQueue' = dataQueue /\ serving' = serving
    <3>1. ~(Len(outbox[m]) > 1)
      BY <2>4
    <3>2. apiQueue' = [apiQueue EXCEPT ![m] = IF Len(outbox[m]) > 1 THEN Append(Tail(@), Send(outbox[m][2])) ELSE Tail(@)]
      BY <2>5 DEF Broadcast
    <3>3. apiQueue' = [apiQueue EXCEPT ![m] = <<>>]
      BY <2>4, <3>1, <3>2
    <3>4. up' = [up EXCEPT ![m] = Append(@, w)]
      BY <2>5, <2>6 DEF Broadcast
    <3>5. outbox' = [outbox EXCEPT ![m] = <<>>] /\ dataQueue' = dataQueue /\ serving' = serving
      BY <2>4, <2>5 DEF Broadcast
    <3> QED BY <3>3, <3>4, <3>5
  <2> DEFINE q == <<w>>
  <2>8. Append(<<>>, w) = q
    BY OneTask
  <2>9. q = <<[kind |-> "BROADCAST", cmd |-> c]>>
    OBVIOUS
  <2> HIDE DEF q, w
  <2>10. up'[m] = q /\ outbox'[m] = <<>> /\ apiQueue'[m] = <<>>
         /\ \A i \in Members \ {m} : up'[i] = up[i] /\ outbox'[i] = outbox[i] /\ apiQueue'[i] = apiQueue[i]
    BY <2>3, <2>7, <2>8, Lists DEF PerMember
  <2>11. Sending(m, c)'
    BY <1>4, <2>1, <2>7, <2>9, <2>10 DEF Saying, Sending, Lacks, Still
  <2>12. dataQueue'[m] = <<>> /\ down'[m] = <<>>
    BY <1>1, <1>4, <2>7 DEF Turn
  <2>13. Turn(m)'
    BY <1>1, <1>3, <1>4, <2>10, <2>11, <2>12, SameTurn
  <2> QED BY <1>4, <2>7, <2>13, MovedOn
<1>6. CASE n # m
  <2> DEFINE t == Message(c)
             a == [kind |-> "APPLY", cmd |-> c]
             q == <<a>>
  <2>1. Heard(m, c)
    BY <1>2, <1>3, <1>6 DEF Told, Saying, Sending, Lacks, Still
  <2>2. dataQueue[n] = <<>> /\ apiQueue[n] = <<t>> /\ down[n] = <<>> /\ Alike(Apply(board[n], c), board[m])
    BY <1>2, <1>6, <2>1 DEF Heard, Waits, Has, Still
  <2>3. t.kind = "MESSAGE" /\ t.cmd = c
    BY DEF Message
  <2> HIDE DEF t
  <2>4. Head(apiQueue[n]) = t /\ Tail(apiQueue[n]) = <<>>
    BY <2>2, OneTask
  <2>5. /\ dataQueue' = [dataQueue EXCEPT ![n] = Append(@, a)] /\ apiQueue' = [apiQueue EXCEPT ![n] = <<>>]
        /\ up' = up /\ outbox' = outbox /\ serving' = serving
    BY <2>3, <2>4 DEF ApiTask
  <2>6. Append(<<>>, a) = q
    BY OneTask
  <2>7. q = <<[kind |-> "APPLY", cmd |-> c]>>
    OBVIOUS
  <2> HIDE DEF a, q
  <2>8. dataQueue'[n] = q /\ apiQueue'[n] = <<>>
        /\ \A i \in Members \ {n} : dataQueue'[i] = dataQueue[i] /\ apiQueue'[i] = apiQueue[i]
    BY <2>2, <2>5, <2>6, Lists DEF PerMember
  <2>9. Waits(n, c, board[m])'
    BY <1>4, <2>2, <2>7, <2>8 DEF Waits
  <2>10. Heard(m, c)'
    <3>1. \A i \in Members \ {m} : i # n => Waits(i, c, board[m])' \/ Has(i, board[m])'
      BY <1>4, <2>1, <2>8 DEF Heard, Waits, Has, Still
    <3> QED BY <1>6, <2>1, <2>5, <2>8, <2>9, <3>1 DEF Heard
  <2>11. dataQueue'[m] = <<>> /\ down'[m] = <<>>
    BY <1>1, <1>4, <1>6, <2>8 DEF Turn
  <2>12. Turn(m)'
    BY <1>1, <1>3, <1>4, <2>5, <2>10, <2>11, SameTurn
  <2> QED BY <1>4, <2>5, <2>12, MovedOn
<1> QED BY <1>5, <1>6

\* The command arrives.
LEMMA MessageConcord ==
    ASSUME Inv, Concord, NEW n \in Members, OnMessage(n)
    PROVE  Concord'
<1>1. PICK m \in Members : Turn(m)
  BY DEF Concord
<1>2. down[n] # <<>> /\ n # m
  BY <1>1 DEF OnMessage, Turn
<1>3. PICK c : Told(m, c)
  BY <1>1, <1>2 DEF Turn, Dragging, Still
<1>4. Heard(m, c)
  BY <1>2, <1>3 DEF Told, Saying, Sending, Lacks, Still
<1>5. /\ board' = board /\ tool' = tool /\ callback' = callback /\ link' = link /\ order' = order
      /\ torn' = torn /\ serving' = serving /\ up' = up /\ outbox' = outbox /\ dataQueue' = dataQueue
  BY DEF OnMessage, boardVars, dataVars, historyVars
<1> DEFINE t == Message(c)
<1>6. dataQueue[n] = <<>> /\ apiQueue[n] = <<>> /\ down[n] = <<t>> /\ Alike(Apply(board[n], c), board[m])
  BY <1>2, <1>4 DEF Heard, Waits, Has, Still
<1> HIDE DEF t
<1>7. Head(down[n]) = t /\ Tail(down[n]) = <<>> /\ Append(<<>>, t) = <<t>>
  BY <1>6, OneTask
<1>8. /\ apiQueue'[n] = <<t>> /\ down'[n] = <<>>
      /\ \A i \in Members \ {n} : apiQueue'[i] = apiQueue[i] /\ down'[i] = down[i]
  BY <1>6, <1>7, Lists DEF OnMessage, PerMember
<1>9. Waits(n, c, board[m])'
  BY <1>5, <1>6, <1>8 DEF Waits, t
<1>10. Heard(m, c)'
  <2>1. \A i \in Members \ {m} : i # n => Waits(i, c, board[m])' \/ Has(i, board[m])'
    BY <1>4, <1>5, <1>8 DEF Heard, Waits, Has, Still
  <2> QED BY <1>2, <1>4, <1>5, <1>8, <1>9, <2>1 DEF Heard
<1>11. dataQueue'[m] = <<>> /\ down'[m] = <<>>
  BY <1>1, <1>2, <1>5, <1>8 DEF Turn
<1>12. Turn(m)'
  BY <1>1, <1>3, <1>5, <1>10, <1>11, SameTurn
<1> QED BY <1>5, <1>12, MovedOn

\* The server passes the command on to all the others.
LEMMA RelayConcord ==
    ASSUME Inv, TakeTurns, Concord, NEW n \in Members, ServerTask(n)
    PROVE  Concord'
<1>1. PICK m \in Members : Turn(m)
  BY DEF Concord
<1>2. up[n] # <<>> /\ n = m
  BY <1>1 DEF ServerTask, Turn
<1>3. PICK c : Told(m, c)
  BY <1>1, <1>2 DEF Turn, Dragging
<1>4. Sending(m, c)
  BY <1>2, <1>3 DEF Told, Saying, Heard
<1> DEFINE w == [kind |-> "BROADCAST", cmd |-> c]
<1>5. up[m] = <<w>>
  BY <1>4 DEF Sending
<1>6. w.kind = "BROADCAST" /\ w.cmd = c
  OBVIOUS
<1> HIDE DEF w
<1>7. Head(up[m]) = w /\ Tail(up[m]) = <<>>
  BY <1>5, OneTask
<1>8. /\ board' = board /\ tool' = tool /\ callback' = callback /\ link' = link
      /\ torn' = torn /\ serving' = serving /\ outbox' = outbox /\ dataQueue' = dataQueue /\ apiQueue' = apiQueue
      /\ up' = [up EXCEPT ![m] = <<>>]
  BY <1>2, <1>7 DEF ServerTask, boardVars, dataVars, apiVars
<1>9. HandleBroadcast(m, c)
  BY <1>2, <1>6, <1>7 DEF ServerTask
<1>10. /\ order' = order
       /\ down' = [i \in Members |-> IF i \in Members \ {m} THEN Append(down[i], Message(c)) ELSE down[i]]
  BY <1>9, OneRoom DEF HandleBroadcast
<1>11. up'[m] = <<>> /\ \A i \in Members \ {m} : up'[i] = up[i]
  BY <1>8, Lists DEF PerMember
<1>12. Heard(m, c)'
  <2> SUFFICES ASSUME NEW i \in Members \ {m} PROVE Waits(i, c, board[m])'
    BY <1>4, <1>8, <1>11 DEF Heard, Sending
  <2>1. Lacks(i, c, board[m])
    BY <1>4 DEF Sending
  <2>2. down'[i] = Append(<<>>, Message(c))
    BY <1>10, <2>1 DEF Lacks, Still
  <2>3. down'[i] = <<Message(c)>>
    BY <2>2, OneTask
  <2> QED BY <1>8, <2>1, <2>3 DEF Waits, Lacks, Still
<1>13. dataQueue'[m] = <<>> /\ down'[m] = <<>>
  BY <1>1, <1>8, <1>10 DEF Turn
<1>14. Turn(m)'
  BY <1>1, <1>3, <1>8, <1>11, <1>12, <1>13, SameTurn
<1> QED BY <1>8, <1>10, <1>14, MovedOn

\* Nothing is on its way, and nobody has anything to say.
Silence == \A i \in Members : Still(i) /\ outbox[i] = <<>> /\ up[i] = <<>>

\* What an operation of m that makes of the board b says, and what it leaves alone.
LEMMA OperateIs ==
    ASSUME Inv, NEW m \in Members, callback[m], NEW b, NEW cmds, NEW used, Operate(m, b, cmds, used)
    PROVE  /\ board'[m] = b /\ outbox'[m] = cmds
           /\ \A i \in Members \ {m} : board'[i] = board[i] /\ outbox'[i] = outbox[i]
           /\ link' = link /\ callback' = callback /\ dataQueue' = dataQueue /\ serving' = serving
           /\ up' = up /\ down' = down /\ order' = order /\ torn' = torn
           /\ cmds = <<>> => apiQueue' = apiQueue
           /\ \A c : cmds = <<c>> => /\ apiQueue'[m] = Append(apiQueue[m], Send(c))
                                     /\ \A i \in Members \ {m} : apiQueue'[i] = apiQueue[i]
<1>1. /\ board' = [board EXCEPT ![m] = b] /\ outbox' = [outbox EXCEPT ![m] = cmds]
      /\ link' = link /\ callback' = callback /\ dataQueue' = dataQueue /\ serving' = serving
      /\ up' = up /\ down' = down /\ order' = order /\ torn' = torn
      /\ apiQueue' = IF cmds # <<>> THEN [apiQueue EXCEPT ![m] = Append(@, Send(Head(cmds)))] ELSE apiQueue
  BY DEF Operate, netVars
<1>2. /\ board'[m] = b /\ outbox'[m] = cmds
      /\ \A i \in Members \ {m} : board'[i] = board[i] /\ outbox'[i] = outbox[i]
  BY <1>1, Lists DEF PerMember
<1>3. ASSUME NEW c, cmds = <<c>>
      PROVE  apiQueue'[m] = Append(apiQueue[m], Send(c)) /\ \A i \in Members \ {m} : apiQueue'[i] = apiQueue[i]
  <2>1. cmds # <<>> /\ Head(cmds) = c
    BY <1>3, OneTask
  <2>2. apiQueue' = [apiQueue EXCEPT ![m] = Append(@, Send(c))]
    BY <1>1, <2>1
  <2> QED BY <2>2, Lists DEF PerMember
<1> QED BY <1>1, <1>2, <1>3

\* All but the turn.
LEMMA OperateConcord ==
    ASSUME Inv, Concord, NEW m \in Members, NEW b, NEW cmds, NEW used, Operate(m, b, cmds, used),
           \A i \in Members \ {m} : tool'[i] = tool[i],
           ~b.batchSuppress, Erasing(m)' \/ Idle(b), Keyed(b.strokes, Pens(m)'),
           \A s \in b.strokes : \/ s \in board[m].strokes \/ s.key = RemoteKey(s.id)
                                \/ \A i \in Members \ {m} : s.id \notin Drawn(board[i]),
           NEW k \in Members, Turn(k)'
    PROVE  Concord'
<1>1. callback[m]
  BY DEF Concord, Settled
<1>2. /\ board'[m] = b /\ \A i \in Members \ {m} : board'[i] = board[i]
      /\ link' = link /\ callback' = callback /\ serving' = serving /\ order' = order /\ torn' = torn
  BY <1>1, OperateIs
<1>3. ASSUME NEW i \in Members PROVE Settled(i)'
  <2>1. CASE i = m
    BY <1>2, <2>1 DEF Settled, Concord
  <2>2. CASE i # m
    <3>1. Pens(i)' = Pens(i) /\ Erasing(i)' = Erasing(i)
      BY <2>2 DEF Pens, Erasing
    <3> QED BY <1>2, <2>2, <3>1 DEF Settled, Concord
  <2> QED BY <2>1, <2>2
<1>4. Lone'
  <2> SUFFICES ASSUME NEW i \in Members, NEW j \in Members, i # j,
                      NEW s \in board'[i].strokes, NEW u \in board'[j].strokes, s.id = u.id
               PROVE  s.key = RemoteKey(s.id) \/ u.key = RemoteKey(u.id)
    BY DEF Lone
  <2>1. s.id \in Drawn(board'[i]) /\ u.id \in Drawn(board'[j])
    BY DEF Drawn
  <2>2. s \in board[i].strokes \/ s.key = RemoteKey(s.id)
    BY <1>2, <2>1
  <2>3. u \in board[j].strokes \/ u.key = RemoteKey(u.id)
    BY <1>2, <2>1
  <2> QED BY <2>2, <2>3 DEF Concord, Lone
<1> QED BY <1>2, <1>3, <1>4 DEF Concord

\* An operation of which the others will hear.
LEMMA SayConcord ==
    ASSUME Inv, Concord, Silence, NEW m \in Members, NEW b, NEW c, NEW used, Operate(m, b, <<c>>, used),
           \A i \in Members \ {m} : tool'[i] = tool[i] /\ ~Erasing(i), ~Erasing(m)',
           ~b.batchSuppress, Idle(b), Keyed(b.strokes, Pens(m)'),
           \A s \in b.strokes : \/ s \in board[m].strokes \/ s.key = RemoteKey(s.id)
                                \/ \A i \in Members \ {m} : s.id \notin Drawn(board[i]),
           \A i \in Members \ {m} : Alike(Apply(board[i], c), b)
    PROVE  Concord'
<1> DEFINE cmds == <<c>>
<1>1. callback[m] /\ Operate(m, b, cmds, used)
  BY DEF Concord, Settled
<1>2. cmds = <<c>>
  OBVIOUS
<1> HIDE DEF cmds
<1>3. /\ board'[m] = b /\ outbox'[m] = <<c>> /\ apiQueue'[m] = Append(apiQueue[m], Send(c))
      /\ \A i \in Members \ {m} : board'[i] = board[i] /\ outbox'[i] = outbox[i] /\ apiQueue'[i] = apiQueue[i]
      /\ dataQueue' = dataQueue /\ up' = up /\ down' = down
  BY <1>1, <1>2, OperateIs
<1>4. apiQueue'[m] = <<Send(c)>>
  BY <1>3, OneTask DEF Silence, Still
<1>5. Saying(m, c)'
  BY <1>3, <1>4 DEF Saying, Lacks, Still, Silence
<1>6. \A i \in Members \ {m} : ~Erasing(i)'
  BY DEF Erasing
<1>7. Turn(m)'
  <2>1. Told(m, c)'
    BY <1>5 DEF Told
  <2>2. dataQueue'[m] = <<>> /\ down'[m] = <<>> /\ \A i \in Members \ {m} : outbox'[i] = <<>> /\ up'[i] = <<>>
    BY <1>3 DEF Silence, Still
  <2> QED BY <1>6, <2>1, <2>2 DEF Turn
<1> QED BY <1>1, <1>7, OperateConcord

\* An operation in a drag of the eraser, of which nobody hears yet.
LEMMA DragConcord ==
    ASSUME Inv, Concord, Silence, NEW m \in Members, NEW b, NEW used, Operate(m, b, <<>>, used),
           \A i \in Members \ {m} : tool'[i] = tool[i] /\ ~Erasing(i),
           \E s \in Sessions : tool'[m][s] = "eraser" /\ \A x \in Sessions \ {s} : tool'[m][x] # "eraser",
           ~b.batchSuppress, Keyed(b.strokes, Pens(m)'), b.strokes \subseteq board[m].strokes,
           \A i \in Members \ {m} : Drags(b, board[i])
    PROVE  Concord'
<1> DEFINE cmds == <<>>
<1>1. callback[m] /\ Operate(m, b, cmds, used)
  BY DEF Concord, Settled
<1>2. cmds = <<>>
  OBVIOUS
<1> HIDE DEF cmds
<1>3. /\ board'[m] = b /\ outbox'[m] = <<>> /\ apiQueue' = apiQueue
      /\ \A i \in Members \ {m} : board'[i] = board[i] /\ outbox'[i] = outbox[i]
      /\ dataQueue' = dataQueue /\ up' = up /\ down' = down
  BY <1>1, <1>2, OperateIs
<1>4. Dragging(m)'
  BY <1>3 DEF Dragging, Silence, Still
<1>5. Erasing(m)' /\ \A i \in Members \ {m} : ~Erasing(i)'
  BY DEF Erasing
<1>6. Turn(m)'
  <2>1. dataQueue'[m] = <<>> /\ down'[m] = <<>> /\ \A i \in Members \ {m} : outbox'[i] = <<>> /\ up'[i] = <<>>
    BY <1>3 DEF Silence, Still
  <2> QED BY <1>4, <1>5, <2>1 DEF Turn
<1> QED BY <1>1, <1>5, <1>6, OperateConcord

\* An operation that does nothing.
LEMMA NothingConcord ==
    ASSUME Inv, Concord, Silence, NEW m \in Members, NEW used, Operate(m, board[m], <<>>, used),
           \A i \in Members \ {m} : tool'[i] = tool[i] /\ ~Erasing(i), ~Erasing(m)', ~Erasing(m),
           Keyed(board[m].strokes, Pens(m)'), \A i \in Members : Alike(board[i], board[m])
    PROVE  Concord'
<1> DEFINE cmds == <<>>
           b == board[m]
<1>1. callback[m] /\ Operate(m, b, cmds, used) /\ Idle(b) /\ ~b.batchSuppress
  BY DEF Concord, Settled
<1>2. cmds = <<>>
  OBVIOUS
<1> HIDE DEF cmds
<1>3. /\ board'[m] = b /\ outbox'[m] = <<>> /\ apiQueue' = apiQueue
      /\ \A i \in Members \ {m} : board'[i] = board[i] /\ outbox'[i] = outbox[i]
      /\ dataQueue' = dataQueue /\ up' = up /\ down' = down
  BY <1>1, <1>2, OperateIs
<1>4. \A i \in Members : ~Erasing(i)'
  BY DEF Erasing
<1>5. Heard(m, Command("Undo", 0))'
  BY <1>3 DEF Heard, Has, Silence, Still
<1>6. Turn(m)'
  <2>1. dataQueue'[m] = <<>> /\ down'[m] = <<>> /\ \A i \in Members \ {m} : outbox'[i] = <<>> /\ up'[i] = <<>>
    BY <1>3 DEF Silence, Still
  <2>2. Told(m, Command("Undo", 0))'
    BY <1>4, <1>5 DEF Told
  <2> QED BY <1>4, <2>1, <2>2 DEF Turn
<1> QED BY <1>1, <1>6, OperateConcord

\* All boards show the same, and are clean.
LEMMA AllTwins ==
    ASSUME Inv, Tidy, Concord, Quiet
    PROVE  /\ Silence /\ \A i \in Members : ~Erasing(i) /\ Idle(board[i])
           /\ \E K \in Kinds : TidyWith(K) /\ \A L : Extends(L, K) =>
                 \A i, j \in Members : Twins(board[i], board[j], nextId, L)
<1>1. Silence
  BY DEF Quiet, Delivered, Silence, Still
<1>2. \A i \in Members : ~Erasing(i)
  BY DEF Quiet, Unused, Erasing
<1>3. \A i \in Members : Idle(board[i]) /\ ~board[i].batchSuppress
  BY <1>2 DEF Concord, Settled
<1>4. PICK K \in Kinds : TidyWith(K)
  BY DEF Concord, Tidy
<1>5. \A i \in Members : Sound(board[i], nextId) /\ \A L : Extends(L, K) => Clean(board[i], L)
  BY <1>4, OwnBoard
<1>6. \A i, j \in Members : Alike(board[i], board[j])
  BY ConcordAlike
<1>7. \A L : Extends(L, K) => \A i, j \in Members : Twins(board[i], board[j], nextId, L)
  BY <1>3, <1>5, <1>6 DEF Twins
<1> QED BY <1>1, <1>2, <1>3, <1>4, <1>7

\* An operation that begins no gesture.
LEMMA PlainConcord ==
    ASSUME Inv, Tidy, Concord, Quiet, NEW m \in Members, NEW b, NEW c, NEW used, Operate(m, b, <<c>>, used),
           tool' = tool, Mild(board[m], b), \A i \in Members \ {m} : Alike(b, Apply(board[i], c))
    PROVE  Concord'
<1>1. Silence /\ \A i \in Members : ~Erasing(i) /\ Idle(board[i])
  BY AllTwins
<1>2. \A i \in Members : Pens(i)' = Pens(i) /\ Erasing(i)' = Erasing(i)
  BY DEF Pens, Erasing
<1>3. Settled(m)
  BY DEF Concord
<1>4. ~b.batchSuppress /\ Idle(b) /\ b.strokes \subseteq board[m].strokes
  BY <1>1, <1>3 DEF Mild, Settled
<1>5. Keyed(b.strokes, Pens(m)')
  BY <1>2, <1>3, <1>4, KeyedLess DEF Settled
<1>6. \A i \in Members \ {m} : Alike(Apply(board[i], c), b)
  BY AlikeEqual
<1> QED BY <1>1, <1>2, <1>4, <1>5, <1>6, SayConcord

\* Using a tool leaves the other sessions and the other users alone.
LEMMA ToolUsed ==
    ASSUME Inv, NEW m \in Members, NEW s \in Sessions, NEW t, Use(m, s, t)
    PROVE  /\ tool'[m][s] = t /\ \A x \in Sessions \ {s} : tool'[m][x] = tool[m][x]
           /\ \A i \in Members \ {m} : tool'[i] = tool[i]
<1>1. tool \in [Members -> [Sessions -> {"none", "pen", "eraser"}]] /\ tool' = [tool EXCEPT ![m][s] = t]
  BY DEF Inv, ToolType, Use
<1> QED BY <1>1

\* What the receiver makes of each command.
LEMMA ApplyIs ==
    ASSUME NEW b, NEW id
    PROVE  /\ Apply(b, Command("StrokeBegin", id)) = RemoteStrokeBegin(b, id)
           /\ Apply(b, Command("StrokeEnd", id)) = RemoteStrokeEnd(b, id)
           /\ Apply(b, Command("ElementRemove", id)) = RemoteRemove(b, id)
           /\ Apply(b, Command("PageCreate", id)) = RemoteCreatePage(b, id)
           /\ Apply(b, Command("PageSelect", id)) = RemoteSelectPage(b, id)
           /\ Apply(b, Command("PageDelete", id)) = RemoteDeletePage(b, id)
           /\ Apply(b, Command("PageClear", id)) = Clear(b)
           /\ Apply(b, Command("Undo", id)) = RemoteUndo(b)
           /\ Apply(b, Command("Redo", id)) = RemoteRedo(b)
           /\ \A x : Apply(b, UpdateCommand(id, x)) = UpdateElement(b, id, x)
           /\ \A e : /\ Apply(b, ElementCommand("ElementAdd", e)) = AddElement(b, e)
                     /\ Apply(b, ElementCommand("ElementUpdate", e)) = RemoteUpdateElement(b, e)
           /\ \A removed, added : Apply(b, EraserCommand(removed, added)) = RemoteEraserEnd(b, removed, added)
<1>1. \A type : Command(type, id).type = type /\ Command(type, id).id = id
  BY DEF Command
<1>2. \A x : UpdateCommand(id, x).type = "StrokeUpdate" /\ UpdateCommand(id, x).id = id /\ UpdateCommand(id, x).content = x
  BY DEF UpdateCommand
<1>3. \A type, e : ElementCommand(type, e).type = type /\ ElementCommand(type, e).element = e
  BY DEF ElementCommand
<1>4. \A removed, added : LET c == EraserCommand(removed, added)
                          IN c.type = "EraserEnd" /\ c.removed = removed /\ c.added = added
  BY DEF EraserCommand
<1>5. /\ Apply(b, Command("StrokeBegin", id)) = RemoteStrokeBegin(b, id)
      /\ Apply(b, Command("StrokeEnd", id)) = RemoteStrokeEnd(b, id)
      /\ Apply(b, Command("ElementRemove", id)) = RemoteRemove(b, id)
  BY <1>1 DEF Apply
<1>6. /\ Apply(b, Command("PageCreate", id)) = RemoteCreatePage(b, id)
      /\ Apply(b, Command("PageSelect", id)) = RemoteSelectPage(b, id)
      /\ Apply(b, Command("PageDelete", id)) = RemoteDeletePage(b, id)
  BY <1>1 DEF Apply
<1>7. /\ Apply(b, Command("PageClear", id)) = Clear(b)
      /\ Apply(b, Command("Undo", id)) = RemoteUndo(b)
      /\ Apply(b, Command("Redo", id)) = RemoteRedo(b)
  BY <1>1 DEF Apply
<1>8. \A x : Apply(b, UpdateCommand(id, x)) = UpdateElement(b, id, x)
  BY <1>2 DEF Apply
<1>9. \A e : /\ Apply(b, ElementCommand("ElementAdd", e)) = AddElement(b, e)
             /\ Apply(b, ElementCommand("ElementUpdate", e)) = RemoteUpdateElement(b, e)
  BY <1>3 DEF Apply
<1>10. \A removed, added : Apply(b, EraserCommand(removed, added)) = RemoteEraserEnd(b, removed, added)
  BY <1>4 DEF Apply
<1> QED BY <1>5, <1>6, <1>7, <1>8, <1>9, <1>10

\* The stroke that a pen begins is new to everybody.
LEMMA NewStroke ==
    ASSUME Inv, Concord, NEW K \in Kinds, TidyWith(K), NEW m \in Members
    PROVE  /\ \A s \in Sessions : tool[m][s] # "pen" => StrokesAt(board[m], LocalKey(s)) = {}
           /\ StrokesAt(board[m], RemoteKey(nextId)) = {} /\ nextId \notin Drawn(board[m])
<1>1. Keyed(board[m].strokes, Pens(m))
  BY DEF Concord, Settled
<1>2. nextId \notin Drawn(board[m])
  <2>1. Drawn(board[m]) \subseteq Known(board[m])
    BY DEF Known
  <2>2. Known(board[m]) \subseteq DOMAIN K /\ DOMAIN K = 1 .. nextId - 1 /\ nextId \in Nat \ {0}
    BY OwnBoard
  <2> QED BY <2>1, <2>2
<1>3. StrokesAt(board[m], RemoteKey(nextId)) = {}
  <2> SUFFICES ASSUME NEW t \in board[m].strokes, t.key = RemoteKey(nextId) PROVE FALSE
    BY DEF StrokesAt
  <2>1. t.key = RemoteKey(t.id)
    BY <1>1, KeysDiffer DEF Keyed
  <2>2. t.id = nextId
    BY <2>1 DEF RemoteKey
  <2> QED BY <1>2, <2>2 DEF Drawn
<1>4. ASSUME NEW s \in Sessions, tool[m][s] # "pen" PROVE StrokesAt(board[m], LocalKey(s)) = {}
  <2> SUFFICES ASSUME NEW t \in board[m].strokes, t.key = LocalKey(s) PROVE FALSE
    BY DEF StrokesAt
  <2>1. s \notin Pens(m)
    BY <1>4 DEF Pens
  <2> QED BY <1>1, <2>1, KeysDiffer DEF Keyed
<1> QED BY <1>2, <1>3, <1>4

\* A pen is put down.
LEMMA PenBeginConcord ==
    ASSUME TurnTaking, Inv, Tidy, Concord, NEW m \in Members, NEW s \in Sessions, DoPenBegin(m, s)
    PROVE  Concord'
<1> DEFINE d == board[m]
           b == PenBegin(d, s, nextId)
           c == Command("StrokeBegin", nextId)
<1>1. Quiet /\ tool[m][s] = "none" /\ Use(m, s, "pen") /\ Operate(m, b, <<c>>, 1)
  BY DEF DoPenBegin, May
<1>2. Silence /\ \A i \in Members : ~Erasing(i) /\ Idle(board[i])
  BY <1>1, AllTwins
<1>3. PICK K \in Kinds : TidyWith(K) /\ \A L : Extends(L, K) =>
                           \A i, j \in Members : Twins(board[i], board[j], nextId, L)
  BY <1>1, AllTwins
<1>4. \A i \in Members : Twins(d, board[i], nextId, K)
  BY <1>3, OwnBoard
<1>5. /\ tool'[m][s] = "pen" /\ \A x \in Sessions \ {s} : tool'[m][x] = tool[m][x]
      /\ \A i \in Members \ {m} : tool'[i] = tool[i]
  BY <1>1, ToolUsed
<1>6. StrokesAt(d, LocalKey(s)) = {} /\ \A i \in Members : StrokesAt(board[i], RemoteKey(nextId)) = {} /\ nextId \notin Drawn(board[i])
  BY <1>1, <1>3, NewStroke
<1>7. Pens(m) \subseteq Pens(m)' /\ s \in Pens(m)' /\ ~Erasing(m)'
  BY <1>2, <1>5 DEF Pens, Erasing
<1>8. Keyed(d.strokes, Pens(m)) /\ ~d.batchSuppress
  BY DEF Concord, Settled
<1>9. Sound(d, nextId)
  BY <1>4 DEF Twins
<1>10. /\ IsBoard(PushSnapshot(d)) /\ PushSnapshot(d).strokes = d.strokes /\ PushSnapshot(d).batchSuppress = d.batchSuppress
       /\ Idle(PushSnapshot(d))
  BY <1>2, <1>9, SnapshotWrites DEF Idle, Sound
<1>11. /\ ~b.batchSuppress /\ Idle(b)
       /\ b.strokes \subseteq d.strokes \cup {[key |-> LocalKey(s), id |-> nextId]}
       /\ Keyed(b.strokes, Pens(m)')
  <2> DEFINE e == PushSnapshot(d)
             Q == Pens(m)'
             key == LocalKey(s)
  <2>1. IsBoard(e) /\ Keyed(e.strokes, Pens(m)) /\ Pens(m) \subseteq Q /\ \E x \in Q : key = LocalKey(x)
    BY <1>7, <1>8, <1>10
  <2>2. b = Unfinished(e, key, nextId)
    BY DEF PenBegin
  <2>3. Q = Pens(m)' /\ e.strokes = d.strokes /\ ~e.batchSuppress /\ Idle(e) /\ key = LocalKey(s)
    BY <1>8, <1>10
  <2> HIDE DEF e, Q, key, b
  <2>4. LET u == Unfinished(e, key, nextId)
        IN /\ IsBoard(u) /\ u.batchSuppress = e.batchSuppress /\ (Idle(e) => Idle(u))
           /\ u.strokes \subseteq e.strokes \cup {[key |-> key, id |-> nextId]}
           /\ Keyed(u.strokes, Q)
    BY <2>1, KeyedMore
  <2> QED BY <2>2, <2>3, <2>4
<1>12. \A i \in Members \ {m} : Alike(Apply(board[i], c), b)
  <2> SUFFICES ASSUME NEW i \in Members \ {m} PROVE Alike(Apply(board[i], c), b)
    OBVIOUS
  <2>1. Alike(b, RemoteStrokeBegin(board[i], nextId))
    BY <1>4, <1>6, BeginAlike
  <2> QED BY <2>1, ApplyIs, AlikeEqual
<1>13. \A t \in b.strokes : \/ t \in d.strokes \/ t.key = RemoteKey(t.id)
                            \/ \A i \in Members \ {m} : t.id \notin Drawn(board[i])
  BY <1>6, <1>11
<1> HIDE DEF b, c
<1> QED BY <1>1, <1>2, <1>5, <1>7, <1>11, <1>12, <1>13, SayConcord

\* A pen is lifted.
LEMMA PenEndConcord ==
    ASSUME TurnTaking, Inv, Tidy, Concord, NEW m \in Members, NEW s \in Sessions, DoPenEnd(m, s)
    PROVE  Concord'
<1> DEFINE d == board[m]
           mine == StrokesAt(d, LocalKey(s))
<1>1. Quiet /\ tool[m][s] = "pen" /\ Use(m, s, "none")
  BY DEF DoPenEnd
<1>2. Silence /\ \A i \in Members : ~Erasing(i) /\ Idle(board[i])
  BY <1>1, AllTwins
<1>3. PICK K \in Kinds : TidyWith(K) /\ \A L : Extends(L, K) =>
                           \A i, j \in Members : Twins(board[i], board[j], nextId, L)
  BY <1>1, AllTwins
<1>4. \A i \in Members : Twins(d, board[i], nextId, K)
  BY <1>3, OwnBoard
<1>5. /\ tool'[m][s] = "none" /\ \A x \in Sessions \ {s} : tool'[m][x] = tool[m][x]
      /\ \A i \in Members \ {m} : tool'[i] = tool[i]
  BY <1>1, ToolUsed
<1>6. ~Erasing(m)' /\ Pens(m)' = Pens(m) \ {s}
  BY <1>2, <1>5 DEF Erasing, Pens
<1>7. Keyed(d.strokes, Pens(m)) /\ ~d.batchSuppress
  BY DEF Concord, Settled
<1>8. \A i \in Members : Keyed(board[i].strokes, Pens(i))
  BY DEF Concord, Settled
<1>9. CASE mine = {}
  <2>1. Operate(m, board[m], <<>>, 0)
    BY <1>9 DEF DoPenEnd
  <2>2. \A t \in d.strokes : t.key # LocalKey(s)
    BY <1>9 DEF StrokesAt
  <2>3. Keyed(d.strokes, Pens(m) \ {s})
    BY <1>7, <2>2, KeyedWithout
  <2>4. \A i \in Members : Alike(board[i], board[m])
    BY <1>1, ConcordAlike
  <2> HIDE DEF mine
  <2> QED BY <1>2, <1>5, <1>6, <2>1, <2>3, <2>4, NothingConcord
<1>10. CASE mine # {}
  <2>1. PICK stroke \in mine : Operate(m, PenEnd(board[m], s), <<Command("StrokeEnd", stroke.id)>>, 0)
    BY <1>10 DEF DoPenEnd
  <2> DEFINE b == PenEnd(d, s)
             c == Command("StrokeEnd", stroke.id)
  <2>2. stroke \in d.strokes /\ stroke.key = LocalKey(s)
    BY DEF StrokesAt
  <2>3. StrokesAt(d, LocalKey(s)) = {stroke}
    BY <1>7, <2>2, KeyedAt
  <2>4. \A i \in Members \ {m} : Alike(Apply(board[i], c), b)
    <3> SUFFICES ASSUME NEW i \in Members \ {m} PROVE Alike(Apply(board[i], c), b)
      OBVIOUS
    <3>1. Alike(d, board[i])
      BY <1>4 DEF Twins
    <3>2. stroke.id \in Drawn(board[i])
      BY <2>2, <3>1 DEF Alike, Drawn
    <3>3. PICK t \in board[i].strokes : t.id = stroke.id
      BY <3>2 DEF Drawn
    <3>4. stroke.key # RemoteKey(stroke.id)
      BY <2>2, KeysDiffer
    <3>5. t.key = RemoteKey(t.id)
      BY <2>2, <3>3, <3>4 DEF Concord, Lone
    <3>6. StrokesAt(board[i], t.key) = {t}
      BY <1>8, KeyedAt
    <3>7. StrokesAt(board[i], RemoteKey(stroke.id)) = {t}
      BY <3>3, <3>5, <3>6
    <3>8. Twins(d, board[i], nextId, K)
      BY <1>4
    <3>9. Alike(b, RemoteStrokeEnd(board[i], stroke.id))
      BY <2>3, <3>3, <3>7, <3>8, EndAlike
    <3> QED BY <3>9, ApplyIs, AlikeEqual
  <2>5. IsBoard(d)
    BY <1>4 DEF Twins, Sound
  <2>6. Mild(d, b) /\ b.strokes = d.strokes \ {stroke}
    BY <2>3, <2>5, FinishedMild DEF PenEnd
  <2>7. Keyed(b.strokes, Pens(m)')
    <3>1. Keyed(b.strokes, Pens(m))
      BY <1>7, <2>6, KeyedLess
    <3>2. \A t \in b.strokes : t.key # LocalKey(s)
      BY <2>3, <2>6 DEF StrokesAt
    <3> HIDE DEF b
    <3>3. Keyed(b.strokes, Pens(m) \ {s})
      BY <3>1, <3>2, KeyedWithout
    <3> QED BY <1>6, <3>3
  <2>8. ~b.batchSuppress /\ Idle(b) /\ \A t \in b.strokes : t \in board[m].strokes
    BY <1>2, <1>7, <2>6 DEF Mild
  <2>9. Operate(m, b, <<c>>, 0)
    BY <2>1
  <2> HIDE DEF b, c, mine
  <2> QED BY <1>2, <1>5, <1>6, <2>4, <2>7, <2>8, <2>9, SayConcord
<1> QED BY <1>9, <1>10

\* During a drag of the eraser only the member that drags has a say.
LEMMA DragIs ==
    ASSUME Inv, Concord, NEW m \in Members, NEW s \in Sessions, tool[m][s] = "eraser"
    PROVE  /\ Silence /\ \A x \in Sessions \ {s} : tool[m][x] # "eraser"
           /\ \A i \in Members \ {m} : ~Erasing(i) /\ Drags(board[m], board[i])
<1>1. Erasing(m)
  BY DEF Erasing
<1>2. PICK k \in Members : Turn(k)
  BY DEF Concord
<1>3. k = m
  BY <1>1, <1>2 DEF Turn
<1>4. Turn(m) /\ Dragging(m)
  BY <1>1, <1>2, <1>3 DEF Turn, Told
<1>5. Silence
  BY <1>4 DEF Turn, Dragging, Silence, Still
<1> QED BY <1>4, <1>5 DEF Turn, Dragging

\* What one pass of the eraser works on: all boards are clean, and the fragments are new.
LEMMA PassReady ==
    ASSUME DistinctStamps, Inv, Tidy, Concord, NEW m \in Members, NEW n \in NewIds, NEW pass \in Passes(m, n)
    PROVE  /\ Sound(board[m], nextId) /\ Fresh(board[m], pass)
           /\ \E L : /\ IsFiniteSet(DOMAIN L) /\ PassFits(board[m], pass, L)
                     /\ \A i \in Members : Sound(board[i], nextId) /\ Clean(board[i], L)
<1>1. PICK K \in Kinds : TidyWith(K)
  BY DEF Concord, Tidy
<1>2. /\ nextId \in Nat \ {0} /\ DOMAIN K = 1 .. nextId - 1 /\ Clean(board[m], K) /\ Extends(K, K)
      /\ Known(board[m]) \subseteq DOMAIN K /\ \A k \in Nat : (nextId .. nextId + k - 1) \cap DOMAIN K = {}
      /\ \A i \in Members : Sound(board[i], nextId) /\ \A L : Extends(L, K) => Clean(board[i], L)
  BY <1>1, OwnBoard
<1>3. n \in Nat /\ DOMAIN pass \subseteq StrokeIds(m) /\ Stamps(pass) \subseteq nextId .. nextId + n - 1
  BY <1>1, PassNow
<1>4. StrokeIds(m) \subseteq DOMAIN K
  <2>1. StrokeIds(m) \subseteq ElementIds(Elements(board[m]))
    BY IdsOfRange DEF StrokeIds
  <2>2. ElementIds(Elements(board[m])) \subseteq Known(board[m])
    BY <1>2, ShownIsSheet
  <2> QED BY <1>2, <2>1, <2>2
<1>5. board[m].eraserRemoved \subseteq DOMAIN K
  BY <1>2 DEF Clean
<1>6. Stamps(pass) \cap DOMAIN K = {}
  BY <1>2, <1>3
<1>7. Fresh(board[m], pass)
  BY <1>3, <1>4, <1>5, <1>6 DEF Fresh
<1>8. PICK L \in [1 .. nextId + n - 1 -> BOOLEAN] :
          Extends(L, K) /\ Clean(board[m], L) /\ PassFits(board[m], pass, L)
  BY <1>1, PassNow
<1>9. IsFiniteSet(DOMAIN L)
  <2>1. nextId + n - 1 \in Int
    BY <1>2, <1>3
  <2> QED BY <2>1, FS_Interval
<1> QED BY <1>2, <1>7, <1>8, <1>9

\* A drag begins.
LEMMA DragBeginConcord ==
    ASSUME DistinctStamps, TurnTaking, Inv, Tidy, Concord, NEW m \in Members, NEW s \in Sessions, DoEraserBegin(m, s)
    PROVE  Concord'
<1> DEFINE d == board[m]
           e == PushSnapshot(d)
<1>1. Quiet /\ tool[m][s] = "none" /\ Use(m, s, "eraser")
  BY DEF DoEraserBegin, May
<1>2. PICK n, pass : n \in NewIds /\ pass \in Passes(m, n) /\ Operate(m, EraserBegin(d, pass), <<>>, n)
  BY DEF DoEraserBegin
<1>3. Silence /\ \A i \in Members : ~Erasing(i) /\ Idle(board[i])
  BY <1>1, AllTwins
<1>4. /\ tool'[m][s] = "eraser" /\ \A x \in Sessions \ {s} : tool'[m][x] = tool[m][x]
      /\ \A i \in Members \ {m} : tool'[i] = tool[i]
  BY <1>1, ToolUsed
<1>5. /\ Pens(m) = Pens(m)' /\ \A x \in Sessions \ {s} : tool'[m][x] # "eraser"
  BY <1>1, <1>3, <1>4 DEF Pens, Erasing
<1>6. Keyed(d.strokes, Pens(m)) /\ \A i \in Members : ~board[i].batchSuppress
  BY DEF Concord, Settled
<1>7. Sound(d, nextId) /\ Fresh(d, pass)
  BY <1>2, PassReady
<1>8. PICK L : /\ IsFiniteSet(DOMAIN L) /\ PassFits(d, pass, L)
               /\ \A i \in Members : Sound(board[i], nextId) /\ Clean(board[i], L)
  BY <1>2, PassReady
<1>9. \A i \in Members : Twins(d, board[i], nextId, L)
  BY <1>1, <1>6, <1>8, ConcordAlike DEF Twins
<1>10. /\ Sound(e, nextId) /\ e.strokes = d.strokes /\ e.batchSuppress = d.batchSuppress
       /\ e.eraserRemoved = d.eraserRemoved
  BY <1>7, SnapshotWrites
<1>11. Clean(e, L) /\ Known(e) \subseteq Known(d)
  BY <1>7, <1>8, SnapshotClean DEF Becomes
<1>12. PassFits(e, pass, L) /\ Fresh(e, pass)
  BY <1>7, <1>8, <1>10, <1>11 DEF PassFits, Fresh
<1>13. \A i \in Members : Drags(e, board[i])
  BY <1>3, <1>9, BeginDrags DEF Idle
<1> DEFINE b == EraserMove(e, pass)
<1>14. b.strokes = d.strokes /\ ~b.batchSuppress
  BY <1>6, <1>10, MoveWrites
<1>15. Operate(m, b, <<>>, n)
  BY <1>2 DEF EraserBegin
<1> HIDE DEF e
<1>16. \A i \in Members \ {m} : Drags(b, board[i])
  BY <1>8, <1>10, <1>11, <1>12, <1>13, MoveDrags
<1> HIDE DEF b
<1> QED BY <1>3, <1>4, <1>5, <1>6, <1>14, <1>15, <1>16, DragConcord

\* A drag goes on.
LEMMA DragMoveConcord ==
    ASSUME DistinctStamps, Inv, Tidy, Concord, NEW m \in Members, NEW s \in Sessions, DoEraserMove(m, s)
    PROVE  Concord'
<1> DEFINE d == board[m]
<1>1. tool[m][s] = "eraser" /\ tool' = tool
  BY DEF DoEraserMove
<1>2. PICK n, pass : n \in NewIds /\ pass \in Passes(m, n) /\ Operate(m, EraserMove(d, pass), <<>>, n)
  BY DEF DoEraserMove
<1>3. /\ Silence /\ \A x \in Sessions \ {s} : tool'[m][x] # "eraser"
      /\ \A i \in Members \ {m} : ~Erasing(i) /\ Drags(d, board[i]) /\ tool'[i] = tool[i]
  BY <1>1, DragIs
<1>4. Keyed(d.strokes, Pens(m)) /\ ~d.batchSuppress /\ Pens(m)' = Pens(m)
  BY <1>1 DEF Concord, Settled, Pens
<1>5. Sound(d, nextId) /\ Fresh(d, pass)
  BY <1>2, PassReady
<1>6. PICK L : /\ IsFiniteSet(DOMAIN L) /\ PassFits(d, pass, L)
               /\ \A i \in Members : Sound(board[i], nextId) /\ Clean(board[i], L)
  BY <1>2, PassReady
<1> DEFINE b == EraserMove(d, pass)
<1>7. b.strokes = d.strokes /\ ~b.batchSuppress
  BY <1>4, <1>5, MoveWrites
<1>8. \A i \in Members \ {m} : Drags(b, board[i])
  BY <1>3, <1>5, <1>6, MoveDrags
<1>9. Operate(m, b, <<>>, n) /\ tool'[m][s] = "eraser"
  BY <1>1, <1>2
<1> HIDE DEF b
<1> QED BY <1>3, <1>4, <1>7, <1>8, <1>9, DragConcord

\* A drag ends.
LEMMA DragEndConcord ==
    ASSUME DistinctStamps, Inv, Tidy, Concord, NEW m \in Members, NEW s \in Sessions, DoEraserEnd(m, s)
    PROVE  Concord'
<1>1. tool[m][s] = "eraser" /\ Use(m, s, "none")
  BY DEF DoEraserEnd
<1>2. PICK n, pass : n \in NewIds /\ pass \in Passes(m, n) /\
          Operate(m, EraserEnd(board[m], pass),
                  <<EraserCommand(EraserMove(board[m], pass).eraserRemoved,
                                  FlushedAdded(EraserMove(board[m], pass)))>>, n)
  BY DEF DoEraserEnd
<1> DEFINE d == board[m]
           e == EraserMove(d, pass)
           b == EraserEnd(d, pass)
           c == EraserCommand(e.eraserRemoved, FlushedAdded(e))
<1>3. /\ Silence /\ \A x \in Sessions \ {s} : tool[m][x] # "eraser"
      /\ \A i \in Members \ {m} : ~Erasing(i) /\ Drags(d, board[i])
  BY <1>1, DragIs
<1>4. /\ tool'[m][s] = "none" /\ \A x \in Sessions \ {s} : tool'[m][x] = tool[m][x]
      /\ \A i \in Members \ {m} : tool'[i] = tool[i]
  BY <1>1, ToolUsed
<1>5. ~Erasing(m)' /\ Pens(m)' = Pens(m)
  BY <1>1, <1>3, <1>4 DEF Erasing, Pens
<1>6. Keyed(d.strokes, Pens(m)) /\ ~d.batchSuppress
  BY DEF Concord, Settled
<1>7. Sound(d, nextId) /\ Fresh(d, pass)
  BY <1>2, PassReady
<1>8. PICK L : /\ IsFiniteSet(DOMAIN L) /\ PassFits(d, pass, L)
               /\ \A i \in Members : Sound(board[i], nextId) /\ Clean(board[i], L)
  BY <1>2, PassReady
<1>9. \A i \in Members \ {m} : Drags(e, board[i])
  BY <1>3, <1>7, <1>8, MoveDrags
<1>10. \A i \in Members \ {m} : Alike(Apply(board[i], c), b)
  <2> SUFFICES ASSUME NEW i \in Members \ {m} PROVE Alike(Apply(board[i], c), b)
    OBVIOUS
  <2>1. Alike(b, RemoteEraserEnd(board[i], e.eraserRemoved, FlushedAdded(e)))
    BY <1>7, <1>9, EndDrags
  <2>2. Apply(board[i], c) = RemoteEraserEnd(board[i], e.eraserRemoved, FlushedAdded(e))
    BY ApplyIs
  <2> HIDE DEF b, e, c
  <2> QED BY <2>1, <2>2, AlikeEqual
<1>11. b.strokes = d.strokes /\ ~b.batchSuppress /\ Idle(b)
  <2>1. e.strokes = d.strokes /\ e.batchSuppress = d.batchSuppress /\ e = [f \in Fields |-> e[f]]
    BY <1>7, MoveWrites DEF IsBoard
  <2>2. b = [e EXCEPT !.eraserRemoved = {}, !.eraserAdded = <<>>]
    BY DEF EraserEnd
  <2> HIDE DEF e, b
  <2> QED BY <1>6, <2>1, <2>2 DEF Fields, Idle
<1>12. Operate(m, b, <<c>>, n)
  BY <1>2
<1> HIDE DEF b, c, e
<1> QED BY <1>3, <1>4, <1>5, <1>6, <1>10, <1>11, <1>12, SayConcord

\* All boards show the same where nothing is on its way, also when fragments are new.
LEMMA PassTwins ==
    ASSUME DistinctStamps, Inv, Tidy, Concord, Quiet, NEW m \in Members, NEW n \in NewIds, NEW pass \in Passes(m, n)
    PROVE  \E L : /\ IsFiniteSet(DOMAIN L) /\ PassFits(board[m], pass, L)
                  /\ \A i \in Members : Twins(board[m], board[i], nextId, L)
<1>1. PICK L : /\ IsFiniteSet(DOMAIN L) /\ PassFits(board[m], pass, L)
               /\ \A i \in Members : Sound(board[i], nextId) /\ Clean(board[i], L)
  BY PassReady
<1>2. \A i \in Members : ~board[i].batchSuppress
  BY DEF Concord, Settled
<1>3. \A i \in Members : Alike(board[m], board[i])
  BY ConcordAlike
<1> QED BY <1>1, <1>2, <1>3 DEF Twins

\* The same where nothing is new; and the next id is that of no page.
LEMMA NowTwins ==
    ASSUME Inv, Tidy, Concord, Quiet, NEW m \in Members
    PROVE  /\ IsBoard(board[m]) /\ Sound(board[m], nextId) /\ nextId \notin PageIds(board[m])
           /\ \E K : \A i \in Members : Twins(board[m], board[i], nextId, K)
<1>1. PICK K \in Kinds : TidyWith(K) /\ \A L : Extends(L, K) =>
                           \A i, j \in Members : Twins(board[i], board[j], nextId, L)
  BY AllTwins
<1>2. \A i \in Members : Twins(board[m], board[i], nextId, K)
  BY <1>1, OwnBoard
<1>3. Sound(board[m], nextId) /\ nextId \notin PageIds(board[m])
  BY NextIsNew
<1> QED BY <1>2, <1>3 DEF Sound

\* A region is erased.
LEMMA RegionConcord ==
    ASSUME DistinctStamps, TurnTaking, Inv, Tidy, Concord, NEW m \in Members, DoEraseRegion(m)
    PROVE  Concord'
<1>1. Quiet /\ tool' = tool
  BY DEF DoEraseRegion, May
<1>2. PICK n, pass : n \in NewIds /\ pass \in Passes(m, n) /\
          Operate(m, EraseRegion(board[m], pass),
                  <<EraserCommand(DOMAIN pass, Fragments(Elements(board[m]), pass))>>, n)
  BY DEF DoEraseRegion
<1>3. PICK L : /\ IsFiniteSet(DOMAIN L) /\ PassFits(board[m], pass, L)
               /\ \A i \in Members : Twins(board[m], board[i], nextId, L)
  BY <1>1, <1>2, PassTwins
<1> DEFINE b == EraseRegion(board[m], pass)
           added == Fragments(Elements(board[m]), pass)
           c == EraserCommand(DOMAIN pass, added)
<1>4. IsBoard(board[m])
  BY <1>1, NowTwins
<1>5. Mild(board[m], b)
  BY <1>4, ElementsMild
<1>6. \A i \in Members \ {m} : Alike(b, Apply(board[i], c))
  <2> SUFFICES ASSUME NEW i \in Members \ {m} PROVE Alike(b, Apply(board[i], c))
    OBVIOUS
  <2>1. Alike(b, RemoteEraserEnd(board[i], DOMAIN pass, added))
    BY <1>3, RegionAlike
  <2>2. Apply(board[i], c) = RemoteEraserEnd(board[i], DOMAIN pass, added)
    BY ApplyIs
  <2> QED BY <2>1, <2>2
<1>7. Operate(m, b, <<c>>, n)
  BY <1>2
<1> HIDE DEF b, c, added
<1> QED BY <1>1, <1>5, <1>6, <1>7, PlainConcord

\* A page is cleared, or an element added.
LEMMA ClearConcord ==
    ASSUME TurnTaking, Inv, Tidy, Concord, NEW m \in Members, DoClear(m) \/ DoAddElement(m)
    PROVE  Concord'
<1>1. Quiet /\ tool' = tool
  BY DEF DoClear, DoAddElement, May
<1>2. IsBoard(board[m])
  BY <1>1, NowTwins
<1>3. PICK K : \A i \in Members : Twins(board[m], board[i], nextId, K)
  BY <1>1, NowTwins
<1>4. CASE DoClear(m)
  <2> DEFINE b == Clear(board[m])
             c == Command("PageClear", 0)
  <2>1. Operate(m, b, <<c>>, 0)
    BY <1>4 DEF DoClear
  <2>2. Mild(board[m], b)
    BY <1>2, ElementsMild
  <2>3. \A i \in Members : Alike(b, Apply(board[i], c))
    BY <1>3, ClearAlike, ApplyIs
  <2> HIDE DEF b, c
  <2> QED BY <1>1, <2>1, <2>2, <2>3, PlainConcord
<1>5. CASE DoAddElement(m)
  <2> DEFINE e == Element(nextId, FALSE)
             b == AddElement(board[m], e)
             c == ElementCommand("ElementAdd", e)
  <2>1. Operate(m, b, <<c>>, 1)
    BY <1>5 DEF DoAddElement
  <2>2. Mild(board[m], b)
    BY <1>2, ElementsMild
  <2> HIDE DEF e
  <2>3. \A i \in Members : Alike(b, Apply(board[i], c))
    BY <1>3, AddAlike, ApplyIs
  <2> HIDE DEF b, c
  <2> QED BY <1>1, <2>1, <2>2, <2>3, PlainConcord
<1> QED BY <1>4, <1>5

\* An element is removed.
LEMMA RemoveConcord ==
    ASSUME TurnTaking, mirrored', Inv, Tidy, Concord, NEW m \in Members, DoRemoveElements(m)
    PROVE  Concord'
<1>1. PICK ids \in SUBSET ElementIds(Elements(board[m])) :
          /\ Cardinality(ids) = 1
          /\ Operate(m, RemoveAll(PushSnapshot(board[m]), ids),
                     [i \in 1 .. Cardinality(ids) |-> Command("ElementRemove", SetToSeq(ids)[i])], 0)
          /\ tool' = tool /\ Quiet
  BY DEF DoRemoveElements, May, Mirrored
<1>2. PICK K \in Kinds : TidyWith(K)
  BY DEF Concord, Tidy
<1>3. Sound(board[m], nextId) /\ Clean(board[m], K) /\ nextId \in Nat \ {0} /\ DOMAIN K = 1 .. nextId - 1
      /\ Known(board[m]) \subseteq DOMAIN K
  BY <1>2, OwnBoard
<1>4. IsFiniteSet(ids)
  <2>1. ids \subseteq 1 .. nextId - 1
    BY <1>3, ShownIsSheet
  <2>2. IsFiniteSet(1 .. nextId - 1)
    BY <1>3, FS_Interval
  <2> QED BY <2>1, <2>2, FS_Subset
<1> DEFINE id == SetToSeq(ids)[1]
           b == RemoveAll(PushSnapshot(board[m]), ids)
           c == Command("ElementRemove", id)
<1>5. ids = {id}
  BY <1>1, <1>4, SoleId
<1>6. [i \in 1 .. Cardinality(ids) |-> Command("ElementRemove", SetToSeq(ids)[i])] = <<c>>
  <2> DEFINE q == [i \in 1 .. 1 |-> Command("ElementRemove", SetToSeq(ids)[i])]
  <2>1. [i \in 1 .. Cardinality(ids) |-> Command("ElementRemove", SetToSeq(ids)[i])] = q
    BY <1>1
  <2>2. q[1] = c /\ q = [i \in 1 .. 1 |-> q[i]]
    OBVIOUS
  <2> HIDE DEF q, c
  <2>3. q = <<c>>
    BY <2>2
  <2> QED BY <2>1, <2>3
<1>7. Operate(m, b, <<c>>, 0)
  BY <1>1, <1>6
<1>8. PICK L : \A i \in Members : Twins(board[m], board[i], nextId, L)
  BY <1>1, NowTwins
<1>9. Mild(board[m], b)
  BY <1>3, ElementsMild DEF Sound
<1>10. \A i \in Members : Alike(b, Apply(board[i], c))
  <2> SUFFICES ASSUME NEW i \in Members PROVE Alike(b, Apply(board[i], c))
    OBVIOUS
  <2> HIDE DEF id
  <2>1. id \in ElementIds(Elements(board[m]))
    BY <1>5
  <2>2. Alike(RemoveAll(PushSnapshot(board[m]), {id}), RemoteRemove(board[i], id))
    BY <1>8, <2>1, RemoveAlike
  <2>3. Apply(board[i], c) = RemoteRemove(board[i], id)
    BY ApplyIs
  <2> QED BY <1>5, <2>2, <2>3
<1> HIDE DEF b, c
<1> QED BY <1>1, <1>7, <1>9, <1>10, PlainConcord

\* An element is changed.
LEMMA UpdateConcord ==
    ASSUME TurnTaking, mirrored', Inv, Tidy, Concord, NEW m \in Members, DoUpdate(m)
    PROVE  Concord'
<1> DEFINE Sent(e) == IF e.stroke THEN UpdateCommand(e.id, nextId)
                      ELSE ElementCommand("ElementUpdate", [e EXCEPT !.content = nextId])
<1>1. PICK i \in DOMAIN Elements(board[m]) :
          LET e == Elements(board[m])[i]
          IN Quiet /\ Operate(m, UpdateElement(board[m], e.id, nextId), <<Sent(e)>>, 1)
  BY DEF DoUpdate, May, Mirrored
<1>2. tool' = tool /\ Quiet
  BY <1>1 DEF DoUpdate
<1> DEFINE e == Elements(board[m])[i]
           b == UpdateElement(board[m], e.id, nextId)
           c == Sent(e)
<1>3. e \in Range(Elements(board[m]))
  BY DEF Range
<1>4. PICK K : \A k \in Members : Twins(board[m], board[k], nextId, K)
  BY <1>2, NowTwins
<1>5. Mild(board[m], b)
  BY <1>2, NowTwins, ElementsMild
<1>6. \A k \in Members : Alike(b, Apply(board[k], c))
  <2> SUFFICES ASSUME NEW k \in Members PROVE Alike(b, Apply(board[k], c))
    OBVIOUS
  <2> HIDE DEF e
  <2>1. /\ Alike(b, UpdateElement(board[k], e.id, nextId))
        /\ Alike(b, RemoteUpdateElement(board[k], [e EXCEPT !.content = nextId]))
    BY <1>3, <1>4, UpdateAlike
  <2> DEFINE x == [e EXCEPT !.content = nextId]
  <2>2. /\ Apply(board[k], UpdateCommand(e.id, nextId)) = UpdateElement(board[k], e.id, nextId)
        /\ Apply(board[k], ElementCommand("ElementUpdate", x)) = RemoteUpdateElement(board[k], x)
    BY ApplyIs
  <2>3. c = UpdateCommand(e.id, nextId) \/ c = ElementCommand("ElementUpdate", x)
    OBVIOUS
  <2> HIDE DEF x, c, b
  <2>4. /\ Alike(b, UpdateElement(board[k], e.id, nextId))
        /\ Alike(b, RemoteUpdateElement(board[k], x))
    BY <2>1 DEF x
  <2> QED BY <2>2, <2>3, <2>4
<1>7. Operate(m, b, <<c>>, 1)
  BY <1>1
<1> HIDE DEF b, c, Sent, e
<1> QED BY <1>2, <1>5, <1>6, <1>7, PlainConcord

\* A step is undone or redone.
LEMMA UndoConcord ==
    ASSUME TurnTaking, Inv, Tidy, Concord, NEW m \in Members, DoUndoRedo(m)
    PROVE  Concord'
<1>1. Quiet /\ tool' = tool
  BY DEF DoUndoRedo, May
<1>2. IsBoard(board[m])
  BY <1>1, NowTwins
<1>3. PICK K : \A i \in Members : Twins(board[m], board[i], nextId, K)
  BY <1>1, NowTwins
<1>4. \A i \in Members : Sound(board[m], nextId) /\ Sound(board[i], nextId) /\ Alike(board[m], board[i])
  BY <1>3 DEF Twins
<1>5. CASE CanUndo(board[m]) /\ Operate(m, Undo(board[m]), <<Command("Undo", 0)>>, 0)
  <2> DEFINE b == Undo(board[m])
             c == Command("Undo", 0)
  <2>1. Mild(board[m], b)
    BY <1>2, PagesMild
  <2>2. \A i \in Members : Alike(b, Apply(board[i], c))
    BY <1>4, <1>5, UndoAlike, ApplyIs
  <2>3. Operate(m, b, <<c>>, 0)
    BY <1>5
  <2> HIDE DEF b, c
  <2> QED BY <1>1, <2>1, <2>2, <2>3, PlainConcord
<1>6. CASE CanRedo(board[m]) /\ Operate(m, Redo(board[m]), <<Command("Redo", 0)>>, 0)
  <2> DEFINE b == Redo(board[m])
             c == Command("Redo", 0)
  <2>1. Mild(board[m], b)
    BY <1>2, PagesMild
  <2>2. \A i \in Members : Alike(b, Apply(board[i], c))
    BY <1>4, <1>6, UndoAlike, ApplyIs
  <2>3. Operate(m, b, <<c>>, 0)
    BY <1>6
  <2> HIDE DEF b, c
  <2> QED BY <1>1, <2>1, <2>2, <2>3, PlainConcord
<1> QED BY <1>5, <1>6 DEF DoUndoRedo

\* A page is created, shown or deleted.
LEMMA PageConcord ==
    ASSUME TurnTaking, Inv, Tidy, Concord, NEW m \in Members, DoCreatePage(m) \/ DoSelectPage(m) \/ DoDeletePage(m)
    PROVE  Concord'
<1>1. Quiet /\ tool' = tool
  BY DEF DoCreatePage, DoSelectPage, DoDeletePage, May
<1>2. IsBoard(board[m]) /\ nextId \notin PageIds(board[m])
  BY <1>1, NowTwins
<1>3. PICK K : \A i \in Members : Twins(board[m], board[i], nextId, K)
  BY <1>1, NowTwins
<1>4. \A i \in Members : Sound(board[m], nextId) /\ Sound(board[i], nextId) /\ Alike(board[m], board[i])
  BY <1>3 DEF Twins
<1>5. ASSUME NEW b, NEW c, NEW used, Mild(board[m], b), Operate(m, b, <<c>>, used),
             \A i \in Members : Alike(b, Apply(board[i], c))
      PROVE  Concord'
  BY <1>1, <1>5, PlainConcord
<1>6. CASE DoCreatePage(m)
  <2> DEFINE b == CreatePage(board[m], nextId)
             c == Command("PageCreate", nextId)
  <2>1. Mild(board[m], b)
    BY <1>2, PagesMild
  <2>2. \A i \in Members : Alike(b, Apply(board[i], c))
    BY <1>2, <1>4, CreateAlike, ApplyIs
  <2>3. Operate(m, b, <<c>>, 1)
    BY <1>6 DEF DoCreatePage
  <2> HIDE DEF b, c
  <2> QED BY <1>5, <2>1, <2>2, <2>3
<1>7. CASE DoSelectPage(m)
  <2>1. PICK p \in PageIds(board[m]) : Operate(m, SelectPage(board[m], p), <<Command("PageSelect", p)>>, 0)
    BY <1>7 DEF DoSelectPage
  <2> DEFINE b == SelectPage(board[m], p)
             c == Command("PageSelect", p)
  <2>2. Mild(board[m], b)
    BY <1>2, PagesMild
  <2>3. \A i \in Members : Alike(b, Apply(board[i], c))
    BY <1>4, CreateAlike, ApplyIs
  <2>4. Operate(m, b, <<c>>, 0)
    BY <2>1
  <2> HIDE DEF b, c
  <2> QED BY <1>5, <2>2, <2>3, <2>4
<1>8. CASE DoDeletePage(m)
  <2>1. PICK p \in PageIds(board[m]) :
            CanDelete(board[m], p) /\ Operate(m, DeletePage(board[m], p), <<Command("PageDelete", p)>>, 0)
    BY <1>8 DEF DoDeletePage
  <2> DEFINE b == DeletePage(board[m], p)
             c == Command("PageDelete", p)
  <2>2. Mild(board[m], b)
    BY <1>2, PagesMild
  <2>3. \A i \in Members : Alike(b, Apply(board[i], c))
    BY <1>4, <2>1, DeleteAlike, ApplyIs
  <2>4. Operate(m, b, <<c>>, 0)
    BY <2>1
  <2> HIDE DEF b, c
  <2> QED BY <1>5, <2>2, <2>3, <2>4
<1> QED BY <1>6, <1>7, <1>8

\* An operation that the others do not repeat step by step is not forgotten.
LEMMA StaysMirrored ==
    ASSUME [Next]_vars, mirrored'
    PROVE  mirrored
<1>1. CASE UNCHANGED vars
  BY <1>1 DEF vars, historyVars
<1>2. ASSUME NEW m \in Members, NEW s \in Sessions,
             \/ DoPenBegin(m, s) \/ DoPenEnd(m, s)
             \/ DoEraserBegin(m, s) \/ DoEraserMove(m, s) \/ DoEraserEnd(m, s)
      PROVE  mirrored
  BY <1>2 DEF DoPenBegin, DoPenEnd, DoEraserBegin, DoEraserMove, DoEraserEnd, May
<1>3. ASSUME NEW m \in Members,
             \/ DoEraseRegion(m) \/ DoClear(m) \/ DoAddElement(m) \/ DoRemoveElements(m) \/ DoUpdate(m)
             \/ DoBatch(m) \/ DoUndoRedo(m)
      PROVE  mirrored
  BY <1>3 DEF DoEraseRegion, DoClear, DoAddElement, DoRemoveElements, DoUpdate, DoBatch, DoUndoRedo, May
<1>4. ASSUME NEW m \in Members, DoCreatePage(m) \/ DoSelectPage(m) \/ DoDeletePage(m) \/ DoCopyPage(m)
      PROVE  mirrored
  BY <1>4 DEF DoCreatePage, DoSelectPage, DoDeletePage, DoCopyPage, May
<1>5. ASSUME NEW m \in Members, Start(m) \/ ThreadStep(m)
      PROVE  mirrored
  BY <1>5 DEF Start, ThreadStep, OnConnected, DataTask, ApiTask, OnMessage, ServerTask, historyVars
<1> QED BY <1>1, <1>2, <1>3, <1>4, <1>5 DEF Next, UserStep

\* What users do, when they take turns.
LEMMA UserConcord ==
    ASSUME DistinctStamps, TurnTaking, mirrored', Inv, Tidy, Concord, NEW m \in Members, UserStep(m)
    PROVE  Concord'
<1>1. ASSUME NEW s \in Sessions, DoPenBegin(m, s) \/ DoPenEnd(m, s) PROVE Concord'
  BY <1>1, PenBeginConcord, PenEndConcord
<1>2. ASSUME NEW s \in Sessions, DoEraserBegin(m, s) \/ DoEraserMove(m, s) \/ DoEraserEnd(m, s) PROVE Concord'
  BY <1>2, DragBeginConcord, DragMoveConcord, DragEndConcord
<1>3. CASE DoEraseRegion(m) \/ DoClear(m) \/ DoAddElement(m)
  BY <1>3, RegionConcord, ClearConcord
<1>4. CASE DoRemoveElements(m) \/ DoUpdate(m)
  BY <1>4, RemoveConcord, UpdateConcord
<1>5. CASE DoUndoRedo(m) \/ DoCreatePage(m) \/ DoSelectPage(m) \/ DoDeletePage(m)
  BY <1>5, UndoConcord, PageConcord
<1>6. CASE DoBatch(m) \/ DoCopyPage(m)
  BY <1>6 DEF DoBatch, DoCopyPage, May, Mirrored
<1> QED BY <1>1, <1>2, <1>3, <1>4, <1>5, <1>6 DEF UserStep

\* Every step keeps the boards in concord, until an operation that is not mirrored.
LEMMA ConcordKeeps ==
    ASSUME DistinctStamps, TakeTurns, Inv, Tidy, mirrored => Concord, [Next]_vars
    PROVE  mirrored' => Concord'
<1> SUFFICES ASSUME mirrored' PROVE Concord'
  OBVIOUS
<1>1. Concord
  BY StaysMirrored
<1>2. CASE UNCHANGED vars
  <2>1. /\ board' = board /\ tool' = tool /\ link' = link /\ callback' = callback /\ dataQueue' = dataQueue
        /\ outbox' = outbox /\ apiQueue' = apiQueue /\ serving' = serving /\ up' = up /\ down' = down
        /\ order' = order /\ torn' = torn
    BY <1>2 DEF vars, boardVars, dataVars, apiVars, netVars, historyVars
  <2>2. PICK m \in Members : Turn(m)
    BY <1>1 DEF Concord
  <2>3. Turn(m)'
    BY <2>1, <2>2 DEF Turn, Dragging, Told, Saying, Sending, Heard, Lacks, Waits, Has, Still, Erasing
  <2> QED BY <1>1, <2>1, <2>3, MovedOn
<1>3. ASSUME NEW m \in Members, UserStep(m) PROVE Concord'
  BY <1>1, <1>3, UserConcord DEF TakeTurns
<1>4. ASSUME NEW m \in Members, Start(m) \/ OnConnected(m) PROVE Concord'
  BY <1>1, <1>4 DEF Start, OnConnected, Concord, Settled
<1>5. ASSUME NEW m \in Members, DataTask(m) \/ ApiTask(m) \/ OnMessage(m) \/ ServerTask(m) PROVE Concord'
  BY <1>1, <1>5, ApplyConcord, CallConcord, MessageConcord, RelayConcord
<1> QED BY <1>2, <1>3, <1>4, <1>5 DEF Next, ThreadStep

\* Where everybody was there at the start and users take turns, all boards show the
\* same whenever everything is delivered: the pages, their contents and their order,
\* the open page, the strokes being drawn and the histories.  The fragments of one pass
\* of the eraser are assumed to get different ids.
THEOREM TurnsAgree ==
    ASSUME DistinctStamps, TurnTaking, Members = Range(Founders)
    PROVE  Spec => []BoardsAgree
<1>1. TakeTurns
  BY DEF TakeTurns
<1> DEFINE Agreed == mirrored => Concord
<1>2. Init => Inv /\ Tidy /\ Agreed
  BY <1>1, InitInv, InitTidy, InitConcord
<1>3. Inv /\ Tidy /\ Agreed /\ [Next]_vars => Inv' /\ Tidy' /\ Agreed'
  BY <1>1, StepKeeps, TidyKeeps, ConcordKeeps
<1>4. Inv /\ Agreed => BoardsAgree
  BY ConcordMeans
<1> HIDE DEF Agreed
<1> QED BY <1>2, <1>3, <1>4, PTL DEF Spec
=============================================================================
