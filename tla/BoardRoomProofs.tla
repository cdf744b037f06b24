--------------------------- MODULE BoardRoomProofs ---------------------------
(***************************************************************************)
(* For any members, limits and operations, in turns or not: the types of   *)
(* BoardRoom; that every board stays sound (Inv): its histories belong to  *)
(* pages it has, no page is there twice, and the page shown exists; and    *)
(* that no board shows an element twice.  For the last an invariant of the *)
(* whole room (Tidy) follows each id on its way: from the outbox of the    *)
(* member that announces it, through up, the server, down, apiQueue and    *)
(* dataQueue, to the pages, histories and gestures of the others' boards.  *)
(* In the last part: what it is for two boards to show the same (Alike),   *)
(* and that each operation of a user makes of a board what its command     *)
(* makes of a board alike.                                                 *)
(***************************************************************************)
EXTENDS BoardRoom, FiniteSetTheorems, SequenceTheorems, TLAPS

(* A sequence of whatever: elements and commands are of many kinds.        *)
IsList(s) == s \in Seq({s[i] : i \in DOMAIN s})

\* A sequence over any set is a list.
LEMMA ListIs ==
    ASSUME NEW S, NEW s \in Seq(S)
    PROVE  IsList(s)
<1>1. \A i \in 1 .. Len(s) : s[i] \in {s[j] : j \in DOMAIN s}
  OBVIOUS
<1> QED BY <1>1, IsASeq DEF IsList

\* Append, element by element.
LEMMA AppendList ==
    ASSUME NEW s, IsList(s), NEW e
    PROVE  /\ IsList(Append(s, e)) /\ DOMAIN Append(s, e) = 1 .. Len(s) + 1
           /\ Len(s) \in Nat /\ Len(Append(s, e)) = Len(s) + 1 /\ DOMAIN s = 1 .. Len(s)
           /\ \A i \in 1 .. Len(s) : Append(s, e)[i] = s[i]
           /\ Append(s, e)[Len(s) + 1] = e
<1> DEFINE S == {s[i] : i \in DOMAIN s} \cup {e}
<1>1. s \in Seq(S)
  <2>1. s \in Seq({s[i] : i \in DOMAIN s})
    BY DEF IsList
  <2> QED BY <2>1, SeqMonotonic
<1> HIDE DEF S
<1>2. Append(s, e) \in Seq(S)
  BY <1>1 DEF S
<1>3. IsList(Append(s, e))
  BY <1>2, ListIs
<1> QED BY <1>1, <1>2, <1>3

\* Concatenation, element by element.
LEMMA ConcatList ==
    ASSUME NEW s, IsList(s), NEW t, IsList(t)
    PROVE  /\ IsList(s \o t) /\ DOMAIN (s \o t) = 1 .. Len(s) + Len(t)
           /\ Len(s) \in Nat /\ Len(t) \in Nat /\ Len(s \o t) = Len(s) + Len(t)
           /\ DOMAIN s = 1 .. Len(s) /\ DOMAIN t = 1 .. Len(t)
           /\ \A i \in 1 .. Len(s) : (s \o t)[i] = s[i]
           /\ \A i \in 1 .. Len(t) : (s \o t)[Len(s) + i] = t[i]
<1> DEFINE S == {s[i] : i \in DOMAIN s} \cup {t[i] : i \in DOMAIN t}
<1>1. s \in Seq(S)
  <2>1. s \in Seq({s[i] : i \in DOMAIN s})
    BY DEF IsList
  <2> QED BY <2>1, SeqMonotonic
<1>2. t \in Seq(S)
  <2>1. t \in Seq({t[i] : i \in DOMAIN t})
    BY DEF IsList
  <2> QED BY <2>1, SeqMonotonic
<1> HIDE DEF S
<1>3. s \o t \in Seq(S)
  BY <1>1, <1>2
<1>4. IsList(s \o t)
  BY <1>3, ListIs
<1>5. \A i \in 1 .. Len(t) : Len(s) + i \in 1 .. Len(s) + Len(t) /\ ~(Len(s) + i <= Len(s)) /\ (Len(s) + i) - Len(s) = i
  BY <1>1, <1>2
<1> QED BY <1>1, <1>2, <1>3, <1>4, <1>5

\* Head and Tail, element by element.
LEMMA TailList ==
    ASSUME NEW s, IsList(s), s # <<>>
    PROVE  /\ IsList(Tail(s)) /\ DOMAIN Tail(s) = 1 .. Len(s) - 1 /\ Len(Tail(s)) = Len(s) - 1
           /\ Len(s) \in Nat \ {0} /\ DOMAIN s = 1 .. Len(s) /\ Head(s) = s[1]
           /\ \A i \in DOMAIN Tail(s) : Tail(s)[i] = s[i + 1]
<1> DEFINE S == {s[i] : i \in DOMAIN s}
<1>1. s \in Seq(S)
  BY DEF IsList
<1> HIDE DEF S
<1>2. Tail(s) \in Seq(S)
  BY <1>1
<1>3. IsList(Tail(s))
  BY <1>2, ListIs
<1> QED BY <1>1, <1>2, <1>3

\* SubSeq, element by element.
LEMMA PartList ==
    ASSUME NEW s, IsList(s), NEW a \in Nat \ {0}, NEW b \in Nat, b <= Len(s)
    PROVE  /\ IsList(SubSeq(s, a, b)) /\ Len(s) \in Nat /\ DOMAIN s = 1 .. Len(s)
           /\ Len(SubSeq(s, a, b)) = IF a <= b THEN b - a + 1 ELSE 0
           /\ DOMAIN SubSeq(s, a, b) = 1 .. Len(SubSeq(s, a, b))
           /\ \A i \in 1 .. Len(SubSeq(s, a, b)) : SubSeq(s, a, b)[i] = s[a + i - 1]
<1> DEFINE S == {s[i] : i \in DOMAIN s}
<1>1. s \in Seq(S)
  BY DEF IsList
<1> HIDE DEF S
<1>2. SubSeq(s, a, b) \in Seq(S)
  <2>1. \A i \in a .. b : s[i] \in S
    BY <1>1
  <2> QED BY <1>1, <2>1, SubSeqProperties
<1>3. IsList(SubSeq(s, a, b))
  BY <1>2, ListIs
<1>4. /\ Len(SubSeq(s, a, b)) = IF a <= b THEN b - a + 1 ELSE 0
      /\ \A i \in 1 .. b - a + 1 : SubSeq(s, a, b)[i] = s[a + i - 1]
  <2>1. \A i \in a .. b : i \in 1 .. Len(s)
    BY <1>1
  <2> QED BY <1>1, <2>1, SubSeqProperties
<1> QED BY <1>1, <1>2, <1>3, <1>4

\* A list of one.
LEMMA OneList == ASSUME NEW e PROVE IsList(<<e>>) /\ Len(<<e>>) = 1 /\ <<e>>[1] = e
<1>1. <<e>> \in Seq({e})
  OBVIOUS
<1>2. IsList(<<e>>)
  BY <1>1, ListIs
<1> QED BY <1>2

-----------------------------------------------------------------------------
(* Sound boards, whose page ids were handed out before n.                  *)

Fields == {"pages", "currentPage", "histories", "strokes", "eraserRemoved", "eraserAdded",
           "batchSuppress"}
IsBoard(b) == b = [f \in Fields |-> b[f]]

IsPage(p) == p = [f \in {"pageId", "elements"} |-> p[f]]
PagesSound(pages, n) ==
    /\ IsList(pages) /\ pages # <<>>
    /\ \A i \in DOMAIN pages : IsPage(pages[i]) /\ pages[i].pageId \in 1 .. n - 1
    /\ \A i, j \in DOMAIN pages : pages[i].pageId = pages[j].pageId => i = j

StackSound(s, id) ==
    /\ IsList(s) /\ Len(s) <= HistoryLimit
    /\ \A i \in DOMAIN s : IsPage(s[i]) /\ s[i].pageId = id
HistorySound(h, id) == StackSound(h.undo, id) /\ StackSound(h.redo, id)

Sound(b, n) ==
    /\ IsBoard(b)
    /\ PagesSound(b.pages, n)
    /\ b.currentPage \in DOMAIN b.pages
    /\ \A q \in DOMAIN b.histories : q \in PageIds(b) /\ HistorySound(b.histories[q], q)

(* What Sound says of a board is what BoardSound wants, and it lasts.      *)
LEMMA SoundMeans == ASSUME NEW b, NEW n, Sound(b, n) PROVE BoardSound(b)
BY DEF Sound, PagesSound, HistorySound, StackSound, BoardSound, Range

\* A sound board stays sound when more ids are handed out.
LEMMA SoundLasts ==
    ASSUME NEW b, NEW n \in Nat, NEW m \in Nat, n <= m, Sound(b, n)
    PROVE  Sound(b, m)
BY DEF Sound, PagesSound

(* Sound looks at three fields only.                                       *)
LEMMA SameSound ==
    ASSUME NEW b, NEW c, NEW n, Sound(b, n), IsBoard(c),
           c.pages = b.pages, c.currentPage = b.currentPage, c.histories = b.histories
    PROVE  Sound(c, n)
BY DEF Sound, PageIds

(* The elements of the page shown may become anything.                     *)
LEMMA PageWith ==
    ASSUME NEW q, IsPage(q), NEW es
    PROVE  /\ IsPage([q EXCEPT !.elements = es])
           /\ [q EXCEPT !.elements = es].pageId = q.pageId
<1>1. q = [f \in {"pageId", "elements"} |-> q[f]]
  BY DEF IsPage
<1>2. DOMAIN q = {"pageId", "elements"}
  BY <1>1
<1>3. [q EXCEPT !.elements = es] = [f \in {"pageId", "elements"} |-> IF f = "elements" THEN es ELSE q[f]]
  BY <1>2
<1> QED BY <1>3 DEF IsPage

\* A page may get any other elements.
LEMMA ElementsSound ==
    ASSUME NEW b, NEW n, Sound(b, n), NEW es
    PROVE  Sound(WithElements(b, es), n)
<1> DEFINE c == WithElements(b, es)
           p == [b.pages[b.currentPage] EXCEPT !.elements = es]
<1>1. b = [f \in Fields |-> b[f]] /\ b.currentPage \in DOMAIN b.pages
  BY DEF Sound, IsBoard
<1>2. c = [b EXCEPT !.pages = [b.pages EXCEPT ![b.currentPage] = p]]
  BY DEF WithElements
<1>3. IsPage(p) /\ p.pageId = b.pages[b.currentPage].pageId
  BY <1>1, PageWith DEF Sound, PagesSound
<1> HIDE DEF c, p
<1>4. c.pages = [b.pages EXCEPT ![b.currentPage] = p]
  BY <1>1, <1>2 DEF Fields
<1>5. IsBoard(c) /\ c.currentPage = b.currentPage /\ c.histories = b.histories
  BY <1>1, <1>2 DEF Fields, IsBoard
<1>6. b.pages \in Seq({b.pages[i] : i \in DOMAIN b.pages} \cup {p})
  BY SeqMonotonic DEF Sound, PagesSound, IsList
<1>7. c.pages \in Seq({b.pages[i] : i \in DOMAIN b.pages} \cup {p}) /\ DOMAIN c.pages = DOMAIN b.pages
  <2>1. b.currentPage \in 1 .. Len(b.pages)
    BY <1>1, <1>6
  <2> QED BY <1>4, <1>6, <2>1, ExceptSeq
<1>8. IsList(c.pages) /\ c.pages # <<>>
  BY <1>7, <1>6, <1>1, ListIs
<1>9. \A i \in DOMAIN c.pages : IsPage(c.pages[i]) /\ c.pages[i].pageId = b.pages[i].pageId
  BY <1>3, <1>4, <1>6, <1>7 DEF Sound, PagesSound
<1>10. PageIds(c) = PageIds(b)
  BY <1>9, <1>7 DEF PageIds
<1> QED BY <1>1, <1>5, <1>7, <1>8, <1>9, <1>10 DEF Sound, PagesSound, c

-----------------------------------------------------------------------------
(* The stacks.                                                             *)
LEMMA NoStack == ASSUME NEW id PROVE StackSound(<<>>, id)
<1>1. IsList(<<>>)
  BY ListIs, EmptySeq
<1> QED BY <1>1, HistoryLimitIsPos DEF StackSound

\* PushSnapshot drops the oldest snapshot at the limit.
LEMMA PushBackSound ==
    ASSUME NEW s, NEW id, StackSound(s, id), NEW p, IsPage(p), p.pageId = id
    PROVE  StackSound(PushBack(s, p), id)
<1> DEFINE t == Append(s, p)
<1>1. IsList(s)
  BY DEF StackSound
<1>2. IsList(t) /\ Len(t) = Len(s) + 1 /\ Len(s) \in Nat /\ DOMAIN t = 1 .. Len(t)
  BY <1>1, AppendList
<1>3. \A i \in DOMAIN t : IsPage(t[i]) /\ t[i].pageId = id
  BY <1>1, AppendList DEF StackSound
<1> HIDE DEF t
<1>4. CASE Len(t) > HistoryLimit
  <2> DEFINE a == Len(t) - HistoryLimit + 1
             u == SubSeq(t, a, Len(t))
  <2>1. a \in Nat \ {0} /\ Len(t) \in Nat /\ Len(t) <= Len(t) /\ a <= Len(t) /\ Len(t) - a + 1 = HistoryLimit
    BY <1>2, <1>4, HistoryLimitIsPos
  <2> HIDE DEF a
  <2>2. IsList(u) /\ Len(u) = HistoryLimit /\ DOMAIN u = 1 .. Len(u)
        /\ \A i \in 1 .. Len(u) : u[i] = t[a + i - 1]
    BY <1>2, <2>1, PartList
  <2>3. \A i \in 1 .. HistoryLimit : a + i - 1 \in 1 .. Len(t)
    BY <1>2, <2>1, HistoryLimitIsPos
  <2> HIDE DEF u
  <2>4. StackSound(u, id)
    BY <1>2, <1>3, <2>2, <2>3, HistoryLimitIsPos DEF StackSound
  <2> QED BY <2>4, <1>4 DEF PushBack, t, u, a
<1>5. CASE ~(Len(t) > HistoryLimit)
  <2>1. StackSound(t, id)
    BY <1>2, <1>3, <1>5, HistoryLimitIsPos DEF StackSound
  <2> QED BY <2>1, <1>5 DEF PushBack, t
<1> QED BY <1>4, <1>5

\* Undo and Redo drop the last one at the limit.
LEMMA PushFrontSound ==
    ASSUME NEW s, NEW id, StackSound(s, id), NEW p, IsPage(p), p.pageId = id
    PROVE  StackSound(PushFront(p, s), id)
<1> DEFINE t == <<p>> \o s
           k == IF Len(s) < HistoryLimit THEN Len(s) + 1 ELSE HistoryLimit
           u == SubSeq(t, 1, k)
<1>1. IsList(s) /\ IsList(<<p>>) /\ Len(<<p>>) = 1 /\ <<p>>[1] = p
  BY OneList DEF StackSound
<1>2. IsList(t) /\ Len(t) = 1 + Len(s) /\ Len(s) \in Nat /\ t[1] = p
      /\ \A i \in 1 .. Len(s) : t[1 + i] = s[i]
  <2>1. 1 \in 1 .. Len(<<p>>)
    BY <1>1
  <2> QED BY <1>1, <2>1, ConcatList
<1>3. DOMAIN s = 1 .. Len(s)
  BY <1>1, ConcatList
<1> HIDE DEF t
<1>4. \A i \in 1 .. 1 + Len(s) : IsPage(t[i]) /\ t[i].pageId = id
  <2> TAKE i \in 1 .. 1 + Len(s)
  <2>1. CASE i = 1
    BY <2>1, <1>2
  <2>2. CASE i # 1
    <3>1. i - 1 \in 1 .. Len(s) /\ 1 + (i - 1) = i
      BY <2>2, <1>2
    <3>2. t[i] = s[i - 1]
      BY <3>1, <1>2
    <3> QED BY <3>1, <3>2, <1>3 DEF StackSound
  <2> QED BY <2>1, <2>2
<1>5. k \in Nat \ {0} /\ k <= Len(t) /\ k <= HistoryLimit
  BY <1>2, HistoryLimitIsPos
<1> HIDE DEF k
<1>6. IsList(u) /\ Len(u) = k /\ DOMAIN u = 1 .. k /\ \A i \in 1 .. k : u[i] = t[1 + i - 1]
  BY <1>2, <1>5, PartList
<1>7. \A i \in 1 .. k : 1 + i - 1 \in 1 .. 1 + Len(s)
  BY <1>2, <1>5
<1> HIDE DEF u
<1>8. StackSound(u, id)
  BY <1>4, <1>5, <1>6, <1>7 DEF StackSound
<1> QED BY <1>8 DEF PushFront, t, k, u

\* A stack without its first.
LEMMA TailSound ==
    ASSUME NEW s, NEW id, StackSound(s, id), s # <<>>
    PROVE  /\ StackSound(Tail(s), id)
           /\ IsPage(Head(s)) /\ Head(s).pageId = id
<1>1. IsList(s)
  BY DEF StackSound
<1>2. 1 \in DOMAIN s /\ Len(s) \in Nat /\ Len(Tail(s)) = Len(s) - 1 /\ \A i \in 1 .. Len(s) - 1 : i + 1 \in DOMAIN s
  BY <1>1, TailList
<1> QED BY <1>1, <1>2, TailList, HistoryLimitIsPos DEF StackSound

\* A stack without its last.
LEMMA FrontSound ==
    ASSUME NEW s, NEW id, StackSound(s, id), s # <<>>
    PROVE  /\ StackSound(Front(s), id)
           /\ IsPage(Last(s)) /\ Last(s).pageId = id
<1>1. IsList(s) /\ Len(s) \in Nat \ {0} /\ DOMAIN s = 1 .. Len(s) /\ Len(s) <= HistoryLimit
  BY TailList DEF StackSound
<1>2. IsPage(Last(s)) /\ Last(s).pageId = id
  BY <1>1 DEF StackSound, Last
<1> DEFINE u == SubSeq(s, 1, Len(s) - 1)
<1>3. Len(s) - 1 \in Nat /\ Len(s) - 1 <= Len(s) /\ Len(s) - 1 < HistoryLimit
      /\ (IF 1 <= Len(s) - 1 THEN Len(s) - 1 - 1 + 1 ELSE 0) = Len(s) - 1
  BY <1>1, HistoryLimitIsPos
<1>4. IsList(u) /\ Len(u) = Len(s) - 1 /\ DOMAIN u = 1 .. Len(u) /\ \A i \in 1 .. Len(u) : u[i] = s[1 + i - 1]
  BY <1>1, <1>3, PartList
<1> HIDE DEF u
<1>5. \A i \in 1 .. Len(u) : 1 + i - 1 \in DOMAIN s
  BY <1>1, <1>4
<1>6. StackSound(u, id)
  BY <1>1, <1>3, <1>4, <1>5, HistoryLimitIsPos DEF StackSound
<1> QED BY <1>2, <1>6 DEF Front, u

\* A page without a history has an empty one.
LEMMA HistoryOf ==
    ASSUME NEW b, NEW n, Sound(b, n), NEW id
    PROVE  HistorySound(History(b, id), id)
BY NoStack DEF Sound, History, HistorySound, EmptyHistory

\* A page gets another sound history.
LEMMA HistoryKept ==
    ASSUME NEW b, NEW n, Sound(b, n), NEW id \in PageIds(b), NEW h, HistorySound(h, id)
    PROVE  /\ Sound(WithHistory(b, id, h), n)
           /\ WithHistory(b, id, h).pages = b.pages
           /\ WithHistory(b, id, h).currentPage = b.currentPage
<1> DEFINE hs == [q \in DOMAIN b.histories \cup {id} |-> IF q = id THEN h ELSE b.histories[q]]
           c == [b EXCEPT !.histories = hs]
<1>1. b = [f \in Fields |-> b[f]]
  BY DEF Sound, IsBoard
<1>2. \A q \in DOMAIN hs : q \in PageIds(b) /\ HistorySound(hs[q], q)
  BY DEF Sound
<1> HIDE DEF hs
<1>3. IsBoard(c) /\ c.pages = b.pages /\ c.currentPage = b.currentPage /\ c.histories = hs
  BY <1>1 DEF IsBoard, Fields
<1> HIDE DEF c
<1>4. Sound(c, n)
  BY <1>2, <1>3 DEF Sound, PageIds
<1>5. c = WithHistory(b, id, h)
  BY DEF c, hs, WithHistory
<1> QED BY <1>3, <1>4, <1>5

\* A snapshot of the page shown goes into the history of this page.
LEMMA SnapshotSound ==
    ASSUME NEW b, NEW n, Sound(b, n)
    PROVE  Sound(PushSnapshot(b), n)
<1> DEFINE p == CurrentPage(b)
           h == [undo |-> PushBack(History(b, p.pageId).undo, p), redo |-> <<>>]
<1>1. p.pageId \in PageIds(b) /\ IsPage(p)
  BY DEF Sound, PagesSound, PageIds, CurrentPage
<1>2. HistorySound(h, p.pageId)
  <2>1. StackSound(History(b, p.pageId).undo, p.pageId)
    BY HistoryOf DEF HistorySound
  <2>2. StackSound(PushBack(History(b, p.pageId).undo, p), p.pageId)
    BY <1>1, <2>1, PushBackSound
  <2>3. h.undo = PushBack(History(b, p.pageId).undo, p) /\ h.redo = <<>>
    OBVIOUS
  <2> QED BY <2>2, <2>3, NoStack DEF HistorySound
<1> HIDE DEF h, p
<1>3. Sound(WithHistory(b, p.pageId, h), n)
  BY <1>1, <1>2, HistoryKept
<1> QED BY <1>3 DEF PushSnapshot, p, h

-----------------------------------------------------------------------------
(* The pages.                                                              *)
LEMMA ShowSound ==
    ASSUME NEW b, NEW n, IsBoard(b), PagesSound(b.pages, n), NEW i \in DOMAIN b.pages,
           \A q \in DOMAIN b.histories : q \in PageIds(b) /\ HistorySound(b.histories[q], q)
    PROVE  Sound(Show(b, i), n)
<1> DEFINE c == Show(b, i)
<1>1. b = [f \in Fields |-> b[f]]
  BY DEF IsBoard
<1>2. IsBoard(c) /\ c.pages = b.pages /\ c.currentPage = i /\ c.histories = b.histories
  BY <1>1 DEF IsBoard, Fields, Show, ResetTransientState
<1> HIDE DEF c
<1>3. Sound(c, n)
  BY <1>2 DEF Sound, PageIds
<1> QED BY <1>3 DEF c

\* What a switch of pages drops is no page and no history.
LEMMA ResetSound == ASSUME NEW b, NEW n, Sound(b, n) PROVE Sound(ResetTransientState(b), n)
<1> DEFINE c == ResetTransientState(b)
<1>1. b = [f \in Fields |-> b[f]]
  BY DEF Sound, IsBoard
<1>2. IsBoard(c) /\ c.pages = b.pages /\ c.currentPage = b.currentPage /\ c.histories = b.histories
  BY <1>1 DEF IsBoard, Fields, ResetTransientState
<1> HIDE DEF c
<1>3. Sound(c, n)
  BY <1>2, SameSound
<1> QED BY <1>3 DEF c

(* The page of an id is found, since no other page has it.                 *)
LEMMA PageFound ==
    ASSUME NEW b, NEW n, Sound(b, n), NEW id \in PageIds(b)
    PROVE  IndexOf(b, id) \in DOMAIN b.pages /\ b.pages[IndexOf(b, id)].pageId = id
<1> DEFINE I == {i \in 1 .. Len(b.pages) : b.pages[i].pageId = id}
<1>1. IsList(b.pages)
  BY DEF Sound, PagesSound
<1>2. DOMAIN b.pages = 1 .. Len(b.pages) /\ Len(b.pages) \in Nat
  BY <1>1, AppendList
<1>3. PICK k \in DOMAIN b.pages : b.pages[k].pageId = id
  BY DEF PageIds
<1>4. I = {k}
  BY <1>2, <1>3 DEF Sound, PagesSound
<1>5. Min({k}) = k
  <2>1. k \in Int
    BY <1>2, <1>3
  <2> QED BY <2>1 DEF Min
<1>6. IndexOf(b, id) = k
  <2>1. IndexOf(b, id) = IF I # {} THEN Min(I) ELSE 0
    BY DEF IndexOf, SelectInSeq
  <2> HIDE DEF I
  <2> QED BY <2>1, <1>4, <1>5
<1> QED BY <1>3, <1>6

(* The page shown goes back to an earlier state of itself.                 *)
LEMMA PageReplaced ==
    ASSUME NEW b, NEW n, Sound(b, n), NEW p, IsPage(p), p.pageId = CurrentPage(b).pageId,
           NEW h, HistorySound(h, p.pageId)
    PROVE  Sound([WithHistory(b, p.pageId, h) EXCEPT !.pages[b.currentPage] = p], n)
<1> DEFINE w == WithHistory(b, p.pageId, h)
           c == [w EXCEPT !.pages[b.currentPage] = p]
<1>1. p.pageId \in PageIds(b)
  BY DEF Sound, PageIds, CurrentPage
<1>2. Sound(w, n) /\ w.pages = b.pages /\ w.currentPage = b.currentPage
  BY <1>1, HistoryKept
<1> HIDE DEF w
<1>3. w = [f \in Fields |-> w[f]]
  BY <1>2 DEF Sound, IsBoard
<1>4. /\ IsBoard(c) /\ c.currentPage = b.currentPage /\ c.histories = w.histories
      /\ c.pages = [b.pages EXCEPT ![b.currentPage] = p]
  BY <1>2, <1>3 DEF IsBoard, Fields
<1> HIDE DEF c
<1>5. IsList(b.pages) /\ b.currentPage \in DOMAIN b.pages
  BY DEF Sound, PagesSound
<1>6. b.pages \in Seq({b.pages[i] : i \in DOMAIN b.pages} \cup {p}) /\ b.currentPage \in 1 .. Len(b.pages)
  <2>1. b.pages \in Seq({b.pages[i] : i \in DOMAIN b.pages})
    BY <1>5 DEF IsList
  <2> QED BY <2>1, <1>5, SeqMonotonic
<1>7. c.pages \in Seq({b.pages[i] : i \in DOMAIN b.pages} \cup {p}) /\ DOMAIN c.pages = DOMAIN b.pages
  BY <1>4, <1>6, ExceptSeq
<1>8. IsList(c.pages) /\ c.pages # <<>>
  BY <1>5, <1>6, <1>7, ListIs
<1>9. \A i \in DOMAIN c.pages : IsPage(c.pages[i]) /\ c.pages[i].pageId = b.pages[i].pageId
  BY <1>4, <1>7 DEF Sound, PagesSound, CurrentPage
<1>10. PageIds(c) = PageIds(w)
  BY <1>2, <1>7, <1>9 DEF PageIds
<1>11. Sound(c, n)
  BY <1>2, <1>4, <1>7, <1>8, <1>9, <1>10 DEF Sound, PagesSound
<1> QED BY <1>11 DEF c, w

\* Undo puts back a snapshot of the page shown.
LEMMA UndoSound ==
    ASSUME NEW b, NEW n, Sound(b, n), CanUndo(b)
    PROVE  Sound(Undo(b), n)
<1> DEFINE p == CurrentPage(b)
           h == History(b, p.pageId)
           g == [undo |-> Front(h.undo), redo |-> PushFront(p, h.redo)]
           l == Last(h.undo)
<1>1. StackSound(h.undo, p.pageId) /\ StackSound(h.redo, p.pageId) /\ h.undo # <<>>
  BY HistoryOf DEF HistorySound, CanUndo
<1>2. IsPage(p)
  BY DEF Sound, PagesSound, CurrentPage
<1>3. StackSound(Front(h.undo), p.pageId) /\ IsPage(l) /\ l.pageId = p.pageId
  BY <1>1, FrontSound
<1>4. StackSound(PushFront(p, h.redo), p.pageId)
  BY <1>1, <1>2, PushFrontSound
<1>5. HistorySound(g, p.pageId)
  BY <1>3, <1>4 DEF HistorySound
<1> HIDE DEF p, h, g, l
<1>6. Sound([WithHistory(b, p.pageId, g) EXCEPT !.pages[b.currentPage] = l], n)
  <2>1. l.pageId = CurrentPage(b).pageId
    BY <1>3 DEF p
  <2> QED BY <2>1, <1>3, <1>5, PageReplaced
<1>7. Sound(ResetTransientState([WithHistory(b, p.pageId, g) EXCEPT !.pages[b.currentPage] = l]), n)
  BY <1>6, ResetSound
<1> QED BY <1>7 DEF Undo, p, h, g, l

\* So does Redo.
LEMMA RedoSound ==
    ASSUME NEW b, NEW n, Sound(b, n), CanRedo(b)
    PROVE  Sound(Redo(b), n)
<1> DEFINE p == CurrentPage(b)
           h == History(b, p.pageId)
           g == [undo |-> PushBack(h.undo, p), redo |-> Tail(h.redo)]
           l == Head(h.redo)
<1>1. StackSound(h.undo, p.pageId) /\ StackSound(h.redo, p.pageId) /\ h.redo # <<>>
  BY HistoryOf DEF HistorySound, CanRedo
<1>2. IsPage(p)
  BY DEF Sound, PagesSound, CurrentPage
<1>3. StackSound(Tail(h.redo), p.pageId) /\ IsPage(l) /\ l.pageId = p.pageId
  BY <1>1, TailSound
<1>4. StackSound(PushBack(h.undo, p), p.pageId)
  BY <1>1, <1>2, PushBackSound
<1>5. HistorySound(g, p.pageId)
  BY <1>3, <1>4 DEF HistorySound
<1> HIDE DEF p, h, g, l
<1>6. Sound([WithHistory(b, p.pageId, g) EXCEPT !.pages[b.currentPage] = l], n)
  <2>1. l.pageId = CurrentPage(b).pageId
    BY <1>3 DEF p
  <2> QED BY <2>1, <1>3, <1>5, PageReplaced
<1>7. Sound(ResetTransientState([WithHistory(b, p.pageId, g) EXCEPT !.pages[b.currentPage] = l]), n)
  BY <1>6, ResetSound
<1> QED BY <1>7 DEF Redo, p, h, g, l

(* A page with an id of its own comes between the others.                  *)
LEMMA InsertList ==
    ASSUME NEW s, IsList(s), NEW i \in 1 .. Len(s) + 1, NEW e
    PROVE  /\ IsList(InsertAt(s, i, e)) /\ DOMAIN s = 1 .. Len(s) /\ Len(s) \in Nat
           /\ DOMAIN InsertAt(s, i, e) = 1 .. Len(s) + 1
           /\ \A j \in 1 .. Len(s) + 1 :
                 InsertAt(s, i, e)[j] = IF j < i THEN s[j] ELSE IF j = i THEN e ELSE s[j - 1]
<1> DEFINE u == SubSeq(s, 1, i - 1)
           v == u \o <<e>>
           w == SubSeq(s, i, Len(s))
<1>1. Len(s) \in Nat /\ DOMAIN s = 1 .. Len(s)
  BY AppendList
<1>2. i \in Nat \ {0} /\ i - 1 \in Nat /\ i - 1 <= Len(s) /\ Len(s) <= Len(s)
  BY <1>1
<1>3. IsList(u) /\ Len(u) = i - 1 /\ \A j \in 1 .. i - 1 : u[j] = s[j]
  <2>1. /\ IsList(u) /\ Len(u) = IF 1 <= i - 1 THEN (i - 1) - 1 + 1 ELSE 0
        /\ \A j \in 1 .. Len(u) : u[j] = s[1 + j - 1]
    BY <1>2, PartList
  <2> HIDE DEF u
  <2>2. Len(u) = i - 1
    BY <1>2, <2>1
  <2>3. \A j \in 1 .. i - 1 : 1 + j - 1 = j
    BY <1>2
  <2> QED BY <2>1, <2>2, <2>3
<1>4. IsList(w) /\ Len(w) = Len(s) - i + 1 /\ \A j \in 1 .. Len(w) : w[j] = s[i + j - 1]
  <2>1. /\ IsList(w) /\ Len(w) = IF i <= Len(s) THEN Len(s) - i + 1 ELSE 0
        /\ \A j \in 1 .. Len(w) : w[j] = s[i + j - 1]
    BY <1>1, <1>2, PartList
  <2> HIDE DEF w
  <2>2. Len(w) = Len(s) - i + 1
    BY <1>1, <1>2, <2>1
  <2> QED BY <2>1, <2>2
<1> HIDE DEF u, w
<1>5. IsList(v) /\ Len(v) = i /\ (\A j \in 1 .. i - 1 : v[j] = s[j]) /\ v[i] = e
  <2>1. IsList(<<e>>) /\ Len(<<e>>) = 1 /\ <<e>>[1] = e
    BY OneList
  <2>2. /\ IsList(v) /\ Len(v) = Len(u) + 1
        /\ \A j \in 1 .. Len(u) : v[j] = u[j]
        /\ \A j \in 1 .. 1 : v[Len(u) + j] = <<e>>[j]
    <3>1. IsList(u) /\ IsList(<<e>>)
      BY <1>3, <2>1
    <3>2. \A j \in 1 .. Len(<<e>>) : (u \o <<e>>)[Len(u) + j] = <<e>>[j]
      BY <3>1, ConcatList
    <3> QED BY <2>1, <3>1, <3>2, ConcatList
  <2> HIDE DEF v
  <2>3. v[Len(u) + 1] = e
    BY <2>1, <2>2
  <2>4. Len(u) + 1 = i
    BY <1>2, <1>3
  <2> QED BY <1>2, <1>3, <2>2, <2>3, <2>4
<1> HIDE DEF v
<1> DEFINE t == v \o w
<1>6. /\ IsList(t) /\ DOMAIN t = 1 .. Len(v) + Len(w)
      /\ \A j \in 1 .. Len(v) : t[j] = v[j]
      /\ \A j \in 1 .. Len(w) : t[Len(v) + j] = w[j]
  <2>1. IsList(v) /\ IsList(w)
    BY <1>4, <1>5
  <2> QED BY <2>1, ConcatList
<1> HIDE DEF t
<1>7. Len(v) + Len(w) = Len(s) + 1
  BY <1>1, <1>2, <1>4, <1>5
<1>8. ASSUME NEW j \in 1 .. Len(s) + 1
      PROVE  t[j] = IF j < i THEN s[j] ELSE IF j = i THEN e ELSE s[j - 1]
  <2>1. CASE j < i
    <3>1. j \in 1 .. i - 1 /\ j \in 1 .. Len(v)
      BY <1>1, <1>2, <1>5, <2>1
    <3> QED BY <1>5, <1>6, <2>1, <3>1
  <2>2. CASE j = i
    <3>1. j \in 1 .. Len(v) /\ ~(j < i)
      BY <1>1, <1>2, <1>5, <2>2
    <3> QED BY <1>5, <1>6, <2>2, <3>1
  <2>3. CASE j > i
    <3>1. j - i \in 1 .. Len(w) /\ Len(v) + (j - i) = j /\ i + (j - i) - 1 = j - 1 /\ ~(j < i) /\ j # i
      BY <1>1, <1>2, <1>4, <1>5, <2>3
    <3>2. t[j] = w[j - i]
      BY <1>6, <3>1
    <3>3. w[j - i] = s[j - 1]
      BY <1>4, <3>1
    <3> QED BY <3>1, <3>2, <3>3
  <2> QED BY <1>1, <1>2, <2>1, <2>2, <2>3
<1> QED BY <1>1, <1>6, <1>7, <1>8 DEF InsertAt, t, u, v, w

\* A new page, with an id no other has.
LEMMA InsertSound ==
    ASSUME NEW b, NEW n, Sound(b, n), NEW i \in 1 .. Len(b.pages) + 1,
           NEW p, IsPage(p), p.pageId \in 1 .. n - 1, p.pageId \notin PageIds(b)
    PROVE  Sound(InsertPage(b, i, p), n)
<1> DEFINE ps == InsertAt(b.pages, i, p)
           c == [b EXCEPT !.pages = ps]
           old(j) == IF j < i THEN j ELSE j - 1
<1>1. IsList(b.pages)
  BY DEF Sound, PagesSound
<1>2. /\ IsList(ps) /\ DOMAIN b.pages = 1 .. Len(b.pages) /\ Len(b.pages) \in Nat
      /\ DOMAIN ps = 1 .. Len(b.pages) + 1
      /\ \A j \in 1 .. Len(b.pages) + 1 :
            ps[j] = IF j < i THEN b.pages[j] ELSE IF j = i THEN p ELSE b.pages[j - 1]
  BY <1>1, InsertList
<1> HIDE DEF ps
<1>3. \A j \in DOMAIN ps : j # i => old(j) \in DOMAIN b.pages /\ ps[j] = b.pages[old(j)]
  BY <1>2
<1>4. ps[i] = p /\ i \in DOMAIN ps
  BY <1>2
<1>5. \A j, k \in DOMAIN ps : j # i /\ k # i /\ old(j) = old(k) => j = k
  BY <1>2
<1>6. \A j \in DOMAIN ps : IsPage(ps[j]) /\ ps[j].pageId \in 1 .. n - 1
  BY <1>3, <1>4 DEF Sound, PagesSound
<1>7. \A j \in DOMAIN ps : j # i => ps[j].pageId \in PageIds(b)
  BY <1>3 DEF PageIds
<1>8. \A j, k \in DOMAIN ps : ps[j].pageId = ps[k].pageId => j = k
  <2> SUFFICES ASSUME NEW j \in DOMAIN ps, NEW k \in DOMAIN ps, ps[j].pageId = ps[k].pageId
               PROVE  j = k
    OBVIOUS
  <2>1. CASE j = i \/ k = i
    BY <1>4, <1>7, <2>1
  <2>2. CASE j # i /\ k # i
    <3>1. old(j) = old(k)
      BY <1>3, <2>2 DEF Sound, PagesSound
    <3> QED BY <1>5, <2>2, <3>1
  <2> QED BY <2>1, <2>2
<1>9. ps # <<>>
  BY <1>4
<1>10. b = [f \in Fields |-> b[f]]
  BY DEF Sound, IsBoard
<1>11. IsBoard(c) /\ c.pages = ps /\ c.histories = b.histories
  BY <1>10 DEF IsBoard, Fields
<1>12. PageIds(b) \subseteq PageIds(c)
  <2> SUFFICES ASSUME NEW k \in DOMAIN b.pages PROVE b.pages[k].pageId \in PageIds(c)
    BY DEF PageIds
  <2> DEFINE j == IF k < i THEN k ELSE k + 1
  <2>1. j \in DOMAIN ps /\ ps[j] = b.pages[k]
    <3>1. k \in 1 .. Len(b.pages) /\ i \in 1 .. Len(b.pages) + 1 /\ Len(b.pages) \in Nat
      BY <1>2
    <3>2. j \in 1 .. Len(b.pages) + 1 /\ j # i /\ (j < i => j = k) /\ (~(j < i) => j - 1 = k)
      BY <3>1
    <3> HIDE DEF j
    <3>3. ps[j] = IF j < i THEN b.pages[j] ELSE IF j = i THEN p ELSE b.pages[j - 1]
      BY <1>2, <3>2
    <3> QED BY <1>2, <3>2, <3>3
  <2> QED BY <1>11, <2>1 DEF PageIds
<1> HIDE DEF c
<1>13. PagesSound(c.pages, n)
  BY <1>2, <1>6, <1>8, <1>9, <1>11 DEF PagesSound
<1>14. \A q \in DOMAIN c.histories : q \in PageIds(c) /\ HistorySound(c.histories[q], q)
  BY <1>11, <1>12 DEF Sound
<1>15. Sound(Show(c, i), n)
  BY <1>4, <1>11, <1>13, <1>14, ShowSound
<1> QED BY <1>15 DEF InsertPage, c, ps

\* RemoveAt, element by element.
LEMMA RemoveList ==
    ASSUME NEW s, IsList(s), NEW i \in DOMAIN s
    PROVE  /\ IsList(RemoveAt(s, i)) /\ DOMAIN s = 1 .. Len(s) /\ Len(s) \in Nat \ {0}
           /\ DOMAIN RemoveAt(s, i) = 1 .. Len(s) - 1 /\ Len(RemoveAt(s, i)) = Len(s) - 1
           /\ \A j \in 1 .. Len(s) - 1 : RemoveAt(s, i)[j] = IF j < i THEN s[j] ELSE s[j + 1]
<1> DEFINE u == SubSeq(s, 1, i - 1)
           w == SubSeq(s, i + 1, Len(s))
           t == u \o w
<1>1. Len(s) \in Nat /\ DOMAIN s = 1 .. Len(s)
  BY AppendList
<1>2. i \in 1 .. Len(s) /\ i - 1 \in Nat /\ i - 1 <= Len(s) /\ i + 1 \in Nat \ {0} /\ Len(s) <= Len(s)
      /\ Len(s) \in Nat \ {0}
  BY <1>1
<1>3. IsList(u) /\ Len(u) = i - 1 /\ \A j \in 1 .. i - 1 : u[j] = s[j]
  <2>1. /\ IsList(u) /\ Len(u) = IF 1 <= i - 1 THEN (i - 1) - 1 + 1 ELSE 0
        /\ \A j \in 1 .. Len(u) : u[j] = s[1 + j - 1]
    BY <1>2, PartList
  <2> HIDE DEF u
  <2>2. Len(u) = i - 1
    BY <1>2, <2>1
  <2>3. \A j \in 1 .. i - 1 : 1 + j - 1 = j
    BY <1>2
  <2> QED BY <2>1, <2>2, <2>3
<1>4. IsList(w) /\ Len(w) = Len(s) - i /\ \A j \in 1 .. Len(w) : w[j] = s[i + 1 + j - 1]
  <2>1. /\ IsList(w) /\ Len(w) = IF i + 1 <= Len(s) THEN Len(s) - (i + 1) + 1 ELSE 0
        /\ \A j \in 1 .. Len(w) : w[j] = s[(i + 1) + j - 1]
    <3>1. i + 1 \in Nat \ {0} /\ Len(s) \in Nat /\ Len(s) <= Len(s)
      BY <1>2
    <3> QED BY <3>1, PartList
  <2> HIDE DEF w
  <2>2. Len(w) = Len(s) - i
    BY <1>1, <1>2, <2>1
  <2> QED BY <2>1, <2>2
<1> HIDE DEF u, w
<1>5. /\ IsList(t) /\ DOMAIN t = 1 .. Len(u) + Len(w) /\ Len(t) = Len(u) + Len(w)
      /\ \A j \in 1 .. Len(u) : t[j] = u[j]
      /\ \A j \in 1 .. Len(w) : t[Len(u) + j] = w[j]
  <2>1. IsList(u) /\ IsList(w)
    BY <1>3, <1>4
  <2>2. \A j \in 1 .. Len(w) : (u \o w)[Len(u) + j] = w[j]
    BY <2>1, ConcatList
  <2>3. \A j \in 1 .. Len(u) : (u \o w)[j] = u[j]
    BY <2>1, ConcatList
  <2> QED BY <2>1, <2>2, <2>3, ConcatList
<1> HIDE DEF t
<1>6. Len(u) + Len(w) = Len(s) - 1
  BY <1>1, <1>2, <1>3, <1>4
<1>7. ASSUME NEW j \in 1 .. Len(s) - 1
      PROVE  t[j] = IF j < i THEN s[j] ELSE s[j + 1]
  <2>1. CASE j < i
    <3>1. j \in 1 .. i - 1 /\ j \in 1 .. Len(u)
      BY <1>1, <1>2, <1>3, <2>1
    <3> QED BY <1>3, <1>5, <2>1, <3>1
  <2>2. CASE ~(j < i)
    <3> DEFINE k == j - (i - 1)
    <3>1. k \in 1 .. Len(w) /\ Len(u) + k = j /\ i + 1 + k - 1 = j + 1
      <4>1. j \in 1 .. Len(s) - 1 /\ Len(s) \in Nat /\ i \in 1 .. Len(s) /\ j >= i
        BY <1>2, <2>2
      <4>2. Len(u) = i - 1 /\ Len(w) = Len(s) - i
        BY <1>3, <1>4
      <4>3. k \in 1 .. Len(s) - i /\ (i - 1) + k = j /\ i + 1 + k - 1 = j + 1
        BY <4>1
      <4> QED BY <4>2, <4>3
    <3> HIDE DEF k
    <3>2. t[j] = w[k]
      BY <1>5, <3>1
    <3>3. w[k] = s[j + 1]
      BY <1>4, <3>1
    <3> QED BY <2>2, <3>2, <3>3
  <2> QED BY <2>1, <2>2
<1> QED BY <1>1, <1>2, <1>5, <1>6, <1>7 DEF RemoveAt, t, u, w

\* DeletePage takes the page with its history, and never the only one.
LEMMA DeleteSound ==
    ASSUME NEW b, NEW n, Sound(b, n), NEW id, CanDelete(b, id)
    PROVE  Sound(DeletePage(b, id), n)
<1> DEFINE x == IndexOf(b, id)
           ps == RemoveAt(b.pages, x)
           hs == [q \in DOMAIN b.histories \ {id} |-> b.histories[q]]
           c == [b EXCEPT !.pages = ps, !.histories = hs]
           i == IF b.currentPage > Len(ps) THEN Len(ps) ELSE b.currentPage
           old(j) == IF j < x THEN j ELSE j + 1
<1>1. IsList(b.pages) /\ x \in DOMAIN b.pages /\ b.pages[x].pageId = id /\ Len(b.pages) > 1
  BY PageFound DEF Sound, PagesSound, CanDelete
<1> HIDE DEF x
<1>2. /\ IsList(ps) /\ DOMAIN b.pages = 1 .. Len(b.pages) /\ Len(b.pages) \in Nat
      /\ DOMAIN ps = 1 .. Len(b.pages) - 1 /\ Len(ps) = Len(b.pages) - 1
      /\ \A j \in 1 .. Len(b.pages) - 1 : ps[j] = IF j < x THEN b.pages[j] ELSE b.pages[j + 1]
  BY <1>1, RemoveList
<1> HIDE DEF ps
<1>3. \A j \in DOMAIN ps : old(j) \in DOMAIN b.pages /\ ps[j] = b.pages[old(j)]
  <2> TAKE j \in DOMAIN ps
  <2>1. j \in 1 .. Len(b.pages) - 1 /\ x \in 1 .. Len(b.pages) /\ Len(b.pages) \in Nat
    BY <1>1, <1>2
  <2>2. old(j) \in 1 .. Len(b.pages)
    BY <2>1
  <2>3. ps[j] = IF j < x THEN b.pages[j] ELSE b.pages[j + 1]
    BY <1>2, <2>1
  <2> QED BY <1>2, <2>2, <2>3
<1>4. \A j, k \in DOMAIN ps : old(j) = old(k) => j = k
  BY <1>1, <1>2
<1>5. \A j \in DOMAIN ps : IsPage(ps[j]) /\ ps[j].pageId \in 1 .. n - 1
  BY <1>3 DEF Sound, PagesSound
<1>6. \A j, k \in DOMAIN ps : ps[j].pageId = ps[k].pageId => j = k
  BY <1>3, <1>4 DEF Sound, PagesSound
<1>7. b.currentPage \in DOMAIN b.pages
  BY DEF Sound
<1>8. i \in DOMAIN ps /\ ps # <<>>
  BY <1>1, <1>2, <1>7
<1>9. b = [f \in Fields |-> b[f]]
  BY DEF Sound, IsBoard
<1> HIDE DEF hs
<1>10. IsBoard(c) /\ c.pages = ps /\ c.histories = hs
  BY <1>9 DEF IsBoard, Fields
<1> HIDE DEF c, i
<1>11. ASSUME NEW q \in PageIds(b), q # id PROVE q \in PageIds(c)
  <2>1. PICK k \in DOMAIN b.pages : b.pages[k].pageId = q
    BY DEF PageIds
  <2> DEFINE j == IF k < x THEN k ELSE k - 1
  <2>2. k # x
    BY <1>1, <1>11, <2>1
  <2>3. j \in DOMAIN ps /\ ps[j] = b.pages[k]
    <3>1. x \in 1 .. Len(b.pages) /\ k \in 1 .. Len(b.pages) /\ Len(b.pages) \in Nat
      BY <1>1, <1>2
    <3>2. j \in 1 .. Len(b.pages) - 1
      BY <2>2, <3>1
    <3>3. old(j) = k
      BY <2>2, <3>1
    <3>4. j \in DOMAIN ps
      BY <1>2, <3>2
    <3> QED BY <1>3, <3>3, <3>4
  <2> QED BY <1>10, <2>1, <2>3 DEF PageIds
<1>12. \A q \in DOMAIN c.histories : q \in PageIds(c) /\ HistorySound(c.histories[q], q)
  BY <1>10, <1>11 DEF Sound, hs
<1>13. PagesSound(c.pages, n)
  BY <1>2, <1>5, <1>6, <1>8, <1>10 DEF PagesSound
<1>14. Sound(Show(c, i), n)
  BY <1>8, <1>10, <1>12, <1>13, ShowSound
<1>15. [b EXCEPT !.pages = ps, !.histories = [q \in DOMAIN b.histories \ {id} |-> b.histories[q]]] = c
  BY DEF c, hs
<1>16. DeletePage(b, id) = Show([b EXCEPT !.pages = ps,
                                        !.histories = [q \in DOMAIN @ \ {id} |-> b.histories[q]]], i)
  BY DEF DeletePage, ps, x, i
<1> QED BY <1>14, <1>15, <1>16

-----------------------------------------------------------------------------
(* The operations.                                                         *)
LEMMA OtherFields ==
    ASSUME NEW b, NEW n, Sound(b, n), NEW v
    PROVE  /\ Sound([b EXCEPT !.strokes = v], n) /\ Sound([b EXCEPT !.batchSuppress = v], n)
           /\ Sound([b EXCEPT !.eraserRemoved = v], n) /\ Sound([b EXCEPT !.eraserAdded = v], n)
<1>1. b = [f \in Fields |-> b[f]]
  BY DEF Sound, IsBoard
<1>2. ASSUME NEW g \in {"strokes", "batchSuppress", "eraserRemoved", "eraserAdded"}
      PROVE  Sound([b EXCEPT ![g] = v], n)
  <2> DEFINE c == [b EXCEPT ![g] = v]
  <2>1. c = [f \in Fields |-> IF f = g THEN v ELSE b[f]]
    BY <1>1 DEF Fields
  <2>2. IsBoard(c)
    BY <2>1 DEF IsBoard
  <2>3. c.pages = b.pages /\ c.currentPage = b.currentPage /\ c.histories = b.histories
    BY <2>1 DEF Fields
  <2> HIDE DEF c
  <2>4. Sound(c, n)
    BY <2>2, <2>3, SameSound
  <2> QED BY <2>4 DEF c
<1> QED BY <1>2

\* A page is a page.
LEMMA NewPage ==
    ASSUME NEW id, NEW es
    PROVE  IsPage(Page(id, es)) /\ Page(id, es).pageId = id
BY DEF IsPage, Page

\* A pass of the eraser and its end.
LEMMA EraserKeeps ==
    ASSUME NEW b, NEW n, Sound(b, n), NEW pass
    PROVE  Sound(EraserMove(b, pass), n) /\ Sound(EraserEnd(b, pass), n)
<1> DEFINE c == WithElements(b, Erased(Elements(b), pass))
           d == [c EXCEPT !.eraserRemoved = c.eraserRemoved \cup DOMAIN pass]
           e == [d EXCEPT !.eraserAdded = c.eraserAdded \o Fragments(Elements(b), pass)]
<1>1. Sound(c, n)
  BY ElementsSound
<1> HIDE DEF c
<1>2. c = [f \in Fields |-> c[f]]
  BY <1>1 DEF Sound, IsBoard
<1>3. Sound(d, n) /\ Sound(e, n)
  BY <1>1, OtherFields
<1>4. EraserMove(b, pass) = e
  <2>1. e = [c EXCEPT !.eraserRemoved = c.eraserRemoved \cup DOMAIN pass,
                      !.eraserAdded = c.eraserAdded \o Fragments(Elements(b), pass)]
    OBVIOUS
  <2>2. EraserMove(b, pass) = [c EXCEPT !.eraserRemoved = @ \cup DOMAIN pass,
                                        !.eraserAdded = @ \o Fragments(Elements(b), pass)]
    BY DEF EraserMove, c
  <2>3. "eraserRemoved" \in DOMAIN c /\ "eraserAdded" \in DOMAIN c
    BY <1>2 DEF Fields
  <2> QED BY <2>1, <2>2, <2>3
<1> HIDE DEF d, e
<1>5. Sound([[e EXCEPT !.eraserRemoved = {}] EXCEPT !.eraserAdded = <<>>], n)
  BY <1>3, OtherFields
<1>6. EraserEnd(b, pass) = [[e EXCEPT !.eraserRemoved = {}] EXCEPT !.eraserAdded = <<>>]
  BY <1>4 DEF EraserEnd
<1> QED BY <1>3, <1>4, <1>5, <1>6

\* Strokes being drawn.
LEMMA StrokeKeeps ==
    ASSUME NEW b, NEW n, Sound(b, n), NEW key, NEW id
    PROVE  Sound(Unfinished(b, key, id), n) /\ Sound(Finished(b, key), n)
<1>1. Sound(Unfinished(b, key, id), n)
  <2>1. Sound([b EXCEPT !.strokes = (b.strokes \ StrokesAt(b, key)) \cup {[key |-> key, id |-> id]}], n)
    BY OtherFields
  <2> QED BY <2>1 DEF Unfinished
<1>2. Sound(Finished(b, key), n)
  <2> DEFINE s == CHOOSE s \in StrokesAt(b, key) : TRUE
             c == [b EXCEPT !.strokes = b.strokes \ {s}]
  <2>1. Sound(c, n)
    BY OtherFields
  <2> HIDE DEF s, c
  <2>2. Sound(AppendElement(c, Element(s.id, TRUE)), n)
    BY <2>1, ElementsSound DEF AppendElement
  <2> QED BY <2>2 DEF Finished, c, s
<1> QED BY <1>1, <1>2

\* CreatePage and SelectPage.
LEMMA PageKeeps ==
    ASSUME NEW b, NEW n \in Nat, Sound(b, n), NEW id
    PROVE  /\ id \in 1 .. n - 1 /\ id \notin PageIds(b) => Sound(CreatePage(b, id), n)
           /\ id \in PageIds(b) => Sound(SelectPage(b, id), n)
<1>1. IsList(b.pages) /\ IsBoard(b) /\ PagesSound(b.pages, n)
  BY DEF Sound, PagesSound
<1>2. DOMAIN b.pages = 1 .. Len(b.pages) /\ Len(b.pages) \in Nat
  BY <1>1, AppendList
<1>3. ASSUME id \in 1 .. n - 1, id \notin PageIds(b) PROVE Sound(CreatePage(b, id), n)
  <2>1. b.currentPage + 1 \in 1 .. Len(b.pages) + 1
    BY <1>2 DEF Sound
  <2> QED BY <1>3, <2>1, NewPage, InsertSound DEF CreatePage
<1>4. ASSUME id \in PageIds(b) PROVE Sound(SelectPage(b, id), n)
  <2>1. IndexOf(b, id) \in DOMAIN b.pages
    BY <1>4, PageFound
  <2>2. \A q \in DOMAIN b.histories : q \in PageIds(b) /\ HistorySound(b.histories[q], q)
    BY DEF Sound
  <2>3. Sound(Show(b, IndexOf(b, id)), n)
    BY <1>1, <2>1, <2>2, ShowSound
  <2> QED BY <2>3 DEF SelectPage
<1> QED BY <1>3, <1>4

\* CopyPage.
LEMMA CopyKeeps ==
    ASSUME NEW b, NEW n \in Nat, Sound(b, n), NEW id \in PageIds(b),
           NEW copy \in 1 .. n - 1, copy \notin PageIds(b)
    PROVE  Sound(CopyPage(b, id, copy), n)
<1>1. IsList(b.pages) /\ IndexOf(b, id) \in DOMAIN b.pages
  BY PageFound DEF Sound, PagesSound
<1>2. IndexOf(b, id) + 1 \in 1 .. Len(b.pages) + 1
  <2>1. DOMAIN b.pages = 1 .. Len(b.pages) /\ Len(b.pages) \in Nat
    BY <1>1, AppendList
  <2> QED BY <1>1, <2>1
<1>3. IsPage(Copy(b, id, copy)) /\ Copy(b, id, copy).pageId = copy
  BY NewPage DEF Copy
<1> QED BY <1>2, <1>3, InsertSound DEF CopyPage

(* What the operations of a user leave.                                    *)
LEMMA LocalKeeps ==
    ASSUME NEW b, NEW n \in Nat, Sound(b, n)
    PROVE  /\ \A s, id : Sound(PenBegin(b, s, id), n) /\ Sound(PenEnd(b, s), n)
           /\ \A pass : Sound(EraserBegin(b, pass), n) /\ Sound(EraseRegion(b, pass), n)
           /\ Sound(Clear(b), n) /\ \A e : Sound(AddElement(b, e), n)
           /\ \A ids : Sound(RemoveAll(PushSnapshot(b), ids), n)
           /\ \A id, x : Sound(UpdateElement(b, id, x), n) /\ Sound(UpdateQuietly(b, id, x), n)
           /\ Sound(BeginBatch(b), n) /\ Sound(EndBatch(b), n)
<1>1. Sound(PushSnapshot(b), n)
  BY SnapshotSound
<1>2. \A s, id : Sound(PenBegin(b, s, id), n) /\ Sound(PenEnd(b, s), n)
  BY <1>1, StrokeKeeps DEF PenBegin, PenEnd
<1>3. \A pass : Sound(EraserBegin(b, pass), n) /\ Sound(EraseRegion(b, pass), n)
  BY <1>1, EraserKeeps, ElementsSound DEF EraserBegin, EraseRegion
<1>4. Sound(Clear(b), n) /\ \A e : Sound(AddElement(b, e), n)
  BY <1>1, ElementsSound, ResetSound DEF Clear, AddElement, AppendElement
<1>5. \A ids : Sound(RemoveAll(PushSnapshot(b), ids), n)
  BY <1>1, ElementsSound DEF RemoveAll
<1>6. \A id, x : Sound(UpdateElement(b, id, x), n) /\ Sound(UpdateQuietly(b, id, x), n)
  BY <1>1, ElementsSound DEF UpdateElement, UpdateQuietly, Changed
<1>7. Sound(BeginBatch(b), n) /\ Sound(EndBatch(b), n)
  BY <1>1, OtherFields DEF BeginBatch, EndBatch
<1> QED BY <1>2, <1>3, <1>4, <1>5, <1>6, <1>7

-----------------------------------------------------------------------------
(* Commands on their way: known kinds, page ids handed out, sound pages.   *)
Types == {"StrokeBegin", "StrokeEnd", "StrokeUpdate", "EraserEnd", "ElementAdd", "ElementRemove",
          "ElementUpdate", "PageCreate", "PageSelect", "PageDelete", "PageClear", "Undo", "Redo",
          "FullSync"}
Fine(c, n) ==
    /\ c.type \in Types
    /\ c.type = "PageCreate" => c.id \in 1 .. n - 1
    /\ c.type = "FullSync" => PagesSound(c.pages, n)

\* The pages of the room take the place of all, and the histories go.
LEMMA SyncSound ==
    ASSUME NEW b, NEW n, Sound(b, n), NEW pages, PagesSound(pages, n)
    PROVE  Sound(ApplyFullSync(b, pages), n)
<1> DEFINE c == [b EXCEPT !.pages = pages, !.histories = <<>>]
<1>1. b = [f \in Fields |-> b[f]]
  BY DEF Sound, IsBoard
<1>2. IsBoard(c) /\ c.pages = pages /\ c.histories = <<>>
  BY <1>1 DEF IsBoard, Fields
<1>3. 1 \in DOMAIN pages
  <2>1. IsList(pages) /\ pages # <<>>
    BY DEF PagesSound
  <2> QED BY <2>1, TailList
<1> HIDE DEF c
<1>4. Sound(Show(c, 1), n)
  BY <1>2, <1>3, ShowSound
<1> QED BY <1>4 DEF ApplyFullSync, c

\* A remote command, whichever it is and whatever the board shows.
LEMMA ApplyKeeps ==
    ASSUME NEW b, NEW n \in Nat, Sound(b, n), NEW c, Fine(c, n)
    PROVE  Sound(Apply(b, c), n)
<1>1. Sound(PushSnapshot(b), n)
  BY SnapshotSound
<1>2. Sound(RemoteStrokeBegin(b, c.id), n) /\ Sound(RemoteStrokeEnd(b, c.id), n)
  BY <1>1, StrokeKeeps DEF RemoteStrokeBegin, RemoteStrokeEnd
<1>3. Sound(UpdateElement(b, c.id, c.content), n) /\ Sound(AddElement(b, c.element), n) /\ Sound(Clear(b), n)
  BY LocalKeeps
<1>4. Sound(RemoteEraserEnd(b, c.removed, c.added), n)
  BY <1>1, ElementsSound DEF RemoteEraserEnd
<1>5. Sound(RemoteRemove(b, c.id), n)
  BY <1>1, ElementsSound DEF RemoteRemove, RemoveElement
<1>6. Sound(RemoteUpdateElement(b, c.element), n)
  BY <1>1, ElementsSound DEF RemoteUpdateElement, RemoveElement, AppendElement
<1>7. c.type = "PageCreate" => Sound(RemoteCreatePage(b, c.id), n)
  BY PageKeeps DEF RemoteCreatePage, Fine
<1>8. Sound(RemoteSelectPage(b, c.id), n)
  BY PageKeeps DEF RemoteSelectPage
<1>9. Sound(RemoteDeletePage(b, c.id), n)
  BY DeleteSound DEF RemoteDeletePage
<1>10. Sound(RemoteUndo(b), n) /\ Sound(RemoteRedo(b), n)
  BY UndoSound, RedoSound DEF RemoteUndo, RemoteRedo
<1>11. c.type = "FullSync" => Sound(ApplyFullSync(b, c.pages), n)
  BY SyncSound DEF Fine
<1>12. c.type \in Types
  BY DEF Fine
<1> QED BY <1>2, <1>3, <1>4, <1>5, <1>6, <1>7, <1>8, <1>9, <1>10, <1>11, <1>12 DEF Apply, Types

-----------------------------------------------------------------------------
(* The room.                                                               *)
PerMember(f) == f = [m \in Members |-> f[m]]

Deliveries == {"MESSAGE", "REQUEST_DATA"}
Calls == {"SEND"} \cup Deliveries
Frames == {"JOIN", "BROADCAST", "UNICAST"}
Carried(task, kinds, n) ==
    /\ task.kind \in kinds
    /\ task.kind \in {"APPLY", "SEND", "MESSAGE", "BROADCAST", "UNICAST"} => Fine(task.cmd, n)
    /\ task.kind = "REQUEST_DATA" => task.from \in Members
Carrying(q, kinds, n) ==
    /\ PerMember(q)
    /\ \A m \in Members : IsList(q[m]) /\ \A i \in DOMAIN q[m] : Carried(q[m][i], kinds, n)

\* At most one SEND is among the calls, and only while there are commands to send.
SendsOnce(calls, cmds) ==
    \A i \in DOMAIN calls : calls[i].kind = "SEND" =>
        /\ cmds # <<>>
        /\ \A j \in DOMAIN calls : calls[j].kind = "SEND" => j = i

FineAll(cmds, n) == IsList(cmds) /\ \A i \in DOMAIN cmds : Fine(cmds[i], n)

IdType == nextId \in 1 .. MaxId + 1
ToolType == tool \in [Members -> [Sessions -> {"none", "pen", "eraser"}]]
LinkType == link \in [Members -> {"off", "connecting", "joined"}]
CallbackType == callback \in [Members -> BOOLEAN]
ServingType == serving \in [Members -> Members \cup {None}]
OrderType == order \in Seq(Members)
HistoryType ==
    /\ synced \in [Members -> BOOLEAN] /\ early \in [Members -> BOOLEAN]
    /\ torn \in BOOLEAN /\ crossed \in BOOLEAN
BoardsSound == PerMember(board) /\ \A m \in Members : Sound(board[m], nextId)
OutboxSound == PerMember(outbox) /\ \A m \in Members : FineAll(outbox[m], nextId)
QueuesSound ==
    /\ Carrying(dataQueue, Tasks, nextId) /\ Carrying(apiQueue, Calls, nextId)
    /\ Carrying(up, Frames, nextId) /\ Carrying(down, Deliveries, nextId)
SendsSound == \A m \in Members : SendsOnce(apiQueue[m], outbox[m])

Inv ==
    /\ IdType /\ ToolType /\ LinkType /\ CallbackType /\ ServingType
    /\ OrderType /\ HistoryType
    /\ BoardsSound /\ OutboxSound /\ QueuesSound /\ SendsSound

\* The invariant says what the runs check.
LEMMA InvMeans == Inv => TypeOK /\ HistoriesSound
<1> SUFFICES ASSUME Inv PROVE TypeOK /\ HistoriesSound
  OBVIOUS
<1>1. \A m \in Members : BoardSound(board[m])
  BY SoundMeans DEF Inv, BoardsSound
<1>2. HistoriesSound
  BY <1>1 DEF HistoriesSound
<1>3. \A m \in Members : board[m].currentPage \in DOMAIN board[m].pages
  BY DEF Inv, BoardsSound, Sound
<1>4. \A m \in Members : \A i \in DOMAIN dataQueue[m] : dataQueue[m][i].kind \in Tasks
  BY DEF Inv, QueuesSound, Carrying, Carried
<1>5. TypeOK
  BY <1>3, <1>4 DEF TypeOK, Inv, IdType, ToolType, LinkType, CallbackType, ServingType,
              OrderType, HistoryType
<1> QED BY <1>2, <1>5

(* What was fine stays fine when more ids are handed out.                  *)
LEMMA FineLasts ==
    ASSUME NEW c, NEW n \in Nat, NEW k \in Nat, n <= k, Fine(c, n)
    PROVE  Fine(c, k)
BY DEF Fine, PagesSound

\* So do queues of them.
LEMMA CarryingLasts ==
    ASSUME NEW q, NEW kinds, NEW n \in Nat, NEW k \in Nat, n <= k, Carrying(q, kinds, n)
    PROVE  Carrying(q, kinds, k)
BY FineLasts DEF Carrying, Carried

\* One more in the queue.
LEMMA QueueGrows ==
    ASSUME NEW q, NEW kinds, NEW n, Carrying(q, kinds, n), NEW m, NEW task, Carried(task, kinds, n)
    PROVE  Carrying([q EXCEPT ![m] = Append(@, task)], kinds, n)
<1> DEFINE r == [q EXCEPT ![m] = Append(q[m], task)]
<1>1. q = [k \in Members |-> q[k]] /\ DOMAIN q = Members
  BY DEF Carrying, PerMember
<1>2. r = [k \in Members |-> IF k = m THEN Append(q[m], task) ELSE q[k]]
  BY <1>1
<1>3. PerMember(r)
  BY <1>2 DEF PerMember
<1> HIDE DEF r
<1>4. ASSUME NEW k \in Members
      PROVE  IsList(r[k]) /\ \A i \in DOMAIN r[k] : Carried(r[k][i], kinds, n)
  <2>1. CASE k # m
    BY <1>2, <2>1 DEF Carrying
  <2>2. CASE k = m
    <3>1. IsList(q[m])
      BY <2>2 DEF Carrying
    <3>2. r[k] = Append(q[m], task)
      BY <1>2, <2>2
    <3>3. /\ IsList(r[k]) /\ DOMAIN r[k] = 1 .. Len(q[m]) + 1 /\ Len(q[m]) \in Nat
          /\ DOMAIN q[m] = 1 .. Len(q[m])
          /\ \A i \in 1 .. Len(q[m]) : r[k][i] = q[m][i]
          /\ r[k][Len(q[m]) + 1] = task
      BY <3>1, <3>2, AppendList
    <3>4. \A i \in DOMAIN q[m] : Carried(q[m][i], kinds, n)
      BY <2>2 DEF Carrying
    <3>5. \A i \in 1 .. Len(q[m]) + 1 : i \in 1 .. Len(q[m]) \/ i = Len(q[m]) + 1
      BY <3>3
    <3> QED BY <3>3, <3>4, <3>5
  <2> QED BY <2>1, <2>2
<1>5. Carrying(r, kinds, n)
  BY <1>3, <1>4 DEF Carrying
<1>6. r = [q EXCEPT ![m] = Append(@, task)]
  BY <1>1 DEF r
<1> QED BY <1>5, <1>6

\* The first of the queue is taken.
LEMMA QueueTaken ==
    ASSUME NEW q, NEW kinds, NEW n, Carrying(q, kinds, n), NEW m \in Members, q[m] # <<>>
    PROVE  /\ Carrying([q EXCEPT ![m] = Tail(@)], kinds, n)
           /\ Carried(Head(q[m]), kinds, n)
<1> DEFINE r == [q EXCEPT ![m] = Tail(q[m])]
<1>1. q = [k \in Members |-> q[k]] /\ DOMAIN q = Members
  BY DEF Carrying, PerMember
<1>2. r = [k \in Members |-> IF k = m THEN Tail(q[m]) ELSE q[k]]
  BY <1>1
<1>3. PerMember(r)
  BY <1>2 DEF PerMember
<1> HIDE DEF r
<1>4. IsList(q[m]) /\ \A i \in DOMAIN q[m] : Carried(q[m][i], kinds, n)
  BY DEF Carrying
<1>5. /\ IsList(Tail(q[m])) /\ DOMAIN Tail(q[m]) = 1 .. Len(q[m]) - 1
      /\ Len(q[m]) \in Nat \ {0} /\ DOMAIN q[m] = 1 .. Len(q[m]) /\ Head(q[m]) = q[m][1]
      /\ \A i \in DOMAIN Tail(q[m]) : Tail(q[m])[i] = q[m][i + 1]
  BY <1>4, TailList
<1>6. \A i \in DOMAIN Tail(q[m]) : Carried(Tail(q[m])[i], kinds, n)
  <2>1. \A i \in 1 .. Len(q[m]) - 1 : i + 1 \in 1 .. Len(q[m])
    BY <1>5
  <2> QED BY <1>4, <1>5, <2>1
<1>7. Carried(Head(q[m]), kinds, n)
  <2>1. 1 \in DOMAIN q[m]
    BY <1>5
  <2> QED BY <1>4, <1>5, <2>1
<1>8. \A k \in Members : IsList(r[k]) /\ \A i \in DOMAIN r[k] : Carried(r[k][i], kinds, n)
  BY <1>2, <1>5, <1>6 DEF Carrying
<1>9. Carrying(r, kinds, n)
  BY <1>3, <1>8 DEF Carrying
<1>10. r = [q EXCEPT ![m] = Tail(@)]
  BY DEF r
<1> QED BY <1>7, <1>9, <1>10

\* One fine command.
LEMMA OneFine == ASSUME NEW c, NEW n, Fine(c, n) PROVE FineAll(<<c>>, n)
<1>1. IsList(<<c>>) /\ Len(<<c>>) = 1 /\ <<c>>[1] = c
  BY OneList
<1> QED BY <1>1 DEF FineAll

\* No command.
LEMMA NoneFine == ASSUME NEW n PROVE FineAll(<<>>, n)
<1>1. IsList(<<>>)
  BY ListIs, EmptySeq
<1> QED BY <1>1 DEF FineAll

\* The first of fine commands, the second, and what remains.
LEMMA HeadFine ==
    ASSUME NEW cmds, NEW n, FineAll(cmds, n), cmds # <<>>
    PROVE  Fine(Head(cmds), n) /\ FineAll(Tail(cmds), n) /\ (Len(cmds) > 1 => Fine(cmds[2], n))
<1>1. IsList(cmds)
  BY DEF FineAll
<1>2. /\ IsList(Tail(cmds)) /\ DOMAIN Tail(cmds) = 1 .. Len(cmds) - 1
      /\ Len(cmds) \in Nat \ {0} /\ DOMAIN cmds = 1 .. Len(cmds) /\ Head(cmds) = cmds[1]
      /\ \A i \in DOMAIN Tail(cmds) : Tail(cmds)[i] = cmds[i + 1]
  BY <1>1, TailList
<1>3. 1 \in DOMAIN cmds /\ (Len(cmds) > 1 => 2 \in DOMAIN cmds)
      /\ \A i \in 1 .. Len(cmds) - 1 : i + 1 \in DOMAIN cmds
  BY <1>2
<1> QED BY <1>2, <1>3 DEF FineAll

(* One call more, or the first one taken.                                  *)
LEMMA SendAdded ==
    ASSUME NEW calls, IsList(calls), NEW cmds, NEW task,
           \/ SendsOnce(calls, cmds) /\ task.kind # "SEND"
           \/ SendsOnce(calls, <<>>) /\ cmds # <<>>
    PROVE  SendsOnce(Append(calls, task), cmds)
<1>1. /\ DOMAIN Append(calls, task) = 1 .. Len(calls) + 1 /\ Len(calls) \in Nat
      /\ DOMAIN calls = 1 .. Len(calls)
      /\ \A i \in 1 .. Len(calls) : Append(calls, task)[i] = calls[i]
      /\ Append(calls, task)[Len(calls) + 1] = task
  BY AppendList
<1>2. \A i \in 1 .. Len(calls) + 1 : i \in 1 .. Len(calls) \/ i = Len(calls) + 1
  BY <1>1
<1> DEFINE r == Append(calls, task)
<1>3. ASSUME NEW i \in DOMAIN r
      PROVE  (i \in DOMAIN calls /\ r[i] = calls[i]) \/ (i = Len(calls) + 1 /\ r[i] = task)
  <2>1. i \in 1 .. Len(calls) + 1
    BY <1>1
  <2>2. CASE i \in 1 .. Len(calls)
    BY <1>1, <2>2
  <2>3. CASE i = Len(calls) + 1
    BY <1>1, <2>3
  <2> QED BY <1>2, <2>1, <2>2, <2>3
<1> HIDE DEF r
<1>4. SendsOnce(r, cmds)
  BY <1>3 DEF SendsOnce
<1> QED BY <1>4 DEF r

\* The one call taken: if it was the SEND, none is left.
LEMMA SendTaken ==
    ASSUME NEW calls, IsList(calls), calls # <<>>, NEW cmds, SendsOnce(calls, cmds)
    PROVE  /\ SendsOnce(Tail(calls), cmds)
           /\ Head(calls).kind = "SEND" => cmds # <<>> /\ SendsOnce(Tail(calls), <<>>)
<1>1. /\ DOMAIN Tail(calls) = 1 .. Len(calls) - 1
      /\ Len(calls) \in Nat \ {0} /\ DOMAIN calls = 1 .. Len(calls) /\ Head(calls) = calls[1]
      /\ \A i \in DOMAIN Tail(calls) : Tail(calls)[i] = calls[i + 1]
  BY TailList
<1>2. 1 \in DOMAIN calls
  BY <1>1
<1>3. \A i \in DOMAIN Tail(calls) : i + 1 \in DOMAIN calls /\ i + 1 # 1
  BY <1>1
<1>4. \A i, j \in DOMAIN Tail(calls) : i + 1 = j + 1 => i = j
  BY <1>1
<1>5. SendsOnce(Tail(calls), cmds)
  BY <1>1, <1>3, <1>4 DEF SendsOnce
<1>6. Head(calls).kind = "SEND" => cmds # <<>> /\ SendsOnce(Tail(calls), <<>>)
  BY <1>1, <1>2, <1>3 DEF SendsOnce
<1> QED BY <1>5, <1>6

(* An operation whose board and commands are sound for the ids it spends.  *)
LEMMA OperateKeeps ==
    ASSUME Inv, NEW m \in Members, NEW b, NEW cmds, NEW used \in Nat, Operate(m, b, cmds, used),
           Sound(b, nextId + used), FineAll(cmds, nextId + used), ToolType'
    PROVE  Inv'
<1> DEFINE k == nextId + used
<1>1. nextId \in Nat /\ k \in Nat /\ nextId <= k /\ nextId' = k /\ k \in 1 .. MaxId + 1
  BY BoundsAreBounds DEF Inv, IdType, Operate
<1> HIDE DEF k
<1>2. IdType'
  BY <1>1 DEF IdType
<1>3. LinkType' /\ CallbackType' /\ ServingType' /\ OrderType'
  BY DEF Inv, LinkType, CallbackType, ServingType, OrderType, Operate, netVars
<1>4. HistoryType'
  BY DEF Inv, HistoryType, Operate
<1>5. BoardsSound'
  <2>1. board' = [board EXCEPT ![m] = b] /\ board = [n \in Members |-> board[n]]
    BY DEF Operate, Inv, BoardsSound, PerMember
  <2>2. \A n \in Members : Sound(board[n], k)
    BY <1>1, SoundLasts DEF Inv, BoardsSound
  <2>3. Sound(b, k)
    BY DEF k
  <2>4. \A n \in Members : Sound(board'[n], k)
    BY <2>1, <2>2, <2>3
  <2>5. board' = [n \in Members |-> board'[n]]
    BY <2>1
  <2> QED BY <1>1, <2>4, <2>5 DEF BoardsSound, PerMember
<1>6. FineAll(cmds, k) /\ FineAll(<<>>, k)
  BY NoneFine DEF k
<1>7. OutboxSound'
  <2>1. /\ outbox' = [outbox EXCEPT ![m] = IF callback[m] THEN cmds ELSE <<>>]
        /\ outbox = [n \in Members |-> outbox[n]]
    BY DEF Operate, Inv, OutboxSound, PerMember
  <2>2. \A n \in Members : FineAll(outbox[n], k)
    BY <1>1, FineLasts DEF Inv, OutboxSound, FineAll
  <2>3. \A n \in Members : FineAll(outbox'[n], k)
    BY <1>6, <2>1, <2>2
  <2>4. outbox' = [n \in Members |-> outbox'[n]]
    BY <2>1
  <2> QED BY <1>1, <2>3, <2>4 DEF OutboxSound, PerMember
<1>8. Carrying(dataQueue, Tasks, k) /\ Carrying(apiQueue, Calls, k)
      /\ Carrying(up, Frames, k) /\ Carrying(down, Deliveries, k)
  BY <1>1, CarryingLasts DEF Inv, QueuesSound
<1>9. Carrying(apiQueue', Calls, k)
  <2>1. CASE callback[m] /\ cmds # <<>>
    <3>1. Carried(Send(Head(cmds)), Calls, k)
      BY <1>6, <2>1, HeadFine DEF Carried, Calls, Send
    <3>2. apiQueue' = [apiQueue EXCEPT ![m] = Append(@, Send(Head(cmds)))]
      BY <2>1 DEF Operate
    <3> QED BY <1>8, <3>1, <3>2, QueueGrows
  <2>2. CASE ~(callback[m] /\ cmds # <<>>)
    BY <1>8, <2>2 DEF Operate
  <2> QED BY <2>1, <2>2
<1>10. UNCHANGED <<dataQueue, up, down>>
  BY DEF Operate, netVars
<1>11. Carrying(dataQueue', Tasks, nextId') /\ Carrying(apiQueue', Calls, nextId')
       /\ Carrying(up', Frames, nextId') /\ Carrying(down', Deliveries, nextId')
  BY <1>1, <1>8, <1>9, <1>10
<1>12. QueuesSound'
  BY <1>11 DEF QueuesSound
<1>13. SendsSound'
  <2>1. outbox' = [outbox EXCEPT ![m] = IF callback[m] THEN cmds ELSE <<>>]
        /\ outbox = [n \in Members |-> outbox[n]] /\ outbox[m] = <<>>
    BY DEF Operate, Inv, OutboxSound, PerMember, DataFree
  <2>2. \A n \in Members : SendsOnce(apiQueue[n], outbox[n]) /\ IsList(apiQueue[n])
    BY DEF Inv, SendsSound, QueuesSound, Carrying
  <2>3. CASE callback[m] /\ cmds # <<>>
    <3>1. apiQueue' = [apiQueue EXCEPT ![m] = Append(@, Send(Head(cmds)))]
      BY <2>3 DEF Operate
    <3>2. apiQueue = [n \in Members |-> apiQueue[n]]
      BY DEF Inv, QueuesSound, Carrying, PerMember
    <3>3. SendsOnce(Append(apiQueue[m], Send(Head(cmds))), cmds)
      BY <2>1, <2>2, <2>3, SendAdded
    <3>4. apiQueue'[m] = Append(apiQueue[m], Send(Head(cmds))) /\ outbox'[m] = cmds
          /\ \A n \in Members : n # m => apiQueue'[n] = apiQueue[n] /\ outbox'[n] = outbox[n]
      BY <2>1, <2>3, <3>1, <3>2
    <3> QED BY <2>2, <3>3, <3>4 DEF SendsSound
  <2>4. CASE ~(callback[m] /\ cmds # <<>>)
    <3>1. outbox' = outbox /\ apiQueue' = apiQueue
      BY <2>1, <2>4 DEF Operate
    <3> QED BY <2>2, <3>1 DEF SendsSound
  <2> QED BY <2>3, <2>4
<1> QED BY <1>2, <1>3, <1>4, <1>5, <1>7, <1>12, <1>13 DEF Inv

\* A function on 1 .. n is a list.
LEMMA MadeList ==
    ASSUME NEW n \in Nat, NEW s, s = [i \in 1 .. n |-> s[i]]
    PROVE  IsList(s) /\ DOMAIN s = 1 .. n /\ Len(s) = n
<1> DEFINE S == {s[i] : i \in DOMAIN s}
<1>1. DOMAIN s = 1 .. n
  OBVIOUS
<1>2. \A i \in 1 .. n : s[i] \in S
  BY <1>1
<1> HIDE DEF S
<1>3. s \in [1 .. n -> S]
  BY <1>2
<1>4. s \in Seq(S) /\ Len(s) = n
  BY <1>3
<1> QED BY <1>1, <1>4, ListIs

(* Ids handed out are below nextId: nextId is on no board.                 *)
LEMMA NextIsNew ==
    ASSUME Inv, NEW m \in Members
    PROVE  /\ nextId \in Nat \ {0} /\ Sound(board[m], nextId) /\ nextId \notin PageIds(board[m])
           /\ \A k \in Nat : Sound(board[m], nextId + k)
<1>1. nextId \in Nat \ {0} /\ Sound(board[m], nextId)
  BY BoundsAreBounds DEF Inv, IdType, BoardsSound
<1>2. nextId \notin PageIds(board[m])
  BY <1>1 DEF Sound, PagesSound, PageIds
<1>3. ASSUME NEW k \in Nat PROVE Sound(board[m], nextId + k)
  BY <1>1, SoundLasts
<1> QED BY <1>1, <1>2, <1>3

\* A session takes up a tool.
LEMMA UseTyped ==
    ASSUME Inv, NEW m \in Members, NEW s \in Sessions, NEW t \in {"none", "pen", "eraser"}, Use(m, s, t)
    PROVE  ToolType'
BY DEF Inv, ToolType, Use

\* Drawing.
LEMMA PenStep ==
    ASSUME Inv, NEW m \in Members, NEW s \in Sessions, DoPenBegin(m, s) \/ DoPenEnd(m, s)
    PROVE  Inv'
<1>1. CASE DoPenBegin(m, s)
  <2>1. ToolType'
    BY <1>1, UseTyped DEF DoPenBegin
  <2>2. Sound(PenBegin(board[m], s, nextId), nextId + 1)
    BY NextIsNew, LocalKeeps
  <2>3. FineAll(<<Command("StrokeBegin", nextId)>>, nextId + 1)
    <3>1. Fine(Command("StrokeBegin", nextId), nextId + 1)
      BY DEF Fine, Types, Command
    <3> QED BY <3>1, OneFine
  <2>4. Operate(m, PenBegin(board[m], s, nextId), <<Command("StrokeBegin", nextId)>>, 1)
    BY <1>1 DEF DoPenBegin
  <2> QED BY <2>1, <2>2, <2>3, <2>4, OperateKeeps
<1>2. CASE DoPenEnd(m, s)
  <2> DEFINE mine == StrokesAt(board[m], LocalKey(s))
  <2>1. ToolType'
    BY <1>2, UseTyped DEF DoPenEnd
  <2>2. Sound(board[m], nextId + 0) /\ Sound(PenEnd(board[m], s), nextId + 0) /\ nextId + 0 = nextId
    BY NextIsNew, LocalKeeps
  <2>3. CASE mine = {}
    <3>1. Operate(m, board[m], <<>>, 0)
      BY <1>2, <2>3 DEF DoPenEnd
    <3> QED BY <2>1, <2>2, <3>1, NoneFine, OperateKeeps
  <2>4. CASE mine # {}
    <3>1. PICK stroke \in mine : Operate(m, PenEnd(board[m], s), <<Command("StrokeEnd", stroke.id)>>, 0)
      BY <1>2, <2>4 DEF DoPenEnd
    <3>2. Fine(Command("StrokeEnd", stroke.id), nextId + 0)
      BY DEF Fine, Types, Command
    <3>3. FineAll(<<Command("StrokeEnd", stroke.id)>>, nextId + 0)
      BY <3>2, OneFine
    <3> QED BY <2>1, <2>2, <3>1, <3>3, OperateKeeps
  <2> QED BY <2>3, <2>4
<1> QED BY <1>1, <1>2

\* How many ids an operation uses.
LEMMA NewIdsAre == NewIds \subseteq Nat
BY DEF NewIds

\* Erasing by hand.
LEMMA EraserStep ==
    ASSUME Inv, NEW m \in Members, NEW s \in Sessions,
           DoEraserBegin(m, s) \/ DoEraserMove(m, s) \/ DoEraserEnd(m, s)
    PROVE  Inv'
<1>1. ASSUME NEW n \in NewIds PROVE n \in Nat /\ nextId + n \in Nat /\ Sound(board[m], nextId + n)
  BY NextIsNew, NewIdsAre
<1>2. ASSUME NEW removed, NEW added, NEW n PROVE FineAll(<<EraserCommand(removed, added)>>, n)
  <2>1. Fine(EraserCommand(removed, added), n)
    BY DEF Fine, Types, EraserCommand
  <2> QED BY <2>1, OneFine
<1>3. CASE DoEraserBegin(m, s)
  <2>1. PICK n, pass : n \in NewIds /\ Operate(m, EraserBegin(board[m], pass), <<>>, n)
    BY <1>3 DEF DoEraserBegin
  <2>2. ToolType'
    BY <1>3, UseTyped DEF DoEraserBegin
  <2>3. Sound(EraserBegin(board[m], pass), nextId + n)
    BY <1>1, <2>1, LocalKeeps
  <2> QED BY <1>1, <2>1, <2>2, <2>3, NoneFine, OperateKeeps
<1>4. CASE DoEraserMove(m, s)
  <2>1. PICK n, pass : n \in NewIds /\ Operate(m, EraserMove(board[m], pass), <<>>, n)
    BY <1>4 DEF DoEraserMove
  <2>2. ToolType'
    BY <1>4 DEF DoEraserMove, Inv, ToolType
  <2>3. Sound(EraserMove(board[m], pass), nextId + n)
    BY <1>1, <2>1, EraserKeeps
  <2> QED BY <1>1, <2>1, <2>2, <2>3, NoneFine, OperateKeeps
<1>5. CASE DoEraserEnd(m, s)
  <2>1. PICK n, pass : n \in NewIds /\
            Operate(m, EraserEnd(board[m], pass),
                    <<EraserCommand(EraserMove(board[m], pass).eraserRemoved,
                                    FlushedAdded(EraserMove(board[m], pass)))>>, n)
    BY <1>5 DEF DoEraserEnd
  <2>2. ToolType'
    BY <1>5, UseTyped DEF DoEraserEnd
  <2>3. Sound(EraserEnd(board[m], pass), nextId + n)
    BY <1>1, <2>1, EraserKeeps
  <2> QED BY <1>1, <1>2, <2>1, <2>2, <2>3, OperateKeeps
<1> QED BY <1>3, <1>4, <1>5

\* Erasing what is selected.
LEMMA RegionStep ==
    ASSUME Inv, NEW m \in Members, DoEraseRegion(m)
    PROVE  Inv'
<1>1. ASSUME NEW n \in NewIds PROVE n \in Nat /\ nextId + n \in Nat /\ Sound(board[m], nextId + n)
  BY NextIsNew, NewIdsAre
<1>2. PICK n, pass : n \in NewIds /\
          Operate(m, EraseRegion(board[m], pass),
                  <<EraserCommand(DOMAIN pass, Fragments(Elements(board[m]), pass))>>, n)
  BY DEF DoEraseRegion
<1>3. Fine(EraserCommand(DOMAIN pass, Fragments(Elements(board[m]), pass)), nextId + n)
  BY DEF Fine, Types, EraserCommand
<1>4. ToolType'
  BY DEF DoEraseRegion, Inv, ToolType
<1>5. Sound(EraseRegion(board[m], pass), nextId + n)
  BY <1>1, <1>2, LocalKeeps
<1> QED BY <1>1, <1>2, <1>3, <1>4, <1>5, OneFine, OperateKeeps

\* The operations on elements.
LEMMA ElementStep ==
    ASSUME Inv, NEW m \in Members,
           DoClear(m) \/ DoAddElement(m) \/ DoRemoveElements(m) \/ DoUpdate(m) \/ DoBatch(m)
    PROVE  Inv'
<1>1. UNCHANGED tool => ToolType'
  BY DEF Inv, ToolType
<1>2. nextId + 0 = nextId /\ nextId \in Nat /\ nextId + 1 \in Nat
      /\ Sound(board[m], nextId + 0) /\ Sound(board[m], nextId + 1)
  BY NextIsNew
<1>3. CASE DoClear(m)
  <2>1. Fine(Command("PageClear", 0), nextId + 0)
    BY DEF Fine, Types, Command
  <2>2. Sound(Clear(board[m]), nextId + 0)
    BY <1>2, LocalKeeps
  <2>3. Operate(m, Clear(board[m]), <<Command("PageClear", 0)>>, 0) /\ ToolType'
    BY <1>1, <1>3 DEF DoClear
  <2> QED BY <2>1, <2>2, <2>3, OneFine, OperateKeeps
<1>4. CASE DoAddElement(m)
  <2> DEFINE e == Element(nextId, FALSE)
  <2>1. Fine(ElementCommand("ElementAdd", e), nextId + 1)
    BY DEF Fine, Types, ElementCommand
  <2>2. Sound(AddElement(board[m], e), nextId + 1)
    BY <1>2, LocalKeeps
  <2>3. Operate(m, AddElement(board[m], e), <<ElementCommand("ElementAdd", e)>>, 1) /\ ToolType'
    BY <1>1, <1>4 DEF DoAddElement
  <2> HIDE DEF e
  <2> QED BY <2>1, <2>2, <2>3, OneFine, OperateKeeps
<1>5. CASE DoRemoveElements(m)
  <2>1. PICK ids : /\ Cardinality(ids) = 1 \/ Cardinality(ids) \in 2 .. MaxId
                   /\ Operate(m, RemoveAll(PushSnapshot(board[m]), ids),
                              [i \in 1 .. Cardinality(ids) |-> Command("ElementRemove", SetToSeq(ids)[i])], 0)
    BY <1>5 DEF DoRemoveElements
  <2> DEFINE cmds == [i \in 1 .. Cardinality(ids) |-> Command("ElementRemove", SetToSeq(ids)[i])]
  <2>2. Cardinality(ids) \in Nat
    BY <2>1, BoundsAreBounds
  <2>3. DOMAIN cmds = 1 .. Cardinality(ids) /\ \A i \in DOMAIN cmds : Fine(cmds[i], nextId + 0)
    BY DEF Fine, Types, Command
  <2>4. IsList(cmds)
    BY <2>2, MadeList
  <2>5. Sound(RemoveAll(PushSnapshot(board[m]), ids), nextId + 0)
    BY <1>2, LocalKeeps
  <2>6. ToolType'
    BY <1>1, <1>5 DEF DoRemoveElements
  <2>7. Operate(m, RemoveAll(PushSnapshot(board[m]), ids), cmds, 0)
    BY <2>1
  <2> HIDE DEF cmds
  <2> QED BY <2>3, <2>4, <2>5, <2>6, <2>7, OperateKeeps DEF FineAll
<1>6. CASE DoUpdate(m)
  <2>1. PICK e, command :
            /\ command = IF e.stroke THEN UpdateCommand(e.id, nextId)
                         ELSE ElementCommand("ElementUpdate", [e EXCEPT !.content = nextId])
            /\ \/ Operate(m, UpdateElement(board[m], e.id, nextId), <<command>>, 1)
               \/ Operate(m, UpdateQuietly(board[m], e.id, nextId), <<command>>, 1)
    BY <1>6 DEF DoUpdate
  <2>2. Fine(command, nextId + 1)
    BY <2>1 DEF Fine, Types, UpdateCommand, ElementCommand
  <2>3. FineAll(<<command>>, nextId + 1)
    BY <2>2, OneFine
  <2>4. Sound(UpdateElement(board[m], e.id, nextId), nextId + 1)
        /\ Sound(UpdateQuietly(board[m], e.id, nextId), nextId + 1)
    BY <1>2, LocalKeeps
  <2>5. ToolType'
    BY <1>1, <1>6 DEF DoUpdate
  <2> QED BY <2>1, <2>3, <2>4, <2>5, OperateKeeps
<1>7. CASE DoBatch(m)
  <2>1. Sound(EndBatch(board[m]), nextId + 0) /\ Sound(BeginBatch(board[m]), nextId + 0)
    BY <1>2, LocalKeeps
  <2>2. ToolType'
    BY <1>1, <1>7 DEF DoBatch
  <2>3. Operate(m, IF board[m].batchSuppress THEN EndBatch(board[m]) ELSE BeginBatch(board[m]), <<>>, 0)
    BY <1>7 DEF DoBatch
  <2> QED BY <2>1, <2>2, <2>3, NoneFine, OperateKeeps
<1> QED BY <1>3, <1>4, <1>5, <1>6, <1>7

\* Fine commands, one list after the other.
LEMMA FineConcat ==
    ASSUME NEW s, NEW t, NEW n, FineAll(s, n), FineAll(t, n)
    PROVE  FineAll(s \o t, n)
<1>1. IsList(s) /\ IsList(t)
  BY DEF FineAll
<1>2. /\ IsList(s \o t) /\ DOMAIN (s \o t) = 1 .. Len(s) + Len(t)
      /\ Len(s) \in Nat /\ Len(t) \in Nat /\ Len(s \o t) = Len(s) + Len(t)
      /\ DOMAIN s = 1 .. Len(s) /\ DOMAIN t = 1 .. Len(t)
      /\ \A i \in 1 .. Len(s) : (s \o t)[i] = s[i]
      /\ \A i \in 1 .. Len(t) : (s \o t)[Len(s) + i] = t[i]
  BY <1>1, ConcatList
<1>3. \A i \in 1 .. Len(t) : (s \o t)[Len(s) + i] = t[i]
  BY <1>2
<1>4. ASSUME NEW i \in 1 .. Len(s) + Len(t) PROVE Fine((s \o t)[i], n)
  <2>1. CASE i <= Len(s)
    <3>1. i \in 1 .. Len(s)
      BY <1>2, <2>1
    <3> QED BY <1>2, <3>1 DEF FineAll
  <2>2. CASE ~(i <= Len(s))
    <3>1. i - Len(s) \in 1 .. Len(t) /\ Len(s) + (i - Len(s)) = i
      BY <1>2, <2>2
    <3>2. (s \o t)[i] = t[i - Len(s)]
      BY <1>3, <3>1
    <3> QED BY <1>2, <3>1, <3>2 DEF FineAll
  <2> QED BY <2>1, <2>2
<1> QED BY <1>2, <1>4 DEF FineAll

\* The operations on pages and history.
LEMMA PageStep ==
    ASSUME Inv, NEW m \in Members,
           DoUndoRedo(m) \/ DoCreatePage(m) \/ DoSelectPage(m) \/ DoDeletePage(m) \/ DoCopyPage(m)
    PROVE  Inv'
<1>1. UNCHANGED tool => ToolType'
  BY DEF Inv, ToolType
<1>2. nextId \in Nat \ {0} /\ nextId + 0 = nextId /\ nextId + 1 \in Nat /\ nextId \in 1 .. (nextId + 1) - 1
      /\ Sound(board[m], nextId + 0) /\ Sound(board[m], nextId + 1) /\ nextId \notin PageIds(board[m])
  BY NextIsNew
<1>3. CASE DoUndoRedo(m)
  <2>1. Fine(Command("Undo", 0), nextId + 0) /\ Fine(Command("Redo", 0), nextId + 0) /\ ToolType'
    BY <1>1, <1>3 DEF DoUndoRedo, Fine, Types, Command
  <2>2. CASE CanUndo(board[m]) /\ Operate(m, Undo(board[m]), <<Command("Undo", 0)>>, 0)
    <3>1. Sound(Undo(board[m]), nextId + 0)
      BY <1>2, <2>2, UndoSound
    <3> QED BY <2>1, <2>2, <3>1, OneFine, OperateKeeps
  <2>3. CASE CanRedo(board[m]) /\ Operate(m, Redo(board[m]), <<Command("Redo", 0)>>, 0)
    <3>1. Sound(Redo(board[m]), nextId + 0)
      BY <1>2, <2>3, RedoSound
    <3> QED BY <2>1, <2>3, <3>1, OneFine, OperateKeeps
  <2> QED BY <1>3, <2>2, <2>3 DEF DoUndoRedo
<1>4. CASE DoCreatePage(m)
  <2>1. Fine(Command("PageCreate", nextId), nextId + 1)
    BY <1>2 DEF Fine, Types, Command
  <2>2. Sound(CreatePage(board[m], nextId), nextId + 1)
    BY <1>2, PageKeeps
  <2>3. Operate(m, CreatePage(board[m], nextId), <<Command("PageCreate", nextId)>>, 1) /\ ToolType'
    BY <1>1, <1>4 DEF DoCreatePage
  <2> QED BY <2>1, <2>2, <2>3, OneFine, OperateKeeps
<1>5. CASE DoSelectPage(m)
  <2>1. PICK p \in PageIds(board[m]) : Operate(m, SelectPage(board[m], p), <<Command("PageSelect", p)>>, 0)
    BY <1>5 DEF DoSelectPage
  <2>2. Fine(Command("PageSelect", p), nextId + 0)
    BY DEF Fine, Types, Command
  <2>3. Sound(SelectPage(board[m], p), nextId + 0) /\ ToolType'
    BY <1>1, <1>2, <1>5, PageKeeps DEF DoSelectPage
  <2> QED BY <2>1, <2>2, <2>3, OneFine, OperateKeeps
<1>6. CASE DoDeletePage(m)
  <2>1. PICK p \in PageIds(board[m]) :
            CanDelete(board[m], p) /\ Operate(m, DeletePage(board[m], p), <<Command("PageDelete", p)>>, 0)
    BY <1>6 DEF DoDeletePage
  <2>2. Fine(Command("PageDelete", p), nextId + 0)
    BY DEF Fine, Types, Command
  <2>3. Sound(DeletePage(board[m], p), nextId + 0) /\ ToolType'
    BY <1>1, <1>2, <1>6, <2>1, DeleteSound DEF DoDeletePage
  <2> QED BY <2>1, <2>2, <2>3, OneFine, OperateKeeps
<1>7. CASE DoCopyPage(m)
  <2>1. PICK p, copy :
            /\ p \in PageIds(board[m])
            /\ copy = Copy(board[m], p, nextId).elements
            /\ Len(copy) \in 0 .. MaxId
            /\ Operate(m, CopyPage(board[m], p, nextId),
                       <<Command("PageCreate", nextId)>>
                         \o [i \in 1 .. Len(copy) |-> ElementCommand("ElementAdd", copy[i])]
                         \o <<Command("PageSelect", nextId)>>, 1 + Len(copy))
    BY <1>7 DEF DoCopyPage
  <2> DEFINE n == nextId + (1 + Len(copy))
             adds == [i \in 1 .. Len(copy) |-> ElementCommand("ElementAdd", copy[i])]
  <2>2. Len(copy) \in Nat /\ 1 + Len(copy) \in Nat /\ n \in Nat /\ nextId \in 1 .. n - 1
    BY <1>2, <2>1, BoundsAreBounds
  <2>3. Sound(board[m], n)
    BY <2>2, NextIsNew
  <2> HIDE DEF n
  <2>4. Sound(CopyPage(board[m], p, nextId), n)
    BY <1>2, <2>1, <2>2, <2>3, CopyKeeps
  <2>5. Fine(Command("PageCreate", nextId), n) /\ Fine(Command("PageSelect", nextId), n)
    BY <2>2 DEF Fine, Types, Command
  <2>6. IsList(adds) /\ DOMAIN adds = 1 .. Len(copy)
    BY <2>2, MadeList
  <2>7. \A i \in DOMAIN adds : Fine(adds[i], n)
    BY DEF Fine, Types, ElementCommand
  <2> DEFINE cmds == <<Command("PageCreate", nextId)>> \o adds \o <<Command("PageSelect", nextId)>>
  <2>8. Operate(m, CopyPage(board[m], p, nextId), cmds, 1 + Len(copy))
    BY <2>1
  <2> HIDE DEF adds
  <2>9. FineAll(adds, n)
    BY <2>6, <2>7 DEF FineAll
  <2>10. FineAll(cmds, n)
    BY <2>5, <2>9, OneFine, FineConcat
  <2> HIDE DEF cmds
  <2>11. ToolType'
    BY <1>1, <1>7 DEF DoCopyPage
  <2> QED BY <2>2, <2>4, <2>8, <2>10, <2>11, OperateKeeps DEF n
<1> QED BY <1>3, <1>4, <1>5, <1>6, <1>7

(* Joining.                                                                *)
LEMMA JoinStep ==
    ASSUME Inv, NEW m \in Members, Start(m) \/ OnConnected(m)
    PROVE  Inv'
<1>1. CASE Start(m)
  <2>1. Carrying(dataQueue', Tasks, nextId)
    <3>1. Carried([kind |-> "SET_CALLBACK"], Tasks, nextId)
      BY DEF Carried, Tasks
    <3>2. dataQueue' = [dataQueue EXCEPT ![m] = Append(@, [kind |-> "SET_CALLBACK"])]
      BY <1>1 DEF Start
    <3> QED BY <3>1, <3>2, QueueGrows DEF Inv, QueuesSound
  <2>2. UNCHANGED <<boardVars, callback, outbox, apiQueue, serving, netVars, historyVars>>
    BY <1>1 DEF Start
  <2>3. LinkType'
    BY <1>1 DEF Start, Inv, LinkType
  <2>4. QueuesSound'
    BY <2>1, <2>2 DEF Inv, QueuesSound, boardVars, netVars
  <2> QED BY <2>2, <2>3, <2>4 DEF Inv, boardVars, netVars, historyVars, IdType, ToolType, CallbackType,
                   ServingType, OrderType, HistoryType, BoardsSound, OutboxSound, SendsSound, dataVars, apiVars
<1>2. CASE OnConnected(m)
  <2>1. Carrying(up', Frames, nextId)
    <3>1. Carried([kind |-> "JOIN"], Frames, nextId)
      BY DEF Carried, Frames
    <3>2. up' = [up EXCEPT ![m] = Append(@, [kind |-> "JOIN"])]
      BY <1>2 DEF OnConnected
    <3> QED BY <3>1, <3>2, QueueGrows DEF Inv, QueuesSound
  <2>2. UNCHANGED <<boardVars, dataVars, apiQueue, serving, down, order, historyVars>>
    BY <1>2 DEF OnConnected
  <2>3. LinkType'
    BY <1>2 DEF OnConnected, Inv, LinkType
  <2>4. QueuesSound'
    BY <2>1, <2>2 DEF Inv, QueuesSound, boardVars, dataVars
  <2> QED BY <2>2, <2>3, <2>4 DEF Inv, boardVars, dataVars, historyVars, IdType, ToolType, CallbackType,
                   ServingType, OrderType, HistoryType, BoardsSound, OutboxSound, SendsSound, dataVars, apiVars
<1> QED BY <1>1, <1>2

(* The first taken and another added at once.                              *)
LEMMA QueueTurns ==
    ASSUME NEW q, NEW kinds, NEW n, Carrying(q, kinds, n), NEW m \in Members, q[m] # <<>>,
           NEW task, Carried(task, kinds, n)
    PROVE  Carrying([q EXCEPT ![m] = Append(Tail(@), task)], kinds, n)
<1> DEFINE r == [q EXCEPT ![m] = Tail(@)]
<1>1. Carrying(r, kinds, n)
  BY QueueTaken
<1>2. q = [k \in Members |-> q[k]]
  BY DEF Carrying, PerMember
<1>3. [q EXCEPT ![m] = Append(Tail(@), task)] = [r EXCEPT ![m] = Append(@, task)]
  BY <1>2
<1> HIDE DEF r
<1> QED BY <1>1, <1>3, QueueGrows

(* A task of the data thread.                                              *)
LEMMA DataStep ==
    ASSUME Inv, NEW m \in Members, DataTask(m)
    PROVE  Inv'
<1> DEFINE task == Head(dataQueue[m])
<1>1. /\ DataFree(m) /\ dataQueue[m] # <<>>
      /\ dataQueue' = [dataQueue EXCEPT ![m] = Tail(@)]
      /\ UNCHANGED <<tool, nextId, outbox, link, apiQueue, down, order, early, mirrored, crossed>>
  BY DEF DataTask
<1>10. torn' \in BOOLEAN
  BY DEF DataTask
<1>2. Carrying(dataQueue', Tasks, nextId) /\ Carried(task, Tasks, nextId)
  BY <1>1, QueueTaken DEF Inv, QueuesSound
<1>3. nextId \in Nat /\ \A n \in Members : Sound(board[n], nextId)
  BY NextIsNew
<1>4. board = [n \in Members |-> board[n]]
  BY DEF Inv, BoardsSound, PerMember
<1>5. IdType' /\ ToolType' /\ LinkType' /\ OrderType' /\ OutboxSound' /\ SendsSound'
  BY <1>1 DEF Inv, IdType, ToolType, LinkType, OrderType, OutboxSound, SendsSound
<1>6. CASE task.kind = "SET_CALLBACK" /\ callback' = [callback EXCEPT ![m] = TRUE]
           /\ UNCHANGED <<board, synced, serving, up>>
  <2>1. CallbackType' /\ ServingType' /\ HistoryType' /\ BoardsSound'
    BY <1>1, <1>6, <1>10 DEF Inv, CallbackType, ServingType, HistoryType, BoardsSound
  <2>2. QueuesSound'
    BY <1>1, <1>2, <1>6 DEF Inv, QueuesSound
  <2> QED BY <1>5, <2>1, <2>2 DEF Inv
<1>7. CASE /\ task.kind = "APPLY"
           /\ board' = [board EXCEPT ![m] = Apply(@, task.cmd)]
           /\ synced' = [synced EXCEPT ![m] = @ \/ task.cmd.type = "FullSync"]
           /\ UNCHANGED <<callback, serving, up>>
  <2>1. Fine(task.cmd, nextId)
    BY <1>2, <1>7 DEF Carried
  <2>2. Sound(Apply(board[m], task.cmd), nextId)
    BY <1>3, <2>1, ApplyKeeps
  <2>3. board' = [n \in Members |-> IF n = m THEN Apply(board[m], task.cmd) ELSE board[n]]
    BY <1>4, <1>7
  <2>4. BoardsSound'
    BY <1>1, <1>3, <2>2, <2>3 DEF BoardsSound, PerMember
  <2>5. CallbackType' /\ ServingType' /\ HistoryType'
    BY <1>1, <1>7, <1>10 DEF Inv, CallbackType, ServingType, HistoryType
  <2>6. QueuesSound'
    BY <1>1, <1>2, <1>7 DEF Inv, QueuesSound
  <2> QED BY <1>5, <2>4, <2>5, <2>6 DEF Inv
<1>8. CASE /\ serving' = [serving EXCEPT ![m] = None]
           /\ up' = [up EXCEPT ![m] =
                        Append(@, [kind |-> "UNICAST", to |-> serving[m], cmd |-> FullSync(board[m])])]
           /\ UNCHANGED <<board, callback, synced>>
  <2>1. Fine(FullSync(board[m]), nextId)
    BY <1>3 DEF Fine, Types, FullSync, Sound
  <2>2. Carried([kind |-> "UNICAST", to |-> serving[m], cmd |-> FullSync(board[m])], Frames, nextId)
    BY <2>1 DEF Carried, Frames
  <2>3. Carrying(up', Frames, nextId)
    BY <1>8, <2>2, QueueGrows DEF Inv, QueuesSound
  <2>4. QueuesSound'
    BY <1>1, <1>2, <2>3 DEF Inv, QueuesSound
  <2>5. CallbackType' /\ ServingType' /\ HistoryType' /\ BoardsSound'
    BY <1>1, <1>8, <1>10 DEF Inv, CallbackType, ServingType, HistoryType, BoardsSound
  <2> QED BY <1>5, <2>4, <2>5 DEF Inv
<1> QED BY <1>6, <1>7, <1>8 DEF DataTask

(* A task of the api thread.                                               *)
LEMMA ApiStep ==
    ASSUME Inv, NEW m \in Members, ApiTask(m)
    PROVE  Inv'
<1> DEFINE task == Head(apiQueue[m])
<1>1. /\ apiQueue[m] # <<>>
      /\ UNCHANGED <<boardVars, callback, link, down, order, historyVars>>
  BY DEF ApiTask
<1>2. Carrying([apiQueue EXCEPT ![m] = Tail(@)], Calls, nextId) /\ Carried(task, Calls, nextId)
  BY <1>1, QueueTaken DEF Inv, QueuesSound
<1>3. IdType' /\ ToolType' /\ LinkType' /\ CallbackType' /\ OrderType' /\ HistoryType' /\ BoardsSound'
  BY <1>1 DEF Inv, IdType, ToolType, LinkType, CallbackType, OrderType, HistoryType, BoardsSound,
              boardVars, historyVars
<1>4. apiQueue = [n \in Members |-> apiQueue[n]] /\ outbox = [n \in Members |-> outbox[n]]
  BY DEF Inv, QueuesSound, OutboxSound, Carrying, PerMember
<1>5. \A n \in Members : SendsOnce(apiQueue[n], outbox[n]) /\ IsList(apiQueue[n])
  BY DEF Inv, SendsSound, QueuesSound, Carrying
<1>6. /\ SendsOnce(Tail(apiQueue[m]), outbox[m])
      /\ task.kind = "SEND" => outbox[m] # <<>> /\ SendsOnce(Tail(apiQueue[m]), <<>>)
  BY <1>1, <1>5, SendTaken
<1>7. nextId' = nextId
  BY <1>1 DEF boardVars
<1>8. ASSUME apiQueue' = [apiQueue EXCEPT ![m] = Tail(@)], outbox' = outbox
      PROVE  SendsSound' /\ OutboxSound'
  <2>1. OutboxSound'
    BY <1>7, <1>8 DEF OutboxSound, Inv
  <2>2. apiQueue' = [n \in Members |-> IF n = m THEN Tail(apiQueue[m]) ELSE apiQueue[n]]
    BY <1>4, <1>8
  <2>3. \A n \in Members : SendsOnce(apiQueue'[n], outbox[n])
    BY <1>5, <1>6, <2>2
  <2> QED BY <1>8, <2>1, <2>3 DEF SendsSound
<1>9. CASE task.kind = "SEND" /\ Broadcast(m, task.cmd)
  <2>1. Fine(task.cmd, nextId)
    BY <1>2, <1>9 DEF Carried
  <2>2. Carrying(up', Frames, nextId)
    <3>1. Carried([kind |-> "BROADCAST", cmd |-> task.cmd], Frames, nextId)
      BY <2>1 DEF Carried, Frames
    <3>2. CASE link[m] = "joined"
      <4>1. up' = [up EXCEPT ![m] = Append(@, [kind |-> "BROADCAST", cmd |-> task.cmd])]
        BY <1>9, <3>2 DEF Broadcast
      <4> QED BY <3>1, <4>1, QueueGrows DEF Inv, QueuesSound
    <3>3. CASE link[m] # "joined"
      BY <1>9, <3>3 DEF Broadcast, Inv, QueuesSound
    <3> QED BY <3>2, <3>3
  <2>3. FineAll(outbox[m], nextId) /\ outbox[m] # <<>> /\ SendsOnce(Tail(apiQueue[m]), <<>>)
    BY <1>6, <1>9 DEF Inv, OutboxSound
  <2>4. FineAll(Tail(outbox[m]), nextId) /\ (Len(outbox[m]) > 1 => Fine(outbox[m][2], nextId))
    BY <2>3, HeadFine
  <2>5. outbox' = [n \in Members |-> IF n = m THEN Tail(outbox[m]) ELSE outbox[n]]
    BY <1>4, <1>9 DEF Broadcast
  <2>6. OutboxSound'
    BY <1>7, <2>4, <2>5 DEF Inv, OutboxSound, PerMember
  <2>7. Carrying(apiQueue', Calls, nextId) /\ SendsSound'
    <3>1. CASE Len(outbox[m]) > 1
      <4>1. Carried(Send(outbox[m][2]), Calls, nextId)
        BY <2>4, <3>1 DEF Carried, Calls, Send
      <4>2. apiQueue' = [apiQueue EXCEPT ![m] = Append(Tail(@), Send(outbox[m][2]))]
        BY <1>9, <3>1 DEF Broadcast
      <4>3. Carrying(apiQueue', Calls, nextId)
        BY <1>1, <4>1, <4>2, QueueTurns DEF Inv, QueuesSound
      <4>4. Tail(outbox[m]) # <<>> /\ IsList(Tail(apiQueue[m]))
        <5>1. IsList(outbox[m])
          BY <2>3 DEF FineAll
        <5>2. DOMAIN Tail(outbox[m]) = 1 .. Len(outbox[m]) - 1 /\ Len(outbox[m]) \in Nat
          BY <2>3, <5>1, TailList
        <5>3. 1 \in DOMAIN Tail(outbox[m])
          BY <3>1, <5>2
        <5> QED BY <1>1, <1>5, <5>3, TailList
      <4>5. SendsOnce(Append(Tail(apiQueue[m]), Send(outbox[m][2])), Tail(outbox[m]))
        BY <2>3, <4>4, SendAdded
      <4>6. SendsSound'
        BY <1>4, <1>5, <2>5, <4>2, <4>5 DEF SendsSound
      <4> QED BY <4>3, <4>6
    <3>2. CASE ~(Len(outbox[m]) > 1)
      <4>1. apiQueue' = [apiQueue EXCEPT ![m] = Tail(@)]
        BY <1>9, <3>2, <1>4 DEF Broadcast
      <4>2. SendsOnce(Tail(apiQueue[m]), Tail(outbox[m]))
        BY <2>3 DEF SendsOnce
      <4>3. SendsSound'
        BY <1>4, <1>5, <2>5, <4>1, <4>2 DEF SendsSound
      <4> QED BY <1>2, <4>1, <4>3
    <3> QED BY <3>1, <3>2
  <2>8. QueuesSound' /\ ServingType'
    BY <1>1, <1>7, <1>9, <2>2, <2>7 DEF Inv, QueuesSound, ServingType, Broadcast
  <2> QED BY <1>3, <2>6, <2>7, <2>8 DEF Inv
<1>10. CASE /\ task.kind = "MESSAGE"
            /\ dataQueue' = [dataQueue EXCEPT ![m] = Append(@, [kind |-> "APPLY", cmd |-> task.cmd])]
            /\ apiQueue' = [apiQueue EXCEPT ![m] = Tail(@)]
            /\ UNCHANGED <<up, outbox, serving>>
  <2>1. Carried([kind |-> "APPLY", cmd |-> task.cmd], Tasks, nextId)
    BY <1>2, <1>10 DEF Carried, Tasks
  <2>2. Carrying(dataQueue', Tasks, nextId)
    BY <1>10, <2>1, QueueGrows DEF Inv, QueuesSound
  <2>3. QueuesSound' /\ ServingType'
    BY <1>1, <1>2, <1>7, <1>10, <2>2 DEF Inv, QueuesSound, ServingType
  <2>4. SendsSound' /\ OutboxSound'
    BY <1>8, <1>10
  <2> QED BY <1>3, <2>3, <2>4 DEF Inv
<1>11. CASE /\ task.kind = "REQUEST_DATA"
            /\ AskForPages(m, task.from)
            /\ apiQueue' = [apiQueue EXCEPT ![m] = Tail(@)]
            /\ UNCHANGED outbox
  <2>1. Carried([kind |-> "GET_ALL_PAGES"], Tasks, nextId)
    BY DEF Carried, Tasks
  <2>2. Carrying(dataQueue', Tasks, nextId)
    BY <1>11, <2>1, QueueGrows DEF Inv, QueuesSound, AskForPages
  <2>3. task.from \in Members
    BY <1>2, <1>11 DEF Carried
  <2>4. ServingType'
    BY <1>11, <2>3 DEF Inv, ServingType, AskForPages
  <2>5. QueuesSound'
    BY <1>1, <1>2, <1>7, <1>11, <2>2 DEF Inv, QueuesSound, AskForPages
  <2>6. SendsSound' /\ OutboxSound'
    BY <1>8, <1>11
  <2> QED BY <1>3, <2>4, <2>5, <2>6 DEF Inv
<1> QED BY <1>9, <1>10, <1>11 DEF ApiTask

(* A frame arrives at a member, or at the server.                          *)
LEMMA MessageStep ==
    ASSUME Inv, NEW m \in Members, OnMessage(m)
    PROVE  Inv'
<1>1. /\ down[m] # <<>>
      /\ apiQueue' = [apiQueue EXCEPT ![m] = Append(@, Head(down[m]))]
      /\ down' = [down EXCEPT ![m] = Tail(@)]
      /\ UNCHANGED <<boardVars, dataVars, link, serving, up, order, historyVars>>
  BY DEF OnMessage
<1>2. Carrying(down', Deliveries, nextId) /\ Carried(Head(down[m]), Deliveries, nextId)
  BY <1>1, QueueTaken DEF Inv, QueuesSound
<1>3. Carried(Head(down[m]), Calls, nextId) /\ Head(down[m]).kind # "SEND"
  BY <1>2 DEF Carried, Calls, Deliveries
<1>4. Carrying(apiQueue', Calls, nextId)
  BY <1>1, <1>3, QueueGrows DEF Inv, QueuesSound
<1>5. QueuesSound'
  BY <1>1, <1>2, <1>4 DEF Inv, QueuesSound, boardVars, dataVars
<1>6. SendsSound'
  <2>1. \A n \in Members : SendsOnce(apiQueue[n], outbox[n]) /\ IsList(apiQueue[n])
    BY DEF Inv, SendsSound, QueuesSound, Carrying
  <2>2. SendsOnce(Append(apiQueue[m], Head(down[m])), outbox[m])
    <3>1. ASSUME NEW task, task.kind # "SEND" PROVE SendsOnce(Append(apiQueue[m], task), outbox[m])
      BY <2>1, <3>1, SendAdded
    <3> QED BY <1>3, <3>1
  <2>3. apiQueue = [n \in Members |-> apiQueue[n]]
    BY DEF Inv, QueuesSound, Carrying, PerMember
  <2>4. apiQueue' = [n \in Members |-> IF n = m THEN Append(apiQueue[m], Head(down[m])) ELSE apiQueue[n]]
    BY <1>1, <2>3
  <2>5. \A n \in Members : SendsOnce(apiQueue'[n], outbox[n])
    BY <2>1, <2>2, <2>4
  <2> QED BY <1>1, <2>5 DEF SendsSound, dataVars
<1> QED BY <1>1, <1>5, <1>6 DEF Inv, boardVars, dataVars, historyVars, IdType, ToolType, LinkType,
              CallbackType, ServingType, OrderType, HistoryType, BoardsSound, OutboxSound

\* The server relays a frame.
LEMMA ServerStep ==
    ASSUME Inv, NEW m \in Members, ServerTask(m)
    PROVE  Inv'
<1> DEFINE frame == Head(up[m])
<1>1. /\ up[m] # <<>>
      /\ up' = [up EXCEPT ![m] = Tail(@)]
      /\ UNCHANGED <<boardVars, dataVars, apiVars, synced, early, mirrored, torn>>
  BY DEF ServerTask
<1>9. crossed' \in BOOLEAN
  BY DEF ServerTask
<1>2. Carrying(up', Frames, nextId) /\ Carried(frame, Frames, nextId)
  BY <1>1, QueueTaken DEF Inv, QueuesSound
<1>3. Carrying(down, Deliveries, nextId)
  BY DEF Inv, QueuesSound
<1>4. IdType' /\ ToolType' /\ LinkType' /\ CallbackType' /\ ServingType' /\ HistoryType' /\ BoardsSound'
      /\ OutboxSound' /\ SendsSound'
  BY <1>1, <1>9 DEF Inv, IdType, ToolType, LinkType, CallbackType, ServingType, HistoryType,
              BoardsSound, OutboxSound, SendsSound, boardVars, dataVars, apiVars
<1>5. Carrying(down', Deliveries, nextId) => QueuesSound'
  BY <1>1, <1>2 DEF Inv, QueuesSound, boardVars, dataVars, apiVars
<1>6. CASE HandleJoin(m)
  <2>1. Carried(Asked(m), Deliveries, nextId)
    BY DEF Carried, Deliveries, Asked
  <2>2. Carrying(down', Deliveries, nextId)
    BY <1>3, <1>6, <2>1, QueueGrows DEF HandleJoin
  <2>3. OrderType'
    BY <1>6 DEF HandleJoin, Inv, OrderType
  <2> QED BY <1>4, <1>5, <2>2, <2>3 DEF Inv
<1>7. CASE frame.kind = "BROADCAST" /\ HandleBroadcast(m, frame.cmd)
  <2>1. Carried(Message(frame.cmd), Deliveries, nextId)
    BY <1>2, <1>7 DEF Carried, Deliveries, Message
  <2>2. ASSUME NEW n \in Members
        PROVE  IsList(down'[n]) /\ \A i \in DOMAIN down'[n] : Carried(down'[n][i], Deliveries, nextId)
    <3>1. down'[n] = Append(down[n], Message(frame.cmd)) \/ down'[n] = down[n]
      BY <1>7 DEF HandleBroadcast
    <3> DEFINE q == [down EXCEPT ![n] = Append(@, Message(frame.cmd))]
    <3>2. Carrying(q, Deliveries, nextId)
      BY <1>3, <2>1, QueueGrows
    <3>3. q[n] = Append(down[n], Message(frame.cmd))
      <4>1. down = [k \in Members |-> down[k]]
        BY <1>3 DEF Carrying, PerMember
      <4> QED BY <4>1
    <3> HIDE DEF q
    <3> QED BY <1>3, <3>1, <3>2, <3>3 DEF Carrying
  <2>3. PerMember(down')
    BY <1>7 DEF HandleBroadcast, PerMember
  <2>4. Carrying(down', Deliveries, nextId)
    BY <2>2, <2>3 DEF Carrying
  <2>5. OrderType'
    BY <1>7 DEF HandleBroadcast, Inv, OrderType
  <2> QED BY <1>4, <1>5, <2>4, <2>5 DEF Inv
<1>8. CASE frame.kind = "UNICAST" /\ HandleUnicast(frame.to, frame.cmd)
  <2>1. Carried(Message(frame.cmd), Deliveries, nextId)
    BY <1>2, <1>8 DEF Carried, Deliveries, Message
  <2>2. Carrying(down', Deliveries, nextId)
    BY <1>3, <1>8, <2>1, QueueGrows DEF HandleUnicast
  <2>3. OrderType'
    BY <1>8 DEF HandleUnicast, Inv, OrderType
  <2> QED BY <1>4, <1>5, <2>2, <2>3 DEF Inv
<1> QED BY <1>6, <1>7, <1>8 DEF ServerTask

(* Every step keeps it.                                                    *)
LEMMA StepKeeps == Inv /\ [Next]_vars => Inv'
<1> SUFFICES ASSUME Inv, [Next]_vars PROVE Inv'
  OBVIOUS
<1>1. CASE UNCHANGED vars
  BY <1>1 DEF vars, boardVars, dataVars, apiVars, netVars, historyVars, Inv, IdType, ToolType, LinkType,
              CallbackType, ServingType, OrderType, HistoryType, BoardsSound, OutboxSound, QueuesSound,
              SendsSound
<1>2. CASE Next
  <2>1. PICK m \in Members : UserStep(m) \/ Start(m) \/ ThreadStep(m)
    BY <1>2 DEF Next
  <2>2. CASE UserStep(m)
    <3>1. CASE \E s \in Sessions : DoPenBegin(m, s) \/ DoPenEnd(m, s)
      BY <3>1, PenStep
    <3>2. CASE \E s \in Sessions : DoEraserBegin(m, s) \/ DoEraserMove(m, s) \/ DoEraserEnd(m, s)
      BY <3>2, EraserStep
    <3>3. CASE \/ DoClear(m) \/ DoAddElement(m) \/ DoRemoveElements(m) \/ DoUpdate(m) \/ DoBatch(m)
      BY <3>3, ElementStep
    <3>4. CASE \/ DoUndoRedo(m) \/ DoCreatePage(m) \/ DoSelectPage(m) \/ DoDeletePage(m)
               \/ DoCopyPage(m)
      BY <3>4, PageStep
    <3>5. CASE DoEraseRegion(m)
      BY <3>5, RegionStep
    <3> QED BY <2>2, <3>1, <3>2, <3>3, <3>4, <3>5 DEF UserStep
  <2>3. CASE Start(m) \/ ThreadStep(m)
    BY <2>3, JoinStep, DataStep, ApiStep, MessageStep, ServerStep DEF ThreadStep
  <2> QED BY <2>1, <2>2, <2>3
<1> QED BY <1>1, <1>2

(* In the beginning the boards are empty and nothing is on its way.        *)
LEMMA InitInv == Init => Inv
<1> SUFFICES ASSUME Init PROVE Inv
  OBVIOUS
<1>1. Cardinality(Members) \in Nat
  BY MembersFinite, FS_CardinalityType
<1>2. nextId = Cardinality(Members) + 1 /\ nextId \in Nat /\ nextId - 1 = Cardinality(Members)
  BY <1>1 DEF Init
<1>3. IdType
  BY <1>1, <1>2, BoundsAreBounds DEF IdType
<1>4. ToolType /\ LinkType /\ CallbackType /\ ServingType /\ HistoryType
  <2>1. \A m \in Members : Founding(m) \in BOOLEAN
    BY DEF Founding
  <2>2. CallbackType
    BY <2>1 DEF Init, CallbackType
  <2>3. synced \in [Members -> BOOLEAN]
    BY <2>1 DEF Init
  <2> QED BY <2>2, <2>3 DEF Init, ToolType, LinkType, ServingType, HistoryType
<1>5. OrderType
  BY FoundersAreMembers DEF Init, OrderType
<1>6. IsList(<<>>) /\ DOMAIN <<>> = {} /\ FineAll(<<>>, nextId)
  BY NoneFine DEF FineAll
<1>7. OutboxSound /\ QueuesSound /\ SendsSound
  BY <1>6 DEF Init, OutboxSound, QueuesSound, SendsSound, SendsOnce, Carrying, PerMember
<1>8. BoardsSound
  <2>1. PICK page \in [Members -> 1 .. Cardinality(Members)] : board = [m \in Members |-> NewBoard(page[m])]
    BY DEF Init
  <2>2. ASSUME NEW p \in 1 .. nextId - 1 PROVE Sound(NewBoard(p), nextId)
    <3> DEFINE b == NewBoard(p)
    <3>1. /\ b.pages = <<Page(p, <<>>)>> /\ b.currentPage = 1 /\ b.histories = <<>>
          /\ IsBoard(b)
      BY DEF NewBoard, IsBoard, Fields
    <3> HIDE DEF b
    <3>2. IsList(b.pages) /\ Len(b.pages) = 1 /\ b.pages[1] = Page(p, <<>>) /\ DOMAIN b.pages = 1 .. 1
      BY <3>1, OneList, ListIs
    <3>3. IsPage(Page(p, <<>>)) /\ Page(p, <<>>).pageId = p
      BY NewPage
    <3>4. \A i \in DOMAIN b.pages : i = 1
      BY <3>2
    <3>5. PagesSound(b.pages, nextId)
      BY <3>2, <3>3, <3>4, EmptySeq DEF PagesSound
    <3>6. b.currentPage \in DOMAIN b.pages
      BY <3>1, <3>2
    <3>7. DOMAIN b.histories = {}
      BY <3>1
    <3>8. Sound(b, nextId)
      BY <3>1, <3>5, <3>6, <3>7 DEF Sound
    <3> QED BY <3>8 DEF b
  <2>3. \A m \in Members : page[m] \in 1 .. nextId - 1
    BY <1>2, <2>1
  <2> QED BY <2>1, <2>2, <2>3 DEF BoardsSound, PerMember
<1> QED BY <1>3, <1>4, <1>5, <1>7, <1>8 DEF Inv

(* Type correctness of BoardRoom, for any members, limits and operations.  *)
THEOREM TypeCorrect == Spec => []TypeOK
<1>1. Inv => TypeOK
  BY InvMeans
<1> QED BY <1>1, InitInv, StepKeeps, PTL DEF Spec

(* Whoever operates when, on every member's board the pages differ, each   *)
(* history belongs to a page of the board and holds snapshots of that page *)
(* only, no more than the limit: QtBoardData's undo never puts another     *)
(* page in the place of the one it undoes.  No turns need to be taken.     *)
THEOREM UndoStaysOnPage == Spec => []HistoriesSound
<1>1. Inv => HistoriesSound
  BY InvMeans
<1> QED BY <1>1, InitInv, StepKeeps, PTL DEF Spec

-----------------------------------------------------------------------------
(* Lists with a part taken out, and the least of some numbers.             *)

\* A set of natural numbers has a least element.
LEMMA Least ==
    ASSUME NEW S \in SUBSET Nat, S # {}
    PROVE  \E m \in S : \A n \in S : m <= n
<1> DEFINE R == {r \in Nat \X Nat : r[1] < r[2]}
<1>1. IsWellFoundedOn(R, Nat)
  <2>1. OpToRel(<, Nat) = R
    BY DEF OpToRel
  <2> QED BY <2>1, NatLessThanWellFounded
<1>2. PICK m \in S : \A n \in S : ~(<<n, m>> \in R)
  <2> HIDE DEF R
  <2>1. S \subseteq Nat
    OBVIOUS
  <2> QED BY <1>1, <2>1, WFMin, Zenon
<1>3. ASSUME NEW n \in S PROVE m <= n
  <2>1. n \in Nat /\ m \in Nat
    OBVIOUS
  <2>2. ~(n < m)
    BY <1>2, <2>1
  <2> QED BY <2>1, <2>2
<1> QED BY <1>3

\* What holds of 0, and of k + 1 if of k, holds of all: sets of numbers for which
\* something fails have no least element.
LEMMA Induct ==
    ASSUME NEW S \in SUBSET Nat, 0 \in S, \A k \in S : k + 1 \in S
    PROVE  S = Nat
<1> SUFFICES ASSUME Nat \ S # {} PROVE FALSE
  OBVIOUS
<1>1. PICK m \in Nat \ S : \A n \in Nat \ S : m <= n
  BY Least
<1>2. m # 0 /\ m - 1 \in Nat /\ ~(m <= m - 1) /\ (m - 1) + 1 = m
  BY <1>1
<1>3. m - 1 \in S
  BY <1>1, <1>2
<1> QED BY <1>1, <1>2, <1>3

(* FlattenSeq of a list of lists, the pieces.                              *)
Pieces(s) == IsList(s) /\ \A i \in DOMAIN s : IsList(s[i])

\* f[i] is the concatenation of the first i pieces.
Flattens(f, s, k) ==
    f = [i \in 1 .. k |-> IF i = 1 THEN s[i] ELSE f[i - 1] \o s[i]]

\* There is such a function.
LEMMA FlattenExists ==
    ASSUME NEW s, NEW n \in Nat
    PROVE  \E f : Flattens(f, s, n)
<1> DEFINE S == {k \in Nat : \E f : Flattens(f, s, k)}
<1>1. 0 \in S
  <2> DEFINE f == [i \in 1 .. 0 |-> <<>>]
  <2>1. Flattens(f, s, 0)
    BY DEF Flattens
  <2> QED BY <2>1
<1>2. ASSUME NEW k \in S PROVE k + 1 \in S
  <2>1. PICK f : Flattens(f, s, k)
    OBVIOUS
  <2> DEFINE g == [i \in 1 .. k + 1 |-> IF i = k + 1 THEN (IF i = 1 THEN s[i] ELSE f[k] \o s[i]) ELSE f[i]]
  <2>2. ASSUME NEW i \in 1 .. k + 1
        PROVE  g[i] = IF i = 1 THEN s[i] ELSE g[i - 1] \o s[i]
    <3>0. k \in Nat
      OBVIOUS
    <3>1. CASE i = k + 1
      <4>1. CASE i = 1
        BY <3>1, <4>1
      <4>2. CASE i # 1
        <5>1. i - 1 \in 1 .. k + 1 /\ i - 1 # k + 1 /\ i - 1 = k
          BY <3>0, <3>1, <4>2
        <5>2. g[i - 1] = f[k]
          BY <5>1
        <5> QED BY <3>1, <4>2, <5>2
      <4> QED BY <4>1, <4>2
    <3>2. CASE i # k + 1
      <4>1. i \in 1 .. k /\ g[i] = f[i]
        BY <3>0, <3>2
      <4>2. f[i] = IF i = 1 THEN s[i] ELSE f[i - 1] \o s[i]
        BY <2>1, <4>1 DEF Flattens
      <4>3. CASE i = 1
        BY <4>1, <4>2, <4>3
      <4>4. CASE i # 1
        <5>1. i - 1 \in 1 .. k + 1 /\ i - 1 # k + 1
          BY <3>0, <4>1, <4>4
        <5>2. g[i - 1] = f[i - 1]
          BY <5>1
        <5> QED BY <4>1, <4>2, <4>4, <5>2
      <4> QED BY <4>3, <4>4
    <3> QED BY <3>1, <3>2
  <2>3. DOMAIN g = 1 .. k + 1
    OBVIOUS
  <2>5. g = [i \in 1 .. k + 1 |-> g[i]]
    OBVIOUS
  <2> HIDE DEF g
  <2>4. Flattens(g, s, k + 1)
    BY <2>2, <2>5 DEF Flattens
  <2>6. k + 1 \in Nat
    OBVIOUS
  <2> QED BY <2>4, <2>6
<1> HIDE DEF S
<1>3. S = Nat
  <2>1. S \in SUBSET Nat
    BY DEF S
  <2> QED BY <1>1, <1>2, <2>1, Induct
<1> QED BY <1>3 DEF S

\* Where the elements of the concatenation of the first k pieces come from: the i-th
\* is the q[i]-th of piece o[i].
Origins(t, s, k, o, q) ==
    /\ IsList(t) /\ DOMAIN t = 1 .. Len(t)
    /\ o \in [1 .. Len(t) -> 1 .. k]
    /\ \A i \in 1 .. Len(t) : q[i] \in DOMAIN s[o[i]] /\ t[i] = s[o[i]][q[i]]
    /\ \A i, j \in 1 .. Len(t) : o[i] = o[j] /\ q[i] = q[j] => i = j
    /\ \A j \in 1 .. k : \A l \in DOMAIN s[j] : \E i \in 1 .. Len(t) : o[i] = j /\ q[i] = l

\* The next piece comes at the end.
LEMMA OriginsGrow ==
    ASSUME NEW s, Pieces(s), NEW k \in Nat, k + 1 \in DOMAIN s, NEW t, NEW o, NEW q, Origins(t, s, k, o, q)
    PROVE  \E p, r : Origins(t \o s[k + 1], s, k + 1, p, r)
<1> DEFINE u == s[k + 1]
           w == t \o u
           p == [i \in 1 .. Len(t) + Len(u) |-> IF i \in 1 .. Len(t) THEN o[i] ELSE k + 1]
           r == [i \in 1 .. Len(t) + Len(u) |-> IF i \in 1 .. Len(t) THEN q[i] ELSE i - Len(t)]
<1>1. IsList(u) /\ IsList(t)
  BY DEF Pieces, Origins
<1>2. /\ IsList(w) /\ DOMAIN w = 1 .. Len(w) /\ Len(w) = Len(t) + Len(u)
      /\ Len(t) \in Nat /\ Len(u) \in Nat /\ DOMAIN u = 1 .. Len(u)
      /\ \A i \in 1 .. Len(t) : w[i] = t[i]
      /\ \A i \in 1 .. Len(u) : w[Len(t) + i] = u[i]
  BY <1>1, ConcatList
<1>3. \A i \in 1 .. Len(t) : /\ i \in 1 .. Len(w) /\ p[i] = o[i] /\ r[i] = q[i]
                           /\ p[i] \in 1 .. k /\ p[i] \in 1 .. k + 1 /\ p[i] # k + 1
  <2> TAKE i \in 1 .. Len(t)
  <2>1. i \in 1 .. Len(t) + Len(u) /\ o[i] \in 1 .. k
    BY <1>2 DEF Origins
  <2>2. p[i] = o[i] /\ r[i] = q[i]
    BY <2>1
  <2> HIDE DEF p, r
  <2> QED BY <1>2, <2>1, <2>2
<1>4. ASSUME NEW i \in 1 .. Len(w), i \notin 1 .. Len(t)
      PROVE  p[i] = k + 1 /\ r[i] = i - Len(t) /\ r[i] \in 1 .. Len(u) /\ i = Len(t) + r[i]
  BY <1>2, <1>4
<1>5. p \in [1 .. Len(w) -> 1 .. k + 1]
  <2>1. p = [i \in 1 .. Len(w) |-> p[i]]
    BY <1>2
  <2>2. k + 1 \in 1 .. k + 1
    OBVIOUS
  <2> HIDE DEF p
  <2>3. \A i \in 1 .. Len(w) : p[i] \in 1 .. k + 1
    BY <1>3, <1>4, <2>2
  <2> QED BY <2>1, <2>3
<1>6. ASSUME NEW l \in 1 .. Len(u)
      PROVE  Len(t) + l \in 1 .. Len(w) /\ p[Len(t) + l] = k + 1 /\ r[Len(t) + l] = l
  BY <1>2
<1> HIDE DEF p, r, w
<1>7. \A i \in 1 .. Len(w) : r[i] \in DOMAIN s[p[i]] /\ w[i] = s[p[i]][r[i]]
  <2> TAKE i \in 1 .. Len(w)
  <2>1. CASE i \in 1 .. Len(t)
    BY <1>2, <1>3, <2>1 DEF Origins
  <2>2. CASE i \notin 1 .. Len(t)
    BY <1>2, <1>4, <2>2
  <2> QED BY <2>1, <2>2
<1>8. \A i, j \in 1 .. Len(w) : p[i] = p[j] /\ r[i] = r[j] => i = j
  <2> TAKE i, j \in 1 .. Len(w)
  <2>1. CASE i \in 1 .. Len(t) /\ j \in 1 .. Len(t)
    BY <1>3, <2>1 DEF Origins
  <2>2. CASE i \notin 1 .. Len(t) /\ j \notin 1 .. Len(t)
    <3>1. i = Len(t) + r[i] /\ j = Len(t) + r[j]
      BY <1>4, <2>2
    <3> QED BY <3>1
  <2>3. CASE ~((i \in 1 .. Len(t)) <=> (j \in 1 .. Len(t)))
    BY <1>3, <1>4, <2>3
  <2> QED BY <2>1, <2>2, <2>3
<1>9. ASSUME NEW j \in 1 .. k + 1, NEW l \in DOMAIN s[j]
      PROVE  \E i \in 1 .. Len(w) : p[i] = j /\ r[i] = l
  <2>1. CASE j = k + 1
    BY <1>2, <1>6, <2>1
  <2>2. CASE j # k + 1
    <3>1. j \in 1 .. k
      BY <2>2
    <3>2. PICK i \in 1 .. Len(t) : o[i] = j /\ q[i] = l
      BY <3>1 DEF Origins
    <3> QED BY <1>3, <3>2
  <2> QED BY <2>1, <2>2
<1>10. Origins(w, s, k + 1, p, r)
  BY <1>2, <1>5, <1>7, <1>8, <1>9 DEF Origins
<1> QED BY <1>10 DEF w

\* The whole of it.
LEMMA FlattenPieces ==
    ASSUME NEW s, Pieces(s)
    PROVE  \E o, q : Origins(FlattenSeq(s), s, Len(s), o, q)
<1>1. IsList(s) /\ Len(s) \in Nat /\ DOMAIN s = 1 .. Len(s)
  BY AppendList DEF Pieces
<1>2. ASSUME NEW u, NEW o, u = <<>>, o = <<>> PROVE Origins(u, s, 0, o, o)
  <2>1. IsList(u) /\ Len(u) = 0 /\ DOMAIN u = 1 .. 0 /\ DOMAIN o = 1 .. 0
    <3>1. u \in Seq({}) /\ o \in Seq({}) /\ Len(u) = 0 /\ Len(o) = 0
      BY <1>2
    <3>2. DOMAIN u = 1 .. Len(u) /\ DOMAIN o = 1 .. Len(o)
      BY <3>1
    <3> QED BY <3>1, <3>2, ListIs
  <2>2. o \in [1 .. Len(u) -> 1 .. 0]
    BY <1>2, <2>1
  <2> QED BY <2>1, <2>2 DEF Origins
<1>3. CASE Len(s) = 0
  <2>1. s = <<>>
    <3>1. s \in Seq({s[i] : i \in DOMAIN s})
      BY <1>1 DEF IsList
    <3> QED BY <1>3, <3>1, EmptySeq
  <2>2. FlattenSeq(s) = s
    BY <1>3 DEF FlattenSeq
  <2>3. Origins(FlattenSeq(s), s, Len(s), <<>>, <<>>)
    BY <1>2, <1>3, <2>1, <2>2
  <2> QED BY <2>3
<1>4. CASE Len(s) # 0
  <2> DEFINE n == Len(s)
             f == CHOOSE f : Flattens(f, s, n)
  <2>1. Flattens(f, s, n)
    <3>1. \E g : Flattens(g, s, n)
      BY <1>1, FlattenExists
    <3> QED BY <3>1
  <2>2. FlattenSeq(s) = f[n]
    BY <1>4 DEF FlattenSeq, Flattens
  <2> HIDE DEF f
  <2>3. \A i \in 1 .. n : f[i] = IF i = 1 THEN s[i] ELSE f[i - 1] \o s[i]
    BY <2>1 DEF Flattens
  <2> DEFINE S == {k \in Nat : k + 1 \in 1 .. n => \E o, q : Origins(f[k + 1], s, k + 1, o, q)}
  <2>4. 0 \in S
    <3>1. 1 \in 1 .. n /\ f[1] = s[1] /\ IsList(s[1]) /\ 0 + 1 = 1 /\ 0 \in Nat
      <4>1. 1 \in 1 .. n
        BY <1>1, <1>4
      <4> QED BY <1>1, <2>3, <4>1 DEF Pieces
    <3>2. <<>> \o s[1] = s[1]
      <4>1. s[1] \in Seq({s[1][i] : i \in DOMAIN s[1]})
        BY <3>1 DEF IsList
      <4> QED BY <4>1
    <3>3. Origins(<<>>, s, 0, <<>>, <<>>)
      BY <1>2
    <3>4. 0 + 1 \in DOMAIN s
      BY <1>1, <3>1
    <3>5. \E p, r : Origins(<<>> \o s[0 + 1], s, 0 + 1, p, r)
      BY <3>1, <3>3, <3>4, OriginsGrow
    <3>6. \E p, r : Origins(f[0 + 1], s, 0 + 1, p, r)
      BY <3>1, <3>2, <3>5
    <3> QED BY <3>1, <3>6
  <2>5. ASSUME NEW k \in S PROVE k + 1 \in S
    <3>0. k \in Nat /\ k + 1 \in Nat
      OBVIOUS
    <3>1. CASE k + 1 + 1 \in 1 .. n
      <4>1. k + 1 \in 1 .. n /\ k + 1 + 1 # 1 /\ k + 1 + 1 - 1 = k + 1
        BY <1>1, <3>0, <3>1
      <4>2. PICK o, q : Origins(f[k + 1], s, k + 1, o, q)
        BY <4>1
      <4>3. \E p, r : Origins(f[k + 1] \o s[k + 1 + 1], s, k + 1 + 1, p, r)
        BY <1>1, <3>0, <3>1, <4>2, OriginsGrow
      <4>4. f[k + 1 + 1] = f[k + 1] \o s[k + 1 + 1]
        <5>1. f[k + 1 + 1] = IF k + 1 + 1 = 1 THEN s[k + 1 + 1] ELSE f[k + 1 + 1 - 1] \o s[k + 1 + 1]
          BY <2>3, <3>1
        <5> QED BY <4>1, <5>1
      <4> QED BY <3>0, <4>3, <4>4
    <3>2. CASE ~(k + 1 + 1 \in 1 .. n)
      BY <3>0, <3>2
    <3> QED BY <3>1, <3>2
  <2>6. S = Nat
    <3> HIDE DEF S
    <3>1. S \in SUBSET Nat
      BY DEF S
    <3> QED BY <2>4, <2>5, <3>1, Induct
  <2>7. n - 1 \in Nat /\ (n - 1) + 1 = n /\ n \in 1 .. n
    BY <1>1, <1>4
  <2>8. \A k \in Nat : k + 1 \in 1 .. n => \E o, q : Origins(f[k + 1], s, k + 1, o, q)
    BY <2>6
  <2> QED BY <2>2, <2>7, <2>8
<1> QED BY <1>3, <1>4

-----------------------------------------------------------------------------
(* Lists of different elements, whose ids were handed out; K tells which   *)
(* of these ids are of strokes.                                            *)
ElementFields == {"id", "content", "stroke"}
IsElement(e, K) == e = [f \in ElementFields |-> e[f]] /\ e.id \in DOMAIN K /\ e.stroke = K[e.id]
Distinct(es, K) ==
    /\ IsList(es)
    /\ \A i \in DOMAIN es : IsElement(es[i], K)
    /\ \A i, j \in DOMAIN es : es[i].id = es[j].id => i = j
Extends(L, K) == \A i \in DOMAIN K : i \in DOMAIN L /\ L[i] = K[i]

\* The ids are those of the elements in the list.
LEMMA IdsOfRange == ASSUME NEW es PROVE ElementIds(es) = {e.id : e \in Range(es)}
BY DEF ElementIds, Range

\* Each element is one with an id handed out.
LEMMA DistinctMeans ==
    ASSUME NEW es, NEW K, Distinct(es, K)
    PROVE  /\ \A e \in Range(es) : IsElement(e, K)
           /\ \A d, e \in Range(es) : d.id = e.id => d = e
           /\ ElementIds(es) \subseteq DOMAIN K
BY DEF Distinct, Range, ElementIds, IsElement

\* More ids may be handed out.
LEMMA DistinctLasts ==
    ASSUME NEW es, NEW K, NEW L, Extends(L, K), Distinct(es, K)
    PROVE  Distinct(es, L)
BY DEF Distinct, IsElement, Extends

\* No element.
LEMMA NoneDistinct == ASSUME NEW K PROVE Distinct(<<>>, K) /\ Range(<<>>) = {} /\ ElementIds(<<>>) = {}
<1>1. <<>> \in Seq({}) /\ DOMAIN <<>> = {}
  OBVIOUS
<1> QED BY <1>1, ListIs DEF Distinct, Range, ElementIds

\* One element more.
LEMMA AppendDistinct ==
    ASSUME NEW es, NEW K, Distinct(es, K), NEW e, IsElement(e, K), e.id \notin ElementIds(es)
    PROVE  Distinct(Append(es, e), K) /\ Range(Append(es, e)) = Range(es) \cup {e}
<1> DEFINE r == Append(es, e)
<1>1. /\ IsList(r) /\ DOMAIN r = 1 .. Len(es) + 1 /\ Len(es) \in Nat /\ DOMAIN es = 1 .. Len(es)
      /\ \A i \in 1 .. Len(es) : r[i] = es[i]
      /\ r[Len(es) + 1] = e
  BY AppendList DEF Distinct
<1> HIDE DEF r
<1>2. \A i \in DOMAIN r : i = Len(es) + 1 \/ (i \in DOMAIN es /\ i # Len(es) + 1)
  BY <1>1
<1>3. \A i \in DOMAIN es : i \in DOMAIN r /\ r[i] = es[i] /\ es[i].id # e.id
  BY <1>1 DEF ElementIds
<1>4. Len(es) + 1 \in DOMAIN r
  BY <1>1
<1>5. \A i, j \in DOMAIN r : r[i].id = r[j].id => i = j
  BY <1>1, <1>2, <1>3 DEF Distinct
<1>6. \A i \in DOMAIN r : IsElement(r[i], K)
  BY <1>1, <1>2, <1>3 DEF Distinct
<1>7. Range(r) = Range(es) \cup {e}
  <2>1. ASSUME NEW x \in Range(r) PROVE x \in Range(es) \cup {e}
    BY <1>1, <1>2, <1>3 DEF Range
  <2>2. ASSUME NEW x \in Range(es) PROVE x \in Range(r)
    BY <1>3 DEF Range
  <2>3. e \in Range(r)
    BY <1>1, <1>4 DEF Range
  <2> QED BY <2>1, <2>2, <2>3
<1> QED BY <1>1, <1>5, <1>6, <1>7 DEF Distinct, r

\* One list after the other.
LEMMA ConcatDistinct ==
    ASSUME NEW s, NEW t, NEW K, Distinct(s, K), Distinct(t, K), ElementIds(s) \cap ElementIds(t) = {}
    PROVE  Distinct(s \o t, K) /\ Range(s \o t) = Range(s) \cup Range(t)
<1> DEFINE r == s \o t
<1>1. IsList(s) /\ IsList(t)
  BY DEF Distinct
<1>2. /\ IsList(r) /\ DOMAIN r = 1 .. Len(s) + Len(t)
      /\ Len(s) \in Nat /\ Len(t) \in Nat /\ DOMAIN s = 1 .. Len(s) /\ DOMAIN t = 1 .. Len(t)
      /\ \A i \in 1 .. Len(s) : r[i] = s[i]
  BY <1>1, ConcatList
<1>3. \A i \in 1 .. Len(t) : r[Len(s) + i] = t[i]
  BY <1>1, ConcatList
<1> HIDE DEF r
<1>4. ASSUME NEW i \in DOMAIN r
      PROVE  \/ i \in DOMAIN s /\ r[i] = s[i]
             \/ i - Len(s) \in DOMAIN t /\ r[i] = t[i - Len(s)]
  <2>1. i \in 1 .. Len(s) + Len(t)
    BY <1>2
  <2>2. CASE i <= Len(s)
    <3>1. i \in 1 .. Len(s)
      BY <1>2, <2>1, <2>2
    <3> QED BY <1>2, <3>1
  <2>3. CASE ~(i <= Len(s))
    <3>1. i - Len(s) \in 1 .. Len(t) /\ Len(s) + (i - Len(s)) = i
      BY <1>2, <2>1, <2>3
    <3>2. r[Len(s) + (i - Len(s))] = t[i - Len(s)]
      BY <1>3, <3>1
    <3> QED BY <1>2, <3>1, <3>2
  <2> QED BY <2>2, <2>3
<1>5. \A i, j \in DOMAIN r : i - Len(s) = j - Len(s) => i = j
  BY <1>2
<1>6. \A i \in DOMAIN s : \A j \in DOMAIN t : s[i].id # t[j].id
  BY DEF ElementIds
<1>7. \A i, j \in DOMAIN r : r[i].id = r[j].id => i = j
  <2> TAKE i, j \in DOMAIN r
  <2> HAVE r[i].id = r[j].id
  <2>1. CASE i \in DOMAIN s /\ r[i] = s[i] /\ j \in DOMAIN s /\ r[j] = s[j]
    BY <2>1 DEF Distinct
  <2>2. CASE i - Len(s) \in DOMAIN t /\ r[i] = t[i - Len(s)] /\ j - Len(s) \in DOMAIN t /\ r[j] = t[j - Len(s)]
    <3>1. i - Len(s) = j - Len(s)
      BY <2>2 DEF Distinct
    <3> QED BY <1>5, <3>1
  <2> QED BY <1>4, <1>6, <2>1, <2>2
<1>8. \A i \in DOMAIN r : IsElement(r[i], K)
  BY <1>4 DEF Distinct
<1>9. Range(r) = Range(s) \cup Range(t)
  <2>1. ASSUME NEW x \in Range(r) PROVE x \in Range(s) \cup Range(t)
    BY <1>4 DEF Range
  <2>2. ASSUME NEW x \in Range(s) PROVE x \in Range(r)
    <3>1. PICK i \in DOMAIN s : x = s[i]
      BY DEF Range
    <3>2. i \in DOMAIN r /\ r[i] = s[i]
      BY <1>2
    <3> QED BY <3>1, <3>2 DEF Range
  <2>3. ASSUME NEW x \in Range(t) PROVE x \in Range(r)
    <3>1. PICK i \in DOMAIN t : x = t[i]
      BY DEF Range
    <3>2. i \in 1 .. Len(t) /\ Len(s) + i \in 1 .. Len(s) + Len(t)
      BY <1>2
    <3>3. Len(s) + i \in DOMAIN r /\ r[Len(s) + i] = t[i]
      BY <1>2, <1>3, <3>2
    <3> QED BY <3>1, <3>3 DEF Range
  <2> QED BY <2>1, <2>2, <2>3
<1> QED BY <1>2, <1>7, <1>8, <1>9 DEF Distinct, r

\* RemoveElementById.
LEMMA WithoutDistinct ==
    ASSUME NEW es, NEW K, Distinct(es, K), NEW id
    PROVE  /\ Distinct(Without(es, id), K)
           /\ Range(Without(es, id)) = {e \in Range(es) : e.id # id}
<1>1. IsList(es) /\ DOMAIN es = 1 .. Len(es) /\ Len(es) \in Nat
  BY AppendList DEF Distinct
<1>2. CASE ~\E i \in 1 .. Len(es) : es[i].id = id
  <2>1. Without(es, id) = es
    BY <1>2 DEF Without, RemoveFirstMatch
  <2>2. \A e \in Range(es) : e.id # id
    BY <1>1, <1>2 DEF Range
  <2> QED BY <2>1, <2>2
<1>3. CASE \E i \in 1 .. Len(es) : es[i].id = id
  <2> DEFINE I == {i \in 1 .. Len(es) : es[i].id = id}
  <2>1. PICK x \in DOMAIN es : es[x].id = id
    BY <1>1, <1>3
  <2>2. I = {x}
    BY <1>1, <2>1 DEF Distinct
  <2>3. Min({x}) = x
    <3>1. x \in Int
      BY <1>1
    <3> QED BY <3>1 DEF Min
  <2>4. SelectInSeq(es, LAMBDA e : e.id = id) = IF I # {} THEN Min(I) ELSE 0
    BY DEF SelectInSeq
  <2> HIDE DEF I
  <2>5. SelectInSeq(es, LAMBDA e : e.id = id) = x
    BY <2>2, <2>3, <2>4
  <2>6. Without(es, id) = RemoveAt(es, x)
    BY <1>3, <2>5 DEF Without, RemoveFirstMatch
  <2> DEFINE r == RemoveAt(es, x)
             old(j) == IF j < x THEN j ELSE j + 1
  <2>7. /\ IsList(r) /\ Len(es) \in Nat \ {0}
        /\ DOMAIN r = 1 .. Len(es) - 1
        /\ \A j \in 1 .. Len(es) - 1 : r[j] = IF j < x THEN es[j] ELSE es[j + 1]
    BY <1>1, RemoveList
  <2> HIDE DEF r
  <2>8. ASSUME NEW j \in DOMAIN r PROVE old(j) \in DOMAIN es /\ r[j] = es[old(j)] /\ old(j) # x
    <3>1. j \in 1 .. Len(es) - 1 /\ x \in 1 .. Len(es) /\ Len(es) \in Nat
      BY <1>1, <2>7
    <3>2. old(j) \in 1 .. Len(es) /\ old(j) # x
      BY <3>1
    <3> QED BY <1>1, <2>7, <3>1, <3>2
  <2>9. \A j, k \in DOMAIN r : old(j) = old(k) => j = k
    BY <1>1, <2>7
  <2>10. ASSUME NEW k \in DOMAIN es, k # x PROVE \E j \in DOMAIN r : old(j) = k
    <3>1. k \in 1 .. Len(es) /\ x \in 1 .. Len(es) /\ Len(es) \in Nat
      BY <1>1
    <3>2. CASE k < x
      <4>1. k \in 1 .. Len(es) - 1
        BY <3>1, <3>2
      <4> QED BY <2>7, <3>2, <4>1
    <3>3. CASE ~(k < x)
      <4>1. k - 1 \in 1 .. Len(es) - 1 /\ ~(k - 1 < x) /\ (k - 1) + 1 = k
        BY <2>10, <3>1, <3>3
      <4> QED BY <2>7, <4>1
    <3> QED BY <3>2, <3>3
  <2> HIDE DEF old
  <2>11. Distinct(r, K)
    BY <2>7, <2>8, <2>9 DEF Distinct
  <2>12. Range(r) = {e \in Range(es) : e.id # id}
    <3>1. ASSUME NEW e \in Range(r) PROVE e \in Range(es) /\ e.id # id
      BY <2>1, <2>8 DEF Range, Distinct
    <3>2. ASSUME NEW e \in Range(es), e.id # id PROVE e \in Range(r)
      <4>1. PICK k \in DOMAIN es : e = es[k]
        BY DEF Range
      <4>2. k # x
        BY <2>1, <3>2, <4>1
      <4> QED BY <2>8, <2>10, <4>1, <4>2 DEF Range
    <3> QED BY <3>1, <3>2
  <2> QED BY <2>6, <2>11, <2>12 DEF r
<1> QED BY <1>2, <1>3

-----------------------------------------------------------------------------
(* A pass of the eraser, whose fragments have different ids.               *)
IsPass(pass) == (\A x \in DOMAIN pass : IsList(pass[x])) /\ OneEach(pass)

\* A new element is an element.
LEMMA ElementIs ==
    ASSUME NEW id, NEW stroke, NEW K, id \in DOMAIN K, stroke = K[id]
    PROVE  IsElement(Element(id, stroke), K) /\ Element(id, stroke).id = id
BY DEF IsElement, Element, ElementFields

\* What takes the place of one element: itself, or its fragments.
Kept(e, pass) == e.id \notin DOMAIN pass
PieceOf(e, pass) ==
    IF e.id \in DOMAIN pass THEN [k \in DOMAIN pass[e.id] |-> Element(pass[e.id][k], TRUE)] ELSE <<e>>

PieceFits(e, pass) ==
    /\ IsList(PieceOf(e, pass))
    /\ Kept(e, pass) => DOMAIN PieceOf(e, pass) = {1} /\ PieceOf(e, pass)[1] = e
    /\ ~Kept(e, pass) => /\ DOMAIN PieceOf(e, pass) = DOMAIN pass[e.id]
                         /\ \A k \in DOMAIN pass[e.id] : PieceOf(e, pass)[k] = Element(pass[e.id][k], TRUE)

LEMMA PieceIs == ASSUME NEW e, NEW pass, IsPass(pass) PROVE PieceFits(e, pass)
<1>1. CASE Kept(e, pass)
  <2>1. IsList(<<e>>) /\ <<e>>[1] = e /\ DOMAIN <<e>> = 1 .. 1
    BY OneList
  <2>2. PieceOf(e, pass) = <<e>>
    BY <1>1 DEF PieceOf, Kept
  <2>3. 1 .. 1 = {1}
    OBVIOUS
  <2> QED BY <1>1, <2>1, <2>2, <2>3 DEF PieceFits
<1>2. CASE ~Kept(e, pass)
  <2> DEFINE l == pass[e.id]
             p == [k \in DOMAIN l |-> Element(l[k], TRUE)]
  <2>1. IsList(l) /\ Len(l) \in Nat /\ DOMAIN l = 1 .. Len(l)
    BY <1>2, AppendList DEF IsPass, Kept
  <2>2. PieceOf(e, pass) = p
    BY <1>2 DEF PieceOf, Kept
  <2> HIDE DEF l
  <2>3. p = [k \in 1 .. Len(l) |-> p[k]] /\ DOMAIN p = DOMAIN l /\ \A k \in DOMAIN l : p[k] = Element(l[k], TRUE)
    BY <2>1
  <2> HIDE DEF p
  <2>4. IsList(p)
    BY <2>1, <2>3, MadeList
  <2> QED BY <1>2, <2>2, <2>3, <2>4 DEF l, PieceFits
<1> QED BY <1>1, <1>2

\* x is a fragment of one of the elements.
LeftOf(es, pass, x) == \E e \in Range(es) : ~Kept(e, pass) /\ x \in Range(pass[e.id])

\* What a pass leaves of a page: the strokes it does not touch, and the fragments.
LEMMA ErasedIs ==
    ASSUME NEW es, NEW K, Distinct(es, K), NEW pass, IsPass(pass),
           \A x \in Stamps(pass) : x \in DOMAIN K /\ K[x] = TRUE /\ x \notin ElementIds(es)
    PROVE  /\ Distinct(Erased(es, pass), K)
           /\ \A d : d \in Range(Erased(es, pass)) <=>
                        \/ d \in Range(es) /\ Kept(d, pass)
                        \/ \E x : d = Element(x, TRUE) /\ LeftOf(es, pass, x)
<1> DEFINE s == [i \in DOMAIN es |-> PieceOf(es[i], pass)]
<1>1. IsList(es) /\ DOMAIN es = 1 .. Len(es) /\ Len(es) \in Nat
  BY AppendList DEF Distinct
<1>2. \A e : PieceFits(e, pass)
  BY PieceIs
<1>3. Erased(es, pass) = FlattenSeq(s)
  BY DEF Erased, PieceOf
<1>4. IsList(s) /\ DOMAIN s = DOMAIN es /\ Len(s) = Len(es) /\ \A i \in DOMAIN es : s[i] = PieceOf(es[i], pass)
  <2>1. s = [i \in 1 .. Len(es) |-> s[i]] /\ \A i \in DOMAIN es : s[i] = PieceOf(es[i], pass)
    BY <1>1
  <2> HIDE DEF s
  <2>2. IsList(s) /\ DOMAIN s = 1 .. Len(es) /\ Len(s) = Len(es)
    BY <1>1, <2>1, MadeList
  <2> QED BY <1>1, <2>1, <2>2
<1> HIDE DEF s
<1>5. Pieces(s)
  <2>1. ASSUME NEW i \in DOMAIN s PROVE IsList(s[i])
    <3>1. s[i] = PieceOf(es[i], pass)
      BY <1>4
    <3>2. PieceFits(es[i], pass)
      BY <1>2
    <3> QED BY <3>1, <3>2 DEF PieceFits
  <2> QED BY <1>4, <2>1 DEF Pieces
<1>6. PICK o, q : Origins(FlattenSeq(s), s, Len(s), o, q)
  BY <1>5, FlattenPieces
<1> DEFINE r == FlattenSeq(s)
<1> HIDE DEF r
<1>7. /\ IsList(r) /\ DOMAIN r = 1 .. Len(r)
      /\ \A i \in DOMAIN r : o[i] \in DOMAIN es /\ q[i] \in DOMAIN s[o[i]] /\ r[i] = s[o[i]][q[i]]
      /\ \A i, j \in DOMAIN r : o[i] = o[j] /\ q[i] = q[j] => i = j
      /\ \A j \in DOMAIN es : \A l \in DOMAIN s[j] : \E i \in DOMAIN r : o[i] = j /\ q[i] = l
  BY <1>1, <1>4, <1>6 DEF Origins, r
<1>8. ASSUME NEW i \in DOMAIN r
      PROVE  /\ Kept(es[o[i]], pass) => r[i] = es[o[i]] /\ q[i] = 1
             /\ ~Kept(es[o[i]], pass) =>
                   q[i] \in DOMAIN pass[es[o[i]].id] /\ r[i] = Element(pass[es[o[i]].id][q[i]], TRUE)
  <2>1. q[i] \in DOMAIN PieceOf(es[o[i]], pass) /\ r[i] = PieceOf(es[o[i]], pass)[q[i]]
    BY <1>4, <1>7
  <2>2. PieceFits(es[o[i]], pass)
    BY <1>2
  <2> QED BY <2>1, <2>2 DEF PieceFits
<1>9. ASSUME NEW e, ~Kept(e, pass), NEW l \in DOMAIN pass[e.id]
      PROVE  LET x == pass[e.id][l]
             IN /\ x \in Stamps(pass) /\ IsElement(Element(x, TRUE), K) /\ Element(x, TRUE).id = x
                /\ x \notin ElementIds(es)
  <2> DEFINE x == pass[e.id][l]
  <2>1. x \in Stamps(pass)
    BY <1>9 DEF Stamps, Range, Kept
  <2> HIDE DEF x
  <2>2. IsElement(Element(x, TRUE), K) /\ Element(x, TRUE).id = x /\ x \notin ElementIds(es)
    BY <2>1, ElementIs
  <2> QED BY <2>1, <2>2 DEF x
<1>10. \A i \in DOMAIN r : IsElement(r[i], K)
  <2> TAKE i \in DOMAIN r
  <2>1. CASE Kept(es[o[i]], pass)
    BY <1>7, <1>8, <2>1 DEF Distinct
  <2>2. CASE ~Kept(es[o[i]], pass)
    <3>1. q[i] \in DOMAIN pass[es[o[i]].id] /\ r[i] = Element(pass[es[o[i]].id][q[i]], TRUE)
      BY <1>8, <2>2
    <3>2. IsElement(Element(pass[es[o[i]].id][q[i]], TRUE), K)
      BY <1>9, <2>2, <3>1
    <3> QED BY <3>1, <3>2
  <2> QED BY <2>1, <2>2
<1>11. ASSUME NEW i \in DOMAIN r, Kept(es[o[i]], pass) PROVE r[i].id \in ElementIds(es)
  <2>1. r[i] = es[o[i]] /\ o[i] \in DOMAIN es
    BY <1>7, <1>8, <1>11
  <2> QED BY <2>1 DEF ElementIds
<1>12. ASSUME NEW i \in DOMAIN r, ~Kept(es[o[i]], pass)
       PROVE  r[i].id = pass[es[o[i]].id][q[i]] /\ r[i].id \notin ElementIds(es)
  <2>1. q[i] \in DOMAIN pass[es[o[i]].id] /\ r[i] = Element(pass[es[o[i]].id][q[i]], TRUE)
    BY <1>8, <1>12
  <2>2. /\ Element(pass[es[o[i]].id][q[i]], TRUE).id = pass[es[o[i]].id][q[i]]
        /\ pass[es[o[i]].id][q[i]] \notin ElementIds(es)
    BY <1>9, <1>12, <2>1
  <2> QED BY <2>1, <2>2
<1>13. \A i, j \in DOMAIN r : r[i].id = r[j].id => i = j
  <2> TAKE i, j \in DOMAIN r
  <2> HAVE r[i].id = r[j].id
  <2>1. CASE Kept(es[o[i]], pass) /\ Kept(es[o[j]], pass)
    <3>1. r[i] = es[o[i]] /\ r[j] = es[o[j]] /\ q[i] = q[j]
      BY <1>8, <2>1
    <3>2. o[i] = o[j]
      BY <1>7, <3>1 DEF Distinct
    <3> QED BY <1>7, <3>1, <3>2
  <2>2. CASE ~Kept(es[o[i]], pass) /\ ~Kept(es[o[j]], pass)
    <3>1. pass[es[o[i]].id][q[i]] = pass[es[o[j]].id][q[j]]
      BY <1>12, <2>2
    <3>2. /\ es[o[i]].id \in DOMAIN pass /\ q[i] \in DOMAIN pass[es[o[i]].id]
          /\ es[o[j]].id \in DOMAIN pass /\ q[j] \in DOMAIN pass[es[o[j]].id]
      BY <1>8, <2>2 DEF Kept
    <3>3. es[o[i]].id = es[o[j]].id /\ q[i] = q[j]
      BY <3>1, <3>2 DEF IsPass, OneEach
    <3>4. o[i] = o[j]
      BY <1>7, <3>3 DEF Distinct
    <3> QED BY <1>7, <3>3, <3>4
  <2>3. CASE ~(Kept(es[o[i]], pass) <=> Kept(es[o[j]], pass))
    BY <1>11, <1>12, <2>3
  <2> QED BY <2>1, <2>2, <2>3
<1>14. Distinct(r, K)
  BY <1>7, <1>10, <1>13 DEF Distinct
<1>15. ASSUME NEW d \in Range(r)
       PROVE  \/ d \in Range(es) /\ Kept(d, pass)
              \/ \E x : d = Element(x, TRUE) /\ LeftOf(es, pass, x)
  <2>1. PICK i \in DOMAIN r : d = r[i]
    BY DEF Range
  <2>2. es[o[i]] \in Range(es)
    BY <1>7 DEF Range
  <2>3. CASE Kept(es[o[i]], pass)
    BY <1>8, <2>1, <2>2, <2>3
  <2>4. CASE ~Kept(es[o[i]], pass)
    <3>1. pass[es[o[i]].id][q[i]] \in Range(pass[es[o[i]].id]) /\ d = Element(pass[es[o[i]].id][q[i]], TRUE)
      BY <1>8, <2>1, <2>4 DEF Range
    <3> QED BY <2>2, <2>4, <3>1 DEF LeftOf
  <2> QED BY <2>3, <2>4
<1>16. ASSUME NEW e \in Range(es)
       PROVE  /\ Kept(e, pass) => e \in Range(r)
              /\ ~Kept(e, pass) => \A x \in Range(pass[e.id]) : Element(x, TRUE) \in Range(r)
  <2>1. PICK j \in DOMAIN es : e = es[j]
    BY DEF Range
  <2>2. s[j] = PieceOf(e, pass)
    BY <1>4, <2>1
  <2>3. ASSUME NEW l \in DOMAIN PieceOf(e, pass) PROVE PieceOf(e, pass)[l] \in Range(r)
    <3>1. PICK i \in DOMAIN r : o[i] = j /\ q[i] = l
      BY <1>7, <2>2
    <3>2. r[i] = PieceOf(e, pass)[l]
      BY <1>7, <2>2, <3>1
    <3> QED BY <3>2 DEF Range
  <2>4. PieceFits(e, pass)
    BY <1>2
  <2>5. CASE Kept(e, pass)
    <3>1. 1 \in DOMAIN PieceOf(e, pass) /\ PieceOf(e, pass)[1] = e
      BY <2>4, <2>5 DEF PieceFits
    <3> QED BY <2>3, <2>5, <3>1
  <2>6. ASSUME ~Kept(e, pass), NEW x \in Range(pass[e.id]) PROVE Element(x, TRUE) \in Range(r)
    <3>1. PICK l \in DOMAIN pass[e.id] : x = pass[e.id][l]
      BY DEF Range
    <3>2. l \in DOMAIN PieceOf(e, pass) /\ PieceOf(e, pass)[l] = Element(pass[e.id][l], TRUE)
      BY <2>4, <2>6, <3>1 DEF PieceFits
    <3> QED BY <2>3, <3>1, <3>2
  <2> QED BY <2>5, <2>6
<1>17. \A d : d \in Range(r) <=> \/ d \in Range(es) /\ Kept(d, pass)
                                 \/ \E x : d = Element(x, TRUE) /\ LeftOf(es, pass, x)
  BY <1>15, <1>16 DEF LeftOf
<1> QED BY <1>3, <1>14, <1>17 DEF r

\* What is left without some ids.
LEMMA LeavingIs ==
    ASSUME NEW es, NEW K, Distinct(es, K), NEW ids
    PROVE  /\ Distinct(Leaving(es, ids), K)
           /\ Range(Leaving(es, ids)) = {e \in Range(es) : e.id \notin ids}
           /\ ElementIds(Leaving(es, ids)) = ElementIds(es) \ ids
<1> DEFINE none == [id \in ids |-> <<>>]
           r == Erased(es, none)
<1>1. \A id \in ids : DOMAIN none[id] = {} /\ IsList(none[id]) /\ Range(none[id]) = {}
  <2>1. DOMAIN <<>> = {} /\ <<>> \in Seq({})
    OBVIOUS
  <2> QED BY <2>1, ListIs DEF Range
<1>2. DOMAIN none = ids /\ \A e : Kept(e, none) <=> e.id \notin ids
  BY DEF Kept
<1>3. Leaving(es, ids) = r
  BY DEF Leaving
<1> HIDE DEF none
<1>4. IsPass(none) /\ Stamps(none) = {} /\ \A x : ~LeftOf(es, none, x)
  BY <1>1, <1>2 DEF IsPass, OneEach, Stamps, LeftOf
<1>5. /\ Distinct(r, K)
      /\ \A d : d \in Range(r) <=> \/ d \in Range(es) /\ Kept(d, none)
                                   \/ \E x : d = Element(x, TRUE) /\ LeftOf(es, none, x)
  BY <1>4, ErasedIs
<1> HIDE DEF r
<1>6. Range(r) = {e \in Range(es) : e.id \notin ids}
  BY <1>2, <1>4, <1>5
<1> QED BY <1>3, <1>5, <1>6, IdsOfRange

\* The fragments a pass leaves.
LEMMA FragmentsAre ==
    ASSUME NEW es, NEW K, Distinct(es, K), NEW pass, IsPass(pass),
           \A x \in Stamps(pass) : x \in DOMAIN K /\ K[x] = TRUE /\ x \notin ElementIds(es)
    PROVE  /\ Distinct(Erased(es, pass), K)
           /\ ElementIds(Erased(es, pass)) \subseteq ElementIds(es) \cup Stamps(pass)
           /\ Distinct(Fragments(es, pass), K)
           /\ ElementIds(Fragments(es, pass)) \subseteq Stamps(pass)
<1> DEFINE r == Erased(es, pass)
<1>1. /\ Distinct(r, K)
      /\ \A d : d \in Range(r) <=> \/ d \in Range(es) /\ Kept(d, pass)
                                   \/ \E x : d = Element(x, TRUE) /\ LeftOf(es, pass, x)
  BY ErasedIs
<1>2. \A x : Element(x, TRUE).id = x /\ (LeftOf(es, pass, x) => x \in Stamps(pass))
  BY DEF Element, LeftOf, Stamps, Kept
<1> HIDE DEF r
<1>3. ASSUME NEW e \in Range(r) PROVE e \in Range(es) \/ e.id \in Stamps(pass)
  <2>1. CASE e \in Range(es)
    BY <2>1
  <2>2. CASE \E x : e = Element(x, TRUE) /\ LeftOf(es, pass, x)
    <3>1. PICK x : e = Element(x, TRUE) /\ LeftOf(es, pass, x)
      BY <2>2
    <3> QED BY <1>2, <3>1
  <2> QED BY <1>1, <2>1, <2>2
<1>4. ElementIds(r) \subseteq ElementIds(es) \cup Stamps(pass)
  BY <1>3, IdsOfRange
<1>5. Distinct(Leaving(r, ElementIds(es)), K) /\ ElementIds(Leaving(r, ElementIds(es))) = ElementIds(r) \ ElementIds(es)
  BY <1>1, LeavingIs
<1>6. Fragments(es, pass) = Leaving(r, ElementIds(es))
  BY DEF Fragments, r
<1> QED BY <1>1, <1>4, <1>5, <1>6 DEF r

-----------------------------------------------------------------------------
(* RemoveAll: elements go one by one, in some order.                       *)
AnyOf(s) == CHOOSE x \in s : TRUE
RemovesIn(T, f, es) ==
    f = [s \in T |-> IF s = {} THEN es ELSE Without(f[s \ {AnyOf(s)}], AnyOf(s))]
Small(S, k) == {s \in SUBSET S : Cardinality(s) <= k}

\* A set without one of its members is smaller.
LEMMA OneLess ==
    ASSUME NEW S, IsFiniteSet(S), NEW k \in Nat, NEW s \in Small(S, k + 1), s # {}
    PROVE  AnyOf(s) \in s /\ s \ {AnyOf(s)} \in Small(S, k)
<1>1. AnyOf(s) \in s
  BY DEF AnyOf
<1>2. IsFiniteSet(s) /\ Cardinality(s) <= k + 1 /\ s \subseteq S
  BY FS_Subset DEF Small
<1>3. Cardinality(s) \in Nat /\ Cardinality(s \ {AnyOf(s)}) = Cardinality(s) - 1
  BY <1>1, <1>2, FS_CardinalityType, FS_RemoveElement
<1>4. Cardinality(s \ {AnyOf(s)}) <= k
  BY <1>2, <1>3
<1> QED BY <1>1, <1>2, <1>4 DEF Small

\* The fold exists.
LEMMA RemovesExists ==
    ASSUME NEW S, IsFiniteSet(S), NEW es, NEW n \in Nat
    PROVE  \E f : RemovesIn(Small(S, n), f, es)
<1> DEFINE R == {k \in Nat : \E f : RemovesIn(Small(S, k), f, es)}
<1>1. 0 \in R
  <2> DEFINE f == [s \in Small(S, 0) |-> es]
  <2>1. \A s \in Small(S, 0) : s = {}
    <3> TAKE s \in Small(S, 0)
    <3>1. IsFiniteSet(s) /\ Cardinality(s) <= 0
      BY FS_Subset DEF Small
    <3>2. Cardinality(s) \in Nat /\ Cardinality(s) = 0
      BY <3>1, FS_CardinalityType
    <3> QED BY <3>1, <3>2, FS_EmptySet
  <2>2. \A s \in Small(S, 0) : f[s] = IF s = {} THEN es ELSE Without(f[s \ {AnyOf(s)}], AnyOf(s))
    BY <2>1
  <2>3. f = [s \in Small(S, 0) |-> f[s]]
    OBVIOUS
  <2> HIDE DEF f
  <2>4. RemovesIn(Small(S, 0), f, es)
    BY <2>2, <2>3 DEF RemovesIn
  <2> QED BY <2>4
<1>2. ASSUME NEW k \in R PROVE k + 1 \in R
  <2>0. k \in Nat /\ k + 1 \in Nat
    OBVIOUS
  <2>1. PICK f : RemovesIn(Small(S, k), f, es)
    OBVIOUS
  <2> DEFINE g == [s \in Small(S, k + 1) |-> IF s = {} THEN es ELSE Without(f[s \ {AnyOf(s)}], AnyOf(s))]
  <2>2. \A s \in Small(S, k) : s \in Small(S, k + 1) /\ g[s] = f[s]
    <3> TAKE s \in Small(S, k)
    <3>1. s \in Small(S, k + 1)
      <4>1. IsFiniteSet(s) /\ Cardinality(s) <= k
        BY FS_Subset DEF Small
      <4>2. Cardinality(s) <= k + 1
        BY <2>0, <4>1, FS_CardinalityType
      <4> QED BY <4>2 DEF Small
    <3>2. f[s] = IF s = {} THEN es ELSE Without(f[s \ {AnyOf(s)}], AnyOf(s))
      BY <2>1 DEF RemovesIn
    <3>3. g[s] = IF s = {} THEN es ELSE Without(f[s \ {AnyOf(s)}], AnyOf(s))
      BY <3>1
    <3> QED BY <3>1, <3>2, <3>3
  <2>3. \A s \in Small(S, k + 1) : g[s] = IF s = {} THEN es ELSE Without(g[s \ {AnyOf(s)}], AnyOf(s))
    <3> TAKE s \in Small(S, k + 1)
    <3>1. s # {} => s \ {AnyOf(s)} \in Small(S, k)
      BY <2>0, OneLess
    <3>2. s # {} => g[s \ {AnyOf(s)}] = f[s \ {AnyOf(s)}]
      BY <2>2, <3>1
    <3>3. g[s] = IF s = {} THEN es ELSE Without(f[s \ {AnyOf(s)}], AnyOf(s))
      OBVIOUS
    <3> QED BY <3>2, <3>3
  <2>4. g = [s \in Small(S, k + 1) |-> g[s]]
    OBVIOUS
  <2> HIDE DEF g
  <2>5. RemovesIn(Small(S, k + 1), g, es)
    BY <2>3, <2>4 DEF RemovesIn
  <2> QED BY <2>0, <2>5
<1> HIDE DEF R
<1>3. R = Nat
  <2>1. R \in SUBSET Nat
    BY DEF R
  <2> QED BY <1>1, <1>2, <2>1, Induct
<1> QED BY <1>3 DEF R

\* What is left when all of ids are removed.
LEMMA RemovedIs ==
    ASSUME NEW S, IsFiniteSet(S), NEW es, NEW K, Distinct(es, K)
    PROVE  LET r == FoldSet(LAMBDA id, t : Without(t, id), es, S)
           IN Distinct(r, K) /\ Range(r) = {e \in Range(es) : e.id \notin S}
<1> DEFINE f == CHOOSE f : RemovesIn(SUBSET S, f, es)
           left(s) == {e \in Range(es) : e.id \notin s}
<1>1. FoldSet(LAMBDA id, t : Without(t, id), es, S) = f[S]
  BY DEF FoldSet, MapThenFoldSet, RemovesIn, AnyOf
<1>2. RemovesIn(SUBSET S, f, es)
  <2>1. Cardinality(S) \in Nat
    BY FS_CardinalityType
  <2>2. Small(S, Cardinality(S)) = SUBSET S
    BY FS_Subset DEF Small
  <2>3. \E g : RemovesIn(SUBSET S, g, es)
    <3>1. \E g : RemovesIn(Small(S, Cardinality(S)), g, es)
      BY <2>1, RemovesExists
    <3> QED BY <2>2, <3>1
  <2> QED BY <2>3
<1> HIDE DEF f
<1>3. \A s \in SUBSET S : f[s] = IF s = {} THEN es ELSE Without(f[s \ {AnyOf(s)}], AnyOf(s))
  BY <1>2 DEF RemovesIn
<1> DEFINE R == {k \in Nat : \A s \in Small(S, k) : Distinct(f[s], K) /\ Range(f[s]) = left(s)}
<1>4. 0 \in R
  <2>1. ASSUME NEW s \in Small(S, 0) PROVE Distinct(f[s], K) /\ Range(f[s]) = left(s)
    <3>1. IsFiniteSet(s) /\ Cardinality(s) <= 0 /\ s \in SUBSET S
      BY FS_Subset DEF Small
    <3>2. Cardinality(s) \in Nat /\ Cardinality(s) = 0
      BY <3>1, FS_CardinalityType
    <3>3. s = {}
      BY <3>1, <3>2, FS_EmptySet
    <3>4. f[s] = es
      BY <1>3, <3>1, <3>3
    <3> QED BY <3>3, <3>4
  <2> QED BY <2>1
<1>5. ASSUME NEW k \in R PROVE k + 1 \in R
  <2>0. k \in Nat /\ k + 1 \in Nat
    OBVIOUS
  <2>1. ASSUME NEW s \in Small(S, k + 1) PROVE Distinct(f[s], K) /\ Range(f[s]) = left(s)
    <3>1. s \in SUBSET S
      BY DEF Small
    <3>2. CASE s = {}
      <4>1. f[s] = es
        BY <1>3, <3>1, <3>2
      <4> QED BY <3>2, <4>1
    <3>3. CASE s # {}
      <4> DEFINE t == s \ {AnyOf(s)}
      <4>1. AnyOf(s) \in s /\ t \in Small(S, k)
        BY <2>0, <3>3, OneLess
      <4>2. f[s] = Without(f[t], AnyOf(s))
        BY <1>3, <3>1, <3>3
      <4>3. Distinct(f[t], K) /\ Range(f[t]) = left(t)
        BY <4>1
      <4>4. Distinct(f[s], K) /\ Range(f[s]) = {e \in Range(f[t]) : e.id # AnyOf(s)}
        <5> DEFINE u == f[t]
                   x == AnyOf(s)
        <5>1. Distinct(u, K)
          BY <4>3
        <5> HIDE DEF u, x, t
        <5>2. Distinct(Without(u, x), K) /\ Range(Without(u, x)) = {e \in Range(u) : e.id # x}
          BY <5>1, WithoutDistinct
        <5> QED BY <4>2, <5>2 DEF u, x
      <4>5. {e \in left(t) : e.id # AnyOf(s)} = left(s)
        BY <4>1
      <4> QED BY <4>3, <4>4, <4>5
    <3> QED BY <3>2, <3>3
  <2> QED BY <2>0, <2>1
<1> HIDE DEF R
<1>6. R = Nat
  <2>1. R \in SUBSET Nat
    BY DEF R
  <2> QED BY <1>4, <1>5, <2>1, Induct
<1>7. Distinct(f[S], K) /\ Range(f[S]) = left(S)
  <2>1. Cardinality(S) \in Nat
    BY FS_CardinalityType
  <2>2. S \in Small(S, Cardinality(S))
    BY <2>1 DEF Small
  <2> QED BY <1>6, <2>1, <2>2 DEF R
<1> QED BY <1>1, <1>7

\* Another content is no other element.
LEMMA ElementEdited ==
    ASSUME NEW d, NEW K, IsElement(d, K), NEW content
    PROVE  LET e == [d EXCEPT !.content = content]
           IN IsElement(e, K) /\ e.id = d.id /\ e.stroke = d.stroke
<1> DEFINE e == [d EXCEPT !.content = content]
<1>1. e = [f \in ElementFields |-> IF f = "content" THEN content ELSE d[f]]
  BY DEF IsElement, ElementFields
<1>2. e.id = d.id /\ e.stroke = d.stroke
  BY <1>1 DEF ElementFields
<1>3. e = [f \in ElementFields |-> e[f]]
  BY <1>1
<1> HIDE DEF e
<1>4. IsElement(e, K)
  BY <1>2, <1>3 DEF IsElement
<1> QED BY <1>2, <1>4 DEF e

\* So the list has the same ids.
LEMMA EditedDistinct ==
    ASSUME NEW es, NEW K, Distinct(es, K), NEW x \in DOMAIN es, NEW content
    PROVE  /\ Distinct([es EXCEPT ![x].content = content], K)
           /\ ElementIds([es EXCEPT ![x].content = content]) = ElementIds(es)
<1> DEFINE e == [es[x] EXCEPT !.content = content]
           r == [es EXCEPT ![x] = e]
<1>1. IsElement(es[x], K)
  BY DEF Distinct
<1>2. IsElement(e, K) /\ e.id = es[x].id
  BY <1>1, ElementEdited
<1>3. r = [es EXCEPT ![x].content = content]
  OBVIOUS
<1> HIDE DEF e
<1>4. IsList(es) /\ DOMAIN es = 1 .. Len(es) /\ Len(es) \in Nat
  BY AppendList DEF Distinct
<1>5. es = [i \in 1 .. Len(es) |-> es[i]]
  BY <1>4 DEF IsList
<1>6. r = [i \in 1 .. Len(es) |-> r[i]] /\ \A i \in 1 .. Len(es) : r[i] = IF i = x THEN e ELSE es[i]
  BY <1>4, <1>5
<1> HIDE DEF r
<1>7. IsList(r) /\ DOMAIN r = 1 .. Len(es)
  BY <1>4, <1>6, MadeList
<1>8. \A i \in DOMAIN r : i \in DOMAIN es /\ IsElement(r[i], K) /\ r[i].id = es[i].id
  BY <1>2, <1>4, <1>6, <1>7 DEF Distinct
<1>9. Distinct(r, K)
  BY <1>7, <1>8 DEF Distinct
<1>10. ElementIds(r) = ElementIds(es)
  BY <1>4, <1>7, <1>8 DEF ElementIds
<1> QED BY <1>3, <1>9, <1>10

\* The copy of an element has another id, and is of the same kind.
LEMMA ElementCopied ==
    ASSUME NEW e, NEW K, IsElement(e, K), NEW id, NEW L, id \in DOMAIN L, L[id] = e.stroke
    PROVE  IsElement([e EXCEPT !.id = id], L) /\ [e EXCEPT !.id = id].id = id
<1> DEFINE d == [e EXCEPT !.id = id]
<1>1. d = [f \in ElementFields |-> IF f = "id" THEN id ELSE e[f]]
  BY DEF IsElement, ElementFields
<1>2. d.id = id /\ d.stroke = e.stroke
  BY <1>1 DEF ElementFields
<1>3. d = [f \in ElementFields |-> d[f]]
  BY <1>1
<1> HIDE DEF d
<1>4. IsElement(d, L) /\ d.id = id
  BY <1>2, <1>3 DEF IsElement
<1> QED BY <1>4 DEF d

-----------------------------------------------------------------------------
(* The sheets of a board: its pages and the snapshots in its histories.    *)
Sheets(b) ==
    Range(b.pages)
      \cup UNION {Range(b.histories[q].undo) \cup Range(b.histories[q].redo) : q \in DOMAIN b.histories}
IdsOn(sheets) == UNION {ElementIds(p.elements) : p \in sheets}
Drawn(b) == {s.id : s \in b.strokes}
Held(b) == ElementIds(b.eraserAdded)
Known(b) == IdsOn(Sheets(b)) \cup Drawn(b) \cup Held(b)
StrokesOf(K) == {i \in DOMAIN K : K[i] = TRUE}

Clean(b, K) ==
    /\ \A p \in Sheets(b) : Distinct(p.elements, K)
    /\ Drawn(b) \subseteq StrokesOf(K) /\ Drawn(b) \cap IdsOn(Sheets(b)) = {}
    /\ \A s, t \in b.strokes : s.id = t.id => s = t
    /\ Distinct(b.eraserAdded, K) /\ Held(b) \subseteq StrokesOf(K)
    /\ b.eraserRemoved \subseteq DOMAIN K

\* What a change of a board may add to the ids it knows and to those it holds back.
Becomes(b, c, K, ids, held) ==
    Clean(c, K) /\ Known(c) \subseteq Known(b) \cup ids /\ Held(c) \subseteq Held(b) \cup held

SameGestures(b, c) ==
    c.strokes = b.strokes /\ c.eraserAdded = b.eraserAdded /\ c.eraserRemoved = b.eraserRemoved
NoGestures(c) == c.strokes = {} /\ c.eraserAdded = <<>> /\ c.eraserRemoved = {}
SheetsFrom(b, c, es) == \A p \in Sheets(c) : p \in Sheets(b) \/ p.elements = es

\* The clauses of Sheets.
LEMMA SheetIs ==
    ASSUME NEW b, NEW p
    PROVE  p \in Sheets(b) <=>
              \/ p \in Range(b.pages)
              \/ \E q \in DOMAIN b.histories : p \in Range(b.histories[q].undo) \/ p \in Range(b.histories[q].redo)
BY DEF Sheets

\* Sheets with elements that nobody draws at the moment.
LEMMA SheetsClean ==
    ASSUME NEW b, NEW K, Clean(b, K), NEW es, Distinct(es, K), ElementIds(es) \cap Drawn(b) = {},
           NEW c, SheetsFrom(b, c, es), SameGestures(b, c) \/ NoGestures(c)
    PROVE  Becomes(b, c, K, ElementIds(es), {})
<1>1. \A p \in Sheets(c) : Distinct(p.elements, K)
  BY DEF Clean, SheetsFrom
<1>2. IdsOn(Sheets(c)) \subseteq IdsOn(Sheets(b)) \cup ElementIds(es)
  BY DEF IdsOn, SheetsFrom
<1>3. CASE SameGestures(b, c)
  <2>1. Drawn(c) = Drawn(b) /\ Held(c) = Held(b)
    BY <1>3 DEF SameGestures, Drawn, Held
  <2>2. Known(c) \subseteq Known(b) \cup ElementIds(es)
    BY <1>2, <2>1 DEF Known
  <2>3. Clean(c, K)
    BY <1>1, <1>2, <1>3, <2>1 DEF Clean, SameGestures
  <2> QED BY <2>1, <2>2, <2>3 DEF Becomes
<1>4. CASE NoGestures(c)
  <2>1. Drawn(c) = {} /\ Held(c) = {} /\ Distinct(<<>>, K)
    BY <1>4, NoneDistinct DEF NoGestures, Drawn, Held
  <2>2. Known(c) \subseteq Known(b) \cup ElementIds(es)
    BY <1>2, <2>1 DEF Known
  <2>3. Clean(c, K)
    BY <1>1, <1>4, <2>1 DEF Clean, NoGestures
  <2> QED BY <2>1, <2>2, <2>3 DEF Becomes
<1> QED BY <1>3, <1>4

\* No sheet is new.
LEMMA NoneClean ==
    ASSUME NEW b, NEW K, Clean(b, K), NEW c, Sheets(c) \subseteq Sheets(b), SameGestures(b, c) \/ NoGestures(c)
    PROVE  Becomes(b, c, K, {}, {})
<1>1. Distinct(<<>>, K) /\ ElementIds(<<>>) = {}
  BY NoneDistinct
<1>2. SheetsFrom(b, c, <<>>)
  BY DEF SheetsFrom
<1>3. Becomes(b, c, K, ElementIds(<<>>), {})
  BY <1>1, <1>2, SheetsClean
<1> QED BY <1>1, <1>3

\* One change after the other.
LEMMA BecomesTrans ==
    ASSUME NEW b, NEW c, NEW d, NEW K, NEW S, NEW T, NEW H, NEW G,
           Becomes(b, c, K, S, H), Becomes(c, d, K, T, G)
    PROVE  Becomes(b, d, K, S \cup T, H \cup G)
BY DEF Becomes

-----------------------------------------------------------------------------
(* What happens to the sheets.                                             *)

\* Part of a list.
LEMMA PartRange ==
    ASSUME NEW s, IsList(s), NEW a \in Nat \ {0}, NEW b \in Nat, b <= Len(s)
    PROVE  Range(SubSeq(s, a, b)) \subseteq Range(s)
<1> DEFINE r == SubSeq(s, a, b)
<1>1. /\ Len(s) \in Nat /\ DOMAIN s = 1 .. Len(s)
      /\ Len(r) = IF a <= b THEN b - a + 1 ELSE 0
      /\ DOMAIN r = 1 .. Len(r)
      /\ \A i \in 1 .. Len(r) : r[i] = s[a + i - 1]
  BY PartList
<1> HIDE DEF r
<1>2. \A i \in 1 .. Len(r) : a + i - 1 \in 1 .. Len(s)
  BY <1>1
<1>3. \A i \in DOMAIN r : a + i - 1 \in DOMAIN s /\ r[i] = s[a + i - 1]
  BY <1>1, <1>2
<1>4. Range(r) \subseteq Range(s)
  BY <1>3 DEF Range
<1> QED BY <1>4 DEF r

\* One more at the end, or before the first.
LEMMA MoreRange ==
    ASSUME NEW s, IsList(s), NEW e
    PROVE  /\ Range(Append(s, e)) \subseteq Range(s) \cup {e}
           /\ IsList(<<e>> \o s) /\ Range(<<e>> \o s) \subseteq Range(s) \cup {e} /\ Len(<<e>> \o s) = Len(s) + 1
<1>1. Range(Append(s, e)) \subseteq Range(s) \cup {e}
  <2> DEFINE r == Append(s, e)
  <2>1. /\ DOMAIN r = 1 .. Len(s) + 1 /\ Len(s) \in Nat /\ DOMAIN s = 1 .. Len(s)
        /\ \A i \in 1 .. Len(s) : r[i] = s[i]
        /\ r[Len(s) + 1] = e
    BY AppendList
  <2> HIDE DEF r
  <2>2. \A i \in DOMAIN r : (i \in DOMAIN s /\ r[i] = s[i]) \/ r[i] = e
    BY <2>1
  <2>3. Range(r) \subseteq Range(s) \cup {e}
    BY <2>2 DEF Range
  <2> QED BY <2>3 DEF r
<1>2. IsList(<<e>> \o s) /\ Range(<<e>> \o s) \subseteq Range(s) \cup {e} /\ Len(<<e>> \o s) = Len(s) + 1
  <2> DEFINE r == <<e>> \o s
  <2>1. IsList(<<e>>) /\ Len(<<e>>) = 1 /\ <<e>>[1] = e
    BY OneList
  <2>2. /\ IsList(r) /\ DOMAIN r = 1 .. Len(<<e>>) + Len(s) /\ Len(r) = Len(<<e>>) + Len(s)
        /\ Len(s) \in Nat /\ DOMAIN s = 1 .. Len(s)
        /\ \A i \in 1 .. Len(<<e>>) : r[i] = <<e>>[i]
    BY <2>1, ConcatList
  <2>3. \A i \in 1 .. Len(s) : r[Len(<<e>>) + i] = s[i]
    BY <2>1, ConcatList
  <2> HIDE DEF r
  <2>4. \A i \in DOMAIN r : r[i] = e \/ (i - 1 \in DOMAIN s /\ r[i] = s[i - 1])
    <3> TAKE i \in DOMAIN r
    <3>1. CASE i = 1
      <4>1. 1 \in 1 .. Len(<<e>>)
        BY <2>1
      <4> QED BY <2>1, <2>2, <3>1, <4>1
    <3>2. CASE i # 1
      <4>1. i - 1 \in 1 .. Len(s) /\ 1 + (i - 1) = i
        BY <2>1, <2>2, <3>2
      <4>2. r[Len(<<e>>) + (i - 1)] = s[i - 1]
        BY <2>3, <4>1
      <4> QED BY <2>1, <2>2, <4>1, <4>2
    <3> QED BY <3>1, <3>2
  <2>5. Range(r) \subseteq Range(s) \cup {e}
    BY <2>4 DEF Range
  <2>6. Len(r) = Len(s) + 1
    BY <2>1, <2>2
  <2> QED BY <2>2, <2>5, <2>6 DEF r
<1> QED BY <1>1, <1>2

\* The stacks.
LEMMA StackRange ==
    ASSUME NEW s, IsList(s), NEW p
    PROVE  /\ Range(PushBack(s, p)) \subseteq Range(s) \cup {p}
           /\ Range(PushFront(p, s)) \subseteq Range(s) \cup {p}
           /\ s # <<>> => /\ Range(Front(s)) \subseteq Range(s) /\ Last(s) \in Range(s)
                          /\ Range(Tail(s)) \subseteq Range(s) /\ Head(s) \in Range(s)
<1>1. Range(PushBack(s, p)) \subseteq Range(s) \cup {p}
  <2> DEFINE t == Append(s, p)
  <2>1. IsList(t) /\ Len(t) = Len(s) + 1 /\ Len(s) \in Nat
    BY AppendList
  <2>2. Range(t) \subseteq Range(s) \cup {p}
    BY MoreRange
  <2>3. PushBack(s, p) = IF Len(t) > HistoryLimit THEN SubSeq(t, Len(t) - HistoryLimit + 1, Len(t)) ELSE t
    BY DEF PushBack
  <2> HIDE DEF t
  <2>4. CASE Len(t) > HistoryLimit
    <3>1. Len(t) - HistoryLimit + 1 \in Nat \ {0} /\ Len(t) \in Nat /\ Len(t) <= Len(t)
      BY <2>1, <2>4, HistoryLimitIsPos
    <3>2. Range(SubSeq(t, Len(t) - HistoryLimit + 1, Len(t))) \subseteq Range(t)
      BY <2>1, <3>1, PartRange
    <3> QED BY <2>2, <2>3, <2>4, <3>2
  <2> QED BY <2>2, <2>3, <2>4
<1>2. Range(PushFront(p, s)) \subseteq Range(s) \cup {p}
  <2> DEFINE t == <<p>> \o s
             k == IF Len(s) < HistoryLimit THEN Len(s) + 1 ELSE HistoryLimit
  <2>1. IsList(t) /\ Range(t) \subseteq Range(s) \cup {p} /\ Len(t) = Len(s) + 1
    BY MoreRange
  <2>2. PushFront(p, s) = SubSeq(t, 1, k)
    BY DEF PushFront
  <2> HIDE DEF t
  <2>3. Len(s) \in Nat
    BY AppendList
  <2>4. 1 \in Nat \ {0} /\ k \in Nat /\ k <= Len(t)
    BY <2>1, <2>3, HistoryLimitIsPos
  <2> HIDE DEF k
  <2>5. Range(SubSeq(t, 1, k)) \subseteq Range(t)
    BY <2>1, <2>4, PartRange
  <2> QED BY <2>1, <2>2, <2>5
<1>3. ASSUME s # <<>>
      PROVE  /\ Range(Front(s)) \subseteq Range(s) /\ Last(s) \in Range(s)
             /\ Range(Tail(s)) \subseteq Range(s) /\ Head(s) \in Range(s)
  <2>1. /\ DOMAIN Tail(s) = 1 .. Len(s) - 1 /\ Len(s) \in Nat \ {0} /\ DOMAIN s = 1 .. Len(s) /\ Head(s) = s[1]
        /\ \A i \in DOMAIN Tail(s) : Tail(s)[i] = s[i + 1]
    BY <1>3, TailList
  <2>2. Head(s) \in Range(s) /\ Last(s) \in Range(s)
    BY <2>1 DEF Range, Last
  <2> DEFINE r == Tail(s)
  <2>3. \A i \in DOMAIN r : i + 1 \in DOMAIN s /\ r[i] = s[i + 1]
    BY <2>1
  <2> HIDE DEF r
  <2>4. Range(r) \subseteq Range(s)
    BY <2>3 DEF Range
  <2>5. 1 \in Nat \ {0} /\ Len(s) - 1 \in Nat /\ Len(s) - 1 <= Len(s)
    BY <2>1
  <2>6. Range(SubSeq(s, 1, Len(s) - 1)) \subseteq Range(s)
    BY <2>5, PartRange
  <2> QED BY <2>2, <2>4, <2>6 DEF Front, r
<1> QED BY <1>1, <1>2, <1>3

\* A page more or less.
LEMMA PagesRange ==
    ASSUME NEW s, IsList(s), NEW e
    PROVE  /\ \A i \in 1 .. Len(s) + 1 : Range(InsertAt(s, i, e)) \subseteq Range(s) \cup {e}
           /\ \A i \in DOMAIN s : Range(RemoveAt(s, i)) \subseteq Range(s)
<1>1. ASSUME NEW i \in 1 .. Len(s) + 1 PROVE Range(InsertAt(s, i, e)) \subseteq Range(s) \cup {e}
  <2> DEFINE r == InsertAt(s, i, e)
  <2>1. /\ DOMAIN s = 1 .. Len(s) /\ Len(s) \in Nat
        /\ DOMAIN r = 1 .. Len(s) + 1
        /\ \A j \in 1 .. Len(s) + 1 : r[j] = IF j < i THEN s[j] ELSE IF j = i THEN e ELSE s[j - 1]
    BY InsertList
  <2> HIDE DEF r
  <2>2. \A j \in DOMAIN r : r[j] = e \/ (j \in DOMAIN s /\ r[j] = s[j]) \/ (j - 1 \in DOMAIN s /\ r[j] = s[j - 1])
    BY <2>1
  <2>3. Range(r) \subseteq Range(s) \cup {e}
    BY <2>2 DEF Range
  <2> QED BY <2>3 DEF r
<1>2. ASSUME NEW i \in DOMAIN s PROVE Range(RemoveAt(s, i)) \subseteq Range(s)
  <2> DEFINE r == RemoveAt(s, i)
  <2>1. /\ DOMAIN s = 1 .. Len(s) /\ Len(s) \in Nat \ {0}
        /\ DOMAIN r = 1 .. Len(s) - 1
        /\ \A j \in 1 .. Len(s) - 1 : r[j] = IF j < i THEN s[j] ELSE s[j + 1]
    BY RemoveList
  <2> HIDE DEF r
  <2>2. \A j \in DOMAIN r : (j \in DOMAIN s /\ r[j] = s[j]) \/ (j + 1 \in DOMAIN s /\ r[j] = s[j + 1])
    BY <2>1
  <2>3. Range(r) \subseteq Range(s)
    BY <2>2 DEF Range
  <2> QED BY <2>3 DEF r
<1> QED BY <1>1, <1>2

-----------------------------------------------------------------------------
(* The parts of the operations, on the sheets.                             *)

\* The page shown is a sheet.
LEMMA ShownIsSheet ==
    ASSUME NEW b, NEW n, Sound(b, n)
    PROVE  /\ CurrentPage(b) \in Sheets(b) /\ ElementIds(Elements(b)) \subseteq Known(b)
           /\ ElementIds(Elements(b)) \subseteq IdsOn(Sheets(b))
           /\ \A i \in DOMAIN b.pages : b.pages[i] \in Sheets(b)
BY DEF Sound, CurrentPage, Elements, Sheets, Range, IdsOn, Known

\* The page shown gets other elements.
LEMMA Written ==
    ASSUME NEW b, NEW n, Sound(b, n), NEW es
    PROVE  /\ Elements(WithElements(b, es)) = es
           /\ SheetsFrom(b, WithElements(b, es), es)
           /\ SameGestures(b, WithElements(b, es))
<1> DEFINE c == WithElements(b, es)
           p == [b.pages[b.currentPage] EXCEPT !.elements = es]
<1>1. b = [f \in Fields |-> b[f]] /\ b.currentPage \in DOMAIN b.pages /\ IsPage(b.pages[b.currentPage])
      /\ IsList(b.pages)
  BY DEF Sound, IsBoard, PagesSound
<1>2. c = [b EXCEPT !.pages = [b.pages EXCEPT ![b.currentPage] = p]]
  BY DEF WithElements
<1>3. p.elements = es
  BY <1>1 DEF IsPage
<1> HIDE DEF c, p
<1>4. /\ c.pages = [b.pages EXCEPT ![b.currentPage] = p] /\ c.currentPage = b.currentPage
      /\ c.histories = b.histories /\ SameGestures(b, c)
  BY <1>1, <1>2 DEF Fields, SameGestures
<1>5. b.pages = [i \in DOMAIN b.pages |-> b.pages[i]]
  <2>1. b.pages \in Seq({b.pages[i] : i \in DOMAIN b.pages})
    BY <1>1 DEF IsList
  <2> QED BY <2>1
<1>6. /\ DOMAIN c.pages = DOMAIN b.pages
      /\ \A i \in DOMAIN b.pages : c.pages[i] = IF i = b.currentPage THEN p ELSE b.pages[i]
  BY <1>4, <1>5
<1>7. Elements(c) = es
  BY <1>1, <1>3, <1>4, <1>6 DEF Elements, CurrentPage
<1>8. \A q \in Range(c.pages) : q \in Range(b.pages) \/ q.elements = es
  BY <1>3, <1>6 DEF Range
<1>9. SheetsFrom(b, c, es)
  BY <1>4, <1>8, SheetIs DEF SheetsFrom
<1> QED BY <1>4, <1>7, <1>9 DEF c

\* A history holds sheets.
LEMMA HistorySheets ==
    ASSUME NEW b, NEW n, Sound(b, n), NEW id
    PROVE  /\ IsList(History(b, id).undo) /\ IsList(History(b, id).redo)
           /\ Range(History(b, id).undo) \subseteq Sheets(b) /\ Range(History(b, id).redo) \subseteq Sheets(b)
<1>1. IsList(History(b, id).undo) /\ IsList(History(b, id).redo)
  BY HistoryOf DEF HistorySound, StackSound
<1>2. Range(<<>>) = {}
  BY NoneDistinct
<1> QED BY <1>1, <1>2, SheetIs DEF History, EmptyHistory

\* A page gets another history, of pages that are sheets anyway.
LEMMA HistoryWritten ==
    ASSUME NEW b, NEW n, Sound(b, n), NEW id, NEW h, Range(h.undo) \subseteq Sheets(b), Range(h.redo) \subseteq Sheets(b)
    PROVE  /\ Sheets(WithHistory(b, id, h)) \subseteq Sheets(b) /\ SameGestures(b, WithHistory(b, id, h))
           /\ WithHistory(b, id, h).pages = b.pages /\ WithHistory(b, id, h).currentPage = b.currentPage
           /\ WithHistory(b, id, h) = [f \in Fields |-> WithHistory(b, id, h)[f]]
<1> DEFINE hs == [q \in DOMAIN b.histories \cup {id} |-> IF q = id THEN h ELSE b.histories[q]]
           c == [b EXCEPT !.histories = hs]
<1>1. b = [f \in Fields |-> b[f]]
  BY DEF Sound, IsBoard
<1>2. \A q \in DOMAIN hs : (q = id /\ hs[q] = h) \/ (q \in DOMAIN b.histories /\ hs[q] = b.histories[q])
  OBVIOUS
<1> HIDE DEF hs
<1>3. c.pages = b.pages /\ c.currentPage = b.currentPage /\ c.histories = hs /\ SameGestures(b, c)
      /\ c = [f \in Fields |-> c[f]]
  BY <1>1 DEF Fields, SameGestures
<1> HIDE DEF c
<1>4. Sheets(c) \subseteq Sheets(b)
  BY <1>2, <1>3, SheetIs
<1>5. c = WithHistory(b, id, h)
  BY DEF c, hs, WithHistory
<1> QED BY <1>3, <1>4, <1>5

\* A snapshot of the page shown is the sheet it already is.
LEMMA SnapshotKeeps ==
    ASSUME NEW b, NEW n, Sound(b, n)
    PROVE  /\ Sheets(PushSnapshot(b)) \subseteq Sheets(b) /\ SameGestures(b, PushSnapshot(b))
           /\ Elements(PushSnapshot(b)) = Elements(b)
<1> DEFINE p == CurrentPage(b)
           h == [undo |-> PushBack(History(b, p.pageId).undo, p), redo |-> <<>>]
<1>1. CASE b.batchSuppress
  BY <1>1 DEF PushSnapshot, SameGestures
<1>2. CASE ~b.batchSuppress
  <2>1. Range(h.undo) \subseteq Sheets(b)
    <3>1. p \in Sheets(b) /\ IsList(History(b, p.pageId).undo) /\ Range(History(b, p.pageId).undo) \subseteq Sheets(b)
      BY ShownIsSheet, HistorySheets
    <3>2. h.undo = PushBack(History(b, p.pageId).undo, p)
      OBVIOUS
    <3> HIDE DEF p, h
    <3> QED BY <3>1, <3>2, StackRange
  <2>2. Range(h.redo) \subseteq Sheets(b)
    BY NoneDistinct
  <2>3. PushSnapshot(b) = WithHistory(b, p.pageId, h)
    BY <1>2 DEF PushSnapshot
  <2> HIDE DEF p, h
  <2> QED BY <2>1, <2>2, <2>3, HistoryWritten DEF Elements, CurrentPage
<1> QED BY <1>1, <1>2

\* Another page is shown, and the gestures are dropped.
LEMMA ShowDrops ==
    ASSUME NEW b, IsBoard(b), NEW i
    PROVE  /\ Sheets(Show(b, i)) = Sheets(b) /\ NoGestures(Show(b, i))
           /\ Sheets(ResetTransientState(b)) = Sheets(b) /\ NoGestures(ResetTransientState(b))
<1>1. b = [f \in Fields |-> b[f]]
  BY DEF IsBoard
<1> DEFINE c == Show(b, i)
           d == ResetTransientState(b)
<1>2. c.pages = b.pages /\ c.histories = b.histories /\ NoGestures(c)
  BY <1>1 DEF Fields, Show, ResetTransientState, NoGestures
<1>3. d.pages = b.pages /\ d.histories = b.histories /\ NoGestures(d)
  BY <1>1 DEF Fields, ResetTransientState, NoGestures
<1> HIDE DEF c, d
<1>4. Sheets(c) = Sheets(b) /\ Sheets(d) = Sheets(b)
  BY <1>2, <1>3 DEF Sheets
<1> QED BY <1>2, <1>3, <1>4 DEF c, d

\* Other pages, the same histories or fewer.
LEMMA PagesWritten ==
    ASSUME NEW b, NEW n, Sound(b, n), NEW pages, NEW es,
           \A p \in Range(pages) : p \in Sheets(b) \/ p.elements = es,
           NEW hs, \A q \in DOMAIN hs : q \in DOMAIN b.histories /\ hs[q] = b.histories[q], NEW i
    PROVE  /\ SheetsFrom(b, Show([b EXCEPT !.pages = pages, !.histories = hs], i), es)
           /\ NoGestures(Show([b EXCEPT !.pages = pages, !.histories = hs], i))
<1> DEFINE c == [b EXCEPT !.pages = pages, !.histories = hs]
<1>1. b = [f \in Fields |-> b[f]]
  BY DEF Sound, IsBoard
<1>2. IsBoard(c) /\ c.pages = pages /\ c.histories = hs
  BY <1>1 DEF Fields, IsBoard
<1> HIDE DEF c
<1>3. SheetsFrom(b, c, es)
  BY <1>2, SheetIs DEF SheetsFrom
<1>4. SheetsFrom(b, Show(c, i), es) /\ NoGestures(Show(c, i))
  BY <1>2, <1>3, ShowDrops DEF SheetsFrom
<1> QED BY <1>4 DEF c

\* A new page is a sheet more.
LEMMA InsertSheets ==
    ASSUME NEW b, NEW n, Sound(b, n), NEW i \in 1 .. Len(b.pages) + 1, NEW p
    PROVE  SheetsFrom(b, InsertPage(b, i, p), p.elements) /\ NoGestures(InsertPage(b, i, p))
<1> DEFINE ps == InsertAt(b.pages, i, p)
<1>1. IsList(b.pages) /\ b = [f \in Fields |-> b[f]]
  BY DEF Sound, PagesSound, IsBoard
<1>2. Range(ps) \subseteq Range(b.pages) \cup {p}
  BY <1>1, PagesRange
<1>3. \A q \in Range(ps) : q \in Sheets(b) \/ q.elements = p.elements
  BY <1>2 DEF Sheets
<1> HIDE DEF ps
<1>4. SheetsFrom(b, Show([b EXCEPT !.pages = ps, !.histories = b.histories], i), p.elements)
      /\ NoGestures(Show([b EXCEPT !.pages = ps, !.histories = b.histories], i))
  BY <1>3, PagesWritten
<1>5. [b EXCEPT !.pages = ps, !.histories = b.histories] = [b EXCEPT !.pages = ps]
  BY <1>1 DEF Fields
<1> QED BY <1>4, <1>5 DEF InsertPage, ps

\* A deleted page is a sheet less.
LEMMA DeleteSheets ==
    ASSUME NEW b, NEW n, Sound(b, n), NEW id, CanDelete(b, id)
    PROVE  Sheets(DeletePage(b, id)) \subseteq Sheets(b) /\ NoGestures(DeletePage(b, id))
<1> DEFINE ps == RemoveAt(b.pages, IndexOf(b, id))
           hs == [q \in DOMAIN b.histories \ {id} |-> b.histories[q]]
           i == IF b.currentPage > Len(ps) THEN Len(ps) ELSE b.currentPage
           c == [b EXCEPT !.pages = ps, !.histories = hs]
<1>1. IsList(b.pages) /\ b = [f \in Fields |-> b[f]] /\ IndexOf(b, id) \in DOMAIN b.pages
  BY PageFound DEF Sound, PagesSound, IsBoard, CanDelete
<1>2. Range(ps) \subseteq Range(b.pages)
  BY <1>1, PagesRange
<1>3. \A q \in DOMAIN hs : q \in DOMAIN b.histories /\ hs[q] = b.histories[q]
  OBVIOUS
<1>4. DeletePage(b, id) = Show(c, i)
  <2>1. DeletePage(b, id) = Show([b EXCEPT !.pages = ps,
                                           !.histories = [q \in DOMAIN @ \ {id} |-> b.histories[q]]], i)
    BY DEF DeletePage
  <2>2. [b EXCEPT !.pages = ps, !.histories = [q \in DOMAIN b.histories \ {id} |-> b.histories[q]]] = c
    OBVIOUS
  <2> QED BY <2>1, <2>2
<1> HIDE DEF ps, hs, i
<1>5. IsBoard(c) /\ c.pages = ps /\ c.histories = hs
  BY <1>1 DEF Fields, IsBoard
<1> HIDE DEF c
<1>6. Sheets(c) \subseteq Sheets(b)
  BY <1>2, <1>3, <1>5, SheetIs
<1> QED BY <1>4, <1>5, <1>6, ShowDrops

\* The page shown gives way to a sheet; its history holds sheets.
LEMMA SheetShown ==
    ASSUME NEW b, NEW n, Sound(b, n), NEW id, NEW h, Range(h.undo) \subseteq Sheets(b), Range(h.redo) \subseteq Sheets(b),
           NEW p \in Sheets(b)
    PROVE  LET c == ResetTransientState([WithHistory(b, id, h) EXCEPT !.pages[b.currentPage] = p])
           IN Sheets(c) \subseteq Sheets(b) /\ NoGestures(c)
<1> DEFINE w == WithHistory(b, id, h)
           c == [w EXCEPT !.pages[b.currentPage] = p]
<1>1. w.pages = b.pages /\ w = [f \in Fields |-> w[f]] /\ Sheets(w) \subseteq Sheets(b)
  BY HistoryWritten
<1> HIDE DEF w
<1>2. IsBoard(c) /\ c.pages = [b.pages EXCEPT ![b.currentPage] = p] /\ c.histories = w.histories
  BY <1>1 DEF Fields, IsBoard
<1> HIDE DEF c
<1>3. IsList(b.pages)
  BY DEF Sound, PagesSound
<1>4. b.pages = [i \in DOMAIN b.pages |-> b.pages[i]]
  BY <1>3 DEF IsList
<1>5. \A q \in Range(c.pages) : q = p \/ q \in Range(b.pages)
  BY <1>2, <1>4 DEF Range
<1>6. Sheets(c) \subseteq Sheets(b)
  BY <1>1, <1>2, <1>5, SheetIs
<1>7. Sheets(ResetTransientState(c)) \subseteq Sheets(b) /\ NoGestures(ResetTransientState(c))
  BY <1>2, <1>6, ShowDrops
<1> QED BY <1>7 DEF c, w

\* Undo and Redo show a sheet of the history.
LEMMA UndoSheets ==
    ASSUME NEW b, NEW n, Sound(b, n)
    PROVE  /\ CanUndo(b) => Sheets(Undo(b)) \subseteq Sheets(b) /\ NoGestures(Undo(b))
           /\ CanRedo(b) => Sheets(Redo(b)) \subseteq Sheets(b) /\ NoGestures(Redo(b))
<1> DEFINE p == CurrentPage(b)
           h == History(b, p.pageId)
           u == [undo |-> Front(h.undo), redo |-> PushFront(p, h.redo)]
           r == [undo |-> PushBack(h.undo, p), redo |-> Tail(h.redo)]
<1>1. /\ p \in Sheets(b) /\ IsList(h.undo) /\ IsList(h.redo)
      /\ Range(h.undo) \subseteq Sheets(b) /\ Range(h.redo) \subseteq Sheets(b)
  BY ShownIsSheet, HistorySheets
<1>2. /\ u.undo = Front(h.undo) /\ u.redo = PushFront(p, h.redo)
      /\ r.undo = PushBack(h.undo, p) /\ r.redo = Tail(h.redo)
  OBVIOUS
<1>3. ASSUME CanUndo(b) PROVE Sheets(Undo(b)) \subseteq Sheets(b) /\ NoGestures(Undo(b))
  <2>1. h.undo # <<>>
    BY <1>3 DEF CanUndo
  <2>2. Undo(b) = ResetTransientState([WithHistory(b, p.pageId, u) EXCEPT !.pages[b.currentPage] = Last(h.undo)])
    BY DEF Undo
  <2> HIDE DEF p, h, u
  <2>3. Range(u.undo) \subseteq Sheets(b) /\ Range(u.redo) \subseteq Sheets(b) /\ Last(h.undo) \in Sheets(b)
    BY <1>1, <1>2, <2>1, StackRange
  <2> QED BY <2>2, <2>3, SheetShown
<1>4. ASSUME CanRedo(b) PROVE Sheets(Redo(b)) \subseteq Sheets(b) /\ NoGestures(Redo(b))
  <2>1. h.redo # <<>>
    BY <1>4 DEF CanRedo
  <2>2. Redo(b) = ResetTransientState([WithHistory(b, p.pageId, r) EXCEPT !.pages[b.currentPage] = Head(h.redo)])
    BY DEF Redo
  <2> HIDE DEF p, h, r
  <2>3. Range(r.undo) \subseteq Sheets(b) /\ Range(r.redo) \subseteq Sheets(b) /\ Head(h.redo) \in Sheets(b)
    BY <1>1, <1>2, <2>1, StackRange
  <2> QED BY <2>2, <2>3, SheetShown
<1> QED BY <1>3, <1>4

-----------------------------------------------------------------------------
(* The operations, on the ids.                                             *)

\* The page shown gets elements that nobody draws at the moment.
LEMMA WriteClean ==
    ASSUME NEW b, NEW n, Sound(b, n), NEW K, Clean(b, K), NEW es, Distinct(es, K), NEW X,
           ElementIds(es) \subseteq ElementIds(Elements(b)) \cup X, X \cap Drawn(b) = {}
    PROVE  /\ Becomes(b, WithElements(b, es), K, X, {})
           /\ Becomes(b, WithElements(PushSnapshot(b), es), K, X, {})
           /\ SameGestures(b, WithElements(PushSnapshot(b), es))
           /\ Elements(WithElements(PushSnapshot(b), es)) = es
<1> DEFINE c == PushSnapshot(b)
           d == WithElements(c, es)
           e == WithElements(b, es)
<1>1. ElementIds(Elements(b)) \subseteq Known(b) /\ ElementIds(Elements(b)) \subseteq IdsOn(Sheets(b))
  BY ShownIsSheet
<1>2. ElementIds(es) \cap Drawn(b) = {}
  BY <1>1 DEF Clean
<1>3. SheetsFrom(b, e, es) /\ SameGestures(b, e)
  BY Written
<1>4. Sheets(c) \subseteq Sheets(b) /\ SameGestures(b, c) /\ Sound(c, n)
  BY SnapshotKeeps, SnapshotSound
<1> HIDE DEF c
<1>5. SheetsFrom(c, d, es) /\ SameGestures(c, d) /\ Elements(d) = es
  BY <1>4, Written
<1> HIDE DEF d, e
<1>6. SheetsFrom(b, d, es) /\ SameGestures(b, d)
  BY <1>4, <1>5 DEF SheetsFrom, SameGestures
<1>7. Becomes(b, e, K, ElementIds(es), {}) /\ Becomes(b, d, K, ElementIds(es), {})
  BY <1>2, <1>3, <1>6, SheetsClean
<1>8. Becomes(b, e, K, X, {}) /\ Becomes(b, d, K, X, {})
  BY <1>1, <1>7 DEF Becomes
<1> QED BY <1>5, <1>6, <1>8 DEF c, d, e

\* A snapshot, a batch and its end.
LEMMA SnapshotClean ==
    ASSUME NEW b, NEW n, Sound(b, n), NEW K, Clean(b, K)
    PROVE  /\ Becomes(b, PushSnapshot(b), K, {}, {})
           /\ Becomes(b, BeginBatch(b), K, {}, {}) /\ Becomes(b, EndBatch(b), K, {}, {})
<1>1. ASSUME NEW c, Sound(c, n), Sheets(c) \subseteq Sheets(b), SameGestures(b, c), NEW v
      PROVE  Becomes(b, c, K, {}, {}) /\ Becomes(b, [c EXCEPT !.batchSuppress = v], K, {}, {})
  <2> DEFINE d == [c EXCEPT !.batchSuppress = v]
  <2>1. c = [f \in Fields |-> c[f]]
    BY <1>1 DEF Sound, IsBoard
  <2>2. d.pages = c.pages /\ d.histories = c.histories /\ SameGestures(c, d)
    BY <2>1 DEF Fields, SameGestures
  <2> HIDE DEF d
  <2>3. Sheets(d) \subseteq Sheets(b) /\ SameGestures(b, d)
    BY <1>1, <2>2 DEF Sheets, SameGestures
  <2> QED BY <1>1, <2>3, NoneClean DEF d
<1>2. Sheets(PushSnapshot(b)) \subseteq Sheets(b) /\ SameGestures(b, PushSnapshot(b)) /\ Sound(PushSnapshot(b), n)
  BY SnapshotKeeps, SnapshotSound
<1>3. Sheets(b) \subseteq Sheets(b) /\ SameGestures(b, b)
  BY DEF SameGestures
<1> QED BY <1>1, <1>2, <1>3 DEF BeginBatch, EndBatch

\* The strokes being drawn are no sheets.
LEMMA StrokesWritten ==
    ASSUME NEW b, IsBoard(b), NEW v
    PROVE  /\ Sheets([b EXCEPT !.strokes = v]) = Sheets(b) /\ [b EXCEPT !.strokes = v].strokes = v
           /\ [b EXCEPT !.strokes = v].eraserAdded = b.eraserAdded
           /\ [b EXCEPT !.strokes = v].eraserRemoved = b.eraserRemoved
           /\ Elements([b EXCEPT !.strokes = v]) = Elements(b)
BY DEF IsBoard, Fields, Sheets, Elements, CurrentPage

\* A stroke is begun.
LEMMA UnfinishedClean ==
    ASSUME NEW b, NEW n, Sound(b, n), NEW K, Clean(b, K), NEW key, NEW id, id \in StrokesOf(K), id \notin Known(b)
    PROVE  Becomes(b, Unfinished(b, key, id), K, {id}, {})
<1> DEFINE v == (b.strokes \ StrokesAt(b, key)) \cup {[key |-> key, id |-> id]}
           c == [b EXCEPT !.strokes = v]
<1>1. Sheets(c) = Sheets(b) /\ c.strokes = v /\ c.eraserAdded = b.eraserAdded /\ c.eraserRemoved = b.eraserRemoved
  BY StrokesWritten DEF Sound
<1>2. c = Unfinished(b, key, id)
  BY DEF Unfinished
<1> HIDE DEF c
<1>3. \A s \in v : s \in b.strokes \/ s = [key |-> key, id |-> id]
  OBVIOUS
<1>4. \A s \in b.strokes : s.id \in Drawn(b) /\ s.id # id
  BY DEF Drawn, Known
<1>5. [key |-> key, id |-> id].id = id
  OBVIOUS
<1> HIDE DEF v
<1>6. \A s, t \in c.strokes : s.id = t.id => s = t
  BY <1>1, <1>3, <1>4, <1>5 DEF Clean
<1>7. Drawn(c) \subseteq Drawn(b) \cup {id}
  BY <1>1, <1>3, <1>5 DEF Drawn
<1>8. Held(c) = Held(b)
  BY <1>1 DEF Held
<1>9. Clean(c, K)
  BY <1>1, <1>6, <1>7, <1>8 DEF Clean, Known
<1>10. Known(c) \subseteq Known(b) \cup {id}
  BY <1>1, <1>7, <1>8 DEF Known
<1> QED BY <1>2, <1>8, <1>9, <1>10 DEF Becomes

\* A stroke is finished: its id goes from the strokes to the page.
LEMMA FinishedClean ==
    ASSUME NEW b, NEW n, Sound(b, n), NEW K, Clean(b, K), NEW key, StrokesAt(b, key) # {}
    PROVE  Becomes(b, Finished(b, key), K, {}, {})
<1> DEFINE s == CHOOSE s \in StrokesAt(b, key) : TRUE
           c == [b EXCEPT !.strokes = b.strokes \ {s}]
           es == Append(Elements(b), Element(s.id, TRUE))
<1>1. s \in b.strokes
  BY DEF StrokesAt
<1>2. Sound(c, n)
  BY OtherFields
<1>3. /\ Sheets(c) = Sheets(b) /\ c.strokes = b.strokes \ {s} /\ c.eraserAdded = b.eraserAdded
      /\ c.eraserRemoved = b.eraserRemoved /\ Elements(c) = Elements(b)
  BY StrokesWritten DEF Sound
<1>4. Finished(b, key) = WithElements(c, es)
  <2>1. Finished(b, key) = AppendElement(c, Element(s.id, TRUE))
    BY DEF Finished
  <2> HIDE DEF c, s
  <2> QED BY <1>3, <2>1 DEF AppendElement
<1> HIDE DEF c, s
<1>5. s.id \in StrokesOf(K) /\ s.id \in Drawn(b) /\ s.id \notin IdsOn(Sheets(b))
  BY <1>1 DEF Clean, Drawn
<1>6. Drawn(c) \subseteq Drawn(b) \ {s.id} /\ Held(c) = Held(b)
  BY <1>1, <1>3 DEF Drawn, Held, Clean
<1>7. Clean(c, K)
  BY <1>3, <1>6 DEF Clean
<1>8. Known(c) \subseteq Known(b) /\ s.id \in Known(b)
  BY <1>3, <1>5, <1>6 DEF Known
<1>9. Distinct(es, K) /\ ElementIds(es) \subseteq ElementIds(Elements(b)) \cup {s.id}
  <2>1. Distinct(Elements(b), K) /\ s.id \notin ElementIds(Elements(b))
    BY <1>5, ShownIsSheet DEF Clean, Elements
  <2>2. IsElement(Element(s.id, TRUE), K) /\ Element(s.id, TRUE).id = s.id
    BY <1>5, ElementIs DEF StrokesOf
  <2>3. Distinct(es, K) /\ Range(es) = Range(Elements(b)) \cup {Element(s.id, TRUE)}
    BY <2>1, <2>2, AppendDistinct
  <2> QED BY <2>2, <2>3, IdsOfRange
<1> HIDE DEF es
<1>10. {s.id} \cap Drawn(c) = {}
  BY <1>6
<1>11. Becomes(c, WithElements(c, es), K, {s.id}, {})
  BY <1>2, <1>3, <1>7, <1>9, <1>10, WriteClean
<1> QED BY <1>4, <1>6, <1>8, <1>11 DEF Becomes

(* A pass of the eraser over b with ids of K; its fragments are new.       *)
PassFits(b, pass, K) ==
    /\ IsPass(pass) /\ DOMAIN pass \subseteq DOMAIN K
    /\ Stamps(pass) \subseteq StrokesOf(K) /\ Stamps(pass) \cap Known(b) = {}

\* What a pass leaves of the page shown.
LEMMA PassClean ==
    ASSUME NEW b, NEW n, Sound(b, n), NEW K, Clean(b, K), NEW pass, PassFits(b, pass, K)
    PROVE  /\ Distinct(Elements(b), K)
           /\ Distinct(Erased(Elements(b), pass), K)
           /\ ElementIds(Erased(Elements(b), pass)) \subseteq ElementIds(Elements(b)) \cup Stamps(pass)
           /\ Distinct(Fragments(Elements(b), pass), K)
           /\ ElementIds(Fragments(Elements(b), pass)) \subseteq Stamps(pass)
           /\ Stamps(pass) \cap Known(b) = {} /\ Stamps(pass) \subseteq StrokesOf(K)
           /\ \A x \in Stamps(pass) : x \in DOMAIN K /\ K[x] = TRUE /\ x \notin ElementIds(Elements(b))
<1>1. Distinct(Elements(b), K) /\ ElementIds(Elements(b)) \subseteq Known(b)
  BY ShownIsSheet DEF Clean, Elements
<1>2. IsPass(pass) /\ Stamps(pass) \cap Known(b) = {} /\ Stamps(pass) \subseteq StrokesOf(K)
  BY DEF PassFits
<1>3. \A x \in Stamps(pass) : x \in DOMAIN K /\ K[x] = TRUE /\ x \notin ElementIds(Elements(b))
  BY <1>1, <1>2 DEF StrokesOf
<1> QED BY <1>1, <1>2, <1>3, FragmentsAre

\* EraserMove holds its fragments back.
LEMMA MoveClean ==
    ASSUME NEW b, NEW n, Sound(b, n), NEW K, Clean(b, K), NEW pass, PassFits(b, pass, K)
    PROVE  /\ Becomes(b, EraserMove(b, pass), K, Stamps(pass), Stamps(pass))
           /\ Becomes(b, EraserEnd(b, pass), K, Stamps(pass), {}) /\ Held(EraserEnd(b, pass)) = {}
<1> DEFINE es == Erased(Elements(b), pass)
           fs == Fragments(Elements(b), pass)
           c == WithElements(b, es)
           d == EraserMove(b, pass)
           e == EraserEnd(b, pass)
           X == Stamps(pass)
<1>1. /\ Distinct(es, K) /\ ElementIds(es) \subseteq ElementIds(Elements(b)) \cup X
      /\ Distinct(fs, K) /\ ElementIds(fs) \subseteq X /\ X \cap Known(b) = {} /\ X \subseteq StrokesOf(K)
  BY PassClean
<1>2. Sound(c, n) /\ SameGestures(b, c)
  BY ElementsSound, Written
<1>3. X \cap Drawn(b) = {}
  BY <1>1 DEF Known
<1> HIDE DEF X
<1>4. Becomes(b, c, K, X, {})
  BY <1>1, <1>3, WriteClean
<1>5. d = [c EXCEPT !.eraserRemoved = @ \cup DOMAIN pass, !.eraserAdded = @ \o fs]
  BY DEF EraserMove
<1>6. e = [d EXCEPT !.eraserRemoved = {}, !.eraserAdded = <<>>]
  BY DEF EraserEnd
<1> HIDE DEF c, d, e, es, fs
<1>7. c = [f \in Fields |-> c[f]]
  BY <1>2 DEF Sound, IsBoard
<1>8. /\ d.pages = c.pages /\ d.histories = c.histories /\ d.strokes = c.strokes
      /\ d.eraserRemoved = c.eraserRemoved \cup DOMAIN pass /\ d.eraserAdded = c.eraserAdded \o fs
      /\ d = [f \in Fields |-> d[f]]
  BY <1>5, <1>7 DEF Fields
<1>9. /\ e.pages = d.pages /\ e.histories = d.histories /\ e.strokes = d.strokes
      /\ e.eraserRemoved = {} /\ e.eraserAdded = <<>>
  BY <1>6, <1>8 DEF Fields
<1>10. Sheets(d) = Sheets(c) /\ Sheets(e) = Sheets(c) /\ Drawn(d) = Drawn(c) /\ Drawn(e) = Drawn(c)
  <2>1. \A f, g : f.pages = g.pages /\ f.histories = g.histories => Sheets(f) = Sheets(g)
    BY DEF Sheets
  <2>2. \A f, g : f.strokes = g.strokes => Drawn(f) = Drawn(g)
    BY DEF Drawn
  <2> QED BY <1>8, <1>9, <2>1, <2>2
<1>11. Distinct(d.eraserAdded, K) /\ Held(d) = Held(b) \cup ElementIds(fs)
  <2>1. Distinct(b.eraserAdded, K) /\ c.eraserAdded = b.eraserAdded
    BY <1>2 DEF Clean, SameGestures
  <2>2. ElementIds(b.eraserAdded) \cap ElementIds(fs) = {}
    BY <1>1 DEF Known, Held
  <2>3. Distinct(d.eraserAdded, K) /\ Range(d.eraserAdded) = Range(b.eraserAdded) \cup Range(fs)
    BY <1>1, <1>8, <2>1, <2>2, ConcatDistinct
  <2> QED BY <2>3, IdsOfRange DEF Held
<1>12. Held(e) = {} /\ Distinct(e.eraserAdded, K)
  BY <1>9, NoneDistinct DEF Held
<1>13. Clean(c, K) /\ Held(c) = Held(b) /\ Known(c) \subseteq Known(b) \cup X
  BY <1>2, <1>4 DEF Becomes, Held, SameGestures
<1>14. Clean(d, K)
  <2>1. d.eraserRemoved \subseteq DOMAIN K
    BY <1>8, <1>13 DEF Clean, PassFits
  <2>2. Held(d) \subseteq StrokesOf(K)
    BY <1>1, <1>11 DEF Clean
  <2> QED BY <1>8, <1>10, <1>11, <1>13, <2>1, <2>2 DEF Clean
<1>15. Clean(e, K)
  BY <1>8, <1>9, <1>10, <1>12, <1>13 DEF Clean
<1>16. Known(d) \subseteq Known(b) \cup X /\ Known(e) \subseteq Known(b) \cup X
  BY <1>1, <1>10, <1>11, <1>12, <1>13 DEF Known
<1> QED BY <1>1, <1>11, <1>12, <1>14, <1>15, <1>16 DEF Becomes, X, d, e

\* What is announced at the end of a drag was held back.
LEMMA FlushedIs ==
    ASSUME NEW b, NEW K, Clean(b, K)
    PROVE  Distinct(FlushedAdded(b), K) /\ ElementIds(FlushedAdded(b)) \subseteq Held(b)
BY LeavingIs DEF FlushedAdded, Clean, Held

\* The elements of the page shown.
LEMMA ShownClean ==
    ASSUME NEW b, NEW n, Sound(b, n), NEW K, Clean(b, K)
    PROVE  /\ Distinct(Elements(b), K) /\ ElementIds(Elements(b)) \cap Drawn(b) = {}
           /\ \A ids : IsFiniteSet(ids) =>
                 /\ Distinct(FoldSet(LAMBDA id, t : Without(t, id), Elements(b), ids), K)
                 /\ ElementIds(FoldSet(LAMBDA id, t : Without(t, id), Elements(b), ids))
                       \subseteq ElementIds(Elements(b))
<1>1. Distinct(Elements(b), K)
  BY ShownIsSheet DEF Clean, Elements
<1>2. ElementIds(Elements(b)) \cap Drawn(b) = {}
  BY ShownIsSheet DEF Clean
<1>3. ASSUME NEW ids, IsFiniteSet(ids)
      PROVE  LET r == FoldSet(LAMBDA id, t : Without(t, id), Elements(b), ids)
             IN Distinct(r, K) /\ ElementIds(r) \subseteq ElementIds(Elements(b))
  <2> DEFINE r == FoldSet(LAMBDA id, t : Without(t, id), Elements(b), ids)
             es == Elements(b)
  <2>1. Distinct(r, K) /\ Range(r) = {e \in Range(es) : e.id \notin ids}
    BY <1>1, <1>3, RemovedIs
  <2> HIDE DEF r, es
  <2>2. ElementIds(r) \subseteq ElementIds(es)
    BY <2>1, IdsOfRange
  <2> QED BY <2>1, <2>2 DEF r, es
<1> QED BY <1>1, <1>2, <1>3

\* Drawing.
LEMMA PenClean ==
    ASSUME NEW b, NEW n, Sound(b, n), NEW K, Clean(b, K), NEW key, NEW id, id \in StrokesOf(K), id \notin Known(b)
    PROVE  Becomes(b, Unfinished(PushSnapshot(b), key, id), K, {id}, {})
<1> DEFINE c == PushSnapshot(b)
<1>1. Becomes(b, c, K, {}, {}) /\ Sound(c, n)
  BY SnapshotClean, SnapshotSound
<1> HIDE DEF c
<1>2. Clean(c, K) /\ id \notin Known(c)
  BY <1>1 DEF Becomes
<1>3. Becomes(c, Unfinished(c, key, id), K, {id}, {})
  BY <1>1, <1>2, UnfinishedClean
<1>4. Becomes(b, Unfinished(c, key, id), K, {} \cup {id}, {} \cup {})
  BY <1>1, <1>3, BecomesTrans
<1> QED BY <1>4 DEF c

\* Erasing.
LEMMA EraseClean ==
    ASSUME NEW b, NEW n, Sound(b, n), NEW K, Clean(b, K), NEW pass, PassFits(b, pass, K)
    PROVE  /\ Becomes(b, EraserBegin(b, pass), K, Stamps(pass), Stamps(pass))
           /\ Becomes(b, EraseRegion(b, pass), K, Stamps(pass), {})
<1> DEFINE c == PushSnapshot(b)
           X == Stamps(pass)
           es == Erased(Elements(b), pass)
<1>1. Becomes(b, c, K, {}, {}) /\ Sound(c, n)
  BY SnapshotClean, SnapshotSound
<1>2. Becomes(b, EraserMove(c, pass), K, X, X)
  <2> HIDE DEF c
  <2>1. Clean(c, K) /\ PassFits(c, pass, K)
    BY <1>1 DEF Becomes, PassFits
  <2>2. Becomes(c, EraserMove(c, pass), K, X, X)
    BY <1>1, <2>1, MoveClean
  <2> HIDE DEF X
  <2>3. Becomes(b, EraserMove(c, pass), K, {} \cup X, {} \cup X)
    BY <1>1, <2>2, BecomesTrans
  <2>4. {} \cup X = X
    OBVIOUS
  <2> QED BY <2>3, <2>4
<1>3. Distinct(es, K) /\ ElementIds(es) \subseteq ElementIds(Elements(b)) \cup X /\ X \cap Known(b) = {}
  BY PassClean
<1>4. X \cap Drawn(b) = {}
  BY <1>3 DEF Known
<1> HIDE DEF es, X
<1>5. Becomes(b, WithElements(c, es), K, X, {})
  BY <1>3, <1>4, WriteClean
<1> QED BY <1>2, <1>5 DEF EraserBegin, EraseRegion, c, es, X

\* The operations on elements.
LEMMA ElementsClean ==
    ASSUME NEW b, NEW n, Sound(b, n), NEW K, Clean(b, K)
    PROVE  /\ Becomes(b, Clear(b), K, {}, {})
           /\ \A e : IsElement(e, K) /\ e.id \notin Known(b) => Becomes(b, AddElement(b, e), K, {e.id}, {})
           /\ \A ids : IsFiniteSet(ids) => Becomes(b, RemoveAll(PushSnapshot(b), ids), K, {}, {})
           /\ \A id, x : /\ Becomes(b, UpdateElement(b, id, x), K, {}, {})
                         /\ Becomes(b, UpdateQuietly(b, id, x), K, {}, {})
<1> DEFINE c == PushSnapshot(b)
<1>1. Becomes(b, c, K, {}, {}) /\ Sound(c, n) /\ Elements(c) = Elements(b) /\ SameGestures(b, c)
  BY SnapshotClean, SnapshotSound, SnapshotKeeps
<1>2. Distinct(Elements(b), K) /\ ElementIds(Elements(b)) \cap Drawn(b) = {}
      /\ ElementIds(Elements(b)) \subseteq Known(b)
  BY ShownClean, ShownIsSheet
<1>3. \A X : X \cap Drawn(b) = {} => \A es :
        Distinct(es, K) /\ ElementIds(es) \subseteq ElementIds(Elements(b)) \cup X
          => Becomes(b, WithElements(b, es), K, X, {}) /\ Becomes(b, WithElements(c, es), K, X, {})
  BY WriteClean
<1> HIDE DEF c
<1>4. \A es : Distinct(es, K) /\ ElementIds(es) \subseteq ElementIds(Elements(b))
          => Becomes(b, WithElements(b, es), K, {}, {}) /\ Becomes(b, WithElements(c, es), K, {}, {})
  <2>1. {} \cap Drawn(b) = {} /\ \A S : S \cup {} = S
    OBVIOUS
  <2> QED BY <1>3, <2>1
<1>5. Becomes(b, Clear(b), K, {}, {})
  <2> DEFINE d == WithElements(c, <<>>)
  <2>1. Becomes(b, d, K, {}, {}) /\ Sound(d, n)
    BY <1>1, <1>4, NoneDistinct, ElementsSound
  <2> HIDE DEF d
  <2>2. Becomes(d, ResetTransientState(d), K, {}, {})
    <3>1. Sheets(ResetTransientState(d)) \subseteq Sheets(d) /\ NoGestures(ResetTransientState(d))
      BY <2>1, ShowDrops DEF Sound
    <3> QED BY <2>1, <3>1, NoneClean DEF Becomes
  <2>3. Becomes(b, ResetTransientState(d), K, {} \cup {}, {} \cup {})
    BY <2>1, <2>2, BecomesTrans
  <2> QED BY <2>3 DEF Clear, c, d
<1>6. ASSUME NEW e, IsElement(e, K), e.id \notin Known(b) PROVE Becomes(b, AddElement(b, e), K, {e.id}, {})
  <2> DEFINE es == Append(Elements(b), e)
  <2>1. Distinct(es, K) /\ Range(es) = Range(Elements(b)) \cup {e}
    BY <1>2, <1>6, AppendDistinct
  <2> HIDE DEF es
  <2>2. ElementIds(es) \subseteq ElementIds(Elements(b)) \cup {e.id} /\ {e.id} \cap Drawn(b) = {}
    BY <1>6, <2>1, IdsOfRange DEF Known
  <2>3. Becomes(b, WithElements(c, es), K, {e.id}, {})
    BY <1>3, <2>1, <2>2
  <2> QED BY <1>1, <2>3 DEF AddElement, AppendElement, c, es
<1>7. ASSUME NEW ids, IsFiniteSet(ids) PROVE Becomes(b, RemoveAll(c, ids), K, {}, {})
  <2> DEFINE r == FoldSet(LAMBDA id, t : Without(t, id), Elements(b), ids)
  <2>1. Distinct(r, K) /\ ElementIds(r) \subseteq ElementIds(Elements(b))
    BY <1>7, ShownClean
  <2>2. RemoveAll(c, ids) = WithElements(c, r)
    BY <1>1 DEF RemoveAll
  <2> HIDE DEF r
  <2> QED BY <1>4, <2>1, <2>2
<1>8. ASSUME NEW d, Sound(d, n), Elements(d) = Elements(b), Becomes(b, d, K, {}, {}), d = b \/ d = c, NEW id, NEW x
      PROVE  Becomes(b, Changed(d, id, x), K, {}, {})
  <2> DEFINE I == {i \in 1 .. Len(Elements(d)) : Elements(d)[i].id = id}
             p == Place(d, id)
             es == [Elements(d) EXCEPT ![p].content = x]
  <2>1. CASE p = 0
    BY <1>8, <2>1 DEF Changed
  <2>2. CASE p # 0
    <3>1. p = IF I # {} THEN Min(I) ELSE 0
      BY DEF Place, SelectInSeq
    <3>2. IsList(Elements(d)) /\ DOMAIN Elements(d) = 1 .. Len(Elements(d)) /\ Len(Elements(d)) \in Nat
      BY <1>2, <1>8, AppendList DEF Distinct
    <3>3. I # {} => Min(I) \in I
      <4>1. ASSUME I # {} PROVE \E m \in I : \A k \in I : m <= k
        <5>1. I \in SUBSET Nat
          BY <3>2
        <5> HIDE DEF I
        <5> QED BY <4>1, <5>1, Least
      <4> HIDE DEF I
      <4> QED BY <4>1 DEF Min
    <3>4. p \in I
      BY <2>2, <3>1, <3>3
    <3>5. p \in DOMAIN Elements(d)
      BY <3>2, <3>4
    <3>6. Distinct(es, K) /\ ElementIds(es) = ElementIds(Elements(d))
      BY <1>2, <1>8, <3>5, EditedDistinct
    <3>7. Changed(d, id, x) = WithElements(d, es)
      BY <2>2 DEF Changed
    <3> HIDE DEF es, p
    <3> QED BY <1>4, <1>8, <3>6, <3>7
  <2> QED BY <2>1, <2>2
<1>9. ASSUME NEW id, NEW x
      PROVE  Becomes(b, UpdateElement(b, id, x), K, {}, {}) /\ Becomes(b, UpdateQuietly(b, id, x), K, {}, {})
  <2>1. Becomes(b, b, K, {}, {})
    BY DEF Becomes
  <2> QED BY <1>1, <1>8, <2>1 DEF UpdateElement, UpdateQuietly, c
<1> QED BY <1>5, <1>6, <1>7, <1>9 DEF c

\* The operations on pages.
LEMMA PagesClean ==
    ASSUME NEW b, NEW n, Sound(b, n), NEW K, Clean(b, K)
    PROVE  /\ \A i \in 1 .. Len(b.pages) + 1 : \A p :
                 Distinct(p.elements, K) /\ ElementIds(p.elements) \cap Drawn(b) = {}
                   => Becomes(b, InsertPage(b, i, p), K, ElementIds(p.elements), {})
           /\ \A id : Becomes(b, CreatePage(b, id), K, {}, {}) /\ Becomes(b, SelectPage(b, id), K, {}, {})
           /\ \A id : CanDelete(b, id) => Becomes(b, DeletePage(b, id), K, {}, {})
           /\ CanUndo(b) => Becomes(b, Undo(b), K, {}, {})
           /\ CanRedo(b) => Becomes(b, Redo(b), K, {}, {})
<1>1. ASSUME NEW i \in 1 .. Len(b.pages) + 1, NEW p, Distinct(p.elements, K),
             ElementIds(p.elements) \cap Drawn(b) = {}
      PROVE  Becomes(b, InsertPage(b, i, p), K, ElementIds(p.elements), {})
  BY <1>1, InsertSheets, SheetsClean
<1>2. ASSUME NEW id PROVE Becomes(b, CreatePage(b, id), K, {}, {})
  <2> DEFINE p == Page(id, <<>>)
  <2>1. p.elements = <<>>
    BY DEF Page
  <2> HIDE DEF p
  <2>2. b.currentPage + 1 \in 1 .. Len(b.pages) + 1
    <3>1. IsList(b.pages) /\ b.currentPage \in DOMAIN b.pages
      BY DEF Sound, PagesSound
    <3>2. DOMAIN b.pages = 1 .. Len(b.pages) /\ Len(b.pages) \in Nat
      BY <3>1, AppendList
    <3> QED BY <3>1, <3>2
  <2>3. Distinct(p.elements, K) /\ ElementIds(p.elements) = {}
    BY <2>1, NoneDistinct
  <2>4. Becomes(b, InsertPage(b, b.currentPage + 1, p), K, {}, {})
    BY <1>1, <2>2, <2>3
  <2> QED BY <2>4 DEF CreatePage, p
<1>3. ASSUME NEW id PROVE Becomes(b, SelectPage(b, id), K, {}, {})
  <2>1. Sheets(Show(b, IndexOf(b, id))) \subseteq Sheets(b) /\ NoGestures(Show(b, IndexOf(b, id)))
    BY ShowDrops DEF Sound
  <2> QED BY <2>1, NoneClean DEF SelectPage
<1>4. ASSUME NEW id, CanDelete(b, id) PROVE Becomes(b, DeletePage(b, id), K, {}, {})
  BY <1>4, DeleteSheets, NoneClean
<1>5. /\ CanUndo(b) => Becomes(b, Undo(b), K, {}, {})
      /\ CanRedo(b) => Becomes(b, Redo(b), K, {}, {})
  BY UndoSheets, NoneClean
<1> QED BY <1>1, <1>2, <1>3, <1>4, <1>5

-----------------------------------------------------------------------------
(* Commands: the ids one brings to a board that need not know them, and    *)
(* those it speaks of in any way that puts them there.                     *)
New(c) ==
    CASE c.type = "StrokeBegin" -> {c.id}
      [] c.type = "ElementAdd"  -> {c.element.id}
      [] c.type = "EraserEnd"   -> ElementIds(c.added)
      [] OTHER                  -> {}
Said(c) ==
    CASE c.type = "ElementUpdate" -> {c.element.id}
      [] c.type = "FullSync"      -> IdsOn(Range(c.pages))
      [] OTHER                    -> New(c)
Proper(c, K) ==
    /\ c.type = "StrokeBegin" => c.id \in StrokesOf(K)
    /\ c.type \in {"ElementAdd", "ElementUpdate"} => IsElement(c.element, K)
    /\ c.type = "ElementUpdate" => c.element.id \notin StrokesOf(K)
    /\ c.type = "EraserEnd" => Distinct(c.added, K) /\ c.removed \subseteq DOMAIN K
    /\ c.type = "FullSync" => \A p \in Range(c.pages) : Distinct(p.elements, K)

\* A command speaks of ids handed out only.
LEMMA SaidHandedOut ==
    ASSUME NEW c, NEW K, Proper(c, K)
    PROVE  New(c) \subseteq Said(c) /\ Said(c) \subseteq DOMAIN K
<1>1. New(c) \subseteq DOMAIN K
  BY DistinctMeans DEF New, Proper, IsElement, StrokesOf
<1>2. c.type = "FullSync" => IdsOn(Range(c.pages)) \subseteq DOMAIN K
  BY DistinctMeans DEF IdsOn, Proper
<1>3. New(c) \subseteq Said(c)
  BY DEF New, Said
<1>4. c.type = "ElementUpdate" => c.element.id \in DOMAIN K
  BY DEF Proper, IsElement
<1> QED BY <1>1, <1>2, <1>3, <1>4 DEF Said

\* More ids may be handed out.
LEMMA ProperLasts ==
    ASSUME NEW c, NEW K, NEW L, Extends(L, K), Proper(c, K)
    PROVE  Proper(c, L)
<1>1. StrokesOf(K) \subseteq StrokesOf(L) /\ DOMAIN K \subseteq DOMAIN L
      /\ \A i \in DOMAIN K : i \in StrokesOf(L) => i \in StrokesOf(K)
  BY DEF StrokesOf, Extends
<1>2. \A e : IsElement(e, K) => IsElement(e, L) /\ e.id \in DOMAIN K
  BY DEF IsElement, Extends
<1>3. \A es : Distinct(es, K) => Distinct(es, L)
  BY DistinctLasts
<1> QED BY <1>1, <1>2, <1>3 DEF Proper

\* The eraser of another.
LEMMA RemoteEraserClean ==
    ASSUME NEW b, NEW n, Sound(b, n), NEW K, Clean(b, K), NEW removed, IsFiniteSet(removed),
           NEW added, Distinct(added, K), ElementIds(added) \cap Known(b) = {}
    PROVE  Becomes(b, RemoteEraserEnd(b, removed, added), K, ElementIds(added), {})
<1> DEFINE c == PushSnapshot(b)
           r == FoldSet(LAMBDA id, t : Without(t, id), Elements(b), removed)
           es == r \o added
<1>1. Distinct(r, K) /\ ElementIds(r) \subseteq ElementIds(Elements(b))
  BY ShownClean
<1>2. Sound(c, n) /\ Elements(c) = Elements(b)
  BY SnapshotSound, SnapshotKeeps
<1>3. Elements(RemoveAll(c, removed)) = r
  <2>1. RemoveAll(c, removed) = WithElements(c, r)
    BY <1>2 DEF RemoveAll
  <2> HIDE DEF r, c
  <2> QED BY <1>2, <2>1, Written
<1>4. RemoteEraserEnd(b, removed, added) = WithElements(c, es)
  BY <1>3 DEF RemoteEraserEnd
<1> HIDE DEF r, c
<1>5. ElementIds(Elements(b)) \subseteq Known(b)
  BY ShownIsSheet
<1>6. Distinct(es, K) /\ Range(es) = Range(r) \cup Range(added)
  <2>1. ElementIds(r) \cap ElementIds(added) = {}
    BY <1>1, <1>5
  <2> QED BY <1>1, <2>1, ConcatDistinct
<1> HIDE DEF es
<1>7. ElementIds(es) = ElementIds(r) \cup ElementIds(added)
  BY <1>6, IdsOfRange
<1>8. ElementIds(added) \cap Drawn(b) = {}
  BY DEF Known
<1>9. Becomes(b, WithElements(c, es), K, ElementIds(added), {})
  BY <1>1, <1>6, <1>7, <1>8, WriteClean DEF c
<1> QED BY <1>4, <1>9

\* An update of another puts the element at the end of the page shown, whether
\* it was there or not: nobody draws it, for it is no stroke.
LEMMA RemoteUpdateClean ==
    ASSUME NEW b, NEW n, Sound(b, n), NEW K, Clean(b, K), NEW e, IsElement(e, K), e.id \notin StrokesOf(K)
    PROVE  Becomes(b, RemoteUpdateElement(b, e), K, {e.id}, {})
<1> DEFINE c == PushSnapshot(b)
           r == Without(Elements(b), e.id)
           d == WithElements(c, r)
           es == Append(r, e)
<1>1. Distinct(Elements(b), K) /\ e.id \notin Drawn(b)
  BY ShownClean DEF Clean
<1>2. Distinct(r, K) /\ Range(r) = {x \in Range(Elements(b)) : x.id # e.id}
  BY <1>1, WithoutDistinct
<1>3. Sound(c, n) /\ Elements(c) = Elements(b)
  BY SnapshotSound, SnapshotKeeps
<1>4. RemoveElement(c, e.id) = d
  BY <1>3 DEF RemoveElement
<1> HIDE DEF r
<1>5. ElementIds(r) \subseteq ElementIds(Elements(b)) \ {e.id}
  BY <1>2, IdsOfRange
<1>6. Distinct(es, K) /\ Range(es) = Range(r) \cup {e}
  BY <1>2, <1>5, AppendDistinct
<1>7. ElementIds(es) = ElementIds(r) \cup {e.id}
  BY <1>6, IdsOfRange
<1>8. Becomes(b, d, K, {}, {}) /\ SameGestures(b, d) /\ Elements(d) = r
  <2>1. {} \cap Drawn(b) = {} /\ ElementIds(r) \subseteq ElementIds(Elements(b)) \cup {}
    BY <1>5
  <2> QED BY <1>2, <2>1, WriteClean
<1>9. Sound(d, n)
  BY <1>3, ElementsSound
<1>10. RemoteUpdateElement(b, e) = WithElements(d, es)
  <2>1. RemoteUpdateElement(b, e) = AppendElement(d, e)
    BY <1>4 DEF RemoteUpdateElement
  <2> HIDE DEF d
  <2> QED BY <1>8, <2>1 DEF AppendElement
<1> HIDE DEF d, es
<1>11. Drawn(d) = Drawn(b)
  BY <1>8 DEF SameGestures, Drawn
<1>12. Becomes(d, WithElements(d, es), K, {e.id}, {})
  <2>1. {e.id} \cap Drawn(d) = {} /\ ElementIds(es) \subseteq ElementIds(Elements(d)) \cup {e.id}
    BY <1>1, <1>7, <1>8, <1>11
  <2>2. Clean(d, K)
    BY <1>8 DEF Becomes
  <2> QED BY <1>6, <1>9, <2>1, <2>2, WriteClean
<1>13. Becomes(b, WithElements(d, es), K, {} \cup {e.id}, {} \cup {})
  BY <1>8, <1>12, BecomesTrans
<1> QED BY <1>10, <1>13

\* The full data.
LEMMA SyncClean ==
    ASSUME NEW b, NEW n, Sound(b, n), NEW K, Clean(b, K), NEW pages, \A p \in Range(pages) : Distinct(p.elements, K)
    PROVE  Becomes(b, ApplyFullSync(b, pages), K, IdsOn(Range(pages)), {})
<1> DEFINE c == [b EXCEPT !.pages = pages, !.histories = <<>>]
           d == Show(c, 1)
<1>1. b = [f \in Fields |-> b[f]]
  BY DEF Sound, IsBoard
<1>2. IsBoard(c) /\ c.pages = pages /\ c.histories = <<>>
  BY <1>1 DEF IsBoard, Fields
<1> HIDE DEF c
<1>3. Sheets(d) = Sheets(c) /\ NoGestures(d)
  BY <1>2, ShowDrops
<1>4. Sheets(c) = Range(pages)
  BY <1>2 DEF Sheets
<1> HIDE DEF d
<1>5. Drawn(d) = {} /\ Held(d) = {} /\ Distinct(<<>>, K)
  BY <1>3, NoneDistinct DEF NoGestures, Drawn, Held
<1>6. Clean(d, K)
  BY <1>3, <1>4, <1>5 DEF Clean, NoGestures
<1>7. Known(d) = IdsOn(Range(pages))
  BY <1>3, <1>4, <1>5 DEF Known
<1> QED BY <1>5, <1>6, <1>7 DEF Becomes, ApplyFullSync, c, d

\* A command of another, whichever it is and whatever the board shows, as long as
\* the board does not know yet what is new in it.
LEMMA ApplyClean ==
    ASSUME NEW b, NEW n, Sound(b, n), NEW K, IsFiniteSet(DOMAIN K), Clean(b, K),
           NEW c, Fine(c, n), Proper(c, K), New(c) \cap Known(b) = {}
    PROVE  Becomes(b, Apply(b, c), K, Said(c), {})
<1>1. Becomes(b, b, K, {}, {})
  BY DEF Becomes
<1>2. \A d, S : Becomes(b, d, K, {}, {}) => Becomes(b, d, K, S, {})
  BY DEF Becomes
<1>3. CASE c.type = "StrokeBegin"
  <2>1. c.id \in StrokesOf(K) /\ c.id \notin Known(b) /\ Said(c) = {c.id}
    BY <1>3 DEF Proper, New, Said
  <2>2. Becomes(b, Unfinished(PushSnapshot(b), RemoteKey(c.id), c.id), K, {c.id}, {})
    BY <2>1, PenClean
  <2> QED BY <1>3, <2>1, <2>2 DEF Apply, RemoteStrokeBegin
<1>4. CASE c.type = "StrokeEnd"
  <2>1. Becomes(b, RemoteStrokeEnd(b, c.id), K, {}, {})
    BY <1>1, FinishedClean DEF RemoteStrokeEnd
  <2> QED BY <1>2, <1>4, <2>1 DEF Apply
<1>5. CASE c.type = "EraserEnd"
  <2>1. Distinct(c.added, K) /\ ElementIds(c.added) \cap Known(b) = {} /\ Said(c) = ElementIds(c.added)
    BY <1>5 DEF Proper, New, Said
  <2>2. IsFiniteSet(c.removed)
    BY <1>5, FS_Subset DEF Proper
  <2>3. Becomes(b, RemoteEraserEnd(b, c.removed, c.added), K, ElementIds(c.added), {})
    BY <2>1, <2>2, RemoteEraserClean
  <2> QED BY <1>5, <2>1, <2>3 DEF Apply
<1>6. CASE c.type = "ElementAdd"
  <2>1. IsElement(c.element, K) /\ c.element.id \notin Known(b) /\ Said(c) = {c.element.id}
    BY <1>6 DEF Proper, New, Said
  <2>2. Becomes(b, AddElement(b, c.element), K, {c.element.id}, {})
    BY <2>1, ElementsClean
  <2> QED BY <1>6, <2>1, <2>2 DEF Apply
<1>7. CASE c.type = "ElementUpdate"
  <2>1. IsElement(c.element, K) /\ c.element.id \notin StrokesOf(K) /\ Said(c) = {c.element.id}
    BY <1>7 DEF Proper, Said
  <2>2. Becomes(b, RemoteUpdateElement(b, c.element), K, {c.element.id}, {})
    BY <2>1, RemoteUpdateClean
  <2> QED BY <1>7, <2>1, <2>2 DEF Apply
<1>8. CASE c.type = "FullSync"
  <2>1. \A p \in Range(c.pages) : Distinct(p.elements, K)
    BY <1>8 DEF Proper
  <2>2. Becomes(b, ApplyFullSync(b, c.pages), K, IdsOn(Range(c.pages)), {})
    BY <2>1, SyncClean
  <2>3. Said(c) = IdsOn(Range(c.pages))
    BY <1>8 DEF Said
  <2> QED BY <1>8, <2>2, <2>3 DEF Apply
<1>9. CASE c.type \in {"StrokeUpdate", "PageClear"}
  <2>1. Becomes(b, UpdateElement(b, c.id, c.content), K, {}, {}) /\ Becomes(b, Clear(b), K, {}, {})
    BY ElementsClean
  <2>2. Becomes(b, Apply(b, c), K, {}, {})
    BY <1>9, <2>1 DEF Apply
  <2> QED BY <1>2, <2>2
<1>10. CASE c.type = "ElementRemove"
  <2> DEFINE p == PushSnapshot(b)
             r == Without(Elements(b), c.id)
  <2>1. Distinct(Elements(b), K) /\ Elements(p) = Elements(b)
    BY ShownClean, SnapshotKeeps
  <2>2. Distinct(r, K) /\ Range(r) = {x \in Range(Elements(b)) : x.id # c.id}
    BY <2>1, WithoutDistinct
  <2>3. RemoveElement(p, c.id) = WithElements(p, r)
    BY <2>1 DEF RemoveElement
  <2> HIDE DEF r
  <2>4. ElementIds(r) \subseteq ElementIds(Elements(b)) \cup {} /\ {} \cap Drawn(b) = {}
    BY <2>2, IdsOfRange
  <2>5. Becomes(b, WithElements(p, r), K, {}, {})
    BY <2>2, <2>4, WriteClean
  <2>6. Becomes(b, RemoteRemove(b, c.id), K, {}, {})
    BY <1>1, <2>3, <2>5 DEF RemoteRemove
  <2> QED BY <1>2, <1>10, <2>6 DEF Apply
<1>11. CASE c.type \in {"PageCreate", "PageSelect", "PageDelete", "Undo", "Redo"}
  <2>1. \A id : Becomes(b, RemoteSelectPage(b, id), K, {}, {}) /\ Becomes(b, RemoteCreatePage(b, id), K, {}, {})
                /\ Becomes(b, RemoteDeletePage(b, id), K, {}, {})
    BY <1>1, PagesClean DEF RemoteSelectPage, RemoteCreatePage, RemoteDeletePage
  <2>2. Becomes(b, RemoteUndo(b), K, {}, {}) /\ Becomes(b, RemoteRedo(b), K, {}, {})
    BY <1>1, PagesClean DEF RemoteUndo, RemoteRedo
  <2>3. Becomes(b, Apply(b, c), K, {}, {})
    BY <1>11, <2>1, <2>2 DEF Apply
  <2> QED BY <1>2, <2>3
<1> QED BY <1>3, <1>4, <1>5, <1>6, <1>7, <1>8, <1>9, <1>10, <1>11 DEF Fine, Types

-----------------------------------------------------------------------------
(* What a queue has under way.  The call that hands a command to the api   *)
(* thread is not counted: the command is still in the outbox.              *)
Bearing == {"APPLY", "MESSAGE", "BROADCAST", "UNICAST"}
NewIn(t) == IF t.kind \in Bearing THEN New(t.cmd) ELSE {}
SaidIn(t) == IF t.kind \in Bearing THEN Said(t.cmd) ELSE {}
ProperIn(t, K) ==
    /\ t.kind \in Bearing => Proper(t.cmd, K)
    /\ t.kind = "UNICAST" => t.cmd.type = "FullSync"
News(q) == UNION {NewIn(q[i]) : i \in DOMAIN q}
AllSaid(q) == UNION {SaidIn(q[i]) : i \in DOMAIN q}
Neat(q) == \A i, j \in DOMAIN q : i < j => NewIn(q[j]) \cap SaidIn(q[i]) = {}
AllProper(q, K) == \A i \in DOMAIN q : ProperIn(q[i], K)

\* A queue speaks of ids handed out only.
LEMMA QueueSays ==
    ASSUME NEW q, NEW K, AllProper(q, K)
    PROVE  News(q) \subseteq AllSaid(q) /\ AllSaid(q) \subseteq DOMAIN K
<1>1. \A i \in DOMAIN q : NewIn(q[i]) \subseteq SaidIn(q[i]) /\ SaidIn(q[i]) \subseteq DOMAIN K
  BY SaidHandedOut DEF AllProper, ProperIn, NewIn, SaidIn
<1> QED BY <1>1 DEF News, AllSaid

\* More ids may be handed out.
LEMMA QueueLasts ==
    ASSUME NEW q, NEW K, NEW L, Extends(L, K), AllProper(q, K)
    PROVE  AllProper(q, L)
BY ProperLasts DEF AllProper, ProperIn

\* An empty queue.
LEMMA QueueEmpty == ASSUME NEW K PROVE News(<<>>) = {} /\ AllSaid(<<>>) = {} /\ Neat(<<>>) /\ AllProper(<<>>, K)
<1>1. DOMAIN <<>> = {}
  OBVIOUS
<1> QED BY <1>1 DEF News, AllSaid, Neat, AllProper

\* One more in the queue.
LEMMA QueueMore ==
    ASSUME NEW q, IsList(q), NEW t
    PROVE  /\ News(Append(q, t)) = News(q) \cup NewIn(t) /\ AllSaid(Append(q, t)) = AllSaid(q) \cup SaidIn(t)
           /\ Neat(q) /\ NewIn(t) \cap AllSaid(q) = {} => Neat(Append(q, t))
           /\ \A K : AllProper(q, K) /\ ProperIn(t, K) => AllProper(Append(q, t), K)
<1> DEFINE r == Append(q, t)
<1>1. /\ DOMAIN r = 1 .. Len(q) + 1 /\ Len(q) \in Nat /\ DOMAIN q = 1 .. Len(q)
      /\ \A i \in 1 .. Len(q) : r[i] = q[i]
      /\ r[Len(q) + 1] = t
  BY AppendList
<1> HIDE DEF r
<1>2. /\ \A i \in DOMAIN r : (i \in DOMAIN q /\ r[i] = q[i]) \/ (i = Len(q) + 1 /\ r[i] = t)
      /\ \A i \in DOMAIN q : i \in DOMAIN r /\ r[i] = q[i] /\ i < Len(q) + 1
      /\ Len(q) + 1 \in DOMAIN r
  BY <1>1
<1>3. News(r) = News(q) \cup NewIn(t)
  BY <1>1, <1>2 DEF News
<1>4. AllSaid(r) = AllSaid(q) \cup SaidIn(t)
  BY <1>1, <1>2 DEF AllSaid
<1>5. ASSUME Neat(q), NewIn(t) \cap AllSaid(q) = {} PROVE Neat(r)
  <2>1. ASSUME NEW i \in DOMAIN r, NEW j \in DOMAIN r, i < j PROVE NewIn(r[j]) \cap SaidIn(r[i]) = {}
    <3>1. i \in DOMAIN q /\ r[i] = q[i]
      BY <1>1, <1>2, <2>1
    <3>2. CASE j \in DOMAIN q
      BY <1>2, <1>5, <2>1, <3>1, <3>2 DEF Neat
    <3>3. CASE r[j] = t
      BY <1>5, <3>1, <3>3 DEF AllSaid
    <3> QED BY <1>2, <3>2, <3>3
  <2> QED BY <2>1 DEF Neat
<1>6. \A K : AllProper(q, K) /\ ProperIn(t, K) => AllProper(r, K)
  BY <1>2 DEF AllProper
<1> QED BY <1>3, <1>4, <1>5, <1>6 DEF r

\* The first in the queue is taken.
LEMMA QueueLess ==
    ASSUME NEW q, IsList(q), q # <<>>
    PROVE  /\ News(q) = NewIn(Head(q)) \cup News(Tail(q)) /\ AllSaid(q) = SaidIn(Head(q)) \cup AllSaid(Tail(q))
           /\ Neat(q) => Neat(Tail(q)) /\ News(Tail(q)) \cap SaidIn(Head(q)) = {}
           /\ \A K : AllProper(q, K) => AllProper(Tail(q), K) /\ ProperIn(Head(q), K)
<1> DEFINE r == Tail(q)
           h == Head(q)
<1>1. /\ DOMAIN r = 1 .. Len(q) - 1 /\ Len(q) \in Nat \ {0} /\ DOMAIN q = 1 .. Len(q) /\ h = q[1]
      /\ \A i \in DOMAIN r : r[i] = q[i + 1]
  BY TailList
<1> HIDE DEF r, h
<1>2. /\ 1 \in DOMAIN q /\ q[1] = h
      /\ \A i \in DOMAIN r : i + 1 \in DOMAIN q /\ r[i] = q[i + 1] /\ 1 < i + 1
      /\ \A i, j \in DOMAIN r : i < j => i + 1 < j + 1
      /\ \A i \in DOMAIN q : i = 1 \/ (i - 1 \in DOMAIN r /\ r[i - 1] = q[i])
  <2>1. \A i \in DOMAIN q : i = 1 \/ (i - 1 \in DOMAIN r /\ (i - 1) + 1 = i)
    BY <1>1
  <2> QED BY <1>1, <2>1
<1>3. News(q) = NewIn(h) \cup News(r)
  BY <1>2 DEF News
<1>4. AllSaid(q) = SaidIn(h) \cup AllSaid(r)
  BY <1>2 DEF AllSaid
<1>5. ASSUME Neat(q) PROVE Neat(r) /\ News(r) \cap SaidIn(h) = {}
  <2>1. Neat(r)
    BY <1>2, <1>5 DEF Neat
  <2>2. \A i \in DOMAIN r : NewIn(r[i]) \cap SaidIn(h) = {}
    BY <1>2, <1>5 DEF Neat
  <2> QED BY <2>1, <2>2 DEF News
<1>6. \A K : AllProper(q, K) => AllProper(r, K) /\ ProperIn(h, K)
  BY <1>2 DEF AllProper
<1> QED BY <1>3, <1>4, <1>5, <1>6 DEF r, h

(* Commands as the frames they become.                                     *)
Wrapped(cmds) == [i \in DOMAIN cmds |-> [kind |-> "BROADCAST", cmd |-> cmds[i]]]

\* The frames of commands, of those that remain, and of none.
LEMMA WrappedIs ==
    /\ \A cmds : IsList(cmds) =>
          /\ IsList(Wrapped(cmds)) /\ DOMAIN Wrapped(cmds) = DOMAIN cmds
          /\ \A i \in DOMAIN cmds : NewIn(Wrapped(cmds)[i]) = New(cmds[i]) /\ SaidIn(Wrapped(cmds)[i]) = Said(cmds[i])
          /\ \A i \in DOMAIN cmds : \A K : ProperIn(Wrapped(cmds)[i], K) <=> Proper(cmds[i], K)
          /\ cmds # <<>> => /\ Wrapped(cmds) # <<>> /\ Wrapped(Tail(cmds)) = Tail(Wrapped(cmds))
                            /\ Head(Wrapped(cmds)) = [kind |-> "BROADCAST", cmd |-> cmds[1]]
    /\ Wrapped(<<>>) = <<>>
<1>1. ASSUME NEW cmds, IsList(cmds)
      PROVE  /\ IsList(Wrapped(cmds)) /\ DOMAIN Wrapped(cmds) = DOMAIN cmds /\ Len(Wrapped(cmds)) = Len(cmds)
             /\ \A i \in DOMAIN cmds : Wrapped(cmds)[i] = [kind |-> "BROADCAST", cmd |-> cmds[i]]
  <2> DEFINE w == [i \in DOMAIN cmds |-> [kind |-> "BROADCAST", cmd |-> cmds[i]]]
  <2>1. DOMAIN cmds = 1 .. Len(cmds) /\ Len(cmds) \in Nat
    BY <1>1, AppendList
  <2>2. w = [i \in 1 .. Len(cmds) |-> w[i]]
    BY <2>1
  <2>3. \A i \in DOMAIN cmds : w[i] = [kind |-> "BROADCAST", cmd |-> cmds[i]]
    OBVIOUS
  <2> HIDE DEF w
  <2>4. IsList(w) /\ DOMAIN w = 1 .. Len(cmds) /\ Len(w) = Len(cmds)
    BY <2>1, <2>2, MadeList
  <2>5. Wrapped(cmds) = w
    BY DEF Wrapped, w
  <2> QED BY <2>1, <2>3, <2>4, <2>5
<1>2. ASSUME NEW cmds, IsList(cmds), NEW i \in DOMAIN cmds
      PROVE  /\ NewIn(Wrapped(cmds)[i]) = New(cmds[i]) /\ SaidIn(Wrapped(cmds)[i]) = Said(cmds[i])
             /\ \A K : ProperIn(Wrapped(cmds)[i], K) <=> Proper(cmds[i], K)
  <2> DEFINE t == Wrapped(cmds)[i]
  <2>1. t = [kind |-> "BROADCAST", cmd |-> cmds[i]]
    BY <1>1, <1>2
  <2> HIDE DEF t
  <2>2. t.kind = "BROADCAST" /\ t.cmd = cmds[i]
    BY <2>1
  <2>3. NewIn(t) = New(cmds[i]) /\ SaidIn(t) = Said(cmds[i])
    BY <2>2 DEF NewIn, SaidIn, Bearing
  <2>4. \A K : ProperIn(t, K) <=> Proper(cmds[i], K)
    BY <2>2 DEF ProperIn, Bearing
  <2> QED BY <2>3, <2>4 DEF t
<1>3. ASSUME NEW cmds, IsList(cmds), cmds # <<>>
      PROVE  /\ Wrapped(cmds) # <<>> /\ Wrapped(Tail(cmds)) = Tail(Wrapped(cmds))
             /\ Head(Wrapped(cmds)) = [kind |-> "BROADCAST", cmd |-> cmds[1]]
  <2> DEFINE t == Tail(cmds)
             w == Wrapped(cmds)
             u == Wrapped(t)
             v == Tail(w)
  <2>1. /\ IsList(t) /\ DOMAIN t = 1 .. Len(cmds) - 1 /\ Len(t) = Len(cmds) - 1
        /\ Len(cmds) \in Nat \ {0} /\ DOMAIN cmds = 1 .. Len(cmds)
        /\ \A i \in DOMAIN t : t[i] = cmds[i + 1]
    BY <1>3, TailList
  <2>2. IsList(w) /\ DOMAIN w = DOMAIN cmds /\ Len(w) = Len(cmds)
        /\ \A i \in DOMAIN cmds : w[i] = [kind |-> "BROADCAST", cmd |-> cmds[i]]
    BY <1>1, <1>3
  <2> HIDE DEF t, w
  <2>3. IsList(u) /\ DOMAIN u = DOMAIN t /\ Len(u) = Len(t)
        /\ \A i \in DOMAIN t : u[i] = [kind |-> "BROADCAST", cmd |-> t[i]]
    BY <1>1, <2>1
  <2>4. w # <<>> /\ 1 \in DOMAIN cmds
    BY <2>1, <2>2
  <2>5. /\ DOMAIN v = 1 .. Len(w) - 1 /\ Head(w) = w[1] /\ IsList(v) /\ Len(v) = Len(w) - 1
        /\ \A i \in DOMAIN v : v[i] = w[i + 1]
    BY <2>2, <2>4, TailList
  <2>6. \A i \in 1 .. Len(cmds) - 1 : i + 1 \in DOMAIN cmds
    BY <2>1
  <2> HIDE DEF u, v
  <2>9. IsList(u) /\ IsList(v)
    <3>1. IsList(u)
      BY <2>3
    <3>2. IsList(v)
      BY <2>5
    <3> QED BY <3>1, <3>2
  <2>7. DOMAIN u = DOMAIN v /\ \A i \in DOMAIN v : u[i] = v[i]
    BY <2>1, <2>2, <2>3, <2>5, <2>6
  <2>8. u = v
    <3>1. u \in Seq({u[i] : i \in DOMAIN u}) /\ v \in Seq({v[i] : i \in DOMAIN v})
      BY <2>9 DEF IsList
    <3>2. Len(u) = Len(v)
      BY <2>1, <2>2, <2>3, <2>5
    <3> DEFINE U == {u[i] : i \in DOMAIN u} \cup {v[i] : i \in DOMAIN v}
    <3>3. u \in Seq(U) /\ v \in Seq(U)
      BY <3>1, SeqMonotonic
    <3> HIDE DEF U
    <3>4. \A i \in 1 .. Len(u) : u[i] = v[i]
      BY <2>1, <2>2, <2>3, <2>7
    <3> QED BY <3>2, <3>3, <3>4, SeqEqual
  <2> QED BY <2>2, <2>4, <2>5, <2>8 DEF t, w, u, v
<1>4. Wrapped(<<>>) = <<>>
  BY DEF Wrapped
<1> QED BY <1>1, <1>2, <1>3, <1>4

-----------------------------------------------------------------------------
(* The ids on their way to a member and from it, and the invariant: what   *)
(* is new on the way to a board is not known to it, what a member still    *)
(* holds back or has sent as new is known to nobody else, and in every     *)
(* queue an id is new before anything else speaks of it.  K tells which of *)
(* the ids handed out are of strokes.                                      *)
In(m) == News(dataQueue[m]) \cup News(apiQueue[m]) \cup News(down[m])
InSaid(m) == AllSaid(dataQueue[m]) \cup AllSaid(apiQueue[m]) \cup AllSaid(down[m])
Out(m) == News(up[m]) \cup News(Wrapped(outbox[m]))
OutSaid(m) == AllSaid(up[m]) \cup AllSaid(Wrapped(outbox[m]))

InNeat(m) ==
    /\ Neat(dataQueue[m]) /\ Neat(apiQueue[m]) /\ Neat(down[m])
    /\ News(apiQueue[m]) \cap AllSaid(dataQueue[m]) = {}
    /\ News(down[m]) \cap (AllSaid(dataQueue[m]) \cup AllSaid(apiQueue[m])) = {}
OutNeat(m) ==
    /\ Neat(up[m]) /\ Neat(Wrapped(outbox[m]))
    /\ News(Wrapped(outbox[m])) \cap AllSaid(up[m]) = {}

Commands(K) ==
    \A m \in Members :
        /\ AllProper(dataQueue[m], K) /\ AllProper(apiQueue[m], K) /\ AllProper(down[m], K)
        /\ AllProper(up[m], K) /\ AllProper(Wrapped(outbox[m]), K)
SendIsFirst ==
    \A m \in Members : \A i \in DOMAIN apiQueue[m] :
        apiQueue[m][i].kind = "SEND" => apiQueue[m][i].cmd = outbox[m][1]
Boards(K) == \A m \in Members : Clean(board[m], K)
Neatly == \A m \in Members : InNeat(m) /\ OutNeat(m) /\ In(m) \cap Known(board[m]) = {}
Apart ==
    \A m, k \in Members :
        /\ Out(k) \cap InSaid(m) = {}
        /\ Held(board[k]) \cap InSaid(m) = {} /\ Held(board[k]) \cap OutSaid(m) = {}
        /\ m # k => /\ Out(k) \cap Known(board[m]) = {} /\ Out(k) \cap OutSaid(m) = {}
                    /\ Held(board[k]) \cap Known(board[m]) = {}

Kinds == [1 .. nextId - 1 -> BOOLEAN]
TidyWith(K) == Commands(K) /\ SendIsFirst /\ Boards(K) /\ Neatly /\ Apart
Tidy == ~torn => \E K \in Kinds : TidyWith(K)

\* The boards are clean, so nothing is on a page twice.
LEMMA TidyMeans == Inv /\ Tidy => NoDoubles
<1> SUFFICES ASSUME Inv, Tidy, ~torn, NEW m \in Members, NEW p \in DOMAIN board[m].pages
             PROVE  LET es == board[m].pages[p].elements
                    IN \A i, j \in DOMAIN es : es[i].id = es[j].id => i = j
  BY DEF NoDoubles, ElementsOnce
<1>1. PICK K \in Kinds : TidyWith(K)
  BY DEF Tidy
<1>2. Clean(board[m], K)
  BY <1>1 DEF TidyWith, Boards
<1>3. Sound(board[m], nextId)
  BY DEF Inv, BoardsSound
<1>4. board[m].pages[p] \in Sheets(board[m])
  BY <1>3, ShownIsSheet
<1> QED BY <1>2, <1>4 DEF Clean, Distinct

\* More ids may be handed out.
LEMMA CleanLasts ==
    ASSUME NEW b, NEW K, NEW L, Extends(L, K), Clean(b, K)
    PROVE  Clean(b, L)
<1>1. StrokesOf(K) \subseteq StrokesOf(L) /\ DOMAIN K \subseteq DOMAIN L
  BY DEF StrokesOf, Extends
<1>2. \A es : Distinct(es, K) => Distinct(es, L)
  BY DistinctLasts
<1> QED BY <1>1, <1>2 DEF Clean

\* A clean board knows ids handed out only, and draws and holds back strokes only.
LEMMA KnownHandedOut ==
    ASSUME NEW b, NEW K, Clean(b, K)
    PROVE  /\ Known(b) \subseteq DOMAIN K /\ Held(b) \subseteq StrokesOf(K) /\ Held(b) \subseteq Known(b)
           /\ Drawn(b) \subseteq Known(b) /\ IdsOn(Sheets(b)) \subseteq Known(b)
<1>1. IdsOn(Sheets(b)) \subseteq DOMAIN K
  BY DistinctMeans DEF IdsOn, Clean
<1>2. StrokesOf(K) \subseteq DOMAIN K
  BY DEF StrokesOf
<1> QED BY <1>1, <1>2 DEF Known, Clean

\* What the member may say: nothing that a board or a command does not know already.
LEMMA SaysHandedOut ==
    ASSUME NEW K, TidyWith(K)
    PROVE  \A n \in Members :
              /\ In(n) \subseteq InSaid(n) /\ InSaid(n) \subseteq DOMAIN K
              /\ Out(n) \subseteq OutSaid(n) /\ OutSaid(n) \subseteq DOMAIN K
              /\ Known(board[n]) \subseteq DOMAIN K /\ Held(board[n]) \subseteq Known(board[n])
<1> TAKE n \in Members
<1>1. \A q : AllProper(q, K) => News(q) \subseteq AllSaid(q) /\ AllSaid(q) \subseteq DOMAIN K
  BY QueueSays
<1>2. /\ AllProper(dataQueue[n], K) /\ AllProper(apiQueue[n], K) /\ AllProper(down[n], K)
      /\ AllProper(up[n], K) /\ AllProper(Wrapped(outbox[n]), K)
  BY DEF TidyWith, Commands
<1>3. Known(board[n]) \subseteq DOMAIN K /\ Held(board[n]) \subseteq Known(board[n])
  BY KnownHandedOut DEF TidyWith, Boards
<1> QED BY <1>1, <1>2, <1>3 DEF In, InSaid, Out, OutSaid

\* An operation that puts new ids X on the board or holds them back, and announces
\* what was held back and what is new, and nothing that is still held back.
LEMMA OperateTidy ==
    ASSUME Inv, NEW K \in Kinds, TidyWith(K), NEW m \in Members, NEW b, NEW cmds, NEW used \in Nat,
           Operate(m, b, cmds, used), IsList(cmds),
           NEW L \in [1 .. nextId + used - 1 -> BOOLEAN], Extends(L, K), NEW X, X \cap DOMAIN K = {},
           Becomes(board[m], b, L, X, X),
           News(Wrapped(cmds)) \subseteq Held(board[m]) \cup X,
           AllSaid(Wrapped(cmds)) \subseteq Known(board[m]) \cup X,
           AllSaid(Wrapped(cmds)) \cap Held(b) = {},
           Neat(Wrapped(cmds)), AllProper(Wrapped(cmds), L)
    PROVE  Tidy'
<1>1. nextId' = nextId + used /\ L \in Kinds'
  <2>1. nextId' = nextId + used
    BY DEF Operate
  <2>2. Kinds' = [1 .. nextId' - 1 -> BOOLEAN]
    BY DEF Kinds
  <2>3. nextId' - 1 = nextId + used - 1
    BY <2>1, NextIsNew
  <2> DEFINE k == nextId + used - 1
  <2>4. L \in [1 .. k -> BOOLEAN] /\ nextId' - 1 = k
    BY <2>3
  <2> HIDE DEF k
  <2> QED BY <2>1, <2>2, <2>4, Zenon
<1> DEFINE sent == IF callback[m] THEN cmds ELSE <<>>
<1>2. /\ board'[m] = b /\ \A n \in Members : n # m => board'[n] = board[n]
  BY DEF Operate, Inv, BoardsSound, PerMember
<1>3. /\ outbox'[m] = sent /\ \A n \in Members : n # m => outbox'[n] = outbox[n]
  BY DEF Operate, Inv, OutboxSound, PerMember
<1>4. dataQueue' = dataQueue /\ up' = up /\ down' = down /\ torn' = torn
  BY DEF Operate, netVars
<1>5. News(Wrapped(<<>>)) = {} /\ AllSaid(Wrapped(<<>>)) = {} /\ Neat(Wrapped(<<>>)) /\ AllProper(Wrapped(<<>>), L)
  BY QueueEmpty, WrappedIs
<1>6. /\ News(Wrapped(sent)) \subseteq Held(board[m]) \cup X
      /\ AllSaid(Wrapped(sent)) \subseteq Known(board[m]) \cup X
      /\ AllSaid(Wrapped(sent)) \cap Held(b) = {}
      /\ Neat(Wrapped(sent)) /\ AllProper(Wrapped(sent), L)
  BY <1>5
<1>7. \A n \in Members :
        /\ News(apiQueue'[n]) = News(apiQueue[n]) /\ AllSaid(apiQueue'[n]) = AllSaid(apiQueue[n])
        /\ Neat(apiQueue[n]) => Neat(apiQueue'[n])
        /\ AllProper(apiQueue[n], L) => AllProper(apiQueue'[n], L)
  <2>1. CASE callback[m] /\ cmds # <<>>
    <3> DEFINE t == Send(Head(cmds))
    <3>1. t.kind = "SEND"
      BY DEF Send
    <3> HIDE DEF t
    <3>2. NewIn(t) = {} /\ SaidIn(t) = {} /\ \A J : ProperIn(t, J)
      BY <3>1 DEF NewIn, SaidIn, ProperIn, Bearing
    <3>3. apiQueue' = [apiQueue EXCEPT ![m] = Append(@, t)] /\ apiQueue = [n \in Members |-> apiQueue[n]]
      BY <2>1 DEF Operate, Inv, QueuesSound, Carrying, PerMember, t
    <3>4. apiQueue'[m] = Append(apiQueue[m], t) /\ \A n \in Members : n # m => apiQueue'[n] = apiQueue[n]
      BY <3>3
    <3>5. IsList(apiQueue[m])
      BY DEF Inv, QueuesSound, Carrying
    <3>6. /\ News(Append(apiQueue[m], t)) = News(apiQueue[m]) /\ AllSaid(Append(apiQueue[m], t)) = AllSaid(apiQueue[m])
          /\ Neat(apiQueue[m]) => Neat(Append(apiQueue[m], t))
          /\ AllProper(apiQueue[m], L) => AllProper(Append(apiQueue[m], t), L)
      BY <3>2, <3>5, QueueMore
    <3> QED BY <3>4, <3>6
  <2>2. CASE ~(callback[m] /\ cmds # <<>>)
    BY <2>2 DEF Operate
  <2> QED BY <2>1, <2>2
<1>8. Commands(L)'
  <2>1. \A q : AllProper(q, K) => AllProper(q, L)
    BY QueueLasts
  <2> HIDE DEF sent
  <2>2. ASSUME NEW n \in Members
        PROVE  /\ AllProper(dataQueue'[n], L) /\ AllProper(apiQueue'[n], L) /\ AllProper(down'[n], L)
               /\ AllProper(up'[n], L) /\ AllProper(Wrapped(outbox'[n]), L)
    BY <1>3, <1>4, <1>6, <1>7, <2>1 DEF TidyWith, Commands
  <2> QED BY <2>2 DEF Commands
<1>9. SendIsFirst'
  <2>1. outbox[m] = <<>> /\ \A i \in DOMAIN apiQueue[m] : apiQueue[m][i].kind # "SEND"
    BY DEF Operate, DataFree, Inv, SendsSound, SendsOnce
  <2>2. CASE callback[m] /\ cmds # <<>>
    <3> DEFINE t == Send(Head(cmds))
               r == Append(apiQueue[m], t)
    <3>1. t.cmd = Head(cmds) /\ Head(cmds) = cmds[1]
      BY <2>2, TailList DEF Send
    <3>2. apiQueue' = [apiQueue EXCEPT ![m] = Append(@, t)] /\ apiQueue = [n \in Members |-> apiQueue[n]]
      BY <2>2 DEF Operate, Inv, QueuesSound, Carrying, PerMember, t
    <3> HIDE DEF t
    <3>3. apiQueue'[m] = r /\ \A n \in Members : n # m => apiQueue'[n] = apiQueue[n]
      BY <3>2
    <3>4. /\ DOMAIN r = 1 .. Len(apiQueue[m]) + 1 /\ Len(apiQueue[m]) \in Nat
          /\ DOMAIN apiQueue[m] = 1 .. Len(apiQueue[m])
          /\ \A i \in 1 .. Len(apiQueue[m]) : r[i] = apiQueue[m][i]
          /\ r[Len(apiQueue[m]) + 1] = t
      BY AppendList DEF Inv, QueuesSound, Carrying
    <3> HIDE DEF r
    <3>5. \A i \in DOMAIN r : (i \in DOMAIN apiQueue[m] /\ r[i] = apiQueue[m][i]) \/ r[i] = t
      BY <3>4
    <3>6. \A i \in DOMAIN r : r[i].kind = "SEND" => r[i].cmd = outbox'[m][1]
      BY <1>3, <2>1, <2>2, <3>1, <3>5
    <3> QED BY <1>3, <3>3, <3>6 DEF SendIsFirst, TidyWith
  <2>3. CASE ~(callback[m] /\ cmds # <<>>)
    <3>1. apiQueue' = apiQueue
      BY <2>3 DEF Operate
    <3> QED BY <1>3, <2>1, <3>1 DEF SendIsFirst, TidyWith
  <2> QED BY <2>2, <2>3
<1>10. Boards(L)'
  <2>1. \A n \in Members : Clean(board[n], L)
    BY CleanLasts DEF TidyWith, Boards
  <2> QED BY <1>2, <2>1 DEF Boards, Becomes
<1> HIDE DEF sent
<1>11. \A n \in Members :
        /\ In(n)' = In(n) /\ InSaid(n)' = InSaid(n)
        /\ n # m => Out(n)' = Out(n) /\ OutSaid(n)' = OutSaid(n)
  BY <1>3, <1>4, <1>7 DEF In, InSaid, Out, OutSaid
<1>12. Out(m)' \subseteq Out(m) \cup Held(board[m]) \cup X /\ OutSaid(m)' \subseteq OutSaid(m) \cup Known(board[m]) \cup X
  BY <1>3, <1>4, <1>6 DEF Out, OutSaid
<1>13. OutSaid(m)' \subseteq OutSaid(m) \cup AllSaid(Wrapped(sent))
  BY <1>3, <1>4 DEF OutSaid
<1>14. Known(b) \subseteq Known(board[m]) \cup X /\ Held(b) \subseteq Held(board[m]) \cup X
  BY DEF Becomes
<1>15. \A n \in Members :
              /\ In(n) \subseteq InSaid(n) /\ InSaid(n) \subseteq DOMAIN K
              /\ Out(n) \subseteq OutSaid(n) /\ OutSaid(n) \subseteq DOMAIN K
              /\ Known(board[n]) \subseteq DOMAIN K /\ Held(board[n]) \subseteq Known(board[n])
  BY SaysHandedOut
<1>16. \A n \in Members :
        /\ In(n) \cap Known(board[n]) = {}
        /\ InNeat(n) /\ OutNeat(n)
  BY DEF TidyWith, Neatly
<1>17. \A n, k \in Members :
        /\ Out(k) \cap InSaid(n) = {}
        /\ Held(board[k]) \cap InSaid(n) = {} /\ Held(board[k]) \cap OutSaid(n) = {}
        /\ n # k => /\ Out(k) \cap Known(board[n]) = {} /\ Out(k) \cap OutSaid(n) = {}
                    /\ Held(board[k]) \cap Known(board[n]) = {}
  BY DEF TidyWith, Apart
<1>18. Neatly'
  <2>1. ASSUME NEW n \in Members PROVE InNeat(n)'
    <3>1. InNeat(n)
      BY <1>16
    <3> QED BY <1>4, <1>7, <3>1 DEF InNeat
  <2>2. ASSUME NEW n \in Members PROVE OutNeat(n)'
    <3>1. OutNeat(n)
      BY <1>16
    <3>2. CASE n # m
      BY <1>3, <1>4, <3>1, <3>2 DEF OutNeat
    <3>3. CASE n = m
      <4>1. AllSaid(up[m]) \subseteq OutSaid(m)
        BY DEF OutSaid
      <4>2. News(Wrapped(sent)) \cap AllSaid(up[m]) = {}
        BY <1>6, <1>15, <1>17, <4>1
      <4> QED BY <1>3, <1>4, <1>6, <3>1, <3>3, <4>2 DEF OutNeat
    <3> QED BY <3>2, <3>3
  <2>3. ASSUME NEW n \in Members PROVE In(n)' \cap Known(board'[n]) = {}
    BY <1>2, <1>11, <1>14, <1>15, <1>16
  <2> QED BY <2>1, <2>2, <2>3 DEF Neatly
<1>19. Apart'
  <2>1. ASSUME NEW n \in Members, NEW k \in Members PROVE Out(k)' \cap InSaid(n)' = {}
    BY <1>11, <1>12, <1>15, <1>17
  <2>2. ASSUME NEW n \in Members, NEW k \in Members PROVE Held(board'[k]) \cap InSaid(n)' = {}
    BY <1>2, <1>11, <1>14, <1>15, <1>17
  <2>3. ASSUME NEW n \in Members, NEW k \in Members PROVE Held(board'[k]) \cap OutSaid(n)' = {}
    <3>1. CASE n # m
      BY <1>2, <1>11, <1>14, <1>15, <1>17, <3>1
    <3>2. CASE n = m /\ k # m
      BY <1>2, <1>12, <1>15, <1>17, <3>2
    <3>3. CASE n = m /\ k = m
      BY <1>2, <1>6, <1>13, <1>14, <1>15, <1>17, <3>3
    <3> QED BY <3>1, <3>2, <3>3
  <2>4. ASSUME NEW n \in Members, NEW k \in Members, n # k PROVE Out(k)' \cap Known(board'[n]) = {}
    BY <1>2, <1>11, <1>12, <1>14, <1>15, <1>17, <2>4
  <2>5. ASSUME NEW n \in Members, NEW k \in Members, n # k PROVE Out(k)' \cap OutSaid(n)' = {}
    BY <1>11, <1>12, <1>15, <1>17, <2>5
  <2>6. ASSUME NEW n \in Members, NEW k \in Members, n # k PROVE Held(board'[k]) \cap Known(board'[n]) = {}
    BY <1>2, <1>14, <1>15, <1>17, <2>6
  <2> QED BY <2>1, <2>2, <2>3, <2>4, <2>5, <2>6 DEF Apart
<1>20. TidyWith(L)'
  BY <1>8, <1>9, <1>10, <1>18, <1>19 DEF TidyWith
<1> QED BY <1>1, <1>20 DEF Tidy

-----------------------------------------------------------------------------
(* What users do.                                                          *)

\* The ids an operation spends get their kinds.
LEMMA MoreKinds ==
    ASSUME NEW n \in Nat \ {0}, NEW K \in [1 .. n - 1 -> BOOLEAN], NEW used \in Nat,
           NEW kinds \in [n .. n + used - 1 -> BOOLEAN]
    PROVE  \E L \in [1 .. n + used - 1 -> BOOLEAN] : Extends(L, K) /\ Extends(L, kinds)
<1> DEFINE L == [i \in 1 .. n + used - 1 |-> IF i \in 1 .. n - 1 THEN K[i] ELSE kinds[i]]
<1>1. \A i \in 1 .. n + used - 1 : i \in 1 .. n - 1 \/ i \in n .. n + used - 1
  OBVIOUS
<1>2. \A i \in 1 .. n + used - 1 : (IF i \in 1 .. n - 1 THEN K[i] ELSE kinds[i]) \in BOOLEAN
  BY <1>1
<1>3. L \in [1 .. n + used - 1 -> BOOLEAN]
  BY <1>2
<1>4. \A i \in 1 .. n - 1 : i \in 1 .. n + used - 1 /\ L[i] = K[i]
  OBVIOUS
<1>5. \A i \in n .. n + used - 1 : i \in 1 .. n + used - 1 /\ L[i] = kinds[i]
  OBVIOUS
<1> HIDE DEF L
<1>6. DOMAIN L = 1 .. n + used - 1 /\ DOMAIN K = 1 .. n - 1 /\ DOMAIN kinds = n .. n + used - 1
  BY <1>3
<1>7. Extends(L, K)
  BY <1>4, <1>6 DEF Extends
<1>8. Extends(L, kinds)
  BY <1>5, <1>6 DEF Extends
<1> QED BY <1>3, <1>7, <1>8

\* A member's own board, and the ids after those handed out.
LEMMA OwnBoard ==
    ASSUME Inv, NEW K \in Kinds, TidyWith(K), NEW m \in Members
    PROVE  /\ nextId \in Nat \ {0} /\ K \in [1 .. nextId - 1 -> BOOLEAN] /\ DOMAIN K = 1 .. nextId - 1
           /\ Sound(board[m], nextId) /\ Clean(board[m], K) /\ Extends(K, K)
           /\ \A n \in Nat : (nextId .. nextId + n - 1) \cap DOMAIN K = {}
           /\ \A L : Extends(L, K) => Clean(board[m], L)
           /\ Known(board[m]) \subseteq DOMAIN K /\ Held(board[m]) \subseteq Known(board[m])
<1>1. nextId \in Nat \ {0} /\ Sound(board[m], nextId)
  BY NextIsNew
<1>2. K \in [1 .. nextId - 1 -> BOOLEAN] /\ DOMAIN K = 1 .. nextId - 1
  BY DEF Kinds
<1>3. Clean(board[m], K)
  BY DEF TidyWith, Boards
<1>4. \A n \in Nat : (nextId .. nextId + n - 1) \cap DOMAIN K = {}
  BY <1>1, <1>2
<1>5. Extends(K, K)
  BY DEF Extends
<1>6. \A L : Extends(L, K) => Clean(board[m], L)
  BY <1>3, CleanLasts
<1> QED BY <1>1, <1>2, <1>3, <1>4, <1>5, <1>6, KnownHandedOut

\* One command or none, with new ids.
LEMMA OneTidy ==
    ASSUME Inv, NEW K \in Kinds, TidyWith(K), NEW m \in Members, NEW b, NEW cmds, NEW used \in Nat,
           Operate(m, b, cmds, used),
           NEW L \in [1 .. nextId + used - 1 -> BOOLEAN], Extends(L, K),
           NEW X, X \subseteq nextId .. nextId + used - 1,
           Becomes(board[m], b, L, X, X), NEW c,
           \/ cmds = <<>>
           \/ /\ cmds = <<c>> /\ Proper(c, L)
              /\ New(c) \subseteq Held(board[m]) \cup X /\ Said(c) \subseteq Known(board[m]) \cup X
              /\ Said(c) \cap Held(b) = {}
    PROVE  Tidy'
<1>1. X \cap DOMAIN K = {}
  BY OwnBoard
<1>2. CASE cmds = <<>>
  <2>1. News(Wrapped(cmds)) = {} /\ AllSaid(Wrapped(cmds)) = {} /\ Neat(Wrapped(cmds)) /\ AllProper(Wrapped(cmds), L)
    BY <1>2, QueueEmpty, WrappedIs
  <2>2. IsList(cmds)
    BY <1>2, ListIs, EmptySeq
  <2> QED BY <1>1, <2>1, <2>2, OperateTidy
<1>3. CASE /\ cmds = <<c>> /\ Proper(c, L)
           /\ New(c) \subseteq Held(board[m]) \cup X /\ Said(c) \subseteq Known(board[m]) \cup X
           /\ Said(c) \cap Held(b) = {}
  <2>1. IsList(cmds) /\ Len(cmds) = 1 /\ cmds[1] = c
    BY <1>3, OneList
  <2> DEFINE w == Wrapped(cmds)
  <2>2. DOMAIN cmds = {1}
    BY <2>1, AppendList
  <2>3. /\ DOMAIN w = {1} /\ NewIn(w[1]) = New(c) /\ SaidIn(w[1]) = Said(c)
        /\ \A J : ProperIn(w[1], J) <=> Proper(c, J)
    BY <2>1, <2>2, WrappedIs
  <2> HIDE DEF w
  <2>4. News(w) = New(c) /\ AllSaid(w) = Said(c)
    BY <2>3 DEF News, AllSaid
  <2>5. Neat(w)
    BY <2>3 DEF Neat
  <2>6. AllProper(w, L)
    BY <1>3, <2>3 DEF AllProper
  <2>7. /\ News(w) \subseteq Held(board[m]) \cup X /\ AllSaid(w) \subseteq Known(board[m]) \cup X
        /\ AllSaid(w) \cap Held(b) = {}
    BY <1>3, <2>4
  <2> QED BY <1>1, <2>1, <2>5, <2>6, <2>7, OperateTidy DEF w
<1> QED BY <1>2, <1>3

\* Ids of another kind of use may be counted in.
LEMMA BecomesMore ==
    ASSUME NEW b, NEW c, NEW K, NEW S, NEW T, NEW H, NEW G, S \subseteq T, H \subseteq G, Becomes(b, c, K, S, H)
    PROVE  Becomes(b, c, K, T, G)
BY DEF Becomes

\* Commands that bring no id to a page.
LEMMA CommandSays ==
    ASSUME NEW type, NEW id, NEW K
    PROVE  /\ type \notin {"StrokeBegin", "ElementAdd", "EraserEnd", "ElementUpdate", "FullSync"} =>
                /\ New(Command(type, id)) = {} /\ Said(Command(type, id)) = {} /\ Proper(Command(type, id), K)
           /\ New(Command("StrokeBegin", id)) = {id} /\ Said(Command("StrokeBegin", id)) = {id}
           /\ id \in StrokesOf(K) => Proper(Command("StrokeBegin", id), K)
           /\ \A content :
                /\ New(UpdateCommand(id, content)) = {} /\ Said(UpdateCommand(id, content)) = {}
                /\ Proper(UpdateCommand(id, content), K)
<1>1. ASSUME NEW t, NEW c, c.type = t, c.id = id
      PROVE  /\ t \notin {"StrokeBegin", "ElementAdd", "EraserEnd", "ElementUpdate", "FullSync"} =>
                  New(c) = {} /\ Said(c) = {} /\ Proper(c, K)
             /\ t = "StrokeBegin" => New(c) = {id} /\ Said(c) = {id} /\ (id \in StrokesOf(K) => Proper(c, K))
  BY <1>1 DEF New, Said, Proper
<1>2. \A t : Command(t, id).type = t /\ Command(t, id).id = id
  BY DEF Command
<1>3. \A content : UpdateCommand(id, content).type = "StrokeUpdate" /\ UpdateCommand(id, content).id = id
  BY DEF UpdateCommand
<1>4. \A content : LET c == UpdateCommand(id, content) IN New(c) = {} /\ Said(c) = {} /\ Proper(c, K)
  BY <1>1, <1>3
<1>5. LET c == Command("StrokeBegin", id)
      IN New(c) = {id} /\ Said(c) = {id} /\ (id \in StrokesOf(K) => Proper(c, K))
  BY <1>1, <1>2
<1>6. type \notin {"StrokeBegin", "ElementAdd", "EraserEnd", "ElementUpdate", "FullSync"} =>
        LET c == Command(type, id) IN New(c) = {} /\ Said(c) = {} /\ Proper(c, K)
  BY <1>1, <1>2
<1> QED BY <1>4, <1>5, <1>6

\* Commands with an element, and with the fragments of the eraser.
LEMMA ElementSays ==
    ASSUME NEW K, NEW e, NEW removed, NEW added
    PROVE  /\ New(ElementCommand("ElementAdd", e)) = {e.id} /\ Said(ElementCommand("ElementAdd", e)) = {e.id}
           /\ IsElement(e, K) => Proper(ElementCommand("ElementAdd", e), K)
           /\ New(ElementCommand("ElementUpdate", e)) = {} /\ Said(ElementCommand("ElementUpdate", e)) = {e.id}
           /\ IsElement(e, K) /\ e.id \notin StrokesOf(K) => Proper(ElementCommand("ElementUpdate", e), K)
           /\ New(EraserCommand(removed, added)) = ElementIds(added)
           /\ Said(EraserCommand(removed, added)) = ElementIds(added)
           /\ Distinct(added, K) /\ removed \subseteq DOMAIN K => Proper(EraserCommand(removed, added), K)
<1>1. ASSUME NEW c, c.type = "ElementAdd", c.element = e
      PROVE  New(c) = {e.id} /\ Said(c) = {e.id} /\ (IsElement(e, K) => Proper(c, K))
  BY <1>1 DEF New, Said, Proper
<1>2. ASSUME NEW c, c.type = "ElementUpdate", c.element = e
      PROVE  New(c) = {} /\ Said(c) = {e.id} /\ (IsElement(e, K) /\ e.id \notin StrokesOf(K) => Proper(c, K))
  BY <1>2 DEF New, Said, Proper
<1>3. ASSUME NEW c, c.type = "EraserEnd", c.removed = removed, c.added = added
      PROVE  /\ New(c) = ElementIds(added) /\ Said(c) = ElementIds(added)
             /\ Distinct(added, K) /\ removed \subseteq DOMAIN K => Proper(c, K)
  BY <1>3 DEF New, Said, Proper
<1>4. \A t : ElementCommand(t, e).type = t /\ ElementCommand(t, e).element = e
  BY DEF ElementCommand
<1>5. LET c == EraserCommand(removed, added)
      IN c.type = "EraserEnd" /\ c.removed = removed /\ c.added = added
  BY DEF EraserCommand
<1>6. LET c == ElementCommand("ElementAdd", e)
      IN New(c) = {e.id} /\ Said(c) = {e.id} /\ (IsElement(e, K) => Proper(c, K))
  BY <1>1, <1>4
<1>7. LET c == ElementCommand("ElementUpdate", e)
      IN New(c) = {} /\ Said(c) = {e.id} /\ (IsElement(e, K) /\ e.id \notin StrokesOf(K) => Proper(c, K))
  BY <1>2, <1>4
<1>8. LET c == EraserCommand(removed, added)
      IN /\ New(c) = ElementIds(added) /\ Said(c) = ElementIds(added)
         /\ Distinct(added, K) /\ removed \subseteq DOMAIN K => Proper(c, K)
  BY <1>3, <1>5
<1> QED BY <1>6, <1>7, <1>8

\* An operation without ids of its own, whose command, if there is one, brings none.
LEMMA PlainTidy ==
    ASSUME Inv, NEW K \in Kinds, TidyWith(K), NEW m \in Members, NEW b, NEW cmds, NEW used \in {0, 1},
           Operate(m, b, cmds, used), \A L : Clean(board[m], L) => Becomes(board[m], b, L, {}, {}),
           NEW c, cmds = <<>> \/ cmds = <<c>>, New(c) = {}, Said(c) \subseteq Known(board[m]),
           \A L : Extends(L, K) => Proper(c, L),
           Said(c) \cap StrokesOf(K) = {}
    PROVE  Tidy'
<1>1. /\ nextId \in Nat \ {0} /\ K \in [1 .. nextId - 1 -> BOOLEAN] /\ DOMAIN K = 1 .. nextId - 1
      /\ \A L : Extends(L, K) => Clean(board[m], L)
      /\ Known(board[m]) \subseteq DOMAIN K /\ Clean(board[m], K)
  BY OwnBoard
<1>2. used \in Nat
  OBVIOUS
<1> DEFINE kinds == [i \in nextId .. nextId + used - 1 |-> FALSE]
<1>3. kinds \in [nextId .. nextId + used - 1 -> BOOLEAN]
  OBVIOUS
<1> HIDE DEF kinds
<1>4. PICK L \in [1 .. nextId + used - 1 -> BOOLEAN] : Extends(L, K)
  BY <1>1, <1>2, <1>3, MoreKinds
<1>5. Becomes(board[m], b, L, {}, {}) /\ Proper(c, L)
  BY <1>1, <1>4
<1>6. Becomes(board[m], b, K, {}, {})
  BY <1>1
<1>7. Held(b) \subseteq Held(board[m]) /\ Held(board[m]) \subseteq StrokesOf(K)
  BY <1>1, <1>6, KnownHandedOut DEF Becomes
<1>8. /\ {} \subseteq nextId .. nextId + used - 1
      /\ New(c) \subseteq Held(board[m]) \cup {} /\ Said(c) \subseteq Known(board[m]) \cup {}
      /\ Said(c) \cap Held(b) = {}
  BY <1>7
<1> QED BY <1>2, <1>4, <1>5, <1>8, OneTidy

\* Drawing.
LEMMA PenTidy ==
    ASSUME Inv, NEW K \in Kinds, TidyWith(K), NEW m \in Members, NEW s \in Sessions, DoPenBegin(m, s) \/ DoPenEnd(m, s)
    PROVE  Tidy'
<1>1. /\ nextId \in Nat \ {0} /\ K \in [1 .. nextId - 1 -> BOOLEAN] /\ DOMAIN K = 1 .. nextId - 1
      /\ Sound(board[m], nextId)
      /\ \A L : Extends(L, K) => Clean(board[m], L)
      /\ Known(board[m]) \subseteq DOMAIN K /\ Held(board[m]) \subseteq Known(board[m])
  BY OwnBoard
<1>2. CASE DoPenBegin(m, s)
  <2> DEFINE b == PenBegin(board[m], s, nextId)
             c == Command("StrokeBegin", nextId)
             kinds == [i \in nextId .. nextId + 1 - 1 |-> TRUE]
  <2>1. Operate(m, b, <<c>>, 1)
    BY <1>2 DEF DoPenBegin
  <2>2. /\ kinds \in [nextId .. nextId + 1 - 1 -> BOOLEAN] /\ 1 \in Nat
        /\ nextId \in DOMAIN kinds /\ kinds[nextId] = TRUE
    BY <1>1
  <2> HIDE DEF kinds
  <2>3. PICK L \in [1 .. nextId + 1 - 1 -> BOOLEAN] : Extends(L, K) /\ Extends(L, kinds)
    BY <1>1, <2>2, MoreKinds
  <2>4. nextId \in StrokesOf(L) /\ nextId \notin DOMAIN K
    BY <1>1, <2>2, <2>3 DEF StrokesOf, Extends
  <2>5. Becomes(board[m], b, L, {nextId}, {})
    BY <1>1, <2>3, <2>4, PenClean DEF PenBegin
  <2> HIDE DEF b
  <2>6. Becomes(board[m], b, L, {nextId}, {nextId})
    BY <2>5, BecomesMore
  <2>7. New(c) = {nextId} /\ Said(c) = {nextId} /\ Proper(c, L)
    BY <2>4, CommandSays
  <2> HIDE DEF c
  <2>8. Said(c) \cap Held(b) = {}
    BY <1>1, <2>4, <2>5, <2>7 DEF Becomes
  <2> DEFINE X == {nextId}
             cmds == <<c>>
  <2>9. X \subseteq nextId .. nextId + 1 - 1 /\ 1 \in Nat /\ cmds = <<c>>
    BY <1>1
  <2>10. New(c) \subseteq Held(board[m]) \cup X /\ Said(c) \subseteq Known(board[m]) \cup X
    BY <2>7
  <2>11. Becomes(board[m], b, L, X, X) /\ Operate(m, b, cmds, 1)
    BY <2>1, <2>6
  <2> HIDE DEF X, cmds
  <2> QED BY <2>3, <2>7, <2>8, <2>9, <2>10, <2>11, OneTidy
<1>3. CASE DoPenEnd(m, s)
  <2> DEFINE mine == StrokesAt(board[m], LocalKey(s))
  <2>1. ASSUME NEW id
        PROVE  /\ New(Command("StrokeEnd", id)) = {} /\ Said(Command("StrokeEnd", id)) = {}
               /\ \A L : Proper(Command("StrokeEnd", id), L)
    BY CommandSays
  <2>2. CASE mine = {}
    <3>1. Operate(m, board[m], <<>>, 0)
      BY <1>3, <2>2 DEF DoPenEnd
    <3>2. \A L : Clean(board[m], L) => Becomes(board[m], board[m], L, {}, {})
      BY DEF Becomes
    <3> DEFINE c == Command("StrokeEnd", 0)
    <3>3. New(c) = {} /\ Said(c) \subseteq Known(board[m]) /\ (\A L : Extends(L, K) => Proper(c, L))
          /\ Said(c) \cap StrokesOf(K) = {}
      BY <2>1
    <3> HIDE DEF c
    <3> QED BY <3>1, <3>2, <3>3, PlainTidy
  <2>3. CASE mine # {}
    <3>1. PICK stroke \in mine : Operate(m, PenEnd(board[m], s), <<Command("StrokeEnd", stroke.id)>>, 0)
      BY <1>3, <2>3 DEF DoPenEnd
    <3>2. \A L : Clean(board[m], L) => Becomes(board[m], PenEnd(board[m], s), L, {}, {})
      BY <1>1, <2>3, FinishedClean DEF PenEnd
    <3> DEFINE c == Command("StrokeEnd", stroke.id)
    <3>3. New(c) = {} /\ Said(c) \subseteq Known(board[m]) /\ (\A L : Extends(L, K) => Proper(c, L))
          /\ Said(c) \cap StrokesOf(K) = {}
      BY <2>1
    <3>4. Operate(m, PenEnd(board[m], s), <<c>>, 0)
      BY <3>1
    <3> HIDE DEF c
    <3> QED BY <3>2, <3>3, <3>4, PlainTidy
  <2> QED BY <2>2, <2>3
<1> QED BY <1>2, <1>3

\* A pass of the eraser fits the board, if its fragments get different ids.
LEMMA PassNow ==
    ASSUME DistinctStamps, Inv, NEW K \in Kinds, TidyWith(K), NEW m \in Members,
           NEW n \in NewIds, NEW pass \in Passes(m, n)
    PROVE  /\ n \in Nat /\ Stamps(pass) \subseteq nextId .. nextId + n - 1 /\ DOMAIN pass \subseteq StrokeIds(m)
           /\ \E L \in [1 .. nextId + n - 1 -> BOOLEAN] :
                 Extends(L, K) /\ Clean(board[m], L) /\ PassFits(board[m], pass, L)
<1>1. /\ nextId \in Nat \ {0} /\ K \in [1 .. nextId - 1 -> BOOLEAN] /\ DOMAIN K = 1 .. nextId - 1
      /\ Sound(board[m], nextId) /\ Clean(board[m], K)
      /\ \A L : Extends(L, K) => Clean(board[m], L)
      /\ Known(board[m]) \subseteq DOMAIN K
  BY OwnBoard
<1> DEFINE ids == nextId .. nextId + n - 1
<1>2. n \in Nat /\ ids \cap DOMAIN K = {}
  BY NewIdsAre, OwnBoard
<1>3. PICK S \in SUBSET StrokeIds(m) : pass \in [S -> BoundedSeq(ids, MaxPieces)]
  BY DEF Passes
<1>4. Stamps(pass) = ids /\ OneEach(pass)
  BY DEF Passes
<1>5. IsPass(pass)
  <2>1. ASSUME NEW x \in DOMAIN pass PROVE IsList(pass[x])
    <3>1. pass[x] \in BoundedSeq(ids, MaxPieces)
      BY <1>3
    <3> HIDE DEF ids
    <3>2. PICK k \in 0 .. MaxPieces : pass[x] \in [1 .. k -> ids]
      BY <3>1 DEF BoundedSeq, SeqOf
    <3>3. k \in Nat
      BY <3>2, PiecesAreCounted
    <3>4. pass[x] \in Seq(ids)
      BY <3>2, <3>3, IsASeq
    <3> QED BY <3>4, ListIs
  <2> QED BY <1>4, <2>1 DEF IsPass
<1>6. DOMAIN pass \subseteq StrokeIds(m) /\ StrokeIds(m) \subseteq DOMAIN K
  <2>1. StrokeIds(m) \subseteq ElementIds(Elements(board[m]))
    BY IdsOfRange DEF StrokeIds
  <2>2. ElementIds(Elements(board[m])) \subseteq Known(board[m])
    BY <1>1, ShownIsSheet
  <2> QED BY <1>1, <1>3, <2>1, <2>2
<1> DEFINE kinds == [i \in nextId .. nextId + n - 1 |-> TRUE]
<1>7. kinds \in [nextId .. nextId + n - 1 -> BOOLEAN] /\ \A i \in ids : i \in DOMAIN kinds /\ kinds[i] = TRUE
  OBVIOUS
<1> HIDE DEF kinds
<1>8. PICK L \in [1 .. nextId + n - 1 -> BOOLEAN] : Extends(L, K) /\ Extends(L, kinds)
  BY <1>1, <1>2, <1>7, MoreKinds
<1>9. ids \subseteq StrokesOf(L) /\ ids \cap Known(board[m]) = {}
  <2> HIDE DEF ids
  <2> QED BY <1>1, <1>2, <1>7, <1>8 DEF StrokesOf, Extends
<1>10. DOMAIN pass \subseteq DOMAIN L
  BY <1>6, <1>8 DEF Extends
<1>11. Clean(board[m], L)
  BY <1>1, <1>8
<1>12. PassFits(board[m], pass, L)
  <2> HIDE DEF ids
  <2> QED BY <1>4, <1>5, <1>9, <1>10 DEF PassFits
<1> QED BY <1>2, <1>4, <1>6, <1>8, <1>11, <1>12

\* Erasing by hand: what a drag leaves is held back until its end.
LEMMA EraserTidy ==
    ASSUME DistinctStamps, Inv, NEW K \in Kinds, TidyWith(K), NEW m \in Members, NEW s \in Sessions,
           DoEraserBegin(m, s) \/ DoEraserMove(m, s) \/ DoEraserEnd(m, s)
    PROVE  Tidy'
<1>1. Sound(board[m], nextId) /\ Held(board[m]) \subseteq Known(board[m])
  BY OwnBoard
<1>2. ASSUME NEW n \in NewIds, NEW pass \in Passes(m, n), NEW b, Operate(m, b, <<>>, n),
             \A L : Clean(board[m], L) /\ PassFits(board[m], pass, L)
                      => Becomes(board[m], b, L, Stamps(pass), Stamps(pass))
      PROVE  Tidy'
  <2>1. PICK L \in [1 .. nextId + n - 1 -> BOOLEAN] :
            Extends(L, K) /\ Clean(board[m], L) /\ PassFits(board[m], pass, L)
    BY <1>2, PassNow
  <2>2. n \in Nat /\ Stamps(pass) \subseteq nextId .. nextId + n - 1
    BY <1>2, PassNow
  <2>3. Becomes(board[m], b, L, Stamps(pass), Stamps(pass))
    BY <1>2, <2>1
  <2> DEFINE X == Stamps(pass)
             cmds == <<>>
  <2>4. Becomes(board[m], b, L, X, X) /\ X \subseteq nextId .. nextId + n - 1 /\ cmds = <<>>
        /\ Operate(m, b, cmds, n)
    BY <1>2, <2>2, <2>3
  <2> HIDE DEF X, cmds
  <2> QED BY <2>1, <2>2, <2>4, OneTidy
<1>3. CASE DoEraserBegin(m, s)
  <2>1. PICK n, pass : n \in NewIds /\ pass \in Passes(m, n) /\ Operate(m, EraserBegin(board[m], pass), <<>>, n)
    BY <1>3 DEF DoEraserBegin
  <2>2. \A L : Clean(board[m], L) /\ PassFits(board[m], pass, L)
                 => Becomes(board[m], EraserBegin(board[m], pass), L, Stamps(pass), Stamps(pass))
    BY <1>1, EraseClean
  <2> QED BY <1>2, <2>1, <2>2
<1>4. CASE DoEraserMove(m, s)
  <2>1. PICK n, pass : n \in NewIds /\ pass \in Passes(m, n) /\ Operate(m, EraserMove(board[m], pass), <<>>, n)
    BY <1>4 DEF DoEraserMove
  <2>2. \A L : Clean(board[m], L) /\ PassFits(board[m], pass, L)
                 => Becomes(board[m], EraserMove(board[m], pass), L, Stamps(pass), Stamps(pass))
    BY <1>1, MoveClean
  <2> QED BY <1>2, <2>1, <2>2
<1>5. CASE DoEraserEnd(m, s)
  <2>1. PICK n, pass : n \in NewIds /\ pass \in Passes(m, n) /\
            Operate(m, EraserEnd(board[m], pass),
                    <<EraserCommand(EraserMove(board[m], pass).eraserRemoved,
                                    FlushedAdded(EraserMove(board[m], pass)))>>, n)
    BY <1>5 DEF DoEraserEnd
  <2> DEFINE X == Stamps(pass)
             b == EraserEnd(board[m], pass)
             d == EraserMove(board[m], pass)
             c == EraserCommand(d.eraserRemoved, FlushedAdded(d))
  <2>2. PICK L \in [1 .. nextId + n - 1 -> BOOLEAN] :
            Extends(L, K) /\ Clean(board[m], L) /\ PassFits(board[m], pass, L)
    BY <2>1, PassNow
  <2>3. n \in Nat /\ X \subseteq nextId .. nextId + n - 1
    BY <2>1, PassNow
  <2>4. Becomes(board[m], d, L, X, X) /\ Becomes(board[m], b, L, X, {}) /\ Held(b) = {}
    BY <1>1, <2>2, MoveClean
  <2>5. Operate(m, b, <<c>>, n)
    BY <2>1
  <2> HIDE DEF X, b, d
  <2>6. Clean(d, L) /\ Held(d) \subseteq Held(board[m]) \cup X
    BY <2>4 DEF Becomes
  <2>7. Distinct(FlushedAdded(d), L) /\ ElementIds(FlushedAdded(d)) \subseteq Held(d)
    BY <2>6, FlushedIs
  <2>8. d.eraserRemoved \subseteq DOMAIN L
    BY <2>6 DEF Clean
  <2>9. New(c) = ElementIds(FlushedAdded(d)) /\ Said(c) = ElementIds(FlushedAdded(d)) /\ Proper(c, L)
    BY <2>7, <2>8, ElementSays
  <2> HIDE DEF c
  <2>10. /\ New(c) \subseteq Held(board[m]) \cup X /\ Said(c) \subseteq Known(board[m]) \cup X
         /\ Said(c) \cap Held(b) = {}
    BY <1>1, <2>4, <2>6, <2>7, <2>9
  <2>11. Becomes(board[m], b, L, X, X)
    BY <2>4, BecomesMore
  <2> QED BY <2>2, <2>3, <2>5, <2>9, <2>10, <2>11, OneTidy
<1> QED BY <1>3, <1>4, <1>5

\* Erasing what is selected: its fragments are announced at once.
LEMMA RegionTidy ==
    ASSUME DistinctStamps, Inv, NEW K \in Kinds, TidyWith(K), NEW m \in Members, DoEraseRegion(m)
    PROVE  Tidy'
<1>1. /\ Sound(board[m], nextId) /\ Held(board[m]) \subseteq Known(board[m]) /\ Known(board[m]) \subseteq DOMAIN K
  BY OwnBoard
<1>2. PICK n, pass : n \in NewIds /\ pass \in Passes(m, n) /\
          Operate(m, EraseRegion(board[m], pass),
                  <<EraserCommand(DOMAIN pass, Fragments(Elements(board[m]), pass))>>, n)
  BY DEF DoEraseRegion
<1> DEFINE X == Stamps(pass)
           b == EraseRegion(board[m], pass)
           fs == Fragments(Elements(board[m]), pass)
           c == EraserCommand(DOMAIN pass, fs)
<1>3. PICK L \in [1 .. nextId + n - 1 -> BOOLEAN] :
          Extends(L, K) /\ Clean(board[m], L) /\ PassFits(board[m], pass, L)
  BY <1>2, PassNow
<1>4. n \in Nat /\ X \subseteq nextId .. nextId + n - 1
  BY <1>2, PassNow
<1>5. Becomes(board[m], b, L, X, {})
  BY <1>1, <1>3, EraseClean
<1>6. Distinct(fs, L) /\ ElementIds(fs) \subseteq X /\ X \cap Known(board[m]) = {} /\ DOMAIN pass \subseteq DOMAIN L
  BY <1>1, <1>3, PassClean DEF PassFits
<1>7. Operate(m, b, <<c>>, n)
  BY <1>2
<1> HIDE DEF X, b, fs
<1>8. New(c) = ElementIds(fs) /\ Said(c) = ElementIds(fs) /\ Proper(c, L)
  BY <1>6, ElementSays
<1> HIDE DEF c
<1>9. Held(b) \subseteq Known(board[m])
  BY <1>1, <1>5 DEF Becomes
<1>10. /\ New(c) \subseteq Held(board[m]) \cup X /\ Said(c) \subseteq Known(board[m]) \cup X
       /\ Said(c) \cap Held(b) = {}
  BY <1>6, <1>8, <1>9
<1>11. Becomes(board[m], b, L, X, X)
  BY <1>5, BecomesMore
<1> QED BY <1>3, <1>4, <1>7, <1>8, <1>10, <1>11, OneTidy

\* The operations on elements.
LEMMA ElementTidy ==
    ASSUME Inv, NEW K \in Kinds, TidyWith(K), NEW m \in Members,
           DoClear(m) \/ DoAddElement(m) \/ DoRemoveElements(m) \/ DoUpdate(m) \/ DoBatch(m)
    PROVE  Tidy'
<1>1. /\ nextId \in Nat \ {0} /\ K \in [1 .. nextId - 1 -> BOOLEAN] /\ DOMAIN K = 1 .. nextId - 1
      /\ Sound(board[m], nextId) /\ Clean(board[m], K) /\ Extends(K, K)
      /\ \A L : Extends(L, K) => Clean(board[m], L)
      /\ Known(board[m]) \subseteq DOMAIN K /\ Held(board[m]) \subseteq Known(board[m])
  BY OwnBoard
<1>2. /\ \A L : Clean(board[m], L) => Becomes(board[m], Clear(board[m]), L, {}, {})
      /\ \A L : Clean(board[m], L) => \A e : IsElement(e, L) /\ e.id \notin Known(board[m])
                                        => Becomes(board[m], AddElement(board[m], e), L, {e.id}, {})
      /\ \A ids : IsFiniteSet(ids) => Becomes(board[m], RemoveAll(PushSnapshot(board[m]), ids), K, {}, {})
      /\ \A id, x : \A L : Clean(board[m], L) =>
            /\ Becomes(board[m], UpdateElement(board[m], id, x), L, {}, {})
            /\ Becomes(board[m], UpdateQuietly(board[m], id, x), L, {}, {})
  BY <1>1, ElementsClean
<1> DEFINE clear == Command("PageClear", 0)
<1>3. New(clear) = {} /\ Said(clear) \subseteq Known(board[m]) /\ Said(clear) \cap StrokesOf(K) = {}
      /\ \A L : Extends(L, K) => Proper(clear, L)
  BY CommandSays
<1>4. CASE DoClear(m)
  <2>1. Operate(m, Clear(board[m]), <<clear>>, 0)
    BY <1>4 DEF DoClear
  <2> HIDE DEF clear
  <2> QED BY <1>2, <1>3, <2>1, PlainTidy
<1>5. CASE DoAddElement(m)
  <2> DEFINE e == Element(nextId, FALSE)
             b == AddElement(board[m], e)
             c == ElementCommand("ElementAdd", e)
             kinds == [i \in nextId .. nextId + 1 - 1 |-> FALSE]
  <2>1. Operate(m, b, <<c>>, 1)
    BY <1>5 DEF DoAddElement
  <2>2. /\ kinds \in [nextId .. nextId + 1 - 1 -> BOOLEAN] /\ 1 \in Nat
        /\ nextId \in DOMAIN kinds /\ kinds[nextId] = FALSE
    BY <1>1
  <2> HIDE DEF kinds
  <2>3. PICK L \in [1 .. nextId + 1 - 1 -> BOOLEAN] : Extends(L, K) /\ Extends(L, kinds)
    BY <1>1, <2>2, MoreKinds
  <2>4. nextId \in DOMAIN L /\ L[nextId] = FALSE /\ nextId \notin DOMAIN K
    BY <1>1, <2>2, <2>3 DEF Extends
  <2>5. IsElement(e, L) /\ e.id = nextId
    BY <2>4, ElementIs
  <2> HIDE DEF e
  <2>6. Becomes(board[m], b, L, {nextId}, {})
    <3>1. nextId \notin Known(board[m]) /\ Clean(board[m], L)
      BY <1>1, <2>3, <2>4
    <3> QED BY <1>2, <2>5, <3>1
  <2> HIDE DEF b
  <2>7. New(c) = {nextId} /\ Said(c) = {nextId} /\ Proper(c, L)
    BY <2>5, ElementSays
  <2> HIDE DEF c
  <2>8. Said(c) \cap Held(b) = {}
    BY <1>1, <2>4, <2>6, <2>7 DEF Becomes
  <2> DEFINE X == {nextId}
             cmds == <<c>>
  <2>9. X \subseteq nextId .. nextId + 1 - 1 /\ cmds = <<c>>
    BY <1>1
  <2>10. New(c) \subseteq Held(board[m]) \cup X /\ Said(c) \subseteq Known(board[m]) \cup X
    BY <2>7
  <2>11. Becomes(board[m], b, L, X, X) /\ Operate(m, b, cmds, 1)
    BY <2>1, <2>6, BecomesMore
  <2> HIDE DEF X, cmds
  <2>12. /\ cmds = <<c>> /\ Proper(c, L)
         /\ New(c) \subseteq Held(board[m]) \cup X /\ Said(c) \subseteq Known(board[m]) \cup X
         /\ Said(c) \cap Held(b) = {}
    BY <2>7, <2>8, <2>9, <2>10
  <2>13. X \subseteq nextId .. nextId + 1 - 1 /\ 1 \in Nat /\ Extends(L, K)
    BY <2>3, <2>9
  <2> QED BY <2>11, <2>12, <2>13, OneTidy
<1>6. CASE DoRemoveElements(m)
  <2>1. PICK ids \in SUBSET ElementIds(Elements(board[m])) :
            /\ Cardinality(ids) = 1 \/ Cardinality(ids) \in 2 .. MaxId
            /\ Operate(m, RemoveAll(PushSnapshot(board[m]), ids),
                       [i \in 1 .. Cardinality(ids) |-> Command("ElementRemove", SetToSeq(ids)[i])], 0)
    BY <1>6 DEF DoRemoveElements
  <2> DEFINE cmds == [i \in 1 .. Cardinality(ids) |-> Command("ElementRemove", SetToSeq(ids)[i])]
             b == RemoveAll(PushSnapshot(board[m]), ids)
  <2>2. Operate(m, b, cmds, 0)
    BY <2>1
  <2>3. IsFiniteSet(ids)
    <3>1. ids \subseteq 1 .. nextId - 1
      BY <1>1, ShownIsSheet
    <3>2. IsFiniteSet(1 .. nextId - 1)
      BY <1>1, FS_Interval
    <3> QED BY <3>1, <3>2, FS_Subset
  <2>4. Becomes(board[m], b, K, {}, {})
    BY <1>2, <2>3
  <2>5. IsList(cmds) /\ \A i \in DOMAIN cmds : New(cmds[i]) = {} /\ Said(cmds[i]) = {} /\ Proper(cmds[i], K)
    <3>1. Cardinality(ids) \in Nat
      BY <2>1, BoundsAreBounds
    <3>2. IsList(cmds)
      BY <3>1, MadeList
    <3>3. \A i \in DOMAIN cmds : cmds[i] = Command("ElementRemove", SetToSeq(ids)[i])
      OBVIOUS
    <3> HIDE DEF cmds
    <3>4. \A id : LET c == Command("ElementRemove", id) IN New(c) = {} /\ Said(c) = {} /\ Proper(c, K)
      BY CommandSays
    <3> QED BY <3>2, <3>3, <3>4
  <2> HIDE DEF b, cmds
  <2>6. News(Wrapped(cmds)) = {} /\ AllSaid(Wrapped(cmds)) = {} /\ Neat(Wrapped(cmds)) /\ AllProper(Wrapped(cmds), K)
    <3> DEFINE w == Wrapped(cmds)
    <3>1. \A i \in DOMAIN w : NewIn(w[i]) = {} /\ SaidIn(w[i]) = {} /\ ProperIn(w[i], K)
      BY <2>5, WrappedIs
    <3> HIDE DEF w
    <3>2. News(w) = {} /\ AllSaid(w) = {} /\ Neat(w) /\ AllProper(w, K)
      BY <3>1 DEF News, AllSaid, Neat, AllProper
    <3> QED BY <3>2 DEF w
  <2> DEFINE X == {}
  <2>7. Becomes(board[m], b, K, X, X) /\ X \cap DOMAIN K = {}
    BY <2>4
  <2>8. /\ News(Wrapped(cmds)) \subseteq Held(board[m]) \cup X
        /\ AllSaid(Wrapped(cmds)) \subseteq Known(board[m]) \cup X /\ AllSaid(Wrapped(cmds)) \cap Held(b) = {}
    BY <2>6
  <2> HIDE DEF X
  <2>9. K \in [1 .. nextId + 0 - 1 -> BOOLEAN] /\ 0 \in Nat
    <3>1. nextId + 0 - 1 = nextId - 1
      BY <1>1
    <3> QED BY <1>1, <3>1
  <2> QED BY <1>1, <2>2, <2>5, <2>6, <2>7, <2>8, <2>9, OperateTidy
<1>7. CASE DoUpdate(m)
  <2>1. PICK i \in DOMAIN Elements(board[m]) :
          LET e == Elements(board[m])[i]
              command == IF e.stroke THEN UpdateCommand(e.id, nextId)
                         ELSE ElementCommand("ElementUpdate", [e EXCEPT !.content = nextId])
          IN \/ Operate(m, UpdateElement(board[m], e.id, nextId), <<command>>, 1)
             \/ Operate(m, UpdateQuietly(board[m], e.id, nextId), <<command>>, 1)
    BY <1>7 DEF DoUpdate
  <2> DEFINE e == Elements(board[m])[i]
             d == [e EXCEPT !.content = nextId]
             command == IF e.stroke THEN UpdateCommand(e.id, nextId) ELSE ElementCommand("ElementUpdate", d)
  <2>2. PICK b \in {UpdateElement(board[m], e.id, nextId), UpdateQuietly(board[m], e.id, nextId)} :
            Operate(m, b, <<command>>, 1)
    BY <2>1
  <2>3. \A L : Clean(board[m], L) => Becomes(board[m], b, L, {}, {})
    BY <1>2, <2>2
  <2>4. IsElement(e, K) /\ e.id \in Known(board[m]) /\ e.id \in DOMAIN K /\ K[e.id] = e.stroke
    <3>1. IsElement(e, K)
      BY <1>1, ShownClean DEF Distinct
    <3>2. e.id \in ElementIds(Elements(board[m]))
      BY DEF ElementIds
    <3>3. e.id \in Known(board[m])
      BY <1>1, <3>2, ShownIsSheet
    <3> QED BY <3>1, <3>3 DEF IsElement
  <2> HIDE DEF e
  <2>5. CASE e.stroke
    <3> DEFINE c == UpdateCommand(e.id, nextId)
    <3>1. New(c) = {} /\ Said(c) \subseteq Known(board[m]) /\ Said(c) \cap StrokesOf(K) = {}
          /\ \A L : Extends(L, K) => Proper(c, L)
      BY CommandSays
    <3>2. Operate(m, b, <<c>>, 1)
      BY <2>2, <2>5
    <3> HIDE DEF c
    <3> QED BY <2>3, <3>1, <3>2, PlainTidy
  <2>6. CASE ~e.stroke
    <3> DEFINE c == ElementCommand("ElementUpdate", d)
    <3>1. IsElement(d, K) /\ d.id = e.id
      BY <2>4, ElementEdited
    <3>2. Operate(m, b, <<c>>, 1)
      BY <2>2, <2>6
    <3> HIDE DEF d
    <3>3. e.id \notin StrokesOf(K)
      BY <2>4, <2>6 DEF StrokesOf
    <3>4. ASSUME NEW L, Extends(L, K) PROVE IsElement(d, L) /\ d.id \notin StrokesOf(L)
      <4>1. IsElement(d, L)
        BY <3>1, <3>4 DEF IsElement, Extends
      <4>2. d.id \notin StrokesOf(L)
        BY <2>4, <3>1, <3>3, <3>4 DEF StrokesOf, Extends
      <4> QED BY <4>1, <4>2
    <3>5. New(c) = {} /\ Said(c) = {d.id} /\ \A L : Extends(L, K) => Proper(c, L)
      BY <3>4, ElementSays
    <3> HIDE DEF c
    <3>6. Said(c) \subseteq Known(board[m]) /\ Said(c) \cap StrokesOf(K) = {}
      BY <2>4, <3>1, <3>3, <3>5
    <3> QED BY <2>3, <3>2, <3>5, <3>6, PlainTidy
  <2> QED BY <2>5, <2>6
<1>8. CASE DoBatch(m)
  <2> DEFINE b == IF board[m].batchSuppress THEN EndBatch(board[m]) ELSE BeginBatch(board[m])
  <2>1. Operate(m, b, <<>>, 0)
    BY <1>8 DEF DoBatch
  <2>2. \A L : Clean(board[m], L) => Becomes(board[m], b, L, {}, {})
    BY <1>1, SnapshotClean
  <2> HIDE DEF b, clear
  <2> QED BY <1>3, <2>1, <2>2, PlainTidy
<1> QED BY <1>4, <1>5, <1>6, <1>7, <1>8

\* The copy of a page has elements that nobody has seen.
LEMMA CopyTidy ==
    ASSUME Inv, NEW K \in Kinds, TidyWith(K), NEW m \in Members, DoCopyPage(m)
    PROVE  Tidy'
<1>1. /\ nextId \in Nat \ {0} /\ K \in [1 .. nextId - 1 -> BOOLEAN] /\ DOMAIN K = 1 .. nextId - 1
      /\ Sound(board[m], nextId) /\ Clean(board[m], K)
      /\ \A n \in Nat : (nextId .. nextId + n - 1) \cap DOMAIN K = {}
      /\ \A L : Extends(L, K) => Clean(board[m], L)
      /\ Known(board[m]) \subseteq DOMAIN K /\ Held(board[m]) \subseteq Known(board[m])
  BY OwnBoard
<1>2. PICK p, copy :
          /\ p \in PageIds(board[m])
          /\ copy = Copy(board[m], p, nextId).elements
          /\ Operate(m, CopyPage(board[m], p, nextId),
                     <<Command("PageCreate", nextId)>>
                       \o [i \in 1 .. Len(copy) |-> ElementCommand("ElementAdd", copy[i])]
                       \o <<Command("PageSelect", nextId)>>, 1 + Len(copy))
  BY DEF DoCopyPage
<1> DEFINE b == CopyPage(board[m], p, nextId)
           at == IndexOf(board[m], p)
           es == board[m].pages[at].elements
           n == Len(es)
           used == 1 + Len(copy)
           adds == [i \in 1 .. Len(copy) |-> ElementCommand("ElementAdd", copy[i])]
           first == <<Command("PageCreate", nextId)>>
           last == <<Command("PageSelect", nextId)>>
           cmds == first \o adds \o last
           X == nextId .. nextId + used - 1
           kinds == [i \in X |-> IF i = nextId THEN FALSE ELSE es[i - nextId].stroke]
<1>3. Operate(m, b, cmds, used)
  BY <1>2
<1>4. at \in DOMAIN board[m].pages /\ at + 1 \in 1 .. Len(board[m].pages) + 1
  <2>1. at \in DOMAIN board[m].pages /\ IsList(board[m].pages)
    BY <1>1, <1>2, PageFound DEF Sound, PagesSound
  <2>2. DOMAIN board[m].pages = 1 .. Len(board[m].pages) /\ Len(board[m].pages) \in Nat
    BY <2>1, AppendList
  <2> QED BY <2>1, <2>2
<1> HIDE DEF at
<1>5. Distinct(es, K)
  <2>1. board[m].pages[at] \in Sheets(board[m])
    BY <1>1, <1>4, ShownIsSheet
  <2> QED BY <1>1, <2>1 DEF Clean
<1>6. copy = [i \in 1 .. n |-> [es[i] EXCEPT !.id = nextId + i]]
  BY <1>2 DEF Copy, Page, at
<1>7. n \in Nat /\ DOMAIN es = 1 .. n
  BY <1>5, AppendList DEF Distinct
<1>8. b = InsertPage(board[m], at + 1, Page(nextId, copy))
  BY <1>2 DEF CopyPage, Copy, Page, at
<1> HIDE DEF b
<1> HIDE DEF es
<1>9. \A i \in 1 .. n : es[i].stroke \in BOOLEAN
  <2>1. \A i \in DOMAIN es : es[i].id \in DOMAIN K /\ es[i].stroke = K[es[i].id]
    BY <1>5 DEF Distinct, IsElement
  <2>2. \A i \in DOMAIN K : K[i] \in BOOLEAN
    BY <1>1
  <2> QED BY <1>7, <2>1, <2>2
<1> HIDE DEF n
<1>10. Len(copy) = n
  <2>1. copy = [i \in 1 .. n |-> copy[i]]
    BY <1>6
  <2> QED BY <1>7, <2>1, MadeList
<1>11. used \in Nat /\ used = n + 1
  BY <1>7, <1>10
<1>12. adds = [i \in 1 .. n |-> ElementCommand("ElementAdd", copy[i])]
  BY <1>10
<1> HIDE DEF used, adds
<1>13. \A i \in X : i = nextId \/ i - nextId \in 1 .. n
  BY <1>1, <1>7, <1>11
<1>14. kinds \in [X -> BOOLEAN]
  <2>1. \A i \in X : (IF i = nextId THEN FALSE ELSE es[i - nextId].stroke) \in BOOLEAN
    BY <1>9, <1>13
  <2> QED BY <2>1
<1>15. \A i \in 1 .. n : nextId + i \in X /\ kinds[nextId + i] = es[i].stroke
  <2>1. \A i \in 1 .. n : nextId + i \in X /\ nextId + i # nextId /\ (nextId + i) - nextId = i
    BY <1>1, <1>7, <1>11
  <2> QED BY <2>1
<1>16. DOMAIN kinds = X
  OBVIOUS
<1> HIDE DEF kinds
<1>17. PICK L \in [1 .. nextId + used - 1 -> BOOLEAN] : Extends(L, K) /\ Extends(L, kinds)
  BY <1>1, <1>11, <1>14, MoreKinds
<1>18. X \cap DOMAIN K = {}
  BY <1>1, <1>11
<1> HIDE DEF X
<1>19. \A i \in 1 .. n : nextId + i \in DOMAIN L /\ L[nextId + i] = es[i].stroke
  BY <1>15, <1>16, <1>17 DEF Extends
<1>20. /\ Distinct(copy, L) /\ DOMAIN copy = 1 .. n
       /\ \A i \in 1 .. n : copy[i].id = nextId + i /\ IsElement(copy[i], L)
  <2>1. ASSUME NEW i \in 1 .. n PROVE copy[i].id = nextId + i /\ IsElement(copy[i], L)
    <3> DEFINE e == es[i]
               id == nextId + i
               d == copy[i]
    <3>1. IsElement(e, K) /\ id \in DOMAIN L /\ L[id] = e.stroke
      BY <1>5, <1>7, <1>19 DEF Distinct
    <3>2. d = [e EXCEPT !.id = id]
      BY <1>6
    <3> HIDE DEF e, id, d
    <3>3. d.id = id /\ IsElement(d, L)
      BY <3>1, <3>2, ElementCopied
    <3> QED BY <3>3 DEF d, id
  <2>2. copy = [i \in 1 .. n |-> copy[i]]
    BY <1>6
  <2>3. IsList(copy) /\ DOMAIN copy = 1 .. n
    BY <1>7, <2>2, MadeList
  <2>4. \A i, j \in 1 .. n : nextId + i = nextId + j => i = j
    BY <1>1, <1>7
  <2>5. \A i, j \in DOMAIN copy : copy[i].id = copy[j].id => i = j
    BY <2>1, <2>3, <2>4
  <2> QED BY <2>1, <2>3, <2>5 DEF Distinct
<1>21. ElementIds(copy) \subseteq X
  BY <1>15, <1>20 DEF ElementIds
<1>22. Becomes(board[m], b, L, X, X) /\ Held(b) \subseteq Held(board[m])
  <2> DEFINE page == Page(nextId, copy)
  <2>1. page.elements = copy
    BY DEF Page
  <2> HIDE DEF page
  <2>2. Clean(board[m], L) /\ Drawn(board[m]) \subseteq DOMAIN K
    BY <1>1, <1>17 DEF Known
  <2>3. Distinct(page.elements, L) /\ ElementIds(page.elements) \cap Drawn(board[m]) = {}
    BY <1>18, <1>20, <1>21, <2>1, <2>2
  <2>4. Becomes(board[m], InsertPage(board[m], at + 1, page), L, ElementIds(page.elements), {})
    BY <1>1, <1>4, <2>2, <2>3, PagesClean
  <2>5. {} \subseteq X
    OBVIOUS
  <2>6. Becomes(board[m], b, L, ElementIds(copy), {})
    BY <1>8, <2>1, <2>4 DEF page
  <2>7. Held(b) \subseteq Held(board[m])
    BY <2>6 DEF Becomes
  <2> QED BY <1>21, <2>5, <2>6, <2>7, BecomesMore
<1>23. /\ IsList(adds) /\ DOMAIN adds = 1 .. n /\ Len(adds) = n
       /\ \A i \in 1 .. n : New(adds[i]) = {nextId + i} /\ Said(adds[i]) = {nextId + i} /\ Proper(adds[i], L)
  <2>1. adds = [i \in 1 .. n |-> adds[i]] /\ \A i \in 1 .. n : adds[i] = ElementCommand("ElementAdd", copy[i])
    BY <1>12
  <2>2. IsList(adds) /\ DOMAIN adds = 1 .. n /\ Len(adds) = n
    BY <1>7, <2>1, MadeList
  <2>3. \A e : /\ New(ElementCommand("ElementAdd", e)) = {e.id} /\ Said(ElementCommand("ElementAdd", e)) = {e.id}
               /\ IsElement(e, L) => Proper(ElementCommand("ElementAdd", e), L)
    BY ElementSays
  <2> QED BY <1>20, <2>1, <2>2, <2>3
<1>24. /\ IsList(first) /\ Len(first) = 1 /\ IsList(last) /\ Len(last) = 1
       /\ New(first[1]) = {} /\ Said(first[1]) = {} /\ Proper(first[1], L)
       /\ New(last[1]) = {} /\ Said(last[1]) = {} /\ Proper(last[1], L)
  BY CommandSays, OneList
<1> HIDE DEF adds, first, last
<1> DEFINE Own(c, i) == New(c) \subseteq {nextId + i - 1} /\ Said(c) = New(c) /\ Proper(c, L)
<1>25. /\ IsList(first \o adds) /\ Len(first \o adds) = n + 1
       /\ \A i \in 1 .. n + 1 : Own((first \o adds)[i], i)
  <2>5. /\ IsList(first \o adds) /\ Len(first \o adds) = Len(first) + Len(adds)
        /\ \A i \in 1 .. Len(first) : (first \o adds)[i] = first[i]
        /\ \A i \in 1 .. Len(adds) : (first \o adds)[Len(first) + i] = adds[i]
    <3>1. IsList(first) /\ IsList(adds)
      BY <1>23, <1>24
    <3> QED BY <3>1, ConcatList
  <2>6. Len(first) = 1 /\ Len(adds) = n /\ 1 \in 1 .. 1
    BY <1>23, <1>24
  <2>1. /\ IsList(first \o adds) /\ Len(first \o adds) = 1 + n
        /\ (first \o adds)[1] = first[1]
        /\ \A i \in 1 .. n : (first \o adds)[1 + i] = adds[i]
    BY <2>5, <2>6
  <2>2. \A i \in 1 .. n + 1 : i = 1 \/ (i - 1 \in 1 .. n /\ 1 + (i - 1) = i /\ nextId + (i - 1) = nextId + i - 1)
    BY <1>1, <1>7
  <2>3. ASSUME NEW i \in 1 .. n + 1 PROVE Own((first \o adds)[i], i)
    <3>1. CASE i = 1
      <4>1. (first \o adds)[i] = first[1]
        BY <2>1, <3>1
      <4> QED BY <1>24, <4>1
    <3>2. CASE i - 1 \in 1 .. n /\ 1 + (i - 1) = i /\ nextId + (i - 1) = nextId + i - 1
      <4>1. (first \o adds)[i] = adds[i - 1]
        BY <2>1, <3>2
      <4> QED BY <1>23, <3>2, <4>1
    <3> QED BY <2>2, <3>1, <3>2
  <2>4. 1 + n = n + 1
    BY <1>7
  <2> QED BY <2>1, <2>3, <2>4
<1> DEFINE start == first \o adds
<1>26. cmds = start \o last
  OBVIOUS
<1> HIDE DEF start, cmds
<1>27. /\ IsList(cmds) /\ DOMAIN cmds = 1 .. n + 2
       /\ \A i \in 1 .. n + 1 : cmds[i] = start[i]
       /\ cmds[n + 2] = last[1]
  <2>4. IsList(start) /\ Len(start) = n + 1 /\ IsList(last) /\ Len(last) = 1
    BY <1>24, <1>25 DEF start
  <2>5. /\ IsList(start \o last) /\ DOMAIN (start \o last) = 1 .. Len(start) + Len(last)
        /\ Len(start) \in Nat /\ Len(last) \in Nat /\ Len(start \o last) = Len(start) + Len(last)
        /\ DOMAIN start = 1 .. Len(start) /\ DOMAIN last = 1 .. Len(last)
        /\ \A i \in 1 .. Len(start) : (start \o last)[i] = start[i]
        /\ \A i \in 1 .. Len(last) : (start \o last)[Len(start) + i] = last[i]
    <3>1. IsList(start) /\ IsList(last)
      BY <2>4
    <3> QED BY <3>1, ConcatList
  <2>1. /\ IsList(start \o last) /\ DOMAIN (start \o last) = 1 .. (n + 1) + 1
        /\ \A i \in 1 .. n + 1 : (start \o last)[i] = start[i]
        /\ \A i \in 1 .. 1 : (start \o last)[(n + 1) + i] = last[i]
    BY <2>4, <2>5
  <2>2. (n + 1) + 1 = n + 2 /\ 1 \in 1 .. 1
    BY <1>7
  <2>3. (start \o last)[(n + 1) + 1] = last[1]
    BY <2>1, <2>2
  <2> QED BY <1>26, <2>1, <2>2, <2>3
<1>28. \A i \in DOMAIN cmds : Own(cmds[i], i) /\ (i = n + 2 => New(cmds[i]) = {})
  <2>1. ASSUME NEW i \in DOMAIN cmds PROVE Own(cmds[i], i) /\ (i = n + 2 => New(cmds[i]) = {})
    <3>1. CASE i \in 1 .. n + 1
      <4>1. i # n + 2
        BY <1>7, <3>1
      <4>2. cmds[i] = start[i] /\ Own(start[i], i)
        BY <1>25, <1>27, <3>1 DEF start
      <4> QED BY <4>1, <4>2
    <3>2. CASE i = n + 2
      BY <1>24, <1>27, <3>2
    <3>3. i \in 1 .. n + 1 \/ i = n + 2
      BY <1>7, <1>27
    <3> QED BY <3>1, <3>2, <3>3
  <2> QED BY <2>1
<1> DEFINE w == Wrapped(cmds)
<1>29. DOMAIN w = DOMAIN cmds /\ \A i \in DOMAIN cmds :
          NewIn(w[i]) = New(cmds[i]) /\ SaidIn(w[i]) = Said(cmds[i]) /\ ProperIn(w[i], L)
  <2>1. \A i \in DOMAIN cmds : ProperIn(w[i], L) <=> Proper(cmds[i], L)
    BY <1>27, WrappedIs
  <2> QED BY <1>27, <1>28, <2>1, WrappedIs
<1> HIDE DEF w
<1>30. \A i \in DOMAIN w : SaidIn(w[i]) = NewIn(w[i]) /\ SaidIn(w[i]) \subseteq {nextId + i - 1}
                           /\ SaidIn(w[i]) \subseteq X
  <2>1. \A i \in 1 .. n + 1 : nextId + i - 1 \in X
    BY <1>1, <1>7, <1>11 DEF X
  <2>2. ASSUME NEW i \in DOMAIN w PROVE SaidIn(w[i]) \subseteq X
    <3>1. i \in 1 .. n + 1 \/ i = n + 2
      BY <1>7, <1>27, <1>29
    <3> QED BY <1>28, <1>29, <2>1, <3>1
  <2> QED BY <1>28, <1>29, <2>2
<1>31. Neat(w)
  <2>1. \A i, j \in DOMAIN w : i < j => nextId + i - 1 # nextId + j - 1
    BY <1>1, <1>7, <1>27, <1>29
  <2> QED BY <1>30, <2>1 DEF Neat
<1>32. AllProper(w, L)
  BY <1>29 DEF AllProper
<1>33. News(w) \subseteq X /\ AllSaid(w) \subseteq X
  BY <1>30 DEF News, AllSaid
<1>34. AllSaid(w) \cap Held(b) = {}
  BY <1>1, <1>18, <1>22, <1>33
<1> QED BY <1>3, <1>11, <1>17, <1>18, <1>22, <1>27, <1>31, <1>32, <1>33, <1>34, OperateTidy DEF w

\* Undoing and the pages.
LEMMA PageTidy ==
    ASSUME Inv, NEW K \in Kinds, TidyWith(K), NEW m \in Members,
           DoUndoRedo(m) \/ DoCreatePage(m) \/ DoSelectPage(m) \/ DoDeletePage(m)
    PROVE  Tidy'
<1>1. Sound(board[m], nextId)
  BY OwnBoard
<1>2. ASSUME NEW b, NEW type \in {"Undo", "Redo", "PageCreate", "PageSelect", "PageDelete"}, NEW id,
             NEW used \in {0, 1}, Operate(m, b, <<Command(type, id)>>, used),
             \A L : Clean(board[m], L) => Becomes(board[m], b, L, {}, {})
      PROVE  Tidy'
  <2> DEFINE c == Command(type, id)
  <2>1. New(c) = {} /\ Said(c) \subseteq Known(board[m]) /\ Said(c) \cap StrokesOf(K) = {}
        /\ \A L : Extends(L, K) => Proper(c, L)
    <3>1. type \notin {"StrokeBegin", "ElementAdd", "EraserEnd", "ElementUpdate", "FullSync"}
      BY <1>2
    <3>2. \A L : New(c) = {} /\ Said(c) = {} /\ Proper(c, L)
      BY <3>1, CommandSays
    <3> QED BY <3>2
  <2>2. Operate(m, b, <<c>>, used)
    BY <1>2
  <2> HIDE DEF c
  <2> QED BY <1>2, <2>1, <2>2, PlainTidy
<1>3. /\ \A L : \A id : Clean(board[m], L) => Becomes(board[m], CreatePage(board[m], id), L, {}, {})
      /\ \A L : \A id : Clean(board[m], L) => Becomes(board[m], SelectPage(board[m], id), L, {}, {})
      /\ \A L : \A id : Clean(board[m], L) /\ CanDelete(board[m], id)
                          => Becomes(board[m], DeletePage(board[m], id), L, {}, {})
      /\ \A L : Clean(board[m], L) /\ CanUndo(board[m]) => Becomes(board[m], Undo(board[m]), L, {}, {})
      /\ \A L : Clean(board[m], L) /\ CanRedo(board[m]) => Becomes(board[m], Redo(board[m]), L, {}, {})
  BY <1>1, PagesClean
<1>4. CASE DoUndoRedo(m)
  <2>1. CASE CanUndo(board[m]) /\ Operate(m, Undo(board[m]), <<Command("Undo", 0)>>, 0)
    BY <1>2, <1>3, <2>1
  <2>2. CASE CanRedo(board[m]) /\ Operate(m, Redo(board[m]), <<Command("Redo", 0)>>, 0)
    BY <1>2, <1>3, <2>2
  <2> QED BY <1>4, <2>1, <2>2 DEF DoUndoRedo
<1>5. CASE DoCreatePage(m)
  <2>1. Operate(m, CreatePage(board[m], nextId), <<Command("PageCreate", nextId)>>, 1)
    BY <1>5 DEF DoCreatePage
  <2> QED BY <1>2, <1>3, <2>1
<1>6. CASE DoSelectPage(m)
  <2>1. PICK p \in PageIds(board[m]) : Operate(m, SelectPage(board[m], p), <<Command("PageSelect", p)>>, 0)
    BY <1>6 DEF DoSelectPage
  <2> QED BY <1>2, <1>3, <2>1
<1>7. CASE DoDeletePage(m)
  <2>1. PICK p \in PageIds(board[m]) :
            CanDelete(board[m], p) /\ Operate(m, DeletePage(board[m], p), <<Command("PageDelete", p)>>, 0)
    BY <1>7 DEF DoDeletePage
  <2> QED BY <1>2, <1>3, <2>1
<1> QED BY <1>4, <1>5, <1>6, <1>7

\* Whatever a user does.
LEMMA UserTidy ==
    ASSUME DistinctStamps, Inv, NEW K \in Kinds, TidyWith(K), NEW m \in Members, UserStep(m)
    PROVE  Tidy'
<1>1. CASE \E s \in Sessions : DoPenBegin(m, s) \/ DoPenEnd(m, s)
  BY <1>1, PenTidy
<1>2. CASE \E s \in Sessions : DoEraserBegin(m, s) \/ DoEraserMove(m, s) \/ DoEraserEnd(m, s)
  BY <1>2, EraserTidy
<1>3. CASE DoEraseRegion(m)
  BY <1>3, RegionTidy
<1>4. CASE DoClear(m) \/ DoAddElement(m) \/ DoRemoveElements(m) \/ DoUpdate(m) \/ DoBatch(m)
  BY <1>4, ElementTidy
<1>5. CASE DoUndoRedo(m) \/ DoCreatePage(m) \/ DoSelectPage(m) \/ DoDeletePage(m)
  BY <1>5, PageTidy
<1>6. CASE DoCopyPage(m)
  BY <1>6, CopyTidy
<1> QED BY <1>1, <1>2, <1>3, <1>4, <1>5, <1>6 DEF UserStep

-----------------------------------------------------------------------------
(* What the threads do.                                                    *)

\* No id is handed out: the kinds are the same.
LEMMA TidyStays ==
    ASSUME NEW K \in Kinds, TidyWith(K)', nextId' = nextId
    PROVE  Tidy'
<1>1. K \in Kinds'
  BY DEF Kinds
<1> QED BY <1>1 DEF Tidy

\* Nothing is said, new or known that was not before.
LEMMA NothingNew ==
    ASSUME NEW K \in Kinds, TidyWith(K), Commands(K)', SendIsFirst', Boards(K)',
           \A n \in Members :
              /\ InNeat(n)' /\ OutNeat(n)'
              /\ In(n)' \subseteq In(n) /\ InSaid(n)' \subseteq InSaid(n)
              /\ Out(n)' \subseteq Out(n) /\ OutSaid(n)' \subseteq OutSaid(n)
              /\ Known(board'[n]) \subseteq Known(board[n]) /\ Held(board'[n]) \subseteq Held(board[n])
    PROVE  TidyWith(K)'
<1>1. Neatly'
  BY DEF TidyWith, Neatly
<1>2. Apart'
  <2>1. ASSUME NEW m \in Members, NEW k \in Members
        PROVE  /\ Out(k)' \cap InSaid(m)' = {}
               /\ Held(board'[k]) \cap InSaid(m)' = {} /\ Held(board'[k]) \cap OutSaid(m)' = {}
               /\ m # k => /\ Out(k)' \cap Known(board'[m]) = {} /\ Out(k)' \cap OutSaid(m)' = {}
                           /\ Held(board'[k]) \cap Known(board'[m]) = {}
    <3>1. /\ Out(k) \cap InSaid(m) = {}
          /\ Held(board[k]) \cap InSaid(m) = {} /\ Held(board[k]) \cap OutSaid(m) = {}
          /\ m # k => /\ Out(k) \cap Known(board[m]) = {} /\ Out(k) \cap OutSaid(m) = {}
                      /\ Held(board[k]) \cap Known(board[m]) = {}
      BY DEF TidyWith, Apart
    <3> QED BY <3>1
  <2> QED BY <2>1 DEF Apart
<1> QED BY <1>1, <1>2 DEF TidyWith

\* Something moves towards m's board.
LEMMA InMoves ==
    ASSUME NEW K \in Kinds, TidyWith(K), NEW m \in Members,
           board' = board /\ outbox' = outbox /\ up' = up /\ nextId' = nextId,
           \A n \in Members \ {m} : dataQueue'[n] = dataQueue[n] /\ apiQueue'[n] = apiQueue[n] /\ down'[n] = down[n],
           AllProper(dataQueue'[m], K), AllProper(apiQueue'[m], K), AllProper(down'[m], K),
           InNeat(m)', In(m)' \subseteq In(m), InSaid(m)' \subseteq InSaid(m),
           \A i \in DOMAIN apiQueue'[m] : apiQueue'[m][i].kind = "SEND" => apiQueue'[m][i].cmd = outbox[m][1]
    PROVE  Tidy'
<1>1. Commands(K)'
  BY DEF TidyWith, Commands
<1>2. SendIsFirst'
  BY DEF TidyWith, SendIsFirst
<1>3. Boards(K)'
  BY DEF TidyWith, Boards
<1>4. ASSUME NEW n \in Members
      PROVE  /\ InNeat(n)' /\ OutNeat(n)'
             /\ In(n)' \subseteq In(n) /\ InSaid(n)' \subseteq InSaid(n)
             /\ Out(n)' \subseteq Out(n) /\ OutSaid(n)' \subseteq OutSaid(n)
             /\ Known(board'[n]) \subseteq Known(board[n]) /\ Held(board'[n]) \subseteq Held(board[n])
  <2>1. InNeat(n) /\ OutNeat(n)
    BY DEF TidyWith, Neatly
  <2>2. OutNeat(n)' /\ Out(n)' = Out(n) /\ OutSaid(n)' = OutSaid(n)
    BY <2>1 DEF OutNeat, Out, OutSaid
  <2>3. CASE n = m
    BY <2>2, <2>3
  <2>4. CASE n # m
    <3>1. dataQueue'[n] = dataQueue[n] /\ apiQueue'[n] = apiQueue[n] /\ down'[n] = down[n]
      BY <2>4
    <3>2. InNeat(n)' /\ In(n)' = In(n) /\ InSaid(n)' = InSaid(n)
      BY <2>1, <3>1 DEF InNeat, In, InSaid
    <3> QED BY <2>2, <3>2
  <2> QED BY <2>3, <2>4
<1>5. TidyWith(K)'
  BY <1>1, <1>2, <1>3, <1>4, NothingNew
<1> QED BY <1>5, TidyStays

\* A task without a command, or with the command of another.
LEMMA TaskSays ==
    /\ \A t : \A K : t.kind \notin Bearing => NewIn(t) = {} /\ SaidIn(t) = {} /\ ProperIn(t, K)
    /\ \A t, u : t.kind \in Bearing /\ u.kind \in Bearing /\ u.cmd = t.cmd => NewIn(u) = NewIn(t) /\ SaidIn(u) = SaidIn(t)
    /\ \A t, u : \A K : t.kind \in Bearing /\ u.kind \in Bearing \ {"UNICAST"} /\ u.cmd = t.cmd /\ ProperIn(t, K)
                          => ProperIn(u, K)
<1>1. ASSUME NEW t, NEW K, t.kind \notin Bearing PROVE NewIn(t) = {} /\ SaidIn(t) = {} /\ ProperIn(t, K)
  BY <1>1 DEF NewIn, SaidIn, ProperIn, Bearing
<1>2. ASSUME NEW t, NEW u, t.kind \in Bearing, u.kind \in Bearing, u.cmd = t.cmd
      PROVE  NewIn(u) = NewIn(t) /\ SaidIn(u) = SaidIn(t)
  BY <1>2 DEF NewIn, SaidIn
<1>3. ASSUME NEW t, NEW u, NEW K, t.kind \in Bearing, u.kind \in Bearing \ {"UNICAST"}, u.cmd = t.cmd, ProperIn(t, K)
      PROVE  ProperIn(u, K)
  BY <1>3 DEF ProperIn
<1> QED BY <1>1, <1>2, <1>3

\* The queues are one list for each member.
LEMMA Lists ==
    ASSUME Inv
    PROVE  /\ PerMember(dataQueue) /\ PerMember(apiQueue) /\ PerMember(up) /\ PerMember(down)
           /\ PerMember(outbox) /\ PerMember(board)
           /\ \A n \in Members : /\ IsList(dataQueue[n]) /\ IsList(apiQueue[n]) /\ IsList(up[n]) /\ IsList(down[n])
                                 /\ IsList(outbox[n])
BY DEF Inv, QueuesSound, Carrying, OutboxSound, FineAll, BoardsSound

\* Where the member stands.
LEMMA Standing ==
    ASSUME Inv, NEW K \in Kinds, TidyWith(K), NEW m \in Members
    PROVE  /\ AllProper(dataQueue[m], K) /\ AllProper(apiQueue[m], K) /\ AllProper(down[m], K)
           /\ AllProper(up[m], K) /\ AllProper(Wrapped(outbox[m]), K)
           /\ Neat(dataQueue[m]) /\ Neat(apiQueue[m]) /\ Neat(down[m])
           /\ News(apiQueue[m]) \cap AllSaid(dataQueue[m]) = {}
           /\ News(down[m]) \cap (AllSaid(dataQueue[m]) \cup AllSaid(apiQueue[m])) = {}
           /\ Neat(up[m]) /\ Neat(Wrapped(outbox[m])) /\ News(Wrapped(outbox[m])) \cap AllSaid(up[m]) = {}
           /\ \A i \in DOMAIN apiQueue[m] : apiQueue[m][i].kind = "SEND" => apiQueue[m][i].cmd = outbox[m][1]
           /\ IsList(dataQueue[m]) /\ IsList(apiQueue[m]) /\ IsList(up[m]) /\ IsList(down[m]) /\ IsList(outbox[m])
<1>1. InNeat(m) /\ OutNeat(m)
  BY DEF TidyWith, Neatly
<1>2. /\ AllProper(dataQueue[m], K) /\ AllProper(apiQueue[m], K) /\ AllProper(down[m], K)
      /\ AllProper(up[m], K) /\ AllProper(Wrapped(outbox[m]), K)
  BY DEF TidyWith, Commands
<1>3. \A i \in DOMAIN apiQueue[m] : apiQueue[m][i].kind = "SEND" => apiQueue[m][i].cmd = outbox[m][1]
  BY DEF TidyWith, SendIsFirst
<1> QED BY <1>1, <1>2, <1>3, Lists DEF InNeat, OutNeat

\* A frame arrives.
LEMMA MessageTidy ==
    ASSUME Inv, NEW K \in Kinds, TidyWith(K), NEW m \in Members, OnMessage(m)
    PROVE  Tidy'
<1> DEFINE t == Head(down[m])
<1>1. /\ down[m] # <<>>
      /\ apiQueue' = [apiQueue EXCEPT ![m] = Append(@, t)] /\ down' = [down EXCEPT ![m] = Tail(@)]
      /\ board' = board /\ outbox' = outbox /\ up' = up /\ nextId' = nextId /\ dataQueue' = dataQueue
  BY DEF OnMessage, boardVars, dataVars
<1>2. t.kind # "SEND"
  <2>1. Carried(t, Deliveries, nextId)
    BY <1>1, QueueTaken DEF Inv, QueuesSound
  <2> QED BY <2>1 DEF Carried, Deliveries
<1> HIDE DEF t
<1>3. /\ AllProper(dataQueue[m], K) /\ AllProper(apiQueue[m], K) /\ AllProper(down[m], K)
      /\ Neat(dataQueue[m]) /\ Neat(apiQueue[m]) /\ Neat(down[m])
      /\ News(apiQueue[m]) \cap AllSaid(dataQueue[m]) = {}
      /\ News(down[m]) \cap (AllSaid(dataQueue[m]) \cup AllSaid(apiQueue[m])) = {}
      /\ \A i \in DOMAIN apiQueue[m] : apiQueue[m][i].kind = "SEND" => apiQueue[m][i].cmd = outbox[m][1]
      /\ IsList(apiQueue[m]) /\ IsList(down[m])
  BY Standing
<1>4. PerMember(apiQueue) /\ PerMember(down)
  BY Lists
<1>11. /\ apiQueue'[m] = Append(apiQueue[m], t) /\ \A n \in Members \ {m} : apiQueue'[n] = apiQueue[n]
       /\ down'[m] = Tail(down[m]) /\ \A n \in Members \ {m} : down'[n] = down[n]
  BY <1>1, <1>4 DEF PerMember
<1>5. /\ News(down[m]) = NewIn(t) \cup News(down'[m]) /\ AllSaid(down[m]) = SaidIn(t) \cup AllSaid(down'[m])
      /\ Neat(down'[m]) /\ News(down'[m]) \cap SaidIn(t) = {}
      /\ AllProper(down'[m], K) /\ ProperIn(t, K)
  BY <1>1, <1>3, <1>11, QueueLess DEF t
<1>6. /\ News(apiQueue'[m]) = News(apiQueue[m]) \cup NewIn(t)
      /\ AllSaid(apiQueue'[m]) = AllSaid(apiQueue[m]) \cup SaidIn(t)
      /\ Neat(apiQueue[m]) /\ NewIn(t) \cap AllSaid(apiQueue[m]) = {} => Neat(apiQueue'[m])
      /\ \A J : AllProper(apiQueue[m], J) /\ ProperIn(t, J) => AllProper(apiQueue'[m], J)
  BY <1>3, <1>11, QueueMore
<1>7. InNeat(m)'
  <2>1. Neat(apiQueue'[m])
    BY <1>3, <1>5, <1>6
  <2>2. /\ News(apiQueue'[m]) \cap AllSaid(dataQueue[m]) = {}
        /\ News(down'[m]) \cap (AllSaid(dataQueue[m]) \cup AllSaid(apiQueue'[m])) = {}
    BY <1>3, <1>5, <1>6
  <2> QED BY <1>1, <1>3, <1>5, <2>1, <2>2 DEF InNeat
<1>8. In(m)' \subseteq In(m) /\ InSaid(m)' \subseteq InSaid(m)
  BY <1>1, <1>5, <1>6 DEF In, InSaid
<1>9. \A i \in DOMAIN apiQueue'[m] : apiQueue'[m][i].kind = "SEND" => apiQueue'[m][i].cmd = outbox[m][1]
  <2> DEFINE r == Append(apiQueue[m], t)
  <2>1. /\ DOMAIN r = 1 .. Len(apiQueue[m]) + 1 /\ Len(apiQueue[m]) \in Nat
        /\ DOMAIN apiQueue[m] = 1 .. Len(apiQueue[m])
        /\ \A i \in 1 .. Len(apiQueue[m]) : r[i] = apiQueue[m][i]
        /\ r[Len(apiQueue[m]) + 1] = t
    BY <1>3, AppendList
  <2> HIDE DEF r
  <2>2. \A i \in DOMAIN r : (i \in DOMAIN apiQueue[m] /\ r[i] = apiQueue[m][i]) \/ r[i] = t
    BY <2>1
  <2>3. \A i \in DOMAIN r : r[i].kind = "SEND" => r[i].cmd = outbox[m][1]
    BY <1>2, <1>3, <2>2
  <2> QED BY <1>11, <2>3 DEF r
<1>10. AllProper(dataQueue'[m], K) /\ AllProper(apiQueue'[m], K)
  BY <1>1, <1>3, <1>5, <1>6
<1> QED BY <1>1, <1>5, <1>7, <1>8, <1>9, <1>10, <1>11, InMoves

\* Joining.
LEMMA JoinTidy ==
    ASSUME Inv, NEW K \in Kinds, TidyWith(K), NEW m \in Members, Start(m) \/ OnConnected(m)
    PROVE  Tidy'
<1>1. CASE Start(m)
  <2> DEFINE t == [kind |-> "SET_CALLBACK"]
  <2>1. t.kind \notin Bearing
    BY DEF Bearing
  <2>2. dataQueue' = [dataQueue EXCEPT ![m] = Append(@, t)]
        /\ board' = board /\ outbox' = outbox /\ up' = up /\ nextId' = nextId /\ apiQueue' = apiQueue /\ down' = down
    BY <1>1 DEF Start, boardVars, netVars
  <2> HIDE DEF t
  <2>3. NewIn(t) = {} /\ SaidIn(t) = {} /\ ProperIn(t, K)
    BY <2>1, TaskSays
  <2>4. /\ \A n \in Members \ {m} : dataQueue'[n] = dataQueue[n]
        /\ News(dataQueue'[m]) = News(dataQueue[m]) /\ AllSaid(dataQueue'[m]) = AllSaid(dataQueue[m])
        /\ Neat(dataQueue'[m]) /\ AllProper(dataQueue'[m], K)
    <3>1. PerMember(dataQueue) /\ IsList(dataQueue[m]) /\ Neat(dataQueue[m]) /\ AllProper(dataQueue[m], K)
      BY Lists, Standing
    <3>2. dataQueue'[m] = Append(dataQueue[m], t) /\ \A n \in Members \ {m} : dataQueue'[n] = dataQueue[n]
      BY <2>2, <3>1 DEF PerMember
    <3>3. /\ News(dataQueue'[m]) = News(dataQueue[m]) \cup NewIn(t) /\ AllSaid(dataQueue'[m]) = AllSaid(dataQueue[m]) \cup SaidIn(t)
          /\ Neat(dataQueue[m]) /\ NewIn(t) \cap AllSaid(dataQueue[m]) = {} => Neat(dataQueue'[m])
          /\ \A J : AllProper(dataQueue[m], J) /\ ProperIn(t, J) => AllProper(dataQueue'[m], J)
      BY <3>1, <3>2, QueueMore
    <3> QED BY <2>3, <3>1, <3>2, <3>3
  <2>5. InNeat(m)
    BY DEF TidyWith, Neatly
  <2>6. InNeat(m)' /\ In(m)' = In(m) /\ InSaid(m)' = InSaid(m)
    BY <2>2, <2>4, <2>5 DEF InNeat, In, InSaid
  <2> QED BY <2>2, <2>4, <2>6, Standing, InMoves
<1>2. CASE OnConnected(m)
  <2> DEFINE t == [kind |-> "JOIN"]
  <2>1. t.kind \notin Bearing
    BY DEF Bearing
  <2>2. up' = [up EXCEPT ![m] = Append(@, t)]
        /\ board' = board /\ outbox' = outbox /\ dataQueue' = dataQueue /\ nextId' = nextId /\ apiQueue' = apiQueue
        /\ down' = down
    BY <1>2 DEF OnConnected, boardVars, dataVars
  <2> HIDE DEF t
  <2>3. NewIn(t) = {} /\ SaidIn(t) = {} /\ ProperIn(t, K)
    BY <2>1, TaskSays
  <2>4. /\ \A n \in Members \ {m} : up'[n] = up[n]
        /\ News(up'[m]) = News(up[m]) /\ AllSaid(up'[m]) = AllSaid(up[m])
        /\ Neat(up'[m]) /\ AllProper(up'[m], K)
    <3>1. PerMember(up) /\ IsList(up[m]) /\ Neat(up[m]) /\ AllProper(up[m], K)
      BY Lists, Standing
    <3>2. up'[m] = Append(up[m], t) /\ \A n \in Members \ {m} : up'[n] = up[n]
      BY <2>2, <3>1 DEF PerMember
    <3>3. /\ News(up'[m]) = News(up[m]) \cup NewIn(t) /\ AllSaid(up'[m]) = AllSaid(up[m]) \cup SaidIn(t)
          /\ Neat(up[m]) /\ NewIn(t) \cap AllSaid(up[m]) = {} => Neat(up'[m])
          /\ \A J : AllProper(up[m], J) /\ ProperIn(t, J) => AllProper(up'[m], J)
      BY <3>1, <3>2, QueueMore
    <3> QED BY <2>3, <3>1, <3>2, <3>3
  <2>5. \A n \in Members : /\ News(up'[n]) = News(up[n]) /\ AllSaid(up'[n]) = AllSaid(up[n])
                           /\ Neat(up[n]) => Neat(up'[n])
                           /\ AllProper(up[n], K) => AllProper(up'[n], K)
    BY <2>4
  <2>6. ASSUME NEW n \in Members
        PROVE  /\ InNeat(n)' /\ OutNeat(n)' /\ In(n)' = In(n) /\ InSaid(n)' = InSaid(n)
               /\ Out(n)' = Out(n) /\ OutSaid(n)' = OutSaid(n)
    <3>1. InNeat(n) /\ OutNeat(n)
      BY DEF TidyWith, Neatly
    <3>2. InNeat(n)' /\ In(n)' = In(n) /\ InSaid(n)' = InSaid(n)
      BY <2>2, <3>1 DEF InNeat, In, InSaid
    <3>3. OutNeat(n)' /\ Out(n)' = Out(n) /\ OutSaid(n)' = OutSaid(n)
      BY <2>2, <2>5, <3>1 DEF OutNeat, Out, OutSaid
    <3> QED BY <3>2, <3>3
  <2>7. Commands(K)'
    BY <2>2, <2>5 DEF TidyWith, Commands
  <2>8. SendIsFirst' /\ Boards(K)'
    BY <2>2 DEF TidyWith, SendIsFirst, Boards
  <2>9. TidyWith(K)'
    BY <2>2, <2>6, <2>7, <2>8, NothingNew
  <2> QED BY <2>2, <2>9, TidyStays
<1> QED BY <1>1, <1>2

\* A message or a request is taken by the api thread.
LEMMA CallTidy ==
    ASSUME Inv, NEW K \in Kinds, TidyWith(K), NEW m \in Members, apiQueue[m] # <<>>,
           board' = board /\ outbox' = outbox /\ up' = up /\ nextId' = nextId /\ down' = down,
           apiQueue' = [apiQueue EXCEPT ![m] = Tail(@)], NEW t, dataQueue' = [dataQueue EXCEPT ![m] = Append(@, t)],
           NewIn(t) \subseteq NewIn(Head(apiQueue[m])), SaidIn(t) \subseteq SaidIn(Head(apiQueue[m])), ProperIn(t, K)
    PROVE  Tidy'
<1> DEFINE call == Head(apiQueue[m])
<1>1. NewIn(t) \subseteq NewIn(call) /\ SaidIn(t) \subseteq SaidIn(call)
  OBVIOUS
<1>2. /\ AllProper(dataQueue[m], K) /\ AllProper(apiQueue[m], K) /\ AllProper(down[m], K)
      /\ Neat(dataQueue[m]) /\ Neat(apiQueue[m]) /\ Neat(down[m])
      /\ News(apiQueue[m]) \cap AllSaid(dataQueue[m]) = {}
      /\ News(down[m]) \cap (AllSaid(dataQueue[m]) \cup AllSaid(apiQueue[m])) = {}
      /\ \A i \in DOMAIN apiQueue[m] : apiQueue[m][i].kind = "SEND" => apiQueue[m][i].cmd = outbox[m][1]
      /\ IsList(apiQueue[m]) /\ IsList(dataQueue[m])
  BY Standing
<1>3. PerMember(apiQueue) /\ PerMember(dataQueue)
  BY Lists
<1>4. /\ dataQueue'[m] = Append(dataQueue[m], t) /\ \A n \in Members \ {m} : dataQueue'[n] = dataQueue[n]
      /\ apiQueue'[m] = Tail(apiQueue[m]) /\ \A n \in Members \ {m} : apiQueue'[n] = apiQueue[n]
  BY <1>3 DEF PerMember
<1>5. /\ News(apiQueue[m]) = NewIn(call) \cup News(apiQueue'[m])
      /\ AllSaid(apiQueue[m]) = SaidIn(call) \cup AllSaid(apiQueue'[m])
      /\ Neat(apiQueue'[m]) /\ News(apiQueue'[m]) \cap SaidIn(call) = {}
      /\ AllProper(apiQueue'[m], K)
  BY <1>2, <1>4, QueueLess
<1> HIDE DEF call
<1>6. /\ News(dataQueue'[m]) = News(dataQueue[m]) \cup NewIn(t)
      /\ AllSaid(dataQueue'[m]) = AllSaid(dataQueue[m]) \cup SaidIn(t)
      /\ Neat(dataQueue[m]) /\ NewIn(t) \cap AllSaid(dataQueue[m]) = {} => Neat(dataQueue'[m])
      /\ \A J : AllProper(dataQueue[m], J) /\ ProperIn(t, J) => AllProper(dataQueue'[m], J)
  BY <1>2, <1>4, QueueMore
<1>7. InNeat(m)'
  <2>1. Neat(dataQueue'[m])
    BY <1>1, <1>2, <1>5, <1>6
  <2>2. /\ News(apiQueue'[m]) \cap AllSaid(dataQueue'[m]) = {}
        /\ News(down[m]) \cap (AllSaid(dataQueue'[m]) \cup AllSaid(apiQueue'[m])) = {}
    BY <1>1, <1>2, <1>5, <1>6
  <2> QED BY <1>2, <1>5, <2>1, <2>2 DEF InNeat
<1>8. In(m)' \subseteq In(m) /\ InSaid(m)' \subseteq InSaid(m)
  BY <1>1, <1>5, <1>6 DEF In, InSaid
<1>9. \A i \in DOMAIN apiQueue'[m] : apiQueue'[m][i].kind = "SEND" => apiQueue'[m][i].cmd = outbox[m][1]
  <2> DEFINE r == Tail(apiQueue[m])
  <2>1. /\ DOMAIN r = 1 .. Len(apiQueue[m]) - 1 /\ Len(apiQueue[m]) \in Nat \ {0}
        /\ DOMAIN apiQueue[m] = 1 .. Len(apiQueue[m])
        /\ \A i \in DOMAIN r : r[i] = apiQueue[m][i + 1]
    BY <1>2, TailList
  <2> HIDE DEF r
  <2>2. \A i \in DOMAIN r : i + 1 \in DOMAIN apiQueue[m]
    BY <2>1
  <2> QED BY <1>2, <1>4, <2>1, <2>2 DEF r
<1>10. AllProper(dataQueue'[m], K)
  BY <1>2, <1>6
<1> QED BY <1>2, <1>4, <1>5, <1>7, <1>8, <1>9, <1>10, InMoves

\* A command is sent, or dropped when the member is not in the room.
LEMMA SendTidy ==
    ASSUME Inv, NEW K \in Kinds, TidyWith(K), NEW m \in Members, ApiTask(m), Head(apiQueue[m]).kind = "SEND",
           Broadcast(m, Head(apiQueue[m]).cmd)
    PROVE  Tidy'
<1> DEFINE call == Head(apiQueue[m])
           cmds == outbox[m]
           calls == apiQueue[m]
           ws == Wrapped(cmds)
           w == [kind |-> "BROADCAST", cmd |-> call.cmd]
<1>1. /\ calls # <<>> /\ board' = board /\ nextId' = nextId /\ down' = down /\ dataQueue' = dataQueue
      /\ up' = up \/ up' = [up EXCEPT ![m] = Append(@, w)]
      /\ outbox' = [outbox EXCEPT ![m] = Tail(@)]
      /\ apiQueue' = [apiQueue EXCEPT ![m] = IF Len(cmds) > 1 THEN Append(Tail(@), Send(cmds[2])) ELSE Tail(@)]
  BY DEF ApiTask, Broadcast, boardVars
<1>2. PerMember(apiQueue) /\ PerMember(outbox) /\ PerMember(up)
  BY Lists
<1>3. /\ \A n \in Members \ {m} : up'[n] = up[n] /\ outbox'[n] = outbox[n] /\ apiQueue'[n] = apiQueue[n]
      /\ up'[m] = up[m] \/ up'[m] = Append(up[m], w)
      /\ outbox'[m] = Tail(cmds)
      /\ apiQueue'[m] = IF Len(cmds) > 1 THEN Append(Tail(calls), Send(cmds[2])) ELSE Tail(calls)
  <2> HIDE DEF w
  <2> QED BY <1>1, <1>2 DEF PerMember
<1>4. /\ AllProper(up[m], K) /\ AllProper(ws, K) /\ AllProper(calls, K) /\ Neat(calls)
      /\ Neat(up[m]) /\ Neat(ws) /\ News(ws) \cap AllSaid(up[m]) = {}
      /\ \A i \in DOMAIN calls : calls[i].kind = "SEND" => calls[i].cmd = cmds[1]
      /\ IsList(calls) /\ IsList(cmds) /\ IsList(up[m])
  BY Standing
<1>5. call.cmd = cmds[1]
  <2>1. 1 \in DOMAIN calls /\ call = calls[1]
    BY <1>1, <1>4, TailList
  <2> QED BY <1>4, <2>1
<1>6. cmds # <<>> /\ SendsOnce(Tail(calls), <<>>)
  BY <1>1, <1>4, SendTaken DEF Inv, SendsSound
<1>7. ws # <<>> /\ IsList(ws) /\ Wrapped(Tail(cmds)) = Tail(ws) /\ Head(ws) = w
  BY <1>4, <1>5, <1>6, WrappedIs
<1>8. w.kind \in Bearing
  BY DEF Bearing
<1> HIDE DEF ws, w, call
<1> DEFINE vs == Wrapped(outbox'[m])
<1>9. vs = Tail(ws)
  BY <1>3, <1>7
<1> HIDE DEF vs
<1>10. /\ News(ws) = NewIn(w) \cup News(vs) /\ AllSaid(ws) = SaidIn(w) \cup AllSaid(vs)
       /\ Neat(vs) /\ News(vs) \cap SaidIn(w) = {} /\ AllProper(vs, K) /\ ProperIn(w, K)
  BY <1>4, <1>7, <1>9, QueueLess
<1>11. /\ News(Append(up[m], w)) = News(up[m]) \cup NewIn(w) /\ AllSaid(Append(up[m], w)) = AllSaid(up[m]) \cup SaidIn(w)
       /\ Neat(up[m]) /\ NewIn(w) \cap AllSaid(up[m]) = {} => Neat(Append(up[m], w))
       /\ \A J : AllProper(up[m], J) /\ ProperIn(w, J) => AllProper(Append(up[m], w), J)
  BY <1>4, QueueMore
<1>12. /\ News(up'[m]) \subseteq News(up[m]) \cup NewIn(w) /\ AllSaid(up'[m]) \subseteq AllSaid(up[m]) \cup SaidIn(w)
       /\ Neat(up'[m]) /\ AllProper(up'[m], K)
  <2>1. Neat(Append(up[m], w)) /\ AllProper(Append(up[m], w), K)
    BY <1>4, <1>10, <1>11
  <2> QED BY <1>3, <1>4, <1>11, <2>1
<1>13. /\ News(apiQueue'[m]) = News(Tail(calls)) /\ AllSaid(apiQueue'[m]) = AllSaid(Tail(calls))
       /\ Neat(apiQueue'[m]) /\ AllProper(apiQueue'[m], K)
  <2> DEFINE r == Tail(calls)
             s == Send(cmds[2])
  <2>1. Neat(r) /\ AllProper(r, K) /\ IsList(r)
    BY <1>1, <1>4, QueueLess, TailList
  <2>2. s.kind \notin Bearing
    BY DEF Send, Bearing
  <2>3. apiQueue'[m] = Append(r, s) \/ apiQueue'[m] = r
    BY <1>3
  <2> HIDE DEF r, s
  <2>4. NewIn(s) = {} /\ SaidIn(s) = {} /\ ProperIn(s, K)
    BY <2>2, TaskSays
  <2>5. /\ News(Append(r, s)) = News(r) \cup NewIn(s) /\ AllSaid(Append(r, s)) = AllSaid(r) \cup SaidIn(s)
        /\ Neat(r) /\ NewIn(s) \cap AllSaid(r) = {} => Neat(Append(r, s))
        /\ \A J : AllProper(r, J) /\ ProperIn(s, J) => AllProper(Append(r, s), J)
    BY <2>1, QueueMore
  <2>6. /\ News(apiQueue'[m]) = News(r) /\ AllSaid(apiQueue'[m]) = AllSaid(r)
        /\ Neat(apiQueue'[m]) /\ AllProper(apiQueue'[m], K)
    BY <2>1, <2>3, <2>4, <2>5
  <2> QED BY <2>6 DEF r
<1>14. News(Tail(calls)) \subseteq News(calls) /\ AllSaid(Tail(calls)) \subseteq AllSaid(calls)
  BY <1>1, <1>4, QueueLess
<1>15. \A i \in DOMAIN apiQueue'[m] : apiQueue'[m][i].kind = "SEND" => apiQueue'[m][i].cmd = outbox'[m][1]
  <2> DEFINE r == Tail(calls)
             s == Send(cmds[2])
  <2>1. \A i \in DOMAIN r : r[i].kind # "SEND"
    BY <1>6 DEF SendsOnce
  <2>2. IsList(r)
    BY <1>1, <1>4, TailList
  <2>3. s.cmd = cmds[2]
    BY DEF Send
  <2>4. Len(cmds) > 1 => outbox'[m][1] = cmds[2]
    <3>1. DOMAIN Tail(cmds) = 1 .. Len(cmds) - 1 /\ Len(cmds) \in Nat
          /\ \A i \in DOMAIN Tail(cmds) : Tail(cmds)[i] = cmds[i + 1]
      BY <1>4, <1>6, TailList
    <3>2. Len(cmds) > 1 => 1 \in DOMAIN Tail(cmds) /\ 1 + 1 = 2
      BY <3>1
    <3> QED BY <1>3, <3>1, <3>2
  <2>5. (Len(cmds) > 1 /\ apiQueue'[m] = Append(r, s)) \/ apiQueue'[m] = r
    BY <1>3
  <2> HIDE DEF r, s
  <2> DEFINE q == Append(r, s)
  <2>6. /\ DOMAIN q = 1 .. Len(r) + 1 /\ Len(r) \in Nat /\ DOMAIN r = 1 .. Len(r)
        /\ \A i \in 1 .. Len(r) : q[i] = r[i]
        /\ q[Len(r) + 1] = s
    BY <2>2, AppendList
  <2>7. (Len(cmds) > 1 /\ apiQueue'[m] = q) \/ apiQueue'[m] = r
    BY <2>5
  <2> HIDE DEF q
  <2>8. \A i \in DOMAIN q : (i \in DOMAIN r /\ q[i] = r[i]) \/ q[i] = s
    BY <2>6
  <2> QED BY <2>1, <2>3, <2>4, <2>7, <2>8
<1>16. Commands(K)'
  <2>1. ASSUME NEW n \in Members
        PROVE  /\ AllProper(dataQueue'[n], K) /\ AllProper(apiQueue'[n], K) /\ AllProper(down'[n], K)
               /\ AllProper(up'[n], K) /\ AllProper(Wrapped(outbox'[n]), K)
    <3>1. /\ AllProper(dataQueue[n], K) /\ AllProper(apiQueue[n], K) /\ AllProper(down[n], K)
          /\ AllProper(up[n], K) /\ AllProper(Wrapped(outbox[n]), K)
      BY DEF TidyWith, Commands
    <3>2. CASE n = m
      BY <1>1, <1>10, <1>12, <1>13, <3>1, <3>2 DEF vs
    <3>3. CASE n # m
      BY <1>1, <1>3, <3>1, <3>3
    <3> QED BY <3>2, <3>3
  <2> QED BY <2>1 DEF Commands
<1>17. SendIsFirst'
  <2>1. ASSUME NEW n \in Members, NEW i \in DOMAIN apiQueue'[n], apiQueue'[n][i].kind = "SEND"
        PROVE  apiQueue'[n][i].cmd = outbox'[n][1]
    <3>1. CASE n = m
      BY <1>15, <2>1, <3>1
    <3>2. CASE n # m
      BY <1>3, <2>1, <3>2 DEF TidyWith, SendIsFirst
    <3> QED BY <3>1, <3>2
  <2> QED BY <2>1 DEF SendIsFirst
<1>18. Boards(K)'
  BY <1>1 DEF TidyWith, Boards
<1>19. ASSUME NEW n \in Members
       PROVE  /\ InNeat(n)' /\ OutNeat(n)' /\ In(n)' \subseteq In(n) /\ InSaid(n)' \subseteq InSaid(n)
              /\ Out(n)' \subseteq Out(n) /\ OutSaid(n)' \subseteq OutSaid(n)
  <2>1. InNeat(n) /\ OutNeat(n)
    BY DEF TidyWith, Neatly
  <2>2. CASE n # m
    BY <1>1, <1>3, <2>1, <2>2 DEF InNeat, OutNeat, In, InSaid, Out, OutSaid
  <2>3. CASE n = m
    <3>1. InNeat(n)' /\ In(n)' \subseteq In(n) /\ InSaid(n)' \subseteq InSaid(n)
      BY <1>1, <1>13, <1>14, <2>1, <2>3 DEF InNeat, In, InSaid
    <3>2. News(vs) \cap AllSaid(up'[m]) = {}
      BY <1>4, <1>10, <1>12
    <3>3. OutNeat(n)'
      BY <1>10, <1>12, <2>3, <3>2 DEF OutNeat, vs
    <3>4. Out(n)' \subseteq Out(n) /\ OutSaid(n)' \subseteq OutSaid(n)
      BY <1>10, <1>12, <2>3 DEF Out, OutSaid, vs, ws
    <3> QED BY <3>1, <3>3, <3>4
  <2> QED BY <2>2, <2>3
<1>20. TidyWith(K)'
  BY <1>1, <1>16, <1>17, <1>18, <1>19, NothingNew
<1> QED BY <1>1, <1>20, TidyStays

\* A task of the api thread.
LEMMA ApiTidy ==
    ASSUME Inv, NEW K \in Kinds, TidyWith(K), NEW m \in Members, ApiTask(m)
    PROVE  Tidy'
<1> DEFINE call == Head(apiQueue[m])
<1>1. apiQueue[m] # <<>> /\ board' = board /\ nextId' = nextId /\ down' = down
  BY DEF ApiTask, boardVars
<1>2. CASE call.kind = "SEND" /\ Broadcast(m, call.cmd)
  BY <1>2, SendTidy
<1>3. CASE /\ call.kind = "MESSAGE"
           /\ dataQueue' = [dataQueue EXCEPT ![m] = Append(@, [kind |-> "APPLY", cmd |-> call.cmd])]
           /\ apiQueue' = [apiQueue EXCEPT ![m] = Tail(@)]
           /\ UNCHANGED <<up, outbox, serving>>
  <2> DEFINE t == [kind |-> "APPLY", cmd |-> call.cmd]
  <2>1. t.kind \in Bearing \ {"UNICAST"} /\ call.kind \in Bearing /\ t.cmd = call.cmd
    BY <1>3 DEF Bearing
  <2>2. ProperIn(call, K)
    <3>1. AllProper(apiQueue[m], K) /\ IsList(apiQueue[m])
      BY Standing
    <3> QED BY <1>1, <3>1, QueueLess
  <2>3. dataQueue' = [dataQueue EXCEPT ![m] = Append(@, t)]
    BY <1>3
  <2> HIDE DEF t, call
  <2>4. NewIn(t) \subseteq NewIn(call) /\ SaidIn(t) \subseteq SaidIn(call) /\ ProperIn(t, K)
    BY <2>1, <2>2, TaskSays
  <2> QED BY <1>1, <1>3, <2>3, <2>4, CallTidy DEF call
<1>4. CASE /\ call.kind = "REQUEST_DATA"
           /\ AskForPages(m, call.from)
           /\ apiQueue' = [apiQueue EXCEPT ![m] = Tail(@)]
           /\ UNCHANGED outbox
  <2> DEFINE t == [kind |-> "GET_ALL_PAGES"]
  <2>1. t.kind \notin Bearing
    BY DEF Bearing
  <2>2. dataQueue' = [dataQueue EXCEPT ![m] = Append(@, t)] /\ up' = up
    BY <1>4 DEF AskForPages
  <2> HIDE DEF t
  <2>3. NewIn(t) = {} /\ SaidIn(t) = {} /\ ProperIn(t, K)
    BY <2>1, TaskSays
  <2>4. NewIn(t) \subseteq NewIn(call) /\ SaidIn(t) \subseteq SaidIn(call)
    BY <2>3
  <2> HIDE DEF call
  <2> QED BY <1>1, <1>4, <2>2, <2>3, <2>4, CallTidy DEF call
<1> QED BY <1>2, <1>3, <1>4 DEF ApiTask

\* The board after a command of another.
LEMMA ApplyTidy ==
    ASSUME Inv, NEW K \in Kinds, TidyWith(K), NEW m \in Members, DataTask(m),
           Head(dataQueue[m]).kind = "APPLY", board' = [board EXCEPT ![m] = Apply(@, Head(dataQueue[m]).cmd)],
           up' = up
    PROVE  TidyWith(K)'
<1> DEFINE t == Head(dataQueue[m])
           c == t.cmd
           b == Apply(board[m], c)
<1>1. /\ dataQueue[m] # <<>> /\ dataQueue' = [dataQueue EXCEPT ![m] = Tail(@)]
      /\ outbox' = outbox /\ apiQueue' = apiQueue /\ down' = down
  BY DEF DataTask
<1>2. /\ dataQueue'[m] = Tail(dataQueue[m]) /\ \A n \in Members \ {m} : dataQueue'[n] = dataQueue[n]
      /\ board'[m] = b /\ \A n \in Members \ {m} : board'[n] = board[n]
  <2>1. PerMember(dataQueue) /\ PerMember(board)
    BY Lists
  <2> QED BY <1>1, <2>1 DEF PerMember
<1>3. /\ AllProper(dataQueue[m], K) /\ Neat(dataQueue[m]) /\ Neat(apiQueue[m]) /\ Neat(down[m])
      /\ News(apiQueue[m]) \cap AllSaid(dataQueue[m]) = {}
      /\ News(down[m]) \cap (AllSaid(dataQueue[m]) \cup AllSaid(apiQueue[m])) = {}
      /\ IsList(dataQueue[m])
  BY Standing
<1>4. /\ News(dataQueue[m]) = NewIn(t) \cup News(dataQueue'[m])
      /\ AllSaid(dataQueue[m]) = SaidIn(t) \cup AllSaid(dataQueue'[m])
      /\ Neat(dataQueue'[m]) /\ News(dataQueue'[m]) \cap SaidIn(t) = {}
      /\ AllProper(dataQueue'[m], K) /\ ProperIn(t, K)
  BY <1>1, <1>2, <1>3, QueueLess
<1>5. NewIn(t) = New(c) /\ SaidIn(t) = Said(c) /\ Proper(c, K)
  BY <1>4 DEF NewIn, SaidIn, ProperIn, Bearing
<1>6. Fine(c, nextId)
  <2>1. Carried(t, Tasks, nextId)
    BY <1>1, QueueTaken DEF Inv, QueuesSound
  <2> QED BY <2>1 DEF Carried
<1> HIDE DEF t, c
<1>7. Becomes(board[m], b, K, Said(c), {})
  <2>1. Sound(board[m], nextId) /\ Clean(board[m], K) /\ DOMAIN K = 1 .. nextId - 1 /\ nextId \in Nat \ {0}
    BY OwnBoard
  <2>2. IsFiniteSet(DOMAIN K)
    BY <2>1, FS_Interval
  <2>3. New(c) \cap Known(board[m]) = {}
    <3>1. In(m) \cap Known(board[m]) = {}
      BY DEF TidyWith, Neatly
    <3>2. New(c) \subseteq In(m)
      BY <1>4, <1>5 DEF In
    <3> QED BY <3>1, <3>2
  <2> QED BY <1>5, <1>6, <2>1, <2>2, <2>3, ApplyClean
<1> HIDE DEF b
<1>8. Clean(b, K) /\ Known(b) \subseteq Known(board[m]) \cup Said(c) /\ Held(b) \subseteq Held(board[m])
  BY <1>7 DEF Becomes
<1>9. Said(c) \subseteq InSaid(m)
  BY <1>4, <1>5 DEF InSaid
<1>10. \A n \in Members : /\ In(n)' \subseteq In(n) /\ InSaid(n)' \subseteq InSaid(n)
                          /\ Out(n)' = Out(n) /\ OutSaid(n)' = OutSaid(n)
                          /\ Held(board'[n]) \subseteq Held(board[n])
                          /\ n # m => Known(board'[n]) = Known(board[n])
  <2>1. ASSUME NEW n \in Members
        PROVE  News(dataQueue'[n]) \subseteq News(dataQueue[n]) /\ AllSaid(dataQueue'[n]) \subseteq AllSaid(dataQueue[n])
    BY <1>2, <1>4
  <2>2. ASSUME NEW n \in Members PROVE Out(n)' = Out(n) /\ OutSaid(n)' = OutSaid(n)
    BY <1>1 DEF Out, OutSaid
  <2> QED BY <1>1, <1>2, <1>8, <2>1, <2>2 DEF In, InSaid
<1>11. Commands(K)'
  BY <1>1, <1>2, <1>4 DEF TidyWith, Commands
<1>12. SendIsFirst'
  BY <1>1 DEF TidyWith, SendIsFirst
<1>13. Boards(K)'
  BY <1>2, <1>8 DEF TidyWith, Boards
<1>14. Neatly'
  <2>1. ASSUME NEW n \in Members PROVE InNeat(n)' /\ OutNeat(n)' /\ In(n)' \cap Known(board'[n]) = {}
    <3>1. InNeat(n) /\ OutNeat(n) /\ In(n) \cap Known(board[n]) = {}
      BY DEF TidyWith, Neatly
    <3>2. OutNeat(n)'
      BY <1>1, <3>1 DEF OutNeat
    <3>3. CASE n # m
      BY <1>1, <1>2, <1>10, <3>1, <3>2, <3>3 DEF InNeat
    <3>4. CASE n = m
      <4>1. InNeat(n)'
        BY <1>1, <1>3, <1>4, <3>4 DEF InNeat
      <4>2. In(m)' \cap Said(c) = {}
        BY <1>1, <1>3, <1>4, <1>5 DEF In
      <4> QED BY <1>2, <1>8, <1>10, <3>1, <3>2, <3>4, <4>1, <4>2
    <3> QED BY <3>3, <3>4
  <2> QED BY <2>1 DEF Neatly
<1>15. Apart'
  <2>1. ASSUME NEW n \in Members, NEW k \in Members
        PROVE  /\ Out(k)' \cap InSaid(n)' = {}
               /\ Held(board'[k]) \cap InSaid(n)' = {} /\ Held(board'[k]) \cap OutSaid(n)' = {}
               /\ n # k => /\ Out(k)' \cap Known(board'[n]) = {} /\ Out(k)' \cap OutSaid(n)' = {}
                           /\ Held(board'[k]) \cap Known(board'[n]) = {}
    <3>1. /\ Out(k) \cap InSaid(n) = {}
          /\ Held(board[k]) \cap InSaid(n) = {} /\ Held(board[k]) \cap OutSaid(n) = {}
          /\ n # k => /\ Out(k) \cap Known(board[n]) = {} /\ Out(k) \cap OutSaid(n) = {}
                      /\ Held(board[k]) \cap Known(board[n]) = {}
      BY DEF TidyWith, Apart
    <3>2. CASE n # m
      BY <1>10, <3>1, <3>2
    <3>3. CASE n = m
      <4>1. Out(k) \cap Said(c) = {} /\ Held(board[k]) \cap Said(c) = {}
        BY <1>9, <3>1, <3>3
      <4> QED BY <1>2, <1>8, <1>10, <3>1, <3>3, <4>1
    <3> QED BY <3>2, <3>3
  <2> QED BY <2>1 DEF Apart
<1> QED BY <1>11, <1>12, <1>13, <1>14, <1>15 DEF TidyWith

\* The full data of a board that holds nothing back is sent to a newcomer.
LEMMA ServeTidy ==
    ASSUME Inv, NEW K \in Kinds, TidyWith(K), NEW m \in Members, DataTask(m), Head(dataQueue[m]).kind = "GET_ALL_PAGES",
           board[m].eraserAdded = <<>>, board' = board,
           NEW to, up' = [up EXCEPT ![m] = Append(@, [kind |-> "UNICAST", to |-> to, cmd |-> FullSync(board[m])])]
    PROVE  TidyWith(K)'
<1> DEFINE t == Head(dataQueue[m])
           c == FullSync(board[m])
           f == [kind |-> "UNICAST", to |-> to, cmd |-> c]
<1>1. /\ dataQueue[m] # <<>> /\ dataQueue' = [dataQueue EXCEPT ![m] = Tail(@)]
      /\ outbox' = outbox /\ apiQueue' = apiQueue /\ down' = down /\ outbox[m] = <<>>
  BY DEF DataTask, DataFree
<1>2. f.kind = "UNICAST" /\ f.cmd = c /\ up' = [up EXCEPT ![m] = Append(@, f)]
  OBVIOUS
<1>3. c.type = "FullSync" /\ c.pages = board[m].pages
  BY DEF FullSync
<1> HIDE DEF f, c
<1>4. /\ dataQueue'[m] = Tail(dataQueue[m]) /\ \A n \in Members \ {m} : dataQueue'[n] = dataQueue[n]
      /\ up'[m] = Append(up[m], f) /\ \A n \in Members \ {m} : up'[n] = up[n]
  <2>1. PerMember(dataQueue) /\ PerMember(up)
    BY Lists
  <2> QED BY <1>1, <1>2, <2>1 DEF PerMember
<1>5. /\ AllProper(dataQueue[m], K) /\ Neat(dataQueue[m]) /\ AllProper(up[m], K) /\ Neat(up[m])
      /\ IsList(dataQueue[m]) /\ IsList(up[m])
  BY Standing
<1>6. /\ News(dataQueue'[m]) \subseteq News(dataQueue[m]) /\ AllSaid(dataQueue'[m]) \subseteq AllSaid(dataQueue[m])
      /\ Neat(dataQueue'[m]) /\ AllProper(dataQueue'[m], K)
  BY <1>1, <1>4, <1>5, QueueLess
<1>7. New(c) = {} /\ Said(c) \subseteq Known(board[m]) /\ Proper(c, K)
  <2>1. Range(c.pages) \subseteq Sheets(board[m])
    BY <1>3 DEF Sheets
  <2>2. \A p \in Range(c.pages) : Distinct(p.elements, K)
    BY <2>1, OwnBoard DEF Clean
  <2>3. IdsOn(Range(c.pages)) \subseteq Known(board[m])
    BY <2>1 DEF IdsOn, Known
  <2> QED BY <1>3, <2>2, <2>3 DEF New, Said, Proper
<1>8. NewIn(f) = {} /\ SaidIn(f) = Said(c) /\ ProperIn(f, K)
  BY <1>2, <1>3, <1>7 DEF NewIn, SaidIn, ProperIn, Bearing
<1>9. /\ News(Append(up[m], f)) = News(up[m]) \cup NewIn(f) /\ AllSaid(Append(up[m], f)) = AllSaid(up[m]) \cup SaidIn(f)
      /\ Neat(up[m]) /\ NewIn(f) \cap AllSaid(up[m]) = {} => Neat(Append(up[m], f))
      /\ \A J : AllProper(up[m], J) /\ ProperIn(f, J) => AllProper(Append(up[m], f), J)
  BY <1>5, QueueMore
<1>10. /\ News(up'[m]) = News(up[m]) /\ AllSaid(up'[m]) = AllSaid(up[m]) \cup Said(c)
       /\ Neat(up'[m]) /\ AllProper(up'[m], K)
  BY <1>4, <1>5, <1>8, <1>9
<1>11. \A n \in Members : /\ In(n)' \subseteq In(n) /\ InSaid(n)' \subseteq InSaid(n)
                          /\ Out(n)' = Out(n) /\ OutSaid(n)' \subseteq OutSaid(n) \cup Known(board[m])
                          /\ n # m => OutSaid(n)' = OutSaid(n)
  <2>1. ASSUME NEW n \in Members
        PROVE  /\ News(dataQueue'[n]) \subseteq News(dataQueue[n]) /\ AllSaid(dataQueue'[n]) \subseteq AllSaid(dataQueue[n])
               /\ News(up'[n]) = News(up[n]) /\ AllSaid(up'[n]) \subseteq AllSaid(up[n]) \cup Known(board[m])
               /\ n # m => AllSaid(up'[n]) = AllSaid(up[n])
    BY <1>4, <1>6, <1>7, <1>10
  <2>2. ASSUME NEW n \in Members PROVE In(n)' \subseteq In(n) /\ InSaid(n)' \subseteq InSaid(n)
    BY <1>1, <2>1 DEF In, InSaid
  <2>3. ASSUME NEW n \in Members PROVE /\ Out(n)' = Out(n) /\ OutSaid(n)' \subseteq OutSaid(n) \cup Known(board[m])
                                       /\ n # m => OutSaid(n)' = OutSaid(n)
    BY <1>1, <2>1 DEF Out, OutSaid
  <2> QED BY <2>2, <2>3
<1>12. Commands(K)'
  <2>1. ASSUME NEW n \in Members
        PROVE  /\ AllProper(dataQueue'[n], K) /\ AllProper(apiQueue'[n], K) /\ AllProper(down'[n], K)
               /\ AllProper(up'[n], K) /\ AllProper(Wrapped(outbox'[n]), K)
    <3>1. /\ AllProper(dataQueue[n], K) /\ AllProper(apiQueue[n], K) /\ AllProper(down[n], K)
          /\ AllProper(up[n], K) /\ AllProper(Wrapped(outbox[n]), K)
      BY DEF TidyWith, Commands
    <3> QED BY <1>1, <1>4, <1>6, <1>10, <3>1
  <2> QED BY <2>1 DEF Commands
<1>13. SendIsFirst'
  BY <1>1 DEF TidyWith, SendIsFirst
<1>14. Boards(K)'
  BY DEF TidyWith, Boards
<1>15. Neatly'
  <2>1. ASSUME NEW n \in Members PROVE InNeat(n)' /\ OutNeat(n)' /\ In(n)' \cap Known(board'[n]) = {}
    <3>1. InNeat(n) /\ OutNeat(n) /\ In(n) \cap Known(board[n]) = {}
      BY DEF TidyWith, Neatly
    <3>2. InNeat(n)'
      <4>1. Neat(dataQueue'[n]) /\ AllSaid(dataQueue'[n]) \subseteq AllSaid(dataQueue[n])
        BY <1>4, <1>6, <3>1 DEF InNeat
      <4> QED BY <1>1, <3>1, <4>1 DEF InNeat
    <3>3. CASE n # m
      <4>1. up'[n] = up[n] /\ outbox'[n] = outbox[n]
        BY <1>1, <1>4, <3>3
      <4>2. OutNeat(n)'
        BY <3>1, <4>1 DEF OutNeat
      <4> QED BY <1>11, <3>1, <3>2, <4>2
    <3>4. CASE n = m
      <4>1. News(Wrapped(outbox'[m])) = {}
        <5>1. outbox'[m] = <<>>
          BY <1>1
        <5> QED BY <5>1, QueueEmpty, WrappedIs
      <4>2. Neat(Wrapped(outbox'[m]))
        BY <1>1, QueueEmpty, WrappedIs
      <4>3. OutNeat(n)'
        BY <1>10, <3>4, <4>1, <4>2 DEF OutNeat
      <4> QED BY <1>11, <3>1, <3>2, <4>3
    <3> QED BY <3>3, <3>4
  <2> QED BY <2>1 DEF Neatly
<1>16. Apart'
  <2>1. ASSUME NEW n \in Members, NEW k \in Members
        PROVE  /\ Out(k)' \cap InSaid(n)' = {}
               /\ Held(board'[k]) \cap InSaid(n)' = {} /\ Held(board'[k]) \cap OutSaid(n)' = {}
               /\ n # k => /\ Out(k)' \cap Known(board'[n]) = {} /\ Out(k)' \cap OutSaid(n)' = {}
                           /\ Held(board'[k]) \cap Known(board'[n]) = {}
    <3>1. /\ Out(k) \cap InSaid(n) = {}
          /\ Held(board[k]) \cap InSaid(n) = {} /\ Held(board[k]) \cap OutSaid(n) = {}
          /\ n # k => /\ Out(k) \cap Known(board[n]) = {} /\ Out(k) \cap OutSaid(n) = {}
                      /\ Held(board[k]) \cap Known(board[n]) = {}
      BY DEF TidyWith, Apart
    <3>2. CASE n # m
      BY <1>11, <3>1, <3>2
    <3>3. CASE n = m /\ k # m
      BY <1>11, <3>1, <3>3
    <3>4. CASE n = m /\ k = m
      <4>1. Held(board[k]) = {}
        BY <3>4 DEF Held, ElementIds
      <4> QED BY <1>11, <3>1, <3>4, <4>1
    <3> QED BY <3>2, <3>3, <3>4
  <2> QED BY <2>1 DEF Apart
<1> QED BY <1>12, <1>13, <1>14, <1>15, <1>16 DEF TidyWith

\* A task of the data thread.
LEMMA DataTidy ==
    ASSUME Inv, NEW K \in Kinds, TidyWith(K), NEW m \in Members, DataTask(m)
    PROVE  Tidy'
<1> DEFINE task == Head(dataQueue[m])
<1>1. /\ dataQueue[m] # <<>> /\ dataQueue' = [dataQueue EXCEPT ![m] = Tail(@)]
      /\ outbox' = outbox /\ apiQueue' = apiQueue /\ down' = down /\ nextId' = nextId
      /\ torn' = (torn \/ (task.kind = "GET_ALL_PAGES" /\ board[m].eraserAdded # <<>>))
  BY DEF DataTask
<1>2. CASE task.kind = "SET_CALLBACK" /\ UNCHANGED <<board, up>>
  <2>1. /\ dataQueue'[m] = Tail(dataQueue[m]) /\ \A n \in Members \ {m} : dataQueue'[n] = dataQueue[n]
    <3>1. PerMember(dataQueue)
      BY Lists
    <3> QED BY <1>1, <3>1 DEF PerMember
  <2>2. /\ AllProper(dataQueue[m], K) /\ Neat(dataQueue[m]) /\ IsList(dataQueue[m])
        /\ AllProper(apiQueue[m], K) /\ AllProper(down[m], K)
        /\ \A i \in DOMAIN apiQueue[m] : apiQueue[m][i].kind = "SEND" => apiQueue[m][i].cmd = outbox[m][1]
    BY Standing
  <2>3. /\ News(dataQueue'[m]) \subseteq News(dataQueue[m]) /\ AllSaid(dataQueue'[m]) \subseteq AllSaid(dataQueue[m])
        /\ Neat(dataQueue'[m]) /\ AllProper(dataQueue'[m], K)
    BY <1>1, <2>1, <2>2, QueueLess
  <2>4. InNeat(m)
    BY DEF TidyWith, Neatly
  <2>5. InNeat(m)'
    BY <1>1, <2>3, <2>4 DEF InNeat
  <2>6. In(m)' \subseteq In(m) /\ InSaid(m)' \subseteq InSaid(m)
    BY <1>1, <2>3 DEF In, InSaid
  <2> QED BY <1>1, <1>2, <2>1, <2>2, <2>3, <2>5, <2>6, InMoves
<1>3. CASE task.kind = "APPLY" /\ board' = [board EXCEPT ![m] = Apply(@, task.cmd)] /\ up' = up
  <2>1. TidyWith(K)'
    BY <1>3, ApplyTidy
  <2> QED BY <1>1, <2>1, TidyStays
<1>4. CASE /\ task.kind = "GET_ALL_PAGES" /\ board' = board
           /\ up' = [up EXCEPT ![m] =
                        Append(@, [kind |-> "UNICAST", to |-> serving[m], cmd |-> FullSync(board[m])])]
  <2>1. CASE board[m].eraserAdded = <<>>
    <3>1. TidyWith(K)'
      BY <1>4, <2>1, ServeTidy
    <3> QED BY <1>1, <3>1, TidyStays
  <2>2. CASE board[m].eraserAdded # <<>>
    BY <1>1, <1>4, <2>2 DEF Tidy
  <2> QED BY <2>1, <2>2
<1> QED BY <1>2, <1>3, <1>4 DEF DataTask

\* The server takes a frame of m and passes it on to some members, to m itself
\* only if there is nothing new in it.
LEMMA RelayTidy ==
    ASSUME Inv, NEW K \in Kinds, TidyWith(K), NEW m \in Members, up[m] # <<>>, up' = [up EXCEPT ![m] = Tail(@)],
           board' = board /\ outbox' = outbox /\ dataQueue' = dataQueue /\ apiQueue' = apiQueue,
           NEW S, NEW x, \A n \in Members : down'[n] = IF n \in S THEN Append(down[n], x) ELSE down[n],
           NewIn(x) \subseteq NewIn(Head(up[m])), SaidIn(x) \subseteq SaidIn(Head(up[m])), ProperIn(x, K),
           m \in S => NewIn(x) = {}
    PROVE  TidyWith(K)'
<1> DEFINE t == Head(up[m])
<1>1. NewIn(x) \subseteq NewIn(t) /\ SaidIn(x) \subseteq SaidIn(t)
  OBVIOUS
<1>2. up'[m] = Tail(up[m]) /\ \A n \in Members \ {m} : up'[n] = up[n]
  <2>1. PerMember(up)
    BY Lists
  <2> QED BY <2>1 DEF PerMember
<1>3. /\ AllProper(up[m], K) /\ Neat(up[m]) /\ IsList(up[m]) /\ News(Wrapped(outbox[m])) \cap AllSaid(up[m]) = {}
  BY Standing
<1>4. /\ News(up[m]) = NewIn(t) \cup News(up'[m]) /\ AllSaid(up[m]) = SaidIn(t) \cup AllSaid(up'[m])
      /\ Neat(up'[m]) /\ News(up'[m]) \cap SaidIn(t) = {} /\ AllProper(up'[m], K)
  BY <1>2, <1>3, QueueLess
<1> HIDE DEF t
<1>5. NewIn(t) \subseteq Out(m) /\ SaidIn(t) \subseteq OutSaid(m)
      /\ Out(m)' \subseteq Out(m) /\ OutSaid(m)' \subseteq OutSaid(m) /\ Out(m)' \cap SaidIn(t) = {}
  BY <1>3, <1>4 DEF Out, OutSaid
<1>6. \A n \in Members : n # m => Out(n)' = Out(n) /\ OutSaid(n)' = OutSaid(n)
  <2>1. ASSUME NEW n \in Members, n # m PROVE Out(n)' = Out(n) /\ OutSaid(n)' = OutSaid(n)
    <3>1. up'[n] = up[n]
      BY <1>2, <2>1
    <3> QED BY <3>1 DEF Out, OutSaid
  <2> QED BY <2>1
<1>7. \A n, k \in Members :
        /\ Out(k) \cap InSaid(n) = {}
        /\ Held(board[k]) \cap InSaid(n) = {} /\ Held(board[k]) \cap OutSaid(n) = {}
        /\ n # k => /\ Out(k) \cap Known(board[n]) = {} /\ Out(k) \cap OutSaid(n) = {}
                    /\ Held(board[k]) \cap Known(board[n]) = {}
  BY DEF TidyWith, Apart
<1>8. ASSUME NEW n \in Members
      PROVE  /\ News(down'[n]) \subseteq News(down[n]) \cup NewIn(x) /\ AllSaid(down'[n]) \subseteq AllSaid(down[n]) \cup SaidIn(x)
             /\ Neat(down'[n]) /\ AllProper(down'[n], K)
             /\ n = m => News(down'[n]) \subseteq News(down[n])
  <2>1. AllProper(down[n], K) /\ Neat(down[n]) /\ IsList(down[n])
    BY Standing
  <2>2. NewIn(x) \cap AllSaid(down[n]) = {}
    <3>1. AllSaid(down[n]) \subseteq InSaid(n)
      BY DEF InSaid
    <3> QED BY <1>1, <1>5, <1>7, <3>1
  <2>3. /\ News(Append(down[n], x)) = News(down[n]) \cup NewIn(x) /\ AllSaid(Append(down[n], x)) = AllSaid(down[n]) \cup SaidIn(x)
        /\ Neat(down[n]) /\ NewIn(x) \cap AllSaid(down[n]) = {} => Neat(Append(down[n], x))
        /\ \A J : AllProper(down[n], J) /\ ProperIn(x, J) => AllProper(Append(down[n], x), J)
    BY <2>1, QueueMore
  <2>4. CASE n \in S
    <3>1. down'[n] = Append(down[n], x)
      BY <2>4
    <3>2. Neat(Append(down[n], x)) /\ AllProper(Append(down[n], x), K)
      BY <2>1, <2>2, <2>3
    <3> QED BY <2>3, <2>4, <3>1, <3>2
  <2>5. CASE n \notin S
    BY <2>1, <2>5
  <2> QED BY <2>4, <2>5
<1>9. ASSUME NEW n \in Members
      PROVE  In(n)' \subseteq In(n) \cup NewIn(x) /\ InSaid(n)' \subseteq InSaid(n) \cup SaidIn(x)
             /\ (n = m => In(n)' \subseteq In(n))
  BY <1>8 DEF In, InSaid
<1>10. Commands(K)'
  <2>1. ASSUME NEW n \in Members
        PROVE  /\ AllProper(dataQueue'[n], K) /\ AllProper(apiQueue'[n], K) /\ AllProper(down'[n], K)
               /\ AllProper(up'[n], K) /\ AllProper(Wrapped(outbox'[n]), K)
    <3>1. /\ AllProper(dataQueue[n], K) /\ AllProper(apiQueue[n], K)
          /\ AllProper(up[n], K) /\ AllProper(Wrapped(outbox[n]), K)
      BY DEF TidyWith, Commands
    <3>2. AllProper(up'[n], K)
      BY <1>2, <1>4, <3>1
    <3> QED BY <1>8, <3>1, <3>2
  <2> QED BY <2>1 DEF Commands
<1>11. SendIsFirst' /\ Boards(K)'
  BY DEF TidyWith, SendIsFirst, Boards
<1>12. Neatly'
  <2>1. ASSUME NEW n \in Members PROVE InNeat(n)' /\ OutNeat(n)' /\ In(n)' \cap Known(board'[n]) = {}
    <3>1. InNeat(n) /\ OutNeat(n) /\ In(n) \cap Known(board[n]) = {}
      BY DEF TidyWith, Neatly
    <3>2. InNeat(n)'
      <4>1. NewIn(x) \cap (AllSaid(dataQueue[n]) \cup AllSaid(apiQueue[n])) = {}
        <5>1. AllSaid(dataQueue[n]) \cup AllSaid(apiQueue[n]) \subseteq InSaid(n)
          BY DEF InSaid
        <5> QED BY <1>1, <1>5, <1>7, <5>1
      <4>2. News(down[n]) \cap (AllSaid(dataQueue[n]) \cup AllSaid(apiQueue[n])) = {}
        BY <3>1 DEF InNeat
      <4>3. News(down'[n]) \cap (AllSaid(dataQueue[n]) \cup AllSaid(apiQueue[n])) = {}
        BY <1>8, <4>1, <4>2
      <4> QED BY <1>8, <3>1, <4>3 DEF InNeat
    <3>3. OutNeat(n)'
      <4>1. CASE n # m
        <5>1. up'[n] = up[n]
          BY <1>2, <4>1
        <5> QED BY <3>1, <5>1 DEF OutNeat
      <4>2. CASE n = m
        <5>1. Neat(up'[m]) /\ AllSaid(up'[m]) \subseteq AllSaid(up[m])
          BY <1>4
        <5>2. News(Wrapped(outbox[m])) \cap AllSaid(up'[m]) = {}
          BY <1>3, <5>1
        <5> QED BY <3>1, <4>2, <5>1, <5>2 DEF OutNeat
      <4> QED BY <4>1, <4>2
    <3>4. In(n)' \cap Known(board[n]) = {}
      BY <1>1, <1>5, <1>7, <1>9, <3>1
    <3> QED BY <3>2, <3>3, <3>4
  <2> QED BY <2>1 DEF Neatly
<1>13. Apart'
  <2>1. ASSUME NEW n \in Members, NEW k \in Members
        PROVE  /\ Out(k)' \cap InSaid(n)' = {}
               /\ Held(board'[k]) \cap InSaid(n)' = {} /\ Held(board'[k]) \cap OutSaid(n)' = {}
               /\ n # k => /\ Out(k)' \cap Known(board'[n]) = {} /\ Out(k)' \cap OutSaid(n)' = {}
                           /\ Held(board'[k]) \cap Known(board'[n]) = {}
    <3>1. /\ Out(k) \cap InSaid(n) = {}
          /\ Held(board[k]) \cap InSaid(n) = {} /\ Held(board[k]) \cap OutSaid(n) = {}
          /\ n # k => /\ Out(k) \cap Known(board[n]) = {} /\ Out(k) \cap OutSaid(n) = {}
                      /\ Held(board[k]) \cap Known(board[n]) = {}
      BY <1>7
    <3>2. Out(k)' \subseteq Out(k) /\ OutSaid(n)' \subseteq OutSaid(n)
      BY <1>5, <1>6
    <3>3. Out(k)' \cap SaidIn(t) = {}
      BY <1>5, <1>6, <1>7
    <3>4. Held(board[k]) \cap SaidIn(t) = {}
      BY <1>5, <1>7
    <3> QED BY <1>1, <1>9, <3>1, <3>2, <3>3, <3>4
  <2> QED BY <2>1 DEF Apart
<1> QED BY <1>10, <1>11, <1>12, <1>13 DEF TidyWith

\* The server relays a frame.
LEMMA ServerTidy ==
    ASSUME Inv, NEW K \in Kinds, TidyWith(K), NEW m \in Members, ServerTask(m)
    PROVE  Tidy'
<1> DEFINE t == Head(up[m])
<1>1. /\ up[m] # <<>> /\ up' = [up EXCEPT ![m] = Tail(@)]
      /\ board' = board /\ outbox' = outbox /\ dataQueue' = dataQueue /\ apiQueue' = apiQueue /\ nextId' = nextId
  BY DEF ServerTask, boardVars, dataVars, apiVars
<1>2. PerMember(down)
  BY Lists
<1>3. ProperIn(t, K)
  <2>1. AllProper(up[m], K) /\ IsList(up[m])
    BY Standing
  <2> QED BY <1>1, <2>1, QueueLess
<1>4. CASE HandleJoin(m)
  <2> DEFINE x == Asked(m)
             S == {Head(order)}
  <2>1. x.kind \notin Bearing
    BY DEF Asked, Bearing
  <2>2. down' = [down EXCEPT ![Head(order)] = Append(@, x)]
    BY <1>4 DEF HandleJoin
  <2> HIDE DEF x, t
  <2>3. NewIn(x) = {} /\ SaidIn(x) = {} /\ ProperIn(x, K)
    BY <2>1, TaskSays
  <2>4. \A n \in Members : down'[n] = IF n \in S THEN Append(down[n], x) ELSE down[n]
    BY <1>2, <2>2 DEF PerMember
  <2> HIDE DEF S
  <2>5. TidyWith(K)'
    <3>1. NewIn(x) \subseteq NewIn(Head(up[m])) /\ SaidIn(x) \subseteq SaidIn(Head(up[m])) /\ (m \in S => NewIn(x) = {})
      BY <2>3
    <3> QED BY <1>1, <2>3, <2>4, <3>1, RelayTidy
  <2> QED BY <1>1, <2>5, TidyStays
<1>5. ASSUME t.kind \in {"BROADCAST", "UNICAST"}
      PROVE  LET x == Message(t.cmd)
             IN NewIn(x) = NewIn(t) /\ SaidIn(x) = SaidIn(t) /\ ProperIn(x, K)
  <2> DEFINE x == Message(t.cmd)
  <2>1. t.kind \in Bearing /\ x.kind \in Bearing \ {"UNICAST"} /\ x.cmd = t.cmd
    BY <1>5 DEF Message, Bearing
  <2> HIDE DEF x, t
  <2>2. NewIn(x) = NewIn(t) /\ SaidIn(x) = SaidIn(t) /\ ProperIn(x, K)
    BY <1>3, <2>1, TaskSays
  <2> QED BY <2>2 DEF x
<1>6. CASE t.kind = "BROADCAST" /\ HandleBroadcast(m, t.cmd)
  <2> DEFINE x == Message(t.cmd)
             S == Range(order) \ {m}
  <2>1. NewIn(x) = NewIn(t) /\ SaidIn(x) = SaidIn(t) /\ ProperIn(x, K)
    BY <1>5, <1>6
  <2>2. \A n \in Members : down'[n] = IF n \in S THEN Append(down[n], x) ELSE down[n]
    BY <1>6 DEF HandleBroadcast
  <2>3. m \notin S
    OBVIOUS
  <2> HIDE DEF x, S
  <2>4. TidyWith(K)'
    BY <1>1, <2>1, <2>2, <2>3, RelayTidy
  <2> QED BY <1>1, <2>4, TidyStays
<1>7. CASE t.kind = "UNICAST" /\ HandleUnicast(t.to, t.cmd)
  <2> DEFINE x == Message(t.cmd)
             S == {t.to}
  <2>1. NewIn(x) = NewIn(t) /\ SaidIn(x) = SaidIn(t) /\ ProperIn(x, K)
    BY <1>5, <1>7
  <2>2. NewIn(t) = {}
    BY <1>3, <1>7 DEF ProperIn, NewIn, New
  <2>3. down' = [down EXCEPT ![t.to] = Append(@, x)]
    BY <1>7 DEF HandleUnicast
  <2> HIDE DEF x
  <2>4. \A n \in Members : down'[n] = IF n \in S THEN Append(down[n], x) ELSE down[n]
    BY <1>2, <2>3 DEF PerMember
  <2> HIDE DEF S
  <2>5. TidyWith(K)'
    BY <1>1, <2>1, <2>2, <2>4, RelayTidy
  <2> QED BY <1>1, <2>5, TidyStays
<1> QED BY <1>4, <1>6, <1>7 DEF ServerTask

\* What a user does is an operation, and the full data is not read by it.
LEMMA OperateStill ==
    ASSUME NEW m, NEW b, NEW cmds, NEW used, Operate(m, b, cmds, used) PROVE torn' = torn
BY DEF Operate

\* No operation of a user reads the full data.
LEMMA UserStill == ASSUME NEW m \in Members, UserStep(m) PROVE torn' = torn
<1>1. CASE \E s \in Sessions : DoPenBegin(m, s) \/ DoPenEnd(m, s)
  BY <1>1, OperateStill, Zenon DEF DoPenBegin, DoPenEnd
<1>2. CASE \E s \in Sessions : DoEraserBegin(m, s) \/ DoEraserMove(m, s) \/ DoEraserEnd(m, s)
  BY <1>2, OperateStill, Zenon DEF DoEraserBegin, DoEraserMove, DoEraserEnd
<1>3. CASE DoEraseRegion(m) \/ DoClear(m) \/ DoAddElement(m) \/ DoRemoveElements(m)
  BY <1>3, OperateStill, Zenon DEF DoEraseRegion, DoClear, DoAddElement, DoRemoveElements
<1>4. CASE DoUpdate(m) \/ DoBatch(m) \/ DoUndoRedo(m)
  BY <1>4, OperateStill, Zenon DEF DoUpdate, DoBatch, DoUndoRedo
<1>5. CASE DoCreatePage(m) \/ DoSelectPage(m) \/ DoDeletePage(m) \/ DoCopyPage(m)
  BY <1>5, OperateStill, Zenon DEF DoCreatePage, DoSelectPage, DoDeletePage, DoCopyPage
<1> QED BY <1>1, <1>2, <1>3, <1>4, <1>5 DEF UserStep

\* What has been read in the middle of a drag stays read.
LEMMA StillTorn == ASSUME torn, [Next]_vars PROVE torn'
<1>1. CASE UNCHANGED vars
  BY <1>1 DEF vars, historyVars
<1>2. CASE Next
  <2>1. PICK m \in Members : UserStep(m) \/ Start(m) \/ ThreadStep(m)
    BY <1>2 DEF Next
  <2>2. CASE UserStep(m)
    BY <2>2, UserStill
  <2>3. CASE Start(m) \/ OnConnected(m) \/ OnMessage(m) \/ ApiTask(m)
    BY <2>3 DEF Start, OnConnected, OnMessage, ApiTask, historyVars
  <2>4. CASE DataTask(m)
    BY <2>4 DEF DataTask
  <2>5. CASE ServerTask(m)
    BY <2>5 DEF ServerTask
  <2> QED BY <2>1, <2>2, <2>3, <2>4, <2>5 DEF ThreadStep
<1> QED BY <1>1, <1>2

\* Every step keeps the boards and what is said about them tidy.
LEMMA TidyKeeps ==
    ASSUME DistinctStamps, Inv, Tidy, [Next]_vars
    PROVE  Tidy'
<1>1. CASE torn
  BY <1>1, StillTorn DEF Tidy
<1>2. CASE ~torn
  <2>1. PICK K \in Kinds : TidyWith(K)
    BY <1>2 DEF Tidy
  <2>2. CASE UNCHANGED vars
    <3>1. /\ board' = board /\ nextId' = nextId /\ dataQueue' = dataQueue /\ outbox' = outbox
          /\ apiQueue' = apiQueue /\ up' = up /\ down' = down
      BY <2>2 DEF vars, boardVars, dataVars, apiVars, netVars
    <3>2. TidyWith(K)'
      <4>1. Commands(K)' /\ SendIsFirst' /\ Boards(K)'
        BY <2>1, <3>1 DEF TidyWith, Commands, SendIsFirst, Boards
      <4>2. ASSUME NEW n \in Members
            PROVE  /\ In(n)' = In(n) /\ InSaid(n)' = InSaid(n) /\ Out(n)' = Out(n) /\ OutSaid(n)' = OutSaid(n)
                   /\ InNeat(n) => InNeat(n)'
                   /\ OutNeat(n) => OutNeat(n)'
        BY <3>1 DEF In, InSaid, Out, OutSaid, InNeat, OutNeat
      <4>3. Neatly'
        BY <2>1, <3>1, <4>2 DEF TidyWith, Neatly
      <4>4. Apart'
        BY <2>1, <3>1, <4>2 DEF TidyWith, Apart
      <4> QED BY <4>1, <4>3, <4>4 DEF TidyWith
    <3> QED BY <3>1, <3>2, TidyStays
  <2>3. CASE Next
    <3>1. PICK m \in Members : UserStep(m) \/ Start(m) \/ ThreadStep(m)
      BY <2>3 DEF Next
    <3>2. CASE UserStep(m)
      BY <2>1, <3>2, UserTidy
    <3>3. CASE Start(m) \/ OnConnected(m)
      BY <2>1, <3>3, JoinTidy
    <3>4. CASE DataTask(m)
      BY <2>1, <3>4, DataTidy
    <3>5. CASE ApiTask(m)
      BY <2>1, <3>5, ApiTidy
    <3>6. CASE OnMessage(m)
      BY <2>1, <3>6, MessageTidy
    <3>7. CASE ServerTask(m)
      BY <2>1, <3>7, ServerTidy
    <3> QED BY <3>1, <3>2, <3>3, <3>4, <3>5, <3>6, <3>7 DEF ThreadStep
  <2> QED BY <2>2, <2>3
<1> QED BY <1>1, <1>2

\* In the beginning nothing is on a board, and nothing on its way.
LEMMA InitTidy == Init => Tidy
<1> SUFFICES ASSUME Init PROVE Tidy
  OBVIOUS
<1> DEFINE K == [i \in 1 .. nextId - 1 |-> FALSE]
<1>1. K \in Kinds
  BY DEF Kinds
<1> HIDE DEF K
<1>2. ASSUME NEW m \in Members
      PROVE  /\ dataQueue[m] = <<>> /\ outbox[m] = <<>> /\ apiQueue[m] = <<>> /\ up[m] = <<>> /\ down[m] = <<>>
             /\ Wrapped(outbox[m]) = <<>> /\ DOMAIN apiQueue[m] = {}
  BY WrappedIs DEF Init
<1>3. News(<<>>) = {} /\ AllSaid(<<>>) = {} /\ Neat(<<>>) /\ AllProper(<<>>, K)
  BY QueueEmpty
<1>4. ASSUME NEW p
      PROVE  Clean(NewBoard(p), K) /\ Known(NewBoard(p)) = {} /\ Held(NewBoard(p)) = {}
  <2> DEFINE b == NewBoard(p)
             new == Page(p, <<>>)
  <2>1. /\ b.pages = <<new>> /\ b.histories = <<>> /\ b.strokes = {} /\ b.eraserRemoved = {}
        /\ b.eraserAdded = <<>> /\ new.elements = <<>>
    BY DEF NewBoard, Page
  <2> HIDE DEF b, new
  <2>2. DOMAIN b.histories = {} /\ Range(b.pages) = {new}
    <3>1. IsList(<<new>>) /\ Len(<<new>>) = 1 /\ <<new>>[1] = new
      BY OneList
    <3>2. DOMAIN <<new>> = 1 .. 1
      BY <3>1, ListIs
    <3>3. DOMAIN b.histories = {}
      BY <2>1
    <3> QED BY <2>1, <3>1, <3>2, <3>3 DEF Range
  <2>3. \A q \in Sheets(b) : q = new
    BY <2>2 DEF Sheets
  <2>4. Distinct(<<>>, K) /\ ElementIds(<<>>) = {}
    BY NoneDistinct
  <2>5. IdsOn(Sheets(b)) = {} /\ Drawn(b) = {} /\ Held(b) = {}
    BY <2>1, <2>3, <2>4 DEF IdsOn, Drawn, Held
  <2>6. Clean(b, K)
    BY <2>1, <2>3, <2>4, <2>5 DEF Clean
  <2>7. Clean(b, K) /\ Known(b) = {} /\ Held(b) = {}
    BY <2>5, <2>6 DEF Known
  <2> QED BY <2>7 DEF b
<1>5. ASSUME NEW m \in Members
      PROVE  Clean(board[m], K) /\ Known(board[m]) = {} /\ Held(board[m]) = {}
  <2>1. PICK page \in [Members -> 1 .. Cardinality(Members)] : board = [n \in Members |-> NewBoard(page[n])]
    BY DEF Init
  <2> QED BY <1>4, <2>1
<1>6. \A m \in Members : /\ In(m) = {} /\ InSaid(m) = {} /\ Out(m) = {} /\ OutSaid(m) = {}
                         /\ InNeat(m) /\ OutNeat(m)
  BY <1>2, <1>3 DEF In, InSaid, Out, OutSaid, InNeat, OutNeat
<1>7. Commands(K)
  BY <1>2, <1>3 DEF Commands
<1>8. SendIsFirst
  BY <1>2 DEF SendIsFirst
<1>9. Boards(K) /\ Neatly /\ Apart
  BY <1>5, <1>6 DEF Boards, Neatly, Apart
<1>10. TidyWith(K)
  BY <1>7, <1>8, <1>9 DEF TidyWith
<1> QED BY <1>1, <1>10 DEF Tidy

(* No board ever shows an element twice, whoever operates when, whoever    *)
(* joins when and in whatever order the commands reach a board, unless a   *)
(* newcomer's data was read in the middle of a drag of the eraser.  That   *)
(* the fragments of one pass get different ids is assumed: board_ids shows *)
(* what happens if they do not.                                            *)
THEOREM NoElementTwice ==
    ASSUME DistinctStamps
    PROVE  Spec => []NoDoubles
<1>1. Inv /\ Tidy /\ [Next]_vars => Inv' /\ Tidy'
  BY StepKeeps, TidyKeeps
<1>2. Inv /\ Tidy => NoDoubles
  BY TidyMeans
<1>3. Init => Inv /\ Tidy
  BY InitInv, InitTidy
<1> QED BY <1>1, <1>2, <1>3, PTL DEF Spec

-----------------------------------------------------------------------------
(* Boards that show the same.                                              *)

\* Two pages with the same elements, in whatever order; two lists of such pages.
SameSheet(p, q) == p.pageId = q.pageId /\ Range(p.elements) = Range(q.elements)
SameSheets(s, t) == DOMAIN s = DOMAIN t /\ \A i \in DOMAIN s : SameSheet(s[i], t[i])
SameStacks(h, g) == SameSheets(h.undo, g.undo) /\ SameSheets(h.redo, g.redo)

\* What BoardsAgree asks of two boards.
Alike(b, c) ==
    /\ SameSheets(b.pages, c.pages) /\ b.currentPage = c.currentPage /\ Drawn(b) = Drawn(c)
    /\ \A p : SameStacks(History(b, p), History(c, p))

\* Contents compares lists in this way.
LEMMA ContentsAreSheets ==
    ASSUME NEW s, NEW t, SameSheets(s, t)
    PROVE  Contents(s) = Contents(t)
<1>1. \A i \in DOMAIN s : Page(s[i].pageId, Range(s[i].elements)) = Page(t[i].pageId, Range(t[i].elements))
  BY DEF SameSheets, SameSheet
<1> QED BY <1>1 DEF Contents, SameSheets

\* Sheets are like themselves, and like what is like a third.
LEMMA SheetsEqual ==
    ASSUME NEW s, NEW t, NEW u
    PROVE  /\ SameSheets(s, s)
           /\ SameSheets(s, t) => SameSheets(t, s)
           /\ SameSheets(s, t) /\ SameSheets(t, u) => SameSheets(s, u)
BY DEF SameSheets, SameSheet

\* So are boards.
LEMMA AlikeEqual ==
    ASSUME NEW b, NEW c, NEW d
    PROVE  /\ Alike(b, b)
           /\ Alike(b, c) => Alike(c, b)
           /\ Alike(b, c) /\ Alike(c, d) => Alike(b, d)
<1>1. Alike(b, b)
  BY SheetsEqual DEF Alike, SameStacks
<1>2. ASSUME Alike(b, c) PROVE Alike(c, b)
  BY <1>2, SheetsEqual DEF Alike, SameStacks
<1>3. ASSUME Alike(b, c), Alike(c, d) PROVE Alike(b, d)
  <2>1. \A p : SameStacks(History(b, p), History(d, p))
    <3> TAKE p
    <3>1. SameStacks(History(b, p), History(c, p)) /\ SameStacks(History(c, p), History(d, p))
      BY <1>3 DEF Alike
    <3> QED BY <3>1, SheetsEqual DEF SameStacks
  <2> QED BY <1>3, <2>1, SheetsEqual DEF Alike
<1> QED BY <1>1, <1>2, <1>3

\* Lists of the same sheets are equally long.
LEMMA SheetsLength ==
    ASSUME NEW s, IsList(s), NEW t, IsList(t), SameSheets(s, t)
    PROVE  /\ Len(s) = Len(t) /\ Len(s) \in Nat /\ DOMAIN s = 1 .. Len(s) /\ DOMAIN t = 1 .. Len(s)
           /\ s = <<>> <=> t = <<>>
<1>1. Len(s) \in Nat /\ DOMAIN s = 1 .. Len(s) /\ Len(t) \in Nat /\ DOMAIN t = 1 .. Len(t)
  BY DEF IsList
<1>2. 1 .. Len(s) = 1 .. Len(t)
  BY <1>1, Zenon DEF SameSheets
<1>3. Len(s) = Len(t)
  <2>1. Len(s) < Len(t) => Len(t) \in 1 .. Len(t) /\ Len(t) \notin 1 .. Len(s)
    BY <1>1
  <2>2. Len(t) < Len(s) => Len(s) \in 1 .. Len(s) /\ Len(s) \notin 1 .. Len(t)
    BY <1>1
  <2>3. ~(Len(s) < Len(t)) /\ ~(Len(t) < Len(s))
    BY <1>2, <2>1, <2>2
  <2>4. Len(s) \in Int /\ Len(t) \in Int
    BY <1>1
  <2>5. \A a, z \in Int : ~(a < z) /\ ~(z < a) => a = z
    OBVIOUS
  <2> QED BY <2>3, <2>4, <2>5
<1>4. (s = <<>> <=> Len(s) = 0) /\ (t = <<>> <=> Len(t) = 0)
  BY DEF IsList
<1> QED BY <1>1, <1>3, <1>4

\* One sheet more at the end, or before the first.
LEMMA SheetsMore ==
    ASSUME NEW s, IsList(s), NEW t, IsList(t), SameSheets(s, t), NEW p, NEW q, SameSheet(p, q)
    PROVE  /\ SameSheets(Append(s, p), Append(t, q)) /\ IsList(Append(s, p)) /\ IsList(Append(t, q))
           /\ SameSheets(<<p>> \o s, <<q>> \o t) /\ IsList(<<p>> \o s) /\ IsList(<<q>> \o t)
<1>1. Len(s) = Len(t) /\ Len(s) \in Nat /\ DOMAIN s = 1 .. Len(s)
  BY SheetsLength
<1>2. /\ IsList(Append(s, p)) /\ DOMAIN Append(s, p) = 1 .. Len(s) + 1
      /\ \A i \in 1 .. Len(s) : Append(s, p)[i] = s[i]
      /\ Append(s, p)[Len(s) + 1] = p
  BY AppendList
<1>3. /\ IsList(Append(t, q)) /\ DOMAIN Append(t, q) = 1 .. Len(t) + 1
      /\ \A i \in 1 .. Len(t) : Append(t, q)[i] = t[i]
      /\ Append(t, q)[Len(t) + 1] = q
  BY AppendList
<1>4. SameSheets(Append(s, p), Append(t, q))
  <2>1. \A i \in 1 .. Len(s) + 1 : i \in 1 .. Len(s) \/ i = Len(s) + 1
    BY <1>1
  <2>2. \A i \in 1 .. Len(s) : SameSheet(Append(s, p)[i], Append(t, q)[i])
    BY <1>1, <1>2, <1>3 DEF SameSheets
  <2>3. SameSheet(Append(s, p)[Len(s) + 1], Append(t, q)[Len(s) + 1])
    BY <1>1, <1>2, <1>3
  <2> QED BY <1>1, <1>2, <1>3, <2>1, <2>2, <2>3 DEF SameSheets
<1>5. IsList(<<p>>) /\ Len(<<p>>) = 1 /\ <<p>>[1] = p /\ IsList(<<q>>) /\ Len(<<q>>) = 1 /\ <<q>>[1] = q
  BY OneList
<1>6. /\ IsList(<<p>> \o s) /\ DOMAIN (<<p>> \o s) = 1 .. 1 + Len(s)
      /\ (<<p>> \o s)[1] = p /\ \A i \in 1 .. Len(s) : (<<p>> \o s)[1 + i] = s[i]
  <2>1. /\ IsList(<<p>> \o s) /\ DOMAIN (<<p>> \o s) = 1 .. Len(<<p>>) + Len(s)
        /\ \A i \in 1 .. Len(<<p>>) : (<<p>> \o s)[i] = <<p>>[i]
        /\ \A i \in 1 .. Len(s) : (<<p>> \o s)[Len(<<p>>) + i] = s[i]
    BY <1>5, ConcatList
  <2> QED BY <1>5, <2>1
<1>7. /\ IsList(<<q>> \o t) /\ DOMAIN (<<q>> \o t) = 1 .. 1 + Len(t)
      /\ (<<q>> \o t)[1] = q /\ \A i \in 1 .. Len(t) : (<<q>> \o t)[1 + i] = t[i]
  <2>1. /\ IsList(<<q>> \o t) /\ DOMAIN (<<q>> \o t) = 1 .. Len(<<q>>) + Len(t)
        /\ \A i \in 1 .. Len(<<q>>) : (<<q>> \o t)[i] = <<q>>[i]
        /\ \A i \in 1 .. Len(t) : (<<q>> \o t)[Len(<<q>>) + i] = t[i]
    BY <1>5, ConcatList
  <2> QED BY <1>5, <2>1
<1>8. SameSheets(<<p>> \o s, <<q>> \o t)
  <2>1. ASSUME NEW i \in 1 .. 1 + Len(s)
        PROVE  SameSheet((<<p>> \o s)[i], (<<q>> \o t)[i])
    <3>1. CASE i = 1
      BY <1>6, <1>7, <3>1
    <3>2. CASE i # 1
      <4>1. i - 1 \in 1 .. Len(s) /\ 1 + (i - 1) = i
        BY <1>1, <3>2
      <4>2. (<<p>> \o s)[1 + (i - 1)] = s[i - 1] /\ (<<q>> \o t)[1 + (i - 1)] = t[i - 1]
        BY <1>1, <1>6, <1>7, <4>1
      <4>3. (<<p>> \o s)[i] = s[i - 1] /\ (<<q>> \o t)[i] = t[i - 1]
        BY <4>1, <4>2
      <4> QED BY <1>1, <4>1, <4>3 DEF SameSheets
    <3> QED BY <3>1, <3>2
  <2> QED BY <1>1, <1>6, <1>7, <2>1 DEF SameSheets
<1> QED BY <1>2, <1>3, <1>4, <1>6, <1>7, <1>8

\* Part of the sheets.
LEMMA SheetsPart ==
    ASSUME NEW s, IsList(s), NEW t, IsList(t), SameSheets(s, t),
           NEW a \in Nat \ {0}, NEW z \in Nat, z <= Len(s)
    PROVE  SameSheets(SubSeq(s, a, z), SubSeq(t, a, z)) /\ IsList(SubSeq(s, a, z)) /\ IsList(SubSeq(t, a, z))
<1>1. Len(s) = Len(t) /\ Len(s) \in Nat /\ DOMAIN s = 1 .. Len(s)
  BY SheetsLength
<1> DEFINE k == IF a <= z THEN z - a + 1 ELSE 0
<1>2. /\ IsList(SubSeq(s, a, z)) /\ DOMAIN SubSeq(s, a, z) = 1 .. k
      /\ \A i \in 1 .. k : SubSeq(s, a, z)[i] = s[a + i - 1]
  BY PartList
<1>3. /\ IsList(SubSeq(t, a, z)) /\ DOMAIN SubSeq(t, a, z) = 1 .. k
      /\ \A i \in 1 .. k : SubSeq(t, a, z)[i] = t[a + i - 1]
  BY <1>1, PartList
<1>4. \A i \in 1 .. k : a + i - 1 \in 1 .. Len(s)
  BY <1>1
<1> HIDE DEF k
<1> QED BY <1>1, <1>2, <1>3, <1>4 DEF SameSheets

\* The stacks.
LEMMA SheetsPushed ==
    ASSUME NEW s, IsList(s), NEW t, IsList(t), SameSheets(s, t), NEW p, NEW q, SameSheet(p, q)
    PROVE  SameSheets(PushBack(s, p), PushBack(t, q)) /\ SameSheets(PushFront(p, s), PushFront(q, t))
<1>1. Len(s) = Len(t) /\ Len(s) \in Nat /\ HistoryLimit \in Nat \ {0}
  BY SheetsLength, HistoryLimitIsPos
<1>2. SameSheets(PushBack(s, p), PushBack(t, q))
  <2> DEFINE u == Append(s, p)
             v == Append(t, q)
  <2>1. IsList(u) /\ IsList(v) /\ SameSheets(u, v)
    BY SheetsMore
  <2> HIDE DEF u, v
  <2>2. Len(u) = Len(v) /\ Len(u) \in Nat
    BY <2>1, SheetsLength
  <2>3. CASE Len(u) > HistoryLimit
    <3>1. Len(u) - HistoryLimit + 1 \in Nat \ {0}
      BY <1>1, <2>2, <2>3
    <3>2. SameSheets(SubSeq(u, Len(u) - HistoryLimit + 1, Len(u)), SubSeq(v, Len(u) - HistoryLimit + 1, Len(u)))
      BY <2>1, <2>2, <3>1, SheetsPart
    <3> QED BY <2>2, <2>3, <3>2 DEF PushBack, u, v
  <2>4. CASE ~(Len(u) > HistoryLimit)
    BY <2>1, <2>2, <2>4 DEF PushBack, u, v
  <2> QED BY <2>3, <2>4
<1>3. SameSheets(PushFront(p, s), PushFront(q, t))
  <2> DEFINE u == <<p>> \o s
             v == <<q>> \o t
             k == IF Len(s) < HistoryLimit THEN Len(s) + 1 ELSE HistoryLimit
  <2>1. IsList(u) /\ IsList(v) /\ SameSheets(u, v)
    BY SheetsMore
  <2>2. Len(u) = Len(s) + 1
    BY MoreRange
  <2> HIDE DEF u, v
  <2>3. k \in Nat /\ k <= Len(u)
    BY <1>1, <2>2
  <2> HIDE DEF k
  <2>4. SameSheets(SubSeq(u, 1, k), SubSeq(v, 1, k))
    BY <2>1, <2>3, SheetsPart
  <2> QED BY <1>1, <2>4 DEF PushFront, u, v, k
<1> QED BY <1>2, <1>3

\* All but the first, all but the last.
LEMMA SheetsLess ==
    ASSUME NEW s, IsList(s), NEW t, IsList(t), SameSheets(s, t), s # <<>>
    PROVE  /\ SameSheets(Tail(s), Tail(t)) /\ SameSheet(Head(s), Head(t))
           /\ SameSheets(Front(s), Front(t)) /\ SameSheet(Last(s), Last(t))
<1>1. Len(s) = Len(t) /\ Len(s) \in Nat /\ DOMAIN s = 1 .. Len(s) /\ t # <<>>
  BY SheetsLength
<1>2. /\ DOMAIN Tail(s) = 1 .. Len(s) - 1 /\ Len(s) \in Nat \ {0} /\ Head(s) = s[1]
      /\ \A i \in DOMAIN Tail(s) : Tail(s)[i] = s[i + 1]
  BY TailList
<1>3. /\ DOMAIN Tail(t) = 1 .. Len(t) - 1 /\ Head(t) = t[1]
      /\ \A i \in DOMAIN Tail(t) : Tail(t)[i] = t[i + 1]
  BY <1>1, TailList
<1>4. \A i \in 1 .. Len(s) - 1 : i + 1 \in 1 .. Len(s)
  BY <1>1
<1>5. SameSheets(Tail(s), Tail(t))
  BY <1>1, <1>2, <1>3, <1>4 DEF SameSheets
<1>6. 1 \in DOMAIN s /\ Len(s) \in DOMAIN s
  BY <1>1, <1>2
<1>7. SameSheet(Head(s), Head(t)) /\ SameSheet(Last(s), Last(t))
  BY <1>1, <1>2, <1>3, <1>6 DEF SameSheets, Last
<1>8. Len(s) - 1 \in Nat /\ Len(s) - 1 <= Len(s)
  BY <1>2
<1>9. SameSheets(Front(s), Front(t))
  BY <1>1, <1>8, SheetsPart DEF Front
<1> QED BY <1>5, <1>7, <1>9

\* A sheet in the place of another, between others, or away.
LEMMA SheetsEdited ==
    ASSUME NEW s, IsList(s), NEW t, IsList(t), SameSheets(s, t), NEW p, NEW q, SameSheet(p, q)
    PROVE  /\ \A i : SameSheets([s EXCEPT ![i] = p], [t EXCEPT ![i] = q])
           /\ \A i \in 1 .. Len(s) + 1 : SameSheets(InsertAt(s, i, p), InsertAt(t, i, q))
           /\ \A i \in DOMAIN s : /\ SameSheets(RemoveAt(s, i), RemoveAt(t, i))
                                  /\ Len(RemoveAt(t, i)) = Len(RemoveAt(s, i))
<1>1. Len(s) = Len(t) /\ Len(s) \in Nat /\ DOMAIN s = 1 .. Len(s) /\ DOMAIN t = 1 .. Len(s)
  BY SheetsLength
<1>2. ASSUME NEW i PROVE SameSheets([s EXCEPT ![i] = p], [t EXCEPT ![i] = q])
  <2>1. s = [j \in DOMAIN s |-> s[j]] /\ t = [j \in DOMAIN t |-> t[j]]
    <3>1. s \in Seq({s[j] : j \in DOMAIN s}) /\ t \in Seq({t[j] : j \in DOMAIN t})
      BY DEF IsList
    <3> QED BY <3>1
  <2>2. /\ DOMAIN [s EXCEPT ![i] = p] = DOMAIN s /\ DOMAIN [t EXCEPT ![i] = q] = DOMAIN t
        /\ \A j \in DOMAIN s : [s EXCEPT ![i] = p][j] = IF j = i THEN p ELSE s[j]
        /\ \A j \in DOMAIN t : [t EXCEPT ![i] = q][j] = IF j = i THEN q ELSE t[j]
    BY <2>1
  <2> QED BY <2>2 DEF SameSheets
<1>3. ASSUME NEW i \in 1 .. Len(s) + 1 PROVE SameSheets(InsertAt(s, i, p), InsertAt(t, i, q))
  <2>1. /\ DOMAIN InsertAt(s, i, p) = 1 .. Len(s) + 1
        /\ \A j \in 1 .. Len(s) + 1 :
              InsertAt(s, i, p)[j] = IF j < i THEN s[j] ELSE IF j = i THEN p ELSE s[j - 1]
    BY InsertList
  <2>2. /\ DOMAIN InsertAt(t, i, q) = 1 .. Len(s) + 1
        /\ \A j \in 1 .. Len(s) + 1 :
              InsertAt(t, i, q)[j] = IF j < i THEN t[j] ELSE IF j = i THEN q ELSE t[j - 1]
    BY <1>1, InsertList
  <2>3. ASSUME NEW j \in 1 .. Len(s) + 1 PROVE SameSheet(InsertAt(s, i, p)[j], InsertAt(t, i, q)[j])
    <3>1. CASE j < i
      <4>1. j \in 1 .. Len(s)
        BY <1>1, <3>1
      <4> QED BY <1>1, <2>1, <2>2, <3>1, <4>1 DEF SameSheets
    <3>2. CASE j = i
      BY <2>1, <2>2, <3>2
    <3>3. CASE ~(j < i) /\ j # i
      <4>1. j - 1 \in 1 .. Len(s)
        BY <1>1, <3>3
      <4> QED BY <1>1, <2>1, <2>2, <3>3, <4>1 DEF SameSheets
    <3> QED BY <3>1, <3>2, <3>3
  <2> QED BY <2>1, <2>2, <2>3 DEF SameSheets
<1>4. ASSUME NEW i \in DOMAIN s
      PROVE  SameSheets(RemoveAt(s, i), RemoveAt(t, i)) /\ Len(RemoveAt(t, i)) = Len(RemoveAt(s, i))
  <2>1. /\ DOMAIN RemoveAt(s, i) = 1 .. Len(s) - 1 /\ Len(RemoveAt(s, i)) = Len(s) - 1
        /\ \A j \in 1 .. Len(s) - 1 : RemoveAt(s, i)[j] = IF j < i THEN s[j] ELSE s[j + 1]
    BY RemoveList, Zenon
  <2>2. /\ DOMAIN RemoveAt(t, i) = 1 .. Len(s) - 1 /\ Len(RemoveAt(t, i)) = Len(s) - 1
        /\ \A j \in 1 .. Len(s) - 1 : RemoveAt(t, i)[j] = IF j < i THEN t[j] ELSE t[j + 1]
    BY <1>1, RemoveList, Zenon
  <2>3. \A j \in 1 .. Len(s) - 1 : j \in 1 .. Len(s) /\ j + 1 \in 1 .. Len(s)
    BY <1>1
  <2>4. \A j \in 1 .. Len(s) - 1 : SameSheet(s[j], t[j]) /\ SameSheet(s[j + 1], t[j + 1])
    BY <1>1, <2>3 DEF SameSheets
  <2>5. \A j \in 1 .. Len(s) - 1 : SameSheet(RemoveAt(s, i)[j], RemoveAt(t, i)[j])
    BY <2>1, <2>2, <2>4
  <2> QED BY <2>1, <2>2, <2>5 DEF SameSheets
<1> QED BY <1>2, <1>3, <1>4

-----------------------------------------------------------------------------
(* What is done to two boards that show the same.                          *)

\* Strokes that go by other keys, and the increments of the eraser, do not show.
LEMMA AlikeShown ==
    ASSUME NEW b, NEW c, c.pages = b.pages, c.currentPage = b.currentPage, c.histories = b.histories,
           Drawn(c) = Drawn(b)
    PROVE  Alike(b, c)
BY SheetsEqual DEF Alike, SameStacks, History

\* The same pages have the same ids.
LEMMA AlikePages ==
    ASSUME NEW b, NEW c, SameSheets(b.pages, c.pages)
    PROVE  PageIds(b) = PageIds(c)
BY DEF SameSheets, SameSheet, PageIds

\* The page shown.
LEMMA AlikePage ==
    ASSUME NEW b, NEW n, Sound(b, n), NEW c, NEW k, Sound(c, k), Alike(b, c)
    PROVE  /\ SameSheet(CurrentPage(b), CurrentPage(c)) /\ CurrentPage(b).pageId = CurrentPage(c).pageId
           /\ Range(Elements(b)) = Range(Elements(c)) /\ ElementIds(Elements(b)) = ElementIds(Elements(c))
<1>1. SameSheet(CurrentPage(b), CurrentPage(c))
  BY DEF Alike, SameSheets, Sound, CurrentPage
<1> QED BY <1>1, IdsOfRange DEF SameSheet, Elements

\* What WithElements writes.
LEMMA ElementsWritten ==
    ASSUME NEW b, IsBoard(b), NEW es
    PROVE  LET c == WithElements(b, es)
           IN /\ IsBoard(c) /\ c.currentPage = b.currentPage /\ c.histories = b.histories
              /\ c.strokes = b.strokes /\ c.batchSuppress = b.batchSuppress
              /\ c.eraserAdded = b.eraserAdded /\ c.eraserRemoved = b.eraserRemoved
              /\ c.pages = [b.pages EXCEPT ![b.currentPage] = [b.pages[b.currentPage] EXCEPT !.elements = es]]
<1> DEFINE c == WithElements(b, es)
           ps == [b.pages EXCEPT ![b.currentPage] = [b.pages[b.currentPage] EXCEPT !.elements = es]]
<1>1. b = [f \in Fields |-> b[f]]
  BY DEF IsBoard
<1>2. c = [b EXCEPT !.pages = ps]
  BY DEF WithElements
<1> HIDE DEF c, ps
<1>3. /\ IsBoard(c) /\ c.currentPage = b.currentPage /\ c.histories = b.histories
      /\ c.strokes = b.strokes /\ c.batchSuppress = b.batchSuppress
      /\ c.eraserAdded = b.eraserAdded /\ c.eraserRemoved = b.eraserRemoved /\ c.pages = ps
  BY <1>1, <1>2 DEF IsBoard, Fields
<1> QED BY <1>3 DEF c, ps

\* What is written twice is as if written once.
LEMMA ElementsTwice ==
    ASSUME NEW b, NEW n, Sound(b, n), NEW es, NEW fs
    PROVE  WithElements(WithElements(b, es), fs) = WithElements(b, fs)
<1> DEFINE p == [b.pages[b.currentPage] EXCEPT !.elements = es]
           q == [b.pages[b.currentPage] EXCEPT !.elements = fs]
           ps == [b.pages EXCEPT ![b.currentPage] = p]
           qs == [b.pages EXCEPT ![b.currentPage] = q]
<1>1. b = [f \in Fields |-> b[f]] /\ IsList(b.pages) /\ b.currentPage \in DOMAIN b.pages /\ IsPage(b.pages[b.currentPage])
  BY DEF Sound, IsBoard, PagesSound
<1>2. b.pages = [i \in DOMAIN b.pages |-> b.pages[i]]
  <2>1. b.pages \in Seq({b.pages[i] : i \in DOMAIN b.pages})
    BY <1>1 DEF IsList
  <2> QED BY <2>1
<1>3. WithElements(b, es) = [b EXCEPT !.pages = ps] /\ WithElements(b, fs) = [b EXCEPT !.pages = qs]
  BY DEF WithElements
<1>4. [p EXCEPT !.elements = fs] = q
  BY <1>1 DEF IsPage
<1> HIDE DEF p, q
<1>5. ps[b.currentPage] = p /\ [ps EXCEPT ![b.currentPage] = q] = qs
  BY <1>1, <1>2
<1> HIDE DEF ps, qs
<1> DEFINE d == [b EXCEPT !.pages = ps]
<1>6. d.pages = ps /\ d.currentPage = b.currentPage /\ [d EXCEPT !.pages = qs] = [b EXCEPT !.pages = qs]
  BY <1>1 DEF Fields
<1>7. WithElements(d, fs) = [d EXCEPT !.pages = [d.pages EXCEPT ![d.currentPage] = [d.pages[d.currentPage] EXCEPT !.elements = fs]]]
  BY DEF WithElements
<1> HIDE DEF d
<1>8. WithElements(d, fs) = [d EXCEPT !.pages = qs]
  BY <1>4, <1>5, <1>6, <1>7
<1> QED BY <1>3, <1>6, <1>8 DEF d

\* The page shown gets the same elements.
LEMMA AlikeElements ==
    ASSUME NEW b, NEW n, Sound(b, n), NEW c, NEW k, Sound(c, k), Alike(b, c),
           NEW es, NEW fs, Range(es) = Range(fs)
    PROVE  Alike(WithElements(b, es), WithElements(c, fs))
<1> DEFINE d == WithElements(b, es)
           e == WithElements(c, fs)
           p == [b.pages[b.currentPage] EXCEPT !.elements = es]
           q == [c.pages[c.currentPage] EXCEPT !.elements = fs]
<1>1. IsBoard(b) /\ IsBoard(c) /\ IsPage(CurrentPage(b)) /\ IsPage(CurrentPage(c)) /\ IsList(b.pages) /\ IsList(c.pages)
  BY DEF Sound, PagesSound, CurrentPage
<1>2. /\ d.currentPage = b.currentPage /\ d.histories = b.histories /\ d.strokes = b.strokes
      /\ d.pages = [b.pages EXCEPT ![b.currentPage] = p]
  BY <1>1, ElementsWritten
<1>3. /\ e.currentPage = c.currentPage /\ e.histories = c.histories /\ e.strokes = c.strokes
      /\ e.pages = [c.pages EXCEPT ![c.currentPage] = q]
  BY <1>1, ElementsWritten
<1>4. p.elements = es /\ p.pageId = CurrentPage(b).pageId /\ q.elements = fs /\ q.pageId = CurrentPage(c).pageId
  BY <1>1 DEF IsPage, CurrentPage
<1> HIDE DEF d, e, p, q
<1>5. SameSheet(p, q)
  BY <1>4, AlikePage DEF SameSheet
<1>6. SameSheets(d.pages, e.pages)
  <2>1. SameSheets(b.pages, c.pages) /\ b.currentPage = c.currentPage
    BY DEF Alike
  <2>2. \A i : SameSheets([b.pages EXCEPT ![i] = p], [c.pages EXCEPT ![i] = q])
    BY <1>1, <1>5, <2>1, SheetsEdited
  <2> QED BY <1>2, <1>3, <2>1, <2>2
<1>7. Alike(d, e)
  BY <1>2, <1>3, <1>6 DEF Alike, Drawn, History
<1> QED BY <1>7 DEF d, e

\* What WithHistory writes.
LEMMA HistoryIs ==
    ASSUME NEW b, IsBoard(b), NEW id, NEW h
    PROVE  LET c == WithHistory(b, id, h)
           IN /\ IsBoard(c) /\ c.pages = b.pages /\ c.currentPage = b.currentPage
              /\ c.strokes = b.strokes /\ c.batchSuppress = b.batchSuppress
              /\ c.eraserAdded = b.eraserAdded /\ c.eraserRemoved = b.eraserRemoved
              /\ \A p : History(c, p) = IF p = id THEN h ELSE History(b, p)
<1> DEFINE hs == [q \in DOMAIN b.histories \cup {id} |-> IF q = id THEN h ELSE b.histories[q]]
           c == WithHistory(b, id, h)
<1>1. b = [f \in Fields |-> b[f]]
  BY DEF IsBoard
<1>2. DOMAIN hs = DOMAIN b.histories \cup {id} /\ \A q \in DOMAIN hs : hs[q] = IF q = id THEN h ELSE b.histories[q]
  OBVIOUS
<1>3. c = [b EXCEPT !.histories = hs]
  BY DEF WithHistory
<1> HIDE DEF c, hs
<1>4. /\ IsBoard(c) /\ c.pages = b.pages /\ c.currentPage = b.currentPage
      /\ c.strokes = b.strokes /\ c.batchSuppress = b.batchSuppress
      /\ c.eraserAdded = b.eraserAdded /\ c.eraserRemoved = b.eraserRemoved /\ c.histories = hs
  BY <1>1, <1>3 DEF IsBoard, Fields
<1>5. \A p : History(c, p) = IF p = id THEN h ELSE History(b, p)
  BY <1>2, <1>4 DEF History
<1> QED BY <1>4, <1>5 DEF c

\* A page gets the same history.
LEMMA AlikeHistory ==
    ASSUME NEW b, IsBoard(b), NEW c, IsBoard(c), Alike(b, c), NEW id, NEW h, NEW g, SameStacks(h, g)
    PROVE  Alike(WithHistory(b, id, h), WithHistory(c, id, g))
<1> DEFINE d == WithHistory(b, id, h)
           e == WithHistory(c, id, g)
<1>1. /\ d.pages = b.pages /\ d.currentPage = b.currentPage /\ d.strokes = b.strokes
      /\ \A p : History(d, p) = IF p = id THEN h ELSE History(b, p)
  BY HistoryIs
<1>2. /\ e.pages = c.pages /\ e.currentPage = c.currentPage /\ e.strokes = c.strokes
      /\ \A p : History(e, p) = IF p = id THEN g ELSE History(c, p)
  BY HistoryIs
<1> HIDE DEF d, e
<1>3. \A p : SameStacks(History(d, p), History(e, p))
  BY <1>1, <1>2 DEF Alike
<1>4. Alike(d, e)
  BY <1>1, <1>2, <1>3 DEF Alike, Drawn
<1> QED BY <1>4 DEF d, e

\* The stacks of one page.
LEMMA AlikeStacks ==
    ASSUME NEW b, NEW n, Sound(b, n), NEW c, NEW k, Sound(c, k), Alike(b, c), NEW id
    PROVE  /\ IsList(History(b, id).undo) /\ IsList(History(b, id).redo)
           /\ IsList(History(c, id).undo) /\ IsList(History(c, id).redo)
           /\ SameSheets(History(b, id).undo, History(c, id).undo)
           /\ SameSheets(History(b, id).redo, History(c, id).redo)
BY HistoryOf DEF HistorySound, StackSound, Alike, SameStacks

\* A snapshot is recorded on both.
LEMMA AlikeSnapshot ==
    ASSUME NEW b, NEW n, Sound(b, n), NEW c, NEW k, Sound(c, k), Alike(b, c), ~b.batchSuppress, ~c.batchSuppress
    PROVE  Alike(PushSnapshot(b), PushSnapshot(c))
<1> DEFINE id == CurrentPage(b).pageId
           h == [undo |-> PushBack(History(b, id).undo, CurrentPage(b)), redo |-> <<>>]
           g == [undo |-> PushBack(History(c, id).undo, CurrentPage(c)), redo |-> <<>>]
<1>1. SameSheet(CurrentPage(b), CurrentPage(c)) /\ CurrentPage(c).pageId = id
  BY AlikePage
<1>2. PushSnapshot(b) = WithHistory(b, id, h) /\ PushSnapshot(c) = WithHistory(c, id, g)
  BY <1>1 DEF PushSnapshot
<1>3. /\ IsList(History(b, id).undo) /\ IsList(History(c, id).undo)
      /\ SameSheets(History(b, id).undo, History(c, id).undo)
  BY AlikeStacks
<1>4. SameStacks(h, g)
  <2>1. /\ h.undo = PushBack(History(b, id).undo, CurrentPage(b)) /\ h.redo = <<>>
        /\ g.undo = PushBack(History(c, id).undo, CurrentPage(c)) /\ g.redo = <<>>
    OBVIOUS
  <2> HIDE DEF id, h, g
  <2> QED BY <1>1, <1>3, <2>1, SheetsPushed, SheetsEqual DEF SameStacks
<1> HIDE DEF id, h, g
<1> QED BY <1>2, <1>4, AlikeHistory DEF Sound

\* What a snapshot leaves alone.
LEMMA SnapshotWrites ==
    ASSUME NEW b, NEW n, Sound(b, n)
    PROVE  LET c == PushSnapshot(b)
           IN /\ Sound(c, n) /\ c.pages = b.pages /\ c.currentPage = b.currentPage
              /\ c.strokes = b.strokes /\ c.batchSuppress = b.batchSuppress
              /\ c.eraserAdded = b.eraserAdded /\ c.eraserRemoved = b.eraserRemoved
              /\ Elements(c) = Elements(b)
<1>1. IsBoard(b) /\ Sound(PushSnapshot(b), n) /\ Elements(PushSnapshot(b)) = Elements(b)
  BY SnapshotSound, SnapshotKeeps DEF Sound
<1> QED BY <1>1, HistoryIs DEF PushSnapshot

\* What a switch of pages drops is dropped on both.
LEMMA AlikeShow ==
    ASSUME NEW b, IsBoard(b), NEW c, IsBoard(c), SameSheets(b.pages, c.pages),
           \A p : SameStacks(History(b, p), History(c, p))
    PROVE  /\ \A i : Alike(Show(b, i), Show(c, i))
           /\ b.currentPage = c.currentPage => Alike(ResetTransientState(b), ResetTransientState(c))
<1> DEFINE w(d, i) == Show(d, i)
           v(d) == ResetTransientState(d)
<1>1. ASSUME NEW d, IsBoard(d), NEW i
      PROVE  /\ w(d, i).pages = d.pages /\ w(d, i).currentPage = i /\ w(d, i).histories = d.histories
             /\ w(d, i).strokes = {}
             /\ v(d).pages = d.pages /\ v(d).currentPage = d.currentPage /\ v(d).histories = d.histories
             /\ v(d).strokes = {}
  <2>1. d = [f \in Fields |-> d[f]]
    BY <1>1 DEF IsBoard
  <2> QED BY <2>1 DEF Show, ResetTransientState, Fields
<1> HIDE DEF w, v
<1>2. \A i : Alike(w(b, i), w(c, i))
  BY <1>1 DEF Alike, History, Drawn
<1>3. b.currentPage = c.currentPage => Alike(v(b), v(c))
  BY <1>1 DEF Alike, History, Drawn
<1> QED BY <1>2, <1>3 DEF w, v

\* The pages become others, the gestures are dropped, and page i is shown.
LEMMA AlikeTurned ==
    ASSUME NEW b, IsBoard(b), NEW c, IsBoard(c), NEW s, NEW t, SameSheets(s, t), NEW hs, NEW gs, NEW i,
           LET d == [b EXCEPT !.pages = s, !.histories = hs]
               e == [c EXCEPT !.pages = t, !.histories = gs]
           IN \A p : SameStacks(History(d, p), History(e, p))
    PROVE  Alike(Show([b EXCEPT !.pages = s, !.histories = hs], i), Show([c EXCEPT !.pages = t, !.histories = gs], i))
<1> DEFINE d == [b EXCEPT !.pages = s, !.histories = hs]
           e == [c EXCEPT !.pages = t, !.histories = gs]
<1>1. b = [f \in Fields |-> b[f]] /\ c = [f \in Fields |-> c[f]]
  BY DEF IsBoard
<1>2. d.pages = s /\ e.pages = t /\ IsBoard(d) /\ IsBoard(e)
  BY <1>1 DEF IsBoard, Fields
<1>3. \A p : SameStacks(History(d, p), History(e, p))
  OBVIOUS
<1> HIDE DEF d, e
<1>4. Alike(Show(d, i), Show(e, i))
  BY <1>2, <1>3, AlikeShow
<1> QED BY <1>4 DEF d, e

\* A new page in the same place.
LEMMA AlikeInsert ==
    ASSUME NEW b, NEW n, Sound(b, n), NEW c, NEW k, Sound(c, k), Alike(b, c),
           NEW i \in 1 .. Len(b.pages) + 1, NEW p
    PROVE  Alike(InsertPage(b, i, p), InsertPage(c, i, p))
<1> DEFINE s == InsertAt(b.pages, i, p)
           t == InsertAt(c.pages, i, p)
<1>1. IsBoard(b) /\ IsBoard(c) /\ IsList(b.pages) /\ IsList(c.pages) /\ SameSheets(b.pages, c.pages)
      /\ \A q : SameStacks(History(b, q), History(c, q))
  BY DEF Sound, PagesSound, Alike
<1>2. SameSheets(s, t)
  <2>1. SameSheet(p, p)
    BY DEF SameSheet
  <2> QED BY <1>1, <2>1, SheetsEdited
<1> HIDE DEF s, t
<1>3. b = [f \in Fields |-> b[f]] /\ c = [f \in Fields |-> c[f]]
  BY <1>1 DEF IsBoard
<1>4. /\ [b EXCEPT !.pages = s] = [b EXCEPT !.pages = s, !.histories = b.histories]
      /\ [c EXCEPT !.pages = t] = [c EXCEPT !.pages = t, !.histories = c.histories]
      /\ [b EXCEPT !.pages = s, !.histories = b.histories].histories = b.histories
      /\ [c EXCEPT !.pages = t, !.histories = c.histories].histories = c.histories
  BY <1>3 DEF Fields
<1>5. \A q : SameStacks(History([b EXCEPT !.pages = s, !.histories = b.histories], q),
                        History([c EXCEPT !.pages = t, !.histories = c.histories], q))
  BY <1>1, <1>4 DEF History
<1>6. Alike(Show([b EXCEPT !.pages = s, !.histories = b.histories], i), Show([c EXCEPT !.pages = t, !.histories = c.histories], i))
  BY <1>1, <1>2, <1>5, AlikeTurned
<1> QED BY <1>4, <1>6 DEF InsertPage, s, t

\* The page of an id is in the same place.
LEMMA AlikePlace ==
    ASSUME NEW b, NEW n, Sound(b, n), NEW c, NEW k, Sound(c, k), Alike(b, c)
    PROVE  /\ PageIds(b) = PageIds(c)
           /\ \A id \in PageIds(b) : IndexOf(b, id) = IndexOf(c, id) /\ IndexOf(b, id) \in DOMAIN b.pages
<1>1. PageIds(b) = PageIds(c)
  BY AlikePages DEF Alike
<1>2. ASSUME NEW id \in PageIds(b) PROVE IndexOf(b, id) = IndexOf(c, id) /\ IndexOf(b, id) \in DOMAIN b.pages
  <2>1. IndexOf(b, id) \in DOMAIN b.pages /\ b.pages[IndexOf(b, id)].pageId = id
    BY PageFound
  <2>2. IndexOf(c, id) \in DOMAIN c.pages /\ c.pages[IndexOf(c, id)].pageId = id
    BY <1>1, PageFound
  <2>3. DOMAIN b.pages = DOMAIN c.pages /\ \A i \in DOMAIN b.pages : b.pages[i].pageId = c.pages[i].pageId
    BY DEF Alike, SameSheets, SameSheet
  <2>4. \A i, j \in DOMAIN b.pages : b.pages[i].pageId = b.pages[j].pageId => i = j
    BY DEF Sound, PagesSound
  <2> QED BY <2>1, <2>2, <2>3, <2>4
<1> QED BY <1>1, <1>2

\* CreatePage and SelectPage, and what the others do then.
LEMMA CreateAlike ==
    ASSUME NEW b, NEW n, Sound(b, n), NEW c, NEW k, Sound(c, k), Alike(b, c), NEW id
    PROVE  /\ id \notin PageIds(b) => Alike(CreatePage(b, id), RemoteCreatePage(c, id))
           /\ id \in PageIds(b) => Alike(SelectPage(b, id), RemoteSelectPage(c, id))
<1>1. PageIds(b) = PageIds(c)
  BY AlikePlace
<1>2. ASSUME id \notin PageIds(b) PROVE Alike(CreatePage(b, id), RemoteCreatePage(c, id))
  <2>1. b.currentPage + 1 \in 1 .. Len(b.pages) + 1
    <3>1. IsList(b.pages) /\ b.currentPage \in DOMAIN b.pages
      BY DEF Sound, PagesSound
    <3>2. DOMAIN b.pages = 1 .. Len(b.pages) /\ Len(b.pages) \in Nat
      BY <3>1, AppendList
    <3> QED BY <3>1, <3>2
  <2>2. b.currentPage = c.currentPage
    BY DEF Alike
  <2>3. Alike(InsertPage(b, b.currentPage + 1, Page(id, <<>>)), InsertPage(c, b.currentPage + 1, Page(id, <<>>)))
    BY <2>1, AlikeInsert
  <2> QED BY <1>1, <1>2, <2>2, <2>3 DEF CreatePage, RemoteCreatePage
<1>3. ASSUME id \in PageIds(b) PROVE Alike(SelectPage(b, id), RemoteSelectPage(c, id))
  <2>1. IndexOf(b, id) = IndexOf(c, id)
    BY <1>3, AlikePlace
  <2>2. \A i : Alike(Show(b, i), Show(c, i))
    BY AlikeShow DEF Sound, Alike
  <2> QED BY <1>1, <1>3, <2>1, <2>2 DEF SelectPage, RemoteSelectPage
<1> QED BY <1>2, <1>3

\* DeletePage.
LEMMA DeleteAlike ==
    ASSUME NEW b, NEW n, Sound(b, n), NEW c, NEW k, Sound(c, k), Alike(b, c), NEW id, CanDelete(b, id)
    PROVE  Alike(DeletePage(b, id), RemoteDeletePage(c, id))
<1> DEFINE i == IndexOf(b, id)
           s == RemoveAt(b.pages, i)
           t == RemoveAt(c.pages, i)
           j == IF b.currentPage > Len(s) THEN Len(s) ELSE b.currentPage
           hs == [q \in DOMAIN b.histories \ {id} |-> b.histories[q]]
           gs == [q \in DOMAIN c.histories \ {id} |-> c.histories[q]]
<1>1. IsBoard(b) /\ IsBoard(c) /\ IsList(b.pages) /\ IsList(c.pages) /\ SameSheets(b.pages, c.pages)
      /\ b.currentPage = c.currentPage
      /\ \A q : SameStacks(History(b, q), History(c, q))
  BY DEF Sound, PagesSound, Alike
<1>2. id \in PageIds(b) /\ id \in PageIds(c) /\ IndexOf(c, id) = i /\ i \in DOMAIN b.pages
  BY AlikePlace DEF CanDelete
<1>3. SameSheets(s, t) /\ Len(t) = Len(s)
  <2> HIDE DEF i
  <2>1. \A p : SameSheet(p, p)
    BY DEF SameSheet
  <2> QED BY <1>1, <1>2, <2>1, SheetsEdited
<1>4. CanDelete(c, id)
  <2>1. Len(b.pages) = Len(c.pages)
    BY <1>1, SheetsLength
  <2> QED BY <1>2, <2>1 DEF CanDelete
<1>5. /\ DeletePage(b, id) = Show([b EXCEPT !.pages = s, !.histories = hs], j)
      /\ RemoteDeletePage(c, id) = Show([c EXCEPT !.pages = t, !.histories = gs], j)
  BY <1>1, <1>2, <1>3, <1>4 DEF DeletePage, RemoteDeletePage
<1>6. /\ \A q : q \in DOMAIN hs <=> q \in DOMAIN b.histories /\ q # id
      /\ \A q \in DOMAIN hs : hs[q] = b.histories[q]
      /\ \A q : q \in DOMAIN gs <=> q \in DOMAIN c.histories /\ q # id
      /\ \A q \in DOMAIN gs : gs[q] = c.histories[q]
  OBVIOUS
<1> HIDE DEF i, s, t, j, hs, gs
<1>7. b = [f \in Fields |-> b[f]] /\ c = [f \in Fields |-> c[f]]
  BY <1>1 DEF IsBoard
<1>8. /\ [b EXCEPT !.pages = s, !.histories = hs].histories = hs
      /\ [c EXCEPT !.pages = t, !.histories = gs].histories = gs
  BY <1>7 DEF Fields
<1>9. ASSUME NEW q
      PROVE  SameStacks(History([b EXCEPT !.pages = s, !.histories = hs], q),
                        History([c EXCEPT !.pages = t, !.histories = gs], q))
  <2>1. History([b EXCEPT !.pages = s, !.histories = hs], q) = IF q = id THEN EmptyHistory ELSE History(b, q)
    BY <1>6, <1>8 DEF History
  <2>2. History([c EXCEPT !.pages = t, !.histories = gs], q) = IF q = id THEN EmptyHistory ELSE History(c, q)
    BY <1>6, <1>8 DEF History
  <2>3. SameStacks(EmptyHistory, EmptyHistory)
    BY SheetsEqual DEF SameStacks
  <2> QED BY <1>1, <2>1, <2>2, <2>3
<1>10. Alike(Show([b EXCEPT !.pages = s, !.histories = hs], j), Show([c EXCEPT !.pages = t, !.histories = gs], j))
  BY <1>1, <1>3, <1>9, AlikeTurned
<1> QED BY <1>5, <1>10

\* The page shown gives way to another, and its history changes.
LEMMA AlikeReplaced ==
    ASSUME NEW b, NEW n, Sound(b, n), NEW c, NEW k, Sound(c, k), Alike(b, c), NEW id,
           NEW h, NEW g, SameStacks(h, g), NEW p, NEW q, SameSheet(p, q)
    PROVE  Alike(ResetTransientState([WithHistory(b, id, h) EXCEPT !.pages[b.currentPage] = p]),
                 ResetTransientState([WithHistory(c, id, g) EXCEPT !.pages[c.currentPage] = q]))
<1> DEFINE d == WithHistory(b, id, h)
           e == WithHistory(c, id, g)
           x == [d EXCEPT !.pages[b.currentPage] = p]
           y == [e EXCEPT !.pages[c.currentPage] = q]
<1>1. IsBoard(b) /\ IsBoard(c) /\ IsList(b.pages) /\ IsList(c.pages)
  BY DEF Sound, PagesSound
<1>2. Alike(d, e)
  BY <1>1, AlikeHistory
<1>3. IsBoard(d) /\ IsBoard(e) /\ d.pages = b.pages /\ e.pages = c.pages /\ d.currentPage = b.currentPage /\ e.currentPage = c.currentPage
  BY <1>1, HistoryIs
<1> HIDE DEF d, e
<1>4. d = [f \in Fields |-> d[f]] /\ e = [f \in Fields |-> e[f]]
  BY <1>3 DEF IsBoard
<1>5. /\ IsBoard(x) /\ x.pages = [d.pages EXCEPT ![b.currentPage] = p] /\ x.histories = d.histories /\ x.currentPage = d.currentPage
      /\ IsBoard(y) /\ y.pages = [e.pages EXCEPT ![c.currentPage] = q] /\ y.histories = e.histories /\ y.currentPage = e.currentPage
  BY <1>4 DEF IsBoard, Fields
<1> HIDE DEF x, y
<1>6. SameSheets(x.pages, y.pages)
  <2>1. SameSheets(b.pages, c.pages) /\ b.currentPage = c.currentPage
    BY DEF Alike
  <2>2. \A i : SameSheets([b.pages EXCEPT ![i] = p], [c.pages EXCEPT ![i] = q])
    BY <1>1, <2>1, SheetsEdited
  <2> QED BY <1>3, <1>5, <2>1, <2>2
<1>7. \A r : SameStacks(History(x, r), History(y, r))
  BY <1>2, <1>5 DEF Alike, History
<1>8. x.currentPage = y.currentPage
  BY <1>3, <1>5 DEF Alike
<1>9. Alike(ResetTransientState(x), ResetTransientState(y))
  BY <1>5, <1>6, <1>7, <1>8, AlikeShow
<1> QED BY <1>9 DEF d, e, x, y

\* Undo and Redo.
LEMMA UndoAlike ==
    ASSUME NEW b, NEW n, Sound(b, n), NEW c, NEW k, Sound(c, k), Alike(b, c)
    PROVE  /\ CanUndo(b) => Alike(Undo(b), RemoteUndo(c))
           /\ CanRedo(b) => Alike(Redo(b), RemoteRedo(c))
<1> DEFINE id == CurrentPage(b).pageId
           h == History(b, id)
           g == History(c, id)
<1>1. SameSheet(CurrentPage(b), CurrentPage(c)) /\ CurrentPage(c).pageId = id
  BY AlikePage
<1>2. /\ IsList(h.undo) /\ IsList(g.undo) /\ SameSheets(h.undo, g.undo)
      /\ IsList(h.redo) /\ IsList(g.redo) /\ SameSheets(h.redo, g.redo)
  BY AlikeStacks
<1>3. (h.undo = <<>> <=> g.undo = <<>>) /\ (h.redo = <<>> <=> g.redo = <<>>)
  BY <1>2, SheetsLength
<1>4. /\ CanUndo(b) <=> h.undo # <<>>
      /\ CanUndo(c) <=> g.undo # <<>>
      /\ CanRedo(b) <=> h.redo # <<>>
      /\ CanRedo(c) <=> g.redo # <<>>
  BY <1>1 DEF CanUndo, CanRedo
<1>5. ASSUME CanUndo(b) PROVE Alike(Undo(b), RemoteUndo(c))
  <2> DEFINE v == [undo |-> Front(h.undo), redo |-> PushFront(CurrentPage(b), h.redo)]
             w == [undo |-> Front(g.undo), redo |-> PushFront(CurrentPage(c), g.redo)]
  <2>1. /\ Undo(b) = ResetTransientState([WithHistory(b, id, v) EXCEPT !.pages[b.currentPage] = Last(h.undo)])
        /\ RemoteUndo(c) = ResetTransientState([WithHistory(c, id, w) EXCEPT !.pages[c.currentPage] = Last(g.undo)])
    BY <1>1, <1>3, <1>4, <1>5 DEF Undo, RemoteUndo
  <2>2. /\ v.undo = Front(h.undo) /\ v.redo = PushFront(CurrentPage(b), h.redo)
        /\ w.undo = Front(g.undo) /\ w.redo = PushFront(CurrentPage(c), g.redo)
    OBVIOUS
  <2> HIDE DEF id, h, g, v, w
  <2>3. SameSheets(Front(h.undo), Front(g.undo)) /\ SameSheet(Last(h.undo), Last(g.undo))
    BY <1>2, <1>4, <1>5, SheetsLess
  <2>4. SameSheets(PushFront(CurrentPage(b), h.redo), PushFront(CurrentPage(c), g.redo))
    BY <1>1, <1>2, SheetsPushed
  <2>5. SameStacks(v, w)
    BY <2>2, <2>3, <2>4 DEF SameStacks
  <2> QED BY <2>1, <2>3, <2>5, AlikeReplaced
<1>6. ASSUME CanRedo(b) PROVE Alike(Redo(b), RemoteRedo(c))
  <2> DEFINE v == [undo |-> PushBack(h.undo, CurrentPage(b)), redo |-> Tail(h.redo)]
             w == [undo |-> PushBack(g.undo, CurrentPage(c)), redo |-> Tail(g.redo)]
  <2>1. /\ Redo(b) = ResetTransientState([WithHistory(b, id, v) EXCEPT !.pages[b.currentPage] = Head(h.redo)])
        /\ RemoteRedo(c) = ResetTransientState([WithHistory(c, id, w) EXCEPT !.pages[c.currentPage] = Head(g.redo)])
    BY <1>1, <1>3, <1>4, <1>6 DEF Redo, RemoteRedo
  <2>2. /\ v.undo = PushBack(h.undo, CurrentPage(b)) /\ v.redo = Tail(h.redo)
        /\ w.undo = PushBack(g.undo, CurrentPage(c)) /\ w.redo = Tail(g.redo)
    OBVIOUS
  <2> HIDE DEF id, h, g, v, w
  <2>3. SameSheets(Tail(h.redo), Tail(g.redo)) /\ SameSheet(Head(h.redo), Head(g.redo))
    BY <1>2, <1>4, <1>6, SheetsLess
  <2>4. SameSheets(PushBack(h.undo, CurrentPage(b)), PushBack(g.undo, CurrentPage(c)))
    BY <1>1, <1>2, SheetsPushed
  <2>5. SameStacks(v, w)
    BY <2>2, <2>3, <2>4 DEF SameStacks
  <2> QED BY <2>1, <2>3, <2>5, AlikeReplaced
<1> QED BY <1>5, <1>6

-----------------------------------------------------------------------------
(* The operations on elements, and what the others do then.                *)

\* Two sound and clean boards outside a batch that show the same.
Twins(b, c, n, K) ==
    /\ Sound(b, n) /\ Sound(c, n) /\ Clean(b, K) /\ Clean(c, K)
    /\ ~b.batchSuppress /\ ~c.batchSuppress /\ Alike(b, c)

\* Lists joined.
LEMMA JoinedRange ==
    ASSUME NEW s, IsList(s)
    PROVE  /\ \A e : Range(Append(s, e)) = Range(s) \cup {e}
           /\ \A t : IsList(t) => Range(s \o t) = Range(s) \cup Range(t)
<1>1. ASSUME NEW e PROVE Range(Append(s, e)) = Range(s) \cup {e}
  <2>1. /\ DOMAIN Append(s, e) = 1 .. Len(s) + 1 /\ Len(s) \in Nat /\ DOMAIN s = 1 .. Len(s)
        /\ \A i \in 1 .. Len(s) : Append(s, e)[i] = s[i]
        /\ Append(s, e)[Len(s) + 1] = e
    BY AppendList
  <2>2. \A i \in 1 .. Len(s) + 1 : i \in 1 .. Len(s) \/ i = Len(s) + 1
    BY <2>1
  <2>3. 1 .. Len(s) \subseteq 1 .. Len(s) + 1 /\ Len(s) + 1 \in 1 .. Len(s) + 1
    BY <2>1
  <2> QED BY <2>1, <2>2, <2>3 DEF Range
<1>2. ASSUME NEW t, IsList(t) PROVE Range(s \o t) = Range(s) \cup Range(t)
  <2> DEFINE r == s \o t
  <2>1. /\ DOMAIN r = 1 .. Len(s) + Len(t) /\ Len(s) \in Nat /\ Len(t) \in Nat
        /\ DOMAIN s = 1 .. Len(s) /\ DOMAIN t = 1 .. Len(t)
        /\ \A i \in 1 .. Len(s) : r[i] = s[i]
        /\ \A i \in 1 .. Len(t) : r[Len(s) + i] = t[i]
    BY <1>2, ConcatList
  <2> HIDE DEF r
  <2>2. ASSUME NEW i \in 1 .. Len(s) + Len(t)
        PROVE  i \in 1 .. Len(s) \/ (i - Len(s) \in 1 .. Len(t) /\ r[i] = t[i - Len(s)])
    <3>1. CASE i <= Len(s)
      BY <2>1, <3>1
    <3>2. CASE ~(i <= Len(s))
      <4>1. i - Len(s) \in 1 .. Len(t) /\ Len(s) + (i - Len(s)) = i
        BY <2>1, <3>2
      <4>2. r[Len(s) + (i - Len(s))] = t[i - Len(s)]
        BY <2>1, <4>1
      <4> QED BY <4>1, <4>2
    <3> QED BY <3>1, <3>2
  <2>3. 1 .. Len(s) \subseteq 1 .. Len(s) + Len(t) /\ \A i \in 1 .. Len(t) : Len(s) + i \in 1 .. Len(s) + Len(t)
    BY <2>1
  <2>4. Range(r) \subseteq Range(s) \cup Range(t)
    BY <2>1, <2>2 DEF Range
  <2>5. Range(s) \subseteq Range(r) /\ Range(t) \subseteq Range(r)
    BY <2>1, <2>3 DEF Range
  <2> QED BY <2>4, <2>5 DEF r
<1> QED BY <1>1, <1>2

\* After a snapshot the page shown gets the same elements.
LEMMA TwinsWritten ==
    ASSUME NEW b, NEW c, NEW n, NEW K, Twins(b, c, n, K), NEW es, NEW fs, Range(es) = Range(fs)
    PROVE  Alike(WithElements(PushSnapshot(b), es), WithElements(PushSnapshot(c), fs))
<1>1. Alike(PushSnapshot(b), PushSnapshot(c)) /\ Sound(PushSnapshot(b), n) /\ Sound(PushSnapshot(c), n)
  BY AlikeSnapshot, SnapshotWrites DEF Twins
<1> QED BY <1>1, AlikeElements

\* The page shown.
LEMMA TwinsPage ==
    ASSUME NEW b, NEW c, NEW n, NEW K, Twins(b, c, n, K)
    PROVE  /\ Range(Elements(b)) = Range(Elements(c)) /\ ElementIds(Elements(b)) = ElementIds(Elements(c))
           /\ Distinct(Elements(b), K) /\ Distinct(Elements(c), K)
           /\ Elements(PushSnapshot(b)) = Elements(b) /\ Elements(PushSnapshot(c)) = Elements(c)
BY AlikePage, ShownClean, SnapshotWrites DEF Twins

\* Clear.
LEMMA ClearAlike ==
    ASSUME NEW b, NEW c, NEW n, NEW K, Twins(b, c, n, K)
    PROVE  Alike(Clear(b), Clear(c))
<1> DEFINE d == WithElements(PushSnapshot(b), <<>>)
           e == WithElements(PushSnapshot(c), <<>>)
<1>1. Alike(d, e)
  BY TwinsWritten
<1>2. IsBoard(d) /\ IsBoard(e)
  BY SnapshotWrites, ElementsWritten DEF Twins, Sound
<1> HIDE DEF d, e
<1>3. Alike(ResetTransientState(d), ResetTransientState(e))
  BY <1>1, <1>2, AlikeShow DEF Alike
<1> QED BY <1>3 DEF Clear, d, e

\* AddElement.
LEMMA AddAlike ==
    ASSUME NEW b, NEW c, NEW n, NEW K, Twins(b, c, n, K), NEW e
    PROVE  Alike(AddElement(b, e), AddElement(c, e))
<1>1. Range(Append(Elements(b), e)) = Range(Append(Elements(c), e))
  BY TwinsPage, JoinedRange DEF Distinct
<1>2. Alike(WithElements(PushSnapshot(b), Append(Elements(b), e)), WithElements(PushSnapshot(c), Append(Elements(c), e)))
  BY <1>1, TwinsWritten
<1> QED BY <1>2, TwinsPage DEF AddElement, AppendElement

\* The removal of one element.
LEMMA RemoveAlike ==
    ASSUME NEW b, NEW c, NEW n, NEW K, Twins(b, c, n, K), NEW id \in ElementIds(Elements(b))
    PROVE  Alike(RemoveAll(PushSnapshot(b), {id}), RemoteRemove(c, id))
<1> DEFINE es == FoldSet(LAMBDA x, t : Without(t, x), Elements(b), {id})
           fs == Without(Elements(c), id)
<1>1. Range(es) = {e \in Range(Elements(b)) : e.id \notin {id}}
  BY RemovedIs, TwinsPage, FS_Singleton
<1>2. Range(fs) = {e \in Range(Elements(c)) : e.id # id}
  BY WithoutDistinct, TwinsPage
<1>3. /\ RemoveAll(PushSnapshot(b), {id}) = WithElements(PushSnapshot(b), es)
      /\ RemoteRemove(c, id) = WithElements(PushSnapshot(c), fs)
  BY TwinsPage DEF RemoveAll, RemoteRemove, RemoveElement
<1> HIDE DEF es, fs
<1>4. Range(es) = Range(fs)
  BY <1>1, <1>2, TwinsPage
<1> QED BY <1>3, <1>4, TwinsWritten

\* Where the element of an id is in a list, if it is there.
PlaceIn(es, id) == LET I == {i \in 1 .. Len(es) : es[i].id = id} IN IF I # {} THEN Min(I) ELSE 0

\* Place looks there.
LEMMA PlaceIs == ASSUME NEW b, NEW id PROVE Place(b, id) = PlaceIn(Elements(b), id)
BY DEF Place, PlaceIn, SelectInSeq

\* Another content of an element, and of the element of an id in a list.
Altered(d, x) == [d EXCEPT !.content = x]
WithContent(es, id, x) == [es EXCEPT ![PlaceIn(es, id)].content = x]

\* The element of an id in a list of different elements gets another content.
LEMMA EditedIs ==
    ASSUME NEW es, NEW K, Distinct(es, K), NEW d \in Range(es), NEW x
    PROVE  /\ PlaceIn(es, d.id) # 0
           /\ Range(WithContent(es, d.id, x)) = {e \in Range(es) : e.id # d.id} \cup {Altered(d, x)}
<1> DEFINE I == {i \in 1 .. Len(es) : es[i].id = d.id}
           p == PlaceIn(es, d.id)
           r == [es EXCEPT ![p].content = x]
<1>1. IsList(es) /\ DOMAIN es = 1 .. Len(es) /\ Len(es) \in Nat
  BY AppendList DEF Distinct
<1>2. PICK k \in DOMAIN es : es[k] = d
  BY DEF Range
<1>3. I = {k}
  BY <1>1, <1>2 DEF Distinct
<1>4. Min({k}) = k
  <2>1. k \in Int
    BY <1>1
  <2> QED BY <2>1 DEF Min
<1>5. p = IF I # {} THEN Min(I) ELSE 0
  BY DEF PlaceIn
<1> HIDE DEF I
<1>6. p = k
  BY <1>3, <1>4, <1>5
<1> HIDE DEF p
<1>7. es = [i \in DOMAIN es |-> es[i]]
  <2>1. es \in Seq({es[i] : i \in DOMAIN es})
    BY <1>1 DEF IsList
  <2> QED BY <2>1
<1>8. r = [es EXCEPT ![k] = [d EXCEPT !.content = x]]
  BY <1>2, <1>6
<1> HIDE DEF r
<1>9. DOMAIN r = DOMAIN es /\ \A i \in DOMAIN es : r[i] = IF i = k THEN [d EXCEPT !.content = x] ELSE es[i]
  BY <1>7, <1>8
<1>10. \A i \in DOMAIN es : i # k => es[i].id # d.id
  BY <1>2 DEF Distinct
<1>11. Range(r) = {e \in Range(es) : e.id # d.id} \cup {[d EXCEPT !.content = x]}
  <2>1. ASSUME NEW e \in Range(r) PROVE e \in {a \in Range(es) : a.id # d.id} \cup {[d EXCEPT !.content = x]}
    BY <1>9, <1>10 DEF Range
  <2>2. ASSUME NEW e \in Range(es), e.id # d.id PROVE e \in Range(r)
    BY <1>2, <1>9, <2>2 DEF Range
  <2>3. [d EXCEPT !.content = x] \in Range(r)
    BY <1>2, <1>9 DEF Range
  <2> QED BY <2>1, <2>2, <2>3
<1>12. p # 0
  BY <1>1, <1>6
<1> QED BY <1>11, <1>12 DEF r, p, WithContent, Altered

\* The update of an element, which for others may come to the end of the page.
LEMMA UpdateAlike ==
    ASSUME NEW b, NEW c, NEW n, NEW K, Twins(b, c, n, K), NEW d \in Range(Elements(b)), NEW x
    PROVE  /\ Alike(UpdateElement(b, d.id, x), UpdateElement(c, d.id, x))
           /\ Alike(UpdateElement(b, d.id, x), RemoteUpdateElement(c, [d EXCEPT !.content = x]))
<1> DEFINE es == WithContent(Elements(b), d.id, x)
           fs == WithContent(Elements(c), d.id, x)
           new == Altered(d, x)
           gs == Append(Without(Elements(c), d.id), new)
<1>1. /\ Distinct(Elements(b), K) /\ Distinct(Elements(c), K) /\ d \in Range(Elements(b)) /\ d \in Range(Elements(c))
      /\ Range(Elements(b)) = Range(Elements(c))
  BY TwinsPage
<1>2. PlaceIn(Elements(b), d.id) # 0 /\ Range(es) = {e \in Range(Elements(b)) : e.id # d.id} \cup {new}
  BY <1>1, EditedIs
<1>3. PlaceIn(Elements(c), d.id) # 0 /\ Range(fs) = {e \in Range(Elements(c)) : e.id # d.id} \cup {new}
  BY <1>1, EditedIs
<1>4. Range(gs) = {e \in Range(Elements(c)) : e.id # d.id} \cup {new}
  <2>1. Distinct(Without(Elements(c), d.id), K) /\ Range(Without(Elements(c), d.id)) = {e \in Range(Elements(c)) : e.id # d.id}
    BY <1>1, WithoutDistinct
  <2> QED BY <2>1, JoinedRange DEF Distinct
<1>5. new.id = d.id
  BY <1>1, DistinctMeans, ElementEdited DEF Altered
<1>6. /\ UpdateElement(b, d.id, x) = WithElements(PushSnapshot(b), es)
      /\ UpdateElement(c, d.id, x) = WithElements(PushSnapshot(c), fs)
  BY <1>2, <1>3, TwinsPage, PlaceIs DEF UpdateElement, Changed, WithContent
<1>7. RemoteUpdateElement(c, new) = WithElements(WithElements(PushSnapshot(c), Without(Elements(c), d.id)), gs)
  <2>1. Sound(PushSnapshot(c), n) /\ Elements(PushSnapshot(c)) = Elements(c)
    BY SnapshotWrites DEF Twins
  <2>2. Elements(WithElements(PushSnapshot(c), Without(Elements(c), d.id))) = Without(Elements(c), d.id)
    BY <2>1, Written
  <2> QED BY <1>5, <2>1, <2>2 DEF RemoteUpdateElement, RemoveElement, AppendElement
<1> HIDE DEF es, fs, gs
<1>8. Alike(WithElements(PushSnapshot(b), es), WithElements(PushSnapshot(c), fs))
  BY <1>1, <1>2, <1>3, TwinsWritten
<1>9. Alike(WithElements(PushSnapshot(b), es), WithElements(WithElements(PushSnapshot(c), Without(Elements(c), d.id)), gs))
  <2> DEFINE P == PushSnapshot(b)
             Q == PushSnapshot(c)
             w == Without(Elements(c), d.id)
  <2>1. Alike(P, Q) /\ Sound(P, n) /\ Sound(Q, n)
    BY AlikeSnapshot, SnapshotWrites DEF Twins
  <2> HIDE DEF P, Q, w
  <2>2. Alike(WithElements(P, w), WithElements(Q, w)) /\ Sound(WithElements(P, w), n) /\ Sound(WithElements(Q, w), n)
    BY <2>1, AlikeElements, ElementsSound
  <2>3. Alike(WithElements(WithElements(P, w), es), WithElements(WithElements(Q, w), gs))
    BY <1>1, <1>2, <1>4, <2>2, AlikeElements
  <2>4. WithElements(WithElements(P, w), es) = WithElements(P, es)
    BY <2>1, ElementsTwice
  <2> QED BY <2>3, <2>4 DEF P, Q, w
<1> QED BY <1>6, <1>7, <1>8, <1>9 DEF new, Altered

-----------------------------------------------------------------------------
(* The pen.                                                                *)

\* The ids of strokes.
IdsIn(S) == {s.id : s \in S}

\* One stroke more, or less.
LEMMA StrokeIdsAre ==
    ASSUME NEW S, NEW s
    PROVE  /\ IdsIn(S \cup {s}) = IdsIn(S) \cup {s.id}
           /\ s \in S /\ (\A a \in S : a.id = s.id => a = s) => IdsIn(S \ {s}) = IdsIn(S) \ {s.id}
BY DEF IdsIn

\* A board with other strokes.
WithStrokes(b, S) == [b EXCEPT !.strokes = S]

\* The strokes being drawn become others with the same ids.
LEMMA AlikeStrokes ==
    ASSUME NEW b, NEW n, Sound(b, n), NEW c, Sound(c, n), Alike(b, c), NEW S, NEW T, IdsIn(S) = IdsIn(T)
    PROVE  LET d == WithStrokes(b, S)
               e == WithStrokes(c, T)
           IN Alike(d, e) /\ Sound(d, n) /\ Sound(e, n) /\ Elements(d) = Elements(b) /\ Elements(e) = Elements(c)
<1> DEFINE d == WithStrokes(b, S)
           e == WithStrokes(c, T)
<1>1. b = [f \in Fields |-> b[f]] /\ c = [f \in Fields |-> c[f]]
  BY DEF Sound, IsBoard
<1>2. /\ IsBoard(d) /\ d.pages = b.pages /\ d.currentPage = b.currentPage /\ d.histories = b.histories /\ d.strokes = S
      /\ IsBoard(e) /\ e.pages = c.pages /\ e.currentPage = c.currentPage /\ e.histories = c.histories /\ e.strokes = T
  BY <1>1 DEF IsBoard, Fields, WithStrokes
<1> HIDE DEF d, e
<1>3. Sound(d, n) /\ Sound(e, n)
  BY <1>2, SameSound
<1>4. Alike(d, e)
  BY <1>2 DEF Alike, Drawn, History, IdsIn
<1>5. Elements(d) = Elements(b) /\ Elements(e) = Elements(c)
  BY <1>2 DEF Elements, CurrentPage
<1> QED BY <1>3, <1>4, <1>5 DEF d, e

\* A stroke is begun.
LEMMA BeginAlike ==
    ASSUME NEW b, NEW c, NEW n, NEW K, Twins(b, c, n, K), NEW x, NEW id,
           StrokesAt(b, LocalKey(x)) = {}, StrokesAt(c, RemoteKey(id)) = {}
    PROVE  Alike(PenBegin(b, x, id), RemoteStrokeBegin(c, id))
<1> DEFINE P == PushSnapshot(b)
           Q == PushSnapshot(c)
           S == (P.strokes \ StrokesAt(P, LocalKey(x))) \cup {[key |-> LocalKey(x), id |-> id]}
           T == (Q.strokes \ StrokesAt(Q, RemoteKey(id))) \cup {[key |-> RemoteKey(id), id |-> id]}
<1>1. Alike(P, Q) /\ Sound(P, n) /\ Sound(Q, n) /\ P.strokes = b.strokes /\ Q.strokes = c.strokes
  BY AlikeSnapshot, SnapshotWrites DEF Twins
<1>2. Drawn(b) = Drawn(c)
  BY DEF Twins, Alike
<1>3. PenBegin(b, x, id) = WithStrokes(P, S) /\ RemoteStrokeBegin(c, id) = WithStrokes(Q, T)
  BY DEF PenBegin, RemoteStrokeBegin, Unfinished, WithStrokes
<1> HIDE DEF P, Q
<1>4. S = b.strokes \cup {[key |-> LocalKey(x), id |-> id]} /\ T = c.strokes \cup {[key |-> RemoteKey(id), id |-> id]}
  BY <1>1 DEF StrokesAt
<1> HIDE DEF S, T
<1>5. [key |-> LocalKey(x), id |-> id].id = id /\ [key |-> RemoteKey(id), id |-> id].id = id
  OBVIOUS
<1>6. IdsIn(S) = IdsIn(b.strokes) \cup {id} /\ IdsIn(T) = IdsIn(c.strokes) \cup {id}
  BY <1>4, <1>5, StrokeIdsAre
<1>7. IdsIn(S) = IdsIn(T)
  BY <1>2, <1>6 DEF Drawn, IdsIn
<1> QED BY <1>1, <1>3, <1>7, AlikeStrokes

\* The stroke under a key is finished.
LEMMA FinishedIs ==
    ASSUME NEW b, NEW key, NEW s, StrokesAt(b, key) = {s}
    PROVE  Finished(b, key) = AppendElement(WithStrokes(b, b.strokes \ {s}), Element(s.id, TRUE))
BY DEF Finished, WithStrokes

\* A stroke is finished: on each board one stroke is of that id.
LEMMA EndAlike ==
    ASSUME NEW b, NEW c, NEW n, NEW K, Twins(b, c, n, K), NEW x, NEW s, NEW t,
           StrokesAt(b, LocalKey(x)) = {s}, StrokesAt(c, RemoteKey(s.id)) = {t}, t.id = s.id
    PROVE  Alike(PenEnd(b, x), RemoteStrokeEnd(c, s.id))
<1> DEFINE d == WithStrokes(b, b.strokes \ {s})
           e == WithStrokes(c, c.strokes \ {t})
           new == Element(s.id, TRUE)
<1>1. PenEnd(b, x) = AppendElement(d, new) /\ RemoteStrokeEnd(c, s.id) = AppendElement(e, new)
  BY FinishedIs DEF PenEnd, RemoteStrokeEnd
<1>2. \A a \in b.strokes : a.id = s.id => a = s
  BY DEF Twins, Clean, StrokesAt
<1>3. \A a \in c.strokes : a.id = t.id => a = t
  BY DEF Twins, Clean, StrokesAt
<1>4. IdsIn(b.strokes \ {s}) = IdsIn(c.strokes \ {t})
  <2>1. s \in b.strokes /\ t \in c.strokes
    BY DEF StrokesAt
  <2>2. IdsIn(b.strokes \ {s}) = IdsIn(b.strokes) \ {s.id} /\ IdsIn(c.strokes \ {t}) = IdsIn(c.strokes) \ {t.id}
    BY <1>2, <1>3, <2>1, StrokeIdsAre
  <2>3. IdsIn(b.strokes) = IdsIn(c.strokes)
    BY DEF Twins, Alike, Drawn, IdsIn
  <2> QED BY <2>2, <2>3
<1>5. Alike(d, e) /\ Sound(d, n) /\ Sound(e, n) /\ Elements(d) = Elements(b) /\ Elements(e) = Elements(c)
  BY <1>4, AlikeStrokes DEF Twins
<1> HIDE DEF d, e, new
<1>6. Range(Append(Elements(d), new)) = Range(Append(Elements(e), new))
  <2>1. Range(Elements(b)) = Range(Elements(c)) /\ IsList(Elements(b)) /\ IsList(Elements(c))
    BY TwinsPage DEF Distinct
  <2>2. \A l : IsList(l) => Range(Append(l, new)) = Range(l) \cup {new}
    BY JoinedRange
  <2> QED BY <1>5, <2>1, <2>2
<1>7. Alike(WithElements(d, Append(Elements(d), new)), WithElements(e, Append(Elements(e), new)))
  BY <1>5, <1>6, AlikeElements
<1> QED BY <1>1, <1>7 DEF AppendElement

-----------------------------------------------------------------------------
(* The eraser.                                                             *)

\* What a pass leaves: the strokes it does not touch, and the fragments.
LEMMA ErasedRange ==
    ASSUME NEW es, NEW K, Distinct(es, K), NEW pass, IsPass(pass),
           \A x \in Stamps(pass) : x \in DOMAIN K /\ K[x] = TRUE /\ x \notin ElementIds(es)
    PROVE  /\ Range(Erased(es, pass)) = {e \in Range(es) : e.id \notin DOMAIN pass} \cup Range(Fragments(es, pass))
           /\ \A e \in Range(Fragments(es, pass)) : e.id \in Stamps(pass)
           /\ Distinct(Erased(es, pass), K) /\ Distinct(Fragments(es, pass), K)
<1> DEFINE r == Erased(es, pass)
           f == Leaving(r, ElementIds(es))
<1>1. /\ Distinct(r, K)
      /\ \A d : d \in Range(r) <=> \/ d \in Range(es) /\ Kept(d, pass)
                                   \/ \E x : d = Element(x, TRUE) /\ LeftOf(es, pass, x)
  BY ErasedIs
<1> HIDE DEF r
<1>2. Distinct(f, K) /\ Range(f) = {e \in Range(r) : e.id \notin ElementIds(es)}
  BY <1>1, LeavingIs
<1>3. \A x : Element(x, TRUE).id = x /\ (LeftOf(es, pass, x) => x \in Stamps(pass))
  BY DEF Element, LeftOf, Stamps, Kept
<1>4. \A e \in Range(es) : e.id \in ElementIds(es)
  BY IdsOfRange
<1>5. \A d : d \in Range(f) <=> \E x : d = Element(x, TRUE) /\ LeftOf(es, pass, x)
  <2>1. ASSUME NEW d \in Range(f) PROVE \E x : d = Element(x, TRUE) /\ LeftOf(es, pass, x)
    BY <1>1, <1>2, <1>4, <2>1
  <2>2. ASSUME NEW x, LeftOf(es, pass, x) PROVE Element(x, TRUE) \in Range(f)
    <3>1. Element(x, TRUE) \in Range(r)
      BY <1>1, <2>2
    <3>2. Element(x, TRUE).id \notin ElementIds(es)
      BY <1>3, <2>2
    <3> QED BY <1>2, <3>1, <3>2
  <2> HIDE DEF f
  <2> QED BY <2>1, <2>2
<1>6. Fragments(es, pass) = f
  BY DEF Fragments, r
<1> HIDE DEF f
<1>7. Range(r) = {e \in Range(es) : e.id \notin DOMAIN pass} \cup Range(f)
  <2>1. \A d : d \in Range(r) <=> (d \in Range(es) /\ Kept(d, pass)) \/ d \in Range(f)
    BY <1>1, <1>5
  <2> QED BY <2>1 DEF Kept
<1>8. ASSUME NEW e \in Range(f) PROVE e.id \in Stamps(pass)
  <2>1. PICK x : e = Element(x, TRUE) /\ LeftOf(es, pass, x)
    BY <1>5
  <2> QED BY <1>3, <2>1
<1> QED BY <1>1, <1>2, <1>6, <1>7, <1>8 DEF r

\* What the command of the eraser leaves of a list.
Wiped(es, removed, added) == {e \in Range(es) : e.id \notin removed} \cup Range(added)

\* It is written to the page after a snapshot.
LEMMA RemoteEraserIs ==
    ASSUME NEW c, NEW n, Sound(c, n), NEW K, Clean(c, K), NEW removed, IsFiniteSet(removed), NEW added, IsList(added)
    PROVE  \E es : /\ RemoteEraserEnd(c, removed, added) = WithElements(PushSnapshot(c), es)
                   /\ Range(es) = Wiped(Elements(c), removed, added)
<1> DEFINE P == PushSnapshot(c)
           r == FoldSet(LAMBDA id, t : Without(t, id), Elements(c), removed)
<1>1. Distinct(Elements(c), K)
  BY ShownClean
<1>2. Distinct(r, K) /\ Range(r) = {e \in Range(Elements(c)) : e.id \notin removed}
  BY <1>1, RemovedIs
<1>3. Sound(P, n) /\ Elements(P) = Elements(c)
  BY SnapshotWrites
<1>4. Elements(RemoveAll(P, removed)) = r
  <2>1. RemoveAll(P, removed) = WithElements(P, r)
    BY <1>3 DEF RemoveAll
  <2> HIDE DEF r, P
  <2> QED BY <1>3, <2>1, Written
<1>5. RemoteEraserEnd(c, removed, added) = WithElements(P, r \o added)
  BY <1>4 DEF RemoteEraserEnd
<1> HIDE DEF r, P
<1>6. Range(r \o added) = Range(r) \cup Range(added)
  <2>1. IsList(r)
    BY <1>2 DEF Distinct
  <2> QED BY <2>1, JoinedRange
<1> QED BY <1>2, <1>5, <1>6 DEF Wiped, P

\* The same elements are written to the page shown.
LEMMA AlikeWritten ==
    ASSUME NEW b, NEW n, Sound(b, n), NEW es, Range(es) = Range(Elements(b))
    PROVE  Alike(b, WithElements(b, es))
<1> DEFINE d == WithElements(b, es)
           p == [b.pages[b.currentPage] EXCEPT !.elements = es]
<1>1. IsBoard(b) /\ IsPage(CurrentPage(b)) /\ IsList(b.pages) /\ b.currentPage \in DOMAIN b.pages
  BY DEF Sound, PagesSound, CurrentPage
<1>2. /\ d.currentPage = b.currentPage /\ d.histories = b.histories /\ d.strokes = b.strokes
      /\ d.pages = [b.pages EXCEPT ![b.currentPage] = p]
  BY <1>1, ElementsWritten
<1>3. p.elements = es /\ p.pageId = CurrentPage(b).pageId
  BY <1>1 DEF IsPage, CurrentPage
<1> HIDE DEF d, p
<1>4. SameSheet(CurrentPage(b), p)
  BY <1>3 DEF SameSheet, Elements
<1>5. b.pages = [i \in DOMAIN b.pages |-> b.pages[i]]
  <2>1. b.pages \in Seq({b.pages[i] : i \in DOMAIN b.pages})
    BY <1>1 DEF IsList
  <2> QED BY <2>1
<1>6. DOMAIN d.pages = DOMAIN b.pages /\ \A i \in DOMAIN b.pages : d.pages[i] = IF i = b.currentPage THEN p ELSE b.pages[i]
  BY <1>2, <1>5
<1>7. SameSheets(b.pages, d.pages)
  <2>1. \A q : SameSheet(q, q)
    BY DEF SameSheet
  <2> QED BY <1>4, <1>6, <2>1 DEF SameSheets, CurrentPage
<1>8. \A q : History(d, q) = History(b, q)
  BY <1>2 DEF History
<1>9. \A q : SameStacks(History(b, q), History(d, q))
  BY <1>8, SheetsEqual DEF SameStacks
<1>10. Alike(b, d)
  BY <1>2, <1>7, <1>9 DEF Alike, Drawn
<1> QED BY <1>10 DEF d

\* During a drag of the eraser: what the command at its end, sent now, would make of
\* the board c.
Drags(b, c) == Alike(b, RemoteEraserEnd(c, b.eraserRemoved, FlushedAdded(b)))

\* The fragments of a pass are new to the drag.
Fresh(b, pass) == Stamps(pass) \cap (b.eraserRemoved \cup DOMAIN pass) = {}

\* What is announced is a list, and what is removed is finite.
LEMMA FlushedRange ==
    ASSUME NEW b, NEW K, Clean(b, K), IsFiniteSet(DOMAIN K)
    PROVE  /\ IsList(FlushedAdded(b)) /\ IsFiniteSet(b.eraserRemoved)
           /\ Range(FlushedAdded(b)) = {e \in Range(b.eraserAdded) : e.id \notin b.eraserRemoved}
<1>1. Distinct(b.eraserAdded, K) /\ b.eraserRemoved \subseteq DOMAIN K
  BY DEF Clean
<1>2. /\ Distinct(FlushedAdded(b), K)
      /\ Range(FlushedAdded(b)) = {e \in Range(b.eraserAdded) : e.id \notin b.eraserRemoved}
  BY <1>1, LeavingIs DEF FlushedAdded
<1>3. IsFiniteSet(b.eraserRemoved)
  BY <1>1, FS_Subset
<1> QED BY <1>2, <1>3 DEF Distinct

\* What EraserMove writes.
LEMMA MoveWrites ==
    ASSUME NEW b, NEW n, Sound(b, n), NEW pass
    PROVE  LET c == EraserMove(b, pass)
               w == WithElements(b, Erased(Elements(b), pass))
           IN /\ c.pages = w.pages /\ c.currentPage = w.currentPage /\ c.histories = w.histories /\ c.strokes = b.strokes
              /\ c.eraserRemoved = b.eraserRemoved \cup DOMAIN pass
              /\ c.eraserAdded = b.eraserAdded \o Fragments(Elements(b), pass)
              /\ w.strokes = b.strokes /\ c.batchSuppress = b.batchSuppress /\ IsBoard(c)
<1> DEFINE w == WithElements(b, Erased(Elements(b), pass))
           c == EraserMove(b, pass)
           X == b.eraserRemoved \cup DOMAIN pass
           Y == b.eraserAdded \o Fragments(Elements(b), pass)
<1>1. /\ IsBoard(w) /\ w.strokes = b.strokes /\ w.eraserRemoved = b.eraserRemoved /\ w.eraserAdded = b.eraserAdded
      /\ w.batchSuppress = b.batchSuppress
  BY ElementsWritten DEF Sound
<1>2. c = [w EXCEPT !.eraserRemoved = @ \cup DOMAIN pass, !.eraserAdded = @ \o Fragments(Elements(b), pass)]
  BY DEF EraserMove
<1> HIDE DEF w, c
<1>3. c = [w EXCEPT !.eraserRemoved = X, !.eraserAdded = Y]
  BY <1>1, <1>2
<1> HIDE DEF X, Y
<1>4. /\ c.pages = w.pages /\ c.currentPage = w.currentPage /\ c.histories = w.histories /\ c.strokes = w.strokes
      /\ c.eraserRemoved = X /\ c.eraserAdded = Y /\ c.batchSuppress = w.batchSuppress /\ IsBoard(c)
  BY <1>1, <1>3 DEF IsBoard, Fields
<1> QED BY <1>1, <1>4 DEF w, c, X, Y

\* A pass of the eraser goes on with the drag.
LEMMA MoveDrags ==
    ASSUME NEW b, NEW n, Sound(b, n), NEW c, Sound(c, n), NEW K, IsFiniteSet(DOMAIN K), Clean(b, K), Clean(c, K),
           NEW pass, PassFits(b, pass, K), Fresh(b, pass), Drags(b, c)
    PROVE  Drags(EraserMove(b, pass), c)
<1> DEFINE d == EraserMove(b, pass)
           P == PushSnapshot(c)
           r == Erased(Elements(b), pass)
           f == Fragments(Elements(b), pass)
           R == b.eraserRemoved
           S == b.eraserRemoved \cup DOMAIN pass
<1>1. /\ d.pages = WithElements(b, r).pages /\ d.currentPage = WithElements(b, r).currentPage
      /\ d.histories = WithElements(b, r).histories /\ d.strokes = WithElements(b, r).strokes
      /\ d.eraserRemoved = S /\ d.eraserAdded = b.eraserAdded \o f
  BY MoveWrites
<1>2. Clean(d, K)
  BY MoveClean DEF Becomes
<1>3. Distinct(Elements(b), K) /\ Sound(P, n)
  BY ShownClean, SnapshotWrites
<1>4. /\ Range(r) = {e \in Range(Elements(b)) : e.id \notin DOMAIN pass} \cup Range(f)
      /\ \A e \in Range(f) : e.id \in Stamps(pass)
      /\ Distinct(f, K)
  <2>1. IsPass(pass) /\ \A x \in Stamps(pass) : x \in DOMAIN K /\ K[x] = TRUE /\ x \notin ElementIds(Elements(b))
    BY PassClean DEF PassFits
  <2> QED BY <1>3, <2>1, ErasedRange
<1> HIDE DEF d, r, f, P
<1>5. /\ IsList(FlushedAdded(b)) /\ IsFiniteSet(R)
      /\ Range(FlushedAdded(b)) = {e \in Range(b.eraserAdded) : e.id \notin R}
  BY FlushedRange
<1>6. /\ IsList(FlushedAdded(d)) /\ IsFiniteSet(S)
      /\ Range(FlushedAdded(d)) = {e \in Range(d.eraserAdded) : e.id \notin S}
  BY <1>1, <1>2, FlushedRange
<1>7. Range(d.eraserAdded) = Range(b.eraserAdded) \cup Range(f)
  <2>1. IsList(b.eraserAdded) /\ IsList(f)
    BY <1>4 DEF Clean, Distinct
  <2> QED BY <1>1, <2>1, JoinedRange
<1>8. PICK es : /\ RemoteEraserEnd(c, R, FlushedAdded(b)) = WithElements(P, es)
                /\ Range(es) = Wiped(Elements(c), R, FlushedAdded(b))
  BY <1>5, RemoteEraserIs DEF P
<1>9. PICK fs : /\ RemoteEraserEnd(c, S, FlushedAdded(d)) = WithElements(P, fs)
                /\ Range(fs) = Wiped(Elements(c), S, FlushedAdded(d))
  BY <1>6, RemoteEraserIs DEF P
<1>10. Alike(b, WithElements(P, es)) /\ Sound(WithElements(P, es), n) /\ Elements(WithElements(P, es)) = es
  BY <1>3, <1>8, ElementsSound, Written DEF Drags
<1>11. Range(Elements(b)) = Range(es)
  BY <1>10, AlikePage
<1>12. \A e \in Range(f) : e.id \notin S
  BY <1>4 DEF Fresh
<1>13. Range(r) = Range(fs)
  <2>1. Range(es) = {e \in Range(Elements(c)) : e.id \notin R} \cup {e \in Range(b.eraserAdded) : e.id \notin R}
    BY <1>5, <1>8 DEF Wiped
  <2>2. Range(fs) = {e \in Range(Elements(c)) : e.id \notin S} \cup {e \in Range(b.eraserAdded) \cup Range(f) : e.id \notin S}
    BY <1>6, <1>7, <1>9 DEF Wiped
  <2>3. \A i : i \in S <=> i \in R \/ i \in DOMAIN pass
    OBVIOUS
  <2> HIDE DEF R, S
  <2> QED BY <1>4, <1>11, <1>12, <2>1, <2>2, <2>3
<1>14. Alike(WithElements(b, r), WithElements(P, fs))
  <2>1. Alike(WithElements(b, r), WithElements(WithElements(P, es), fs))
    BY <1>10, <1>13, AlikeElements
  <2> QED BY <1>3, <2>1, ElementsTwice
<1>15. Alike(d, WithElements(b, r))
  <2>1. Drawn(WithElements(b, r)) = Drawn(d)
    BY <1>1 DEF Drawn
  <2> QED BY <1>1, <2>1, AlikeShown
<1>16. Alike(d, WithElements(P, fs))
  BY <1>14, <1>15, AlikeEqual
<1>17. Drags(d, c)
  BY <1>1, <1>9, <1>16 DEF Drags
<1> QED BY <1>17 DEF d

\* The begin of a drag.
LEMMA BeginDrags ==
    ASSUME NEW b, NEW c, NEW n, NEW K, Twins(b, c, n, K), b.eraserRemoved = {}, b.eraserAdded = <<>>
    PROVE  Drags(PushSnapshot(b), c)
<1> DEFINE P == PushSnapshot(b)
           Q == PushSnapshot(c)
<1>1. /\ Alike(P, Q) /\ Sound(Q, n) /\ P.eraserRemoved = {} /\ P.eraserAdded = <<>>
      /\ Elements(Q) = Elements(c)
  BY AlikeSnapshot, SnapshotWrites DEF Twins
<1> HIDE DEF P
<1>2. IsList(FlushedAdded(P)) /\ Range(FlushedAdded(P)) = {}
  <2>1. Distinct(<<>>, K) /\ Range(<<>>) = {}
    BY NoneDistinct
  <2>2. Distinct(Leaving(<<>>, {}), K) /\ Range(Leaving(<<>>, {})) = {e \in Range(<<>>) : e.id \notin {}}
    BY <2>1, LeavingIs
  <2> QED BY <1>1, <2>1, <2>2 DEF FlushedAdded, Distinct
<1>3. PICK es : /\ RemoteEraserEnd(c, {}, FlushedAdded(P)) = WithElements(Q, es)
                /\ Range(es) = Wiped(Elements(c), {}, FlushedAdded(P))
  <2>1. IsFiniteSet({})
    BY FS_EmptySet
  <2> QED BY <1>2, <2>1, RemoteEraserIs DEF Twins
<1> HIDE DEF Q
<1>4. Range(es) = Range(Elements(Q))
  BY <1>1, <1>2, <1>3 DEF Wiped
<1>5. Alike(Q, WithElements(Q, es))
  BY <1>1, <1>4, AlikeWritten
<1>6. Alike(P, WithElements(Q, es))
  BY <1>1, <1>5, AlikeEqual
<1> QED BY <1>1, <1>3, <1>6 DEF Drags, P

\* The end of a drag forgets the increments.
LEMMA EndDrags ==
    ASSUME NEW b, NEW n, Sound(b, n), NEW c, NEW pass, Drags(EraserMove(b, pass), c)
    PROVE  LET d == EraserMove(b, pass)
           IN Alike(EraserEnd(b, pass), RemoteEraserEnd(c, d.eraserRemoved, FlushedAdded(d)))
<1> DEFINE d == EraserMove(b, pass)
           e == EraserEnd(b, pass)
<1>1. IsBoard(d)
  BY MoveWrites
<1>2. e = [d EXCEPT !.eraserRemoved = {}, !.eraserAdded = <<>>]
  BY DEF EraserEnd
<1> HIDE DEF d, e
<1>3. e.pages = d.pages /\ e.currentPage = d.currentPage /\ e.histories = d.histories /\ e.strokes = d.strokes
  BY <1>1, <1>2 DEF IsBoard, Fields
<1>4. Alike(e, d)
  <2>1. Drawn(d) = Drawn(e)
    BY <1>3 DEF Drawn
  <2> QED BY <1>3, <2>1, AlikeShown
<1>5. Alike(d, RemoteEraserEnd(c, d.eraserRemoved, FlushedAdded(d)))
  BY DEF Drags, d
<1>6. Alike(e, RemoteEraserEnd(c, d.eraserRemoved, FlushedAdded(d)))
  BY <1>4, <1>5, AlikeEqual
<1> QED BY <1>6 DEF d, e

\* EraseRegion.
LEMMA RegionAlike ==
    ASSUME NEW b, NEW c, NEW n, NEW K, IsFiniteSet(DOMAIN K), Twins(b, c, n, K), NEW pass, PassFits(b, pass, K)
    PROVE  Alike(EraseRegion(b, pass), RemoteEraserEnd(c, DOMAIN pass, Fragments(Elements(b), pass)))
<1> DEFINE P == PushSnapshot(b)
           Q == PushSnapshot(c)
           r == Erased(Elements(b), pass)
           f == Fragments(Elements(b), pass)
<1>1. Distinct(Elements(b), K) /\ Range(Elements(b)) = Range(Elements(c))
  BY TwinsPage
<1>2. Range(r) = {e \in Range(Elements(b)) : e.id \notin DOMAIN pass} \cup Range(f) /\ IsList(f)
  <2>1. IsPass(pass) /\ \A x \in Stamps(pass) : x \in DOMAIN K /\ K[x] = TRUE /\ x \notin ElementIds(Elements(b))
    BY PassClean DEF PassFits, Twins
  <2> QED BY <1>1, <2>1, ErasedRange DEF Distinct
<1>3. EraseRegion(b, pass) = WithElements(P, r)
  BY DEF EraseRegion
<1> HIDE DEF P, r, f
<1>4. PICK es : /\ RemoteEraserEnd(c, DOMAIN pass, f) = WithElements(Q, es)
                /\ Range(es) = Wiped(Elements(c), DOMAIN pass, f)
  <2>1. IsFiniteSet(DOMAIN pass)
    BY FS_Subset DEF PassFits
  <2> QED BY <1>2, <2>1, RemoteEraserIs DEF Twins
<1> HIDE DEF Q
<1>5. Range(r) = Range(es)
  BY <1>1, <1>2, <1>4 DEF Wiped
<1>6. Alike(WithElements(P, r), WithElements(Q, es))
  BY <1>5, TwinsWritten DEF P, Q
<1> QED BY <1>3, <1>4, <1>6 DEF f

-----------------------------------------------------------------------------
(* What the operations do to the gestures in progress.                     *)

\* No stroke is begun, no batch begun or ended, and the increments of the eraser stay
\* empty.
Idle(b) == b.eraserRemoved = {} /\ b.eraserAdded = <<>>
Mild(b, c) ==
    IsBoard(c) /\ c.strokes \subseteq b.strokes /\ c.batchSuppress = b.batchSuppress /\ (Idle(b) => Idle(c))

\* One mild change after another.
LEMMA MildTrans ==
    ASSUME NEW b, NEW c, NEW d, Mild(b, c), Mild(c, d)
    PROVE  Mild(b, d)
BY DEF Mild

\* What the operations are made of.
LEMMA MildSteps ==
    ASSUME NEW b, IsBoard(b)
    PROVE  /\ Mild(b, b) /\ Mild(b, PushSnapshot(b)) /\ Mild(b, ResetTransientState(b))
           /\ \A es : Mild(b, WithElements(b, es))
           /\ \A id, h : Mild(b, WithHistory(b, id, h))
           /\ \A i : Mild(b, Show(b, i))
           /\ \A S : S \subseteq b.strokes => Mild(b, WithStrokes(b, S))
           /\ \A s : Mild(b, [b EXCEPT !.pages = s])
           /\ \A s, hs : Mild(b, [b EXCEPT !.pages = s, !.histories = hs])
           /\ \A i, p : Mild(b, [b EXCEPT !.pages[i] = p])
<1>1. b = [f \in Fields |-> b[f]]
  BY DEF IsBoard
<1>2. \A es : Mild(b, WithElements(b, es))
  BY ElementsWritten DEF Mild, Idle
<1>3. \A id, h : Mild(b, WithHistory(b, id, h))
  BY HistoryIs DEF Mild, Idle
<1>4. Mild(b, b)
  BY DEF Mild
<1>5. Mild(b, PushSnapshot(b))
  BY <1>3, <1>4 DEF PushSnapshot
<1>6. Mild(b, ResetTransientState(b))
  BY <1>1 DEF Mild, IsBoard, Fields, ResetTransientState, Idle
<1>7. \A i : Mild(b, Show(b, i))
  BY <1>1 DEF Mild, IsBoard, Fields, ResetTransientState, Show, Idle
<1>8. \A S : S \subseteq b.strokes => Mild(b, WithStrokes(b, S))
  BY <1>1 DEF Mild, IsBoard, Fields, WithStrokes, Idle
<1>9. \A s : Mild(b, [b EXCEPT !.pages = s])
  BY <1>1 DEF Mild, IsBoard, Fields, Idle
<1>10. \A s, hs : Mild(b, [b EXCEPT !.pages = s, !.histories = hs])
  BY <1>1 DEF Mild, IsBoard, Fields, Idle
<1>11. \A i, p : Mild(b, [b EXCEPT !.pages[i] = p])
  BY <1>1 DEF Mild, IsBoard, Fields, Idle
<1> QED BY <1>2, <1>3, <1>4, <1>5, <1>6, <1>7, <1>8, <1>9, <1>10, <1>11

\* The page shown is replaced, in Undo and Redo.
LEMMA MildReplaced ==
    ASSUME NEW b, IsBoard(b), NEW id, NEW h, NEW i, NEW p
    PROVE  Mild(b, ResetTransientState([WithHistory(b, id, h) EXCEPT !.pages[i] = p]))
<1> DEFINE c == WithHistory(b, id, h)
           d == [c EXCEPT !.pages[i] = p]
<1>1. Mild(b, c)
  BY MildSteps
<1> HIDE DEF c
<1>2. Mild(c, d)
  BY <1>1, MildSteps DEF Mild
<1> HIDE DEF d
<1>3. Mild(d, ResetTransientState(d))
  BY <1>2, MildSteps DEF Mild
<1>4. Mild(b, ResetTransientState(d))
  BY <1>1, <1>2, <1>3, MildTrans
<1> QED BY <1>4 DEF c, d

\* A page is shown after the pages have changed.
LEMMA MildShown ==
    ASSUME NEW b, IsBoard(b), NEW c, Mild(b, c), NEW i
    PROVE  Mild(b, Show(c, i))
<1>1. Mild(c, Show(c, i))
  BY MildSteps DEF Mild
<1> QED BY <1>1, MildTrans

\* Elements are written after a snapshot.
LEMMA MildWritten ==
    ASSUME NEW b, IsBoard(b), NEW es, NEW fs
    PROVE  /\ Mild(b, WithElements(PushSnapshot(b), es))
           /\ Mild(b, WithElements(WithElements(PushSnapshot(b), es), fs))
<1> DEFINE P == PushSnapshot(b)
           Q == WithElements(P, es)
<1>1. Mild(b, P) /\ IsBoard(P)
  BY MildSteps DEF Mild
<1> HIDE DEF P
<1>2. Mild(P, Q) /\ IsBoard(Q)
  BY <1>1, MildSteps DEF Mild
<1> HIDE DEF Q
<1>3. Mild(Q, WithElements(Q, fs))
  BY <1>2, MildSteps
<1>4. Mild(b, Q) /\ Mild(b, WithElements(Q, fs))
  BY <1>1, <1>2, <1>3, MildTrans
<1> QED BY <1>4 DEF P, Q

\* The operations on elements.
LEMMA ElementsMild ==
    ASSUME NEW b, IsBoard(b)
    PROVE  /\ Mild(b, Clear(b))
           /\ \A e : Mild(b, AddElement(b, e)) /\ Mild(b, RemoteUpdateElement(b, e))
           /\ \A ids : Mild(b, RemoveAll(PushSnapshot(b), ids))
           /\ \A id, x : Mild(b, UpdateElement(b, id, x))
           /\ \A id : Mild(b, RemoteRemove(b, id))
           /\ \A pass : Mild(b, EraseRegion(b, pass))
           /\ \A removed, added : Mild(b, RemoteEraserEnd(b, removed, added))
<1> DEFINE P == PushSnapshot(b)
<1>1. Mild(b, P) /\ Mild(b, b)
  BY MildSteps
<1>2. \A es : Mild(b, WithElements(P, es))
  BY MildWritten
<1>3. \A es, fs : Mild(b, WithElements(WithElements(P, es), fs))
  BY MildWritten
<1> HIDE DEF P
<1>4. Mild(b, Clear(b))
  <2> DEFINE d == WithElements(P, <<>>)
  <2>1. Mild(b, d)
    BY <1>2
  <2> HIDE DEF d
  <2>2. Mild(d, ResetTransientState(d))
    BY <2>1, MildSteps DEF Mild
  <2>3. Mild(b, ResetTransientState(d))
    BY <2>1, <2>2, MildTrans
  <2> QED BY <2>3 DEF Clear, P, d
<1>5. ASSUME NEW e PROVE Mild(b, AddElement(b, e)) /\ Mild(b, RemoteUpdateElement(b, e))
  BY <1>2, <1>3 DEF AddElement, RemoteUpdateElement, AppendElement, RemoveElement, P
<1>6. ASSUME NEW ids PROVE Mild(b, RemoveAll(P, ids))
  BY <1>2 DEF RemoveAll
<1>7. ASSUME NEW id, NEW x PROVE Mild(b, UpdateElement(b, id, x))
  BY <1>1, <1>2 DEF UpdateElement, Changed, P
<1>8. ASSUME NEW id PROVE Mild(b, RemoteRemove(b, id))
  BY <1>1, <1>2 DEF RemoteRemove, RemoveElement, P
<1>9. ASSUME NEW pass PROVE Mild(b, EraseRegion(b, pass))
  BY <1>2 DEF EraseRegion, P
<1>10. ASSUME NEW removed, NEW added PROVE Mild(b, RemoteEraserEnd(b, removed, added))
  BY <1>2 DEF RemoteEraserEnd, P
<1> QED BY <1>4, <1>5, <1>6, <1>7, <1>8, <1>9, <1>10 DEF P

\* The operations on pages.
LEMMA PagesMild ==
    ASSUME NEW b, IsBoard(b)
    PROVE  /\ Mild(b, Undo(b)) /\ Mild(b, Redo(b))
           /\ \A id : Mild(b, CreatePage(b, id)) /\ Mild(b, SelectPage(b, id)) /\ Mild(b, DeletePage(b, id))
           /\ \A pages : Mild(b, ApplyFullSync(b, pages))
<1>1. Mild(b, Undo(b)) /\ Mild(b, Redo(b))
  BY MildReplaced DEF Undo, Redo
<1>2. \A c, i : Mild(b, c) => Mild(b, Show(c, i))
  BY MildShown
<1>3. Mild(b, b) /\ (\A s : Mild(b, [b EXCEPT !.pages = s])) /\ \A s, hs : Mild(b, [b EXCEPT !.pages = s, !.histories = hs])
  BY MildSteps
<1>4. \A s, i : Mild(b, Show([b EXCEPT !.pages = s], i))
  BY <1>2, <1>3
<1>5. \A s, hs, i : Mild(b, Show([b EXCEPT !.pages = s, !.histories = hs], i))
  BY <1>2, <1>3
<1>6. ASSUME NEW id PROVE Mild(b, CreatePage(b, id)) /\ Mild(b, SelectPage(b, id))
  BY <1>2, <1>3, <1>4 DEF CreatePage, SelectPage, InsertPage
<1>7. ASSUME NEW id PROVE Mild(b, DeletePage(b, id))
  BY <1>5 DEF DeletePage
<1>8. ASSUME NEW pages PROVE Mild(b, ApplyFullSync(b, pages))
  BY <1>5 DEF ApplyFullSync
<1> QED BY <1>1, <1>6, <1>7, <1>8

\* The strokes of others go by their own ids, one's own by the sessions that hold a
\* pen (P); no two go by the same key.
Keyed(S, P) ==
    /\ \A s \in S : s.key = RemoteKey(s.id) \/ \E x \in P : s.key = LocalKey(x)
    /\ \A s, t \in S : s.key = t.key => s = t

\* The two kinds of keys.
LEMMA KeysDiffer ==
    ASSUME NEW x, NEW y, NEW i
    PROVE  LocalKey(x) # RemoteKey(i) /\ (LocalKey(x) = LocalKey(y) => x = y)
BY DEF LocalKey, RemoteKey

\* Strokes go, and more sessions hold a pen.
LEMMA KeyedLess ==
    ASSUME NEW S, NEW P, Keyed(S, P), NEW T, T \subseteq S, NEW Q, P \subseteq Q
    PROVE  Keyed(T, Q)
BY DEF Keyed

\* A pen is laid down whose stroke is not there.
LEMMA KeyedWithout ==
    ASSUME NEW S, NEW P, Keyed(S, P), NEW x, \A s \in S : s.key # LocalKey(x)
    PROVE  Keyed(S, P \ {x})
BY DEF Keyed

\* Where the stroke of a key is.
LEMMA KeyedAt ==
    ASSUME NEW b, NEW P, Keyed(b.strokes, P), NEW s \in b.strokes
    PROVE  StrokesAt(b, s.key) = {s}
BY DEF Keyed, StrokesAt

\* What is begun goes by its key.
LEMMA KeyedMore ==
    ASSUME NEW b, IsBoard(b), NEW P, Keyed(b.strokes, P), NEW key, NEW id, NEW Q, P \subseteq Q,
           key = RemoteKey(id) \/ \E x \in Q : key = LocalKey(x)
    PROVE  LET c == Unfinished(b, key, id)
           IN /\ IsBoard(c) /\ c.batchSuppress = b.batchSuppress /\ (Idle(b) => Idle(c))
              /\ c.strokes \subseteq b.strokes \cup {[key |-> key, id |-> id]}
              /\ Keyed(c.strokes, Q)
<1> DEFINE new == [key |-> key, id |-> id]
           S == (b.strokes \ StrokesAt(b, key)) \cup {new}
           c == Unfinished(b, key, id)
<1>1. c = [b EXCEPT !.strokes = S]
  BY DEF Unfinished
<1>2. new.key = key /\ new.id = id
  OBVIOUS
<1>3. \A s \in S : s = new \/ (s \in b.strokes /\ s.key # key)
  BY DEF StrokesAt
<1> HIDE DEF new, c
<1>4. S \subseteq b.strokes \cup {new}
  OBVIOUS
<1> HIDE DEF S
<1>5. IsBoard(c) /\ c.strokes = S /\ c.batchSuppress = b.batchSuppress /\ (Idle(b) => Idle(c))
  BY <1>1 DEF IsBoard, Fields, Idle
<1>6. Keyed(S, Q)
  <2>1. \A s \in S : s.key = RemoteKey(s.id) \/ \E x \in Q : s.key = LocalKey(x)
    BY <1>2, <1>3 DEF Keyed
  <2>2. \A s, t \in S : s.key = t.key => s = t
    BY <1>2, <1>3 DEF Keyed
  <2> QED BY <2>1, <2>2 DEF Keyed
<1> QED BY <1>4, <1>5, <1>6 DEF c, new

\* A stroke is finished.
LEMMA FinishedMild ==
    ASSUME NEW b, IsBoard(b), NEW key
    PROVE  /\ Mild(b, Finished(b, key))
           /\ \A s : StrokesAt(b, key) = {s} => Finished(b, key).strokes = b.strokes \ {s}
<1> DEFINE S == b.strokes \ {CHOOSE s \in StrokesAt(b, key) : TRUE}
           e == Element((CHOOSE s \in StrokesAt(b, key) : TRUE).id, TRUE)
           c == WithStrokes(b, S)
<1>1. Finished(b, key) = AppendElement(c, e)
  BY DEF Finished, WithStrokes
<1>2. \A s : StrokesAt(b, key) = {s} => S = b.strokes \ {s}
  OBVIOUS
<1>3. S \subseteq b.strokes
  OBVIOUS
<1> HIDE DEF S, e
<1>4. Mild(b, c)
  BY <1>3, MildSteps
<1>5. c.strokes = S
  BY DEF IsBoard, Fields, WithStrokes
<1> HIDE DEF c
<1>6. IsBoard(c)
  BY <1>4 DEF Mild
<1>7. Mild(c, AppendElement(c, e)) /\ AppendElement(c, e).strokes = c.strokes
  BY <1>6, MildSteps, ElementsWritten DEF AppendElement
<1>8. Mild(b, AppendElement(c, e))
  BY <1>4, <1>7, MildTrans
<1> QED BY <1>1, <1>2, <1>5, <1>7, <1>8

\* What a command of another does to the gestures in progress.
LEMMA ApplyMild ==
    ASSUME NEW b, IsBoard(b), NEW c, c.type \in Types
    PROVE  c.type = "StrokeBegin" \/ Mild(b, Apply(b, c))
<1>1. Mild(b, b)
  BY MildSteps
<1>2. Mild(b, RemoteStrokeEnd(b, c.id))
  BY <1>1, FinishedMild DEF RemoteStrokeEnd
<1>3. Mild(b, UpdateElement(b, c.id, c.content)) /\ Mild(b, AddElement(b, c.element)) /\ Mild(b, Clear(b))
      /\ Mild(b, RemoteRemove(b, c.id)) /\ Mild(b, RemoteUpdateElement(b, c.element))
      /\ Mild(b, RemoteEraserEnd(b, c.removed, c.added))
  BY ElementsMild
<1>4. Mild(b, RemoteUndo(b)) /\ Mild(b, RemoteRedo(b)) /\ Mild(b, ApplyFullSync(b, c.pages))
  BY <1>1, PagesMild DEF RemoteUndo, RemoteRedo
<1>5. Mild(b, RemoteCreatePage(b, c.id)) /\ Mild(b, RemoteSelectPage(b, c.id)) /\ Mild(b, RemoteDeletePage(b, c.id))
  BY <1>1, PagesMild DEF RemoteCreatePage, RemoteSelectPage, RemoteDeletePage
<1> QED BY <1>2, <1>3, <1>4, <1>5 DEF Apply, Types

\* Strokes that are not there yet go by remote keys.
LEMMA ApplyKeyed ==
    ASSUME NEW b, IsBoard(b), NEW c, c.type \in Types, NEW P, Keyed(b.strokes, P)
    PROVE  LET d == Apply(b, c)
           IN /\ IsBoard(d) /\ d.batchSuppress = b.batchSuppress /\ (Idle(b) => Idle(d))
              /\ Keyed(d.strokes, P)
              /\ \A s \in d.strokes : s \in b.strokes \/ s.key = RemoteKey(s.id)
<1>1. CASE c.type # "StrokeBegin"
  <2>1. Mild(b, Apply(b, c))
    BY <1>1, ApplyMild
  <2>2. Keyed(Apply(b, c).strokes, P)
    BY <2>1, KeyedLess DEF Mild
  <2> QED BY <2>1, <2>2 DEF Mild
<1>2. CASE c.type = "StrokeBegin"
  <2> DEFINE Q == PushSnapshot(b)
             new == [key |-> RemoteKey(c.id), id |-> c.id]
             d == Unfinished(Q, RemoteKey(c.id), c.id)
  <2>1. Apply(b, c) = d
    BY <1>2 DEF Apply, RemoteStrokeBegin
  <2>2. Mild(b, Q) /\ IsBoard(Q)
    BY MildSteps DEF Mild
  <2> HIDE DEF Q
  <2>3. Keyed(Q.strokes, P)
    BY <2>2, KeyedLess DEF Mild
  <2>4. /\ IsBoard(d) /\ d.batchSuppress = Q.batchSuppress /\ (Idle(Q) => Idle(d))
        /\ d.strokes \subseteq Q.strokes \cup {new}
        /\ Keyed(d.strokes, P)
    BY <2>2, <2>3, KeyedMore
  <2>5. new.key = RemoteKey(new.id)
    OBVIOUS
  <2> HIDE DEF d, new
  <2>6. \A s \in d.strokes : s \in b.strokes \/ s.key = RemoteKey(s.id)
    BY <2>2, <2>4, <2>5 DEF Mild
  <2> QED BY <2>1, <2>2, <2>4, <2>6 DEF Mild
<1> QED BY <1>1, <1>2
=============================================================================
