-------------------------------- MODULE Board --------------------------------
(***************************************************************************)
(* QtBoardData: the pages of one whiteboard, the page it shows, the undo   *)
(* and redo stacks of each page and the gestures in progress, with every   *)
(* operation on them, local or from remote, as a function from a board to  *)
(* a board.  All of them run on the board's data thread, one at a time.    *)
(*                                                                         *)
(* An element is its id, a number that stands for its content, and whether *)
(* it is a stroke.  Geometry is left out: a pass of the eraser is given by *)
(* the strokes it removes and the fragments it leaves of them.  Tables     *)
(* (elements inside an element) are not modelled.                          *)
(***************************************************************************)
EXTENDS Naturals, Sequences, SequencesExt

CONSTANT HistoryLimit   \* kHistoryLimit

ASSUME HistoryLimitIsPos == HistoryLimit \in Nat \ {0}

Element(id, stroke) == [id |-> id, content |-> 0, stroke |-> stroke]
Page(id, elements) == [pageId |-> id, elements |-> elements]
EmptyHistory == [undo |-> <<>>, redo |-> <<>>]

\* The constructor's board: one empty page.
NewBoard(pageId) ==
    [pages |-> <<Page(pageId, <<>>)>>, currentPage |-> 1, histories |-> <<>>, strokes |-> {},
     eraserRemoved |-> {}, eraserAdded |-> <<>>, batchSuppress |-> FALSE]

CurrentPage(b) == b.pages[b.currentPage]
Elements(b) == CurrentPage(b).elements
WithElements(b, elements) == [b EXCEPT !.pages[b.currentPage].elements = elements]

ElementIds(elements) == {elements[i].id : i \in DOMAIN elements}
PageIds(b) == {b.pages[i].pageId : i \in DOMAIN b.pages}
IndexOf(b, pageId) == SelectInSeq(b.pages, LAMBDA p : p.pageId = pageId)

\* histories_[pageId]; a page without an entry gets an empty one.
History(b, pageId) == IF pageId \in DOMAIN b.histories THEN b.histories[pageId] ELSE EmptyHistory
WithHistory(b, pageId, h) ==
    [b EXCEPT !.histories =
        [q \in DOMAIN b.histories \cup {pageId} |-> IF q = pageId THEN h ELSE b.histories[q]]]

\* push_back on a stack that drops its front, push_front on one that drops its back.
PushBack(s, page) ==
    LET t == Append(s, page)
    IN IF Len(t) > HistoryLimit THEN SubSeq(t, Len(t) - HistoryLimit + 1, Len(t)) ELSE t
PushFront(page, s) == SubSeq(<<page>> \o s, 1, IF Len(s) < HistoryLimit THEN Len(s) + 1 ELSE HistoryLimit)

\* Record the current page before it changes, unless a batch has done so.
PushSnapshot(b) ==
    IF b.batchSuppress THEN b
    ELSE LET p == CurrentPage(b)
         IN WithHistory(b, p.pageId, [undo |-> PushBack(History(b, p.pageId).undo, p), redo |-> <<>>])

ResetTransientState(b) == [b EXCEPT !.strokes = {}, !.eraserRemoved = {}, !.eraserAdded = <<>>]

\* CreatePage and SelectPage, once the page is known to exist.
Show(b, i) == ResetTransientState([b EXCEPT !.currentPage = i])

InsertPage(b, i, page) == Show([b EXCEPT !.pages = InsertAt(b.pages, i, page)], i)

\* Page::Append, RemoveElementById (the first of that id) and the in-place
\* changes of Page::UpdateStroke and its like.
AppendElement(b, e) == WithElements(b, Append(Elements(b), e))
Without(elements, id) == RemoveFirstMatch(elements, LAMBDA e : e.id = id)
RemoveElement(b, id) == WithElements(b, Without(Elements(b), id))
RemoveAll(b, ids) == WithElements(b, FoldSet(LAMBDA id, es : Without(es, id), Elements(b), ids))
Place(b, id) == SelectInSeq(Elements(b), LAMBDA e : e.id = id)
Changed(b, id, content) ==
    IF Place(b, id) = 0 THEN b
    ELSE WithElements(b, [Elements(b) EXCEPT ![Place(b, id)].content = content])
-----------------------------------------------------------------------------
(* Local operations.                                                       *)

LocalKey(session) == <<"l", session>>
RemoteKey(id) == <<"r", id>>
StrokesAt(b, key) == {s \in b.strokes : s.key = key}
Unfinished(b, key, id) == [b EXCEPT !.strokes = (@ \ StrokesAt(b, key)) \cup {[key |-> key, id |-> id]}]

\* The stroke under key is finished and becomes an element of the current page.
Finished(b, key) ==
    LET s == CHOOSE s \in StrokesAt(b, key) : TRUE
    IN AppendElement([b EXCEPT !.strokes = @ \ {s}], Element(s.id, TRUE))

PenBegin(b, session, id) == Unfinished(PushSnapshot(b), LocalKey(session), id)
PenEnd(b, session) == Finished(b, LocalKey(session))

\* One pass of the eraser: each stroke of DOMAIN pass is replaced in place by
\* its fragments.
Erased(elements, pass) ==
    FlattenSeq([i \in DOMAIN elements |->
        IF elements[i].id \in DOMAIN pass
        THEN [k \in DOMAIN pass[elements[i].id] |-> Element(pass[elements[i].id][k], TRUE)]
        ELSE <<elements[i]>>])
Leaving(elements, ids) == Erased(elements, [id \in ids |-> <<>>])
Fragments(elements, pass) == Leaving(Erased(elements, pass), ElementIds(elements))

EraserMove(b, pass) ==
    [WithElements(b, Erased(Elements(b), pass)) EXCEPT
        !.eraserRemoved = @ \cup DOMAIN pass,
        !.eraserAdded = @ \o Fragments(Elements(b), pass)]
EraserBegin(b, pass) == EraserMove(PushSnapshot(b), pass)

\* FlushEraser: fragments that a later pass has removed are not announced.
FlushedAdded(b) == Leaving(b.eraserAdded, b.eraserRemoved)
\* Mutant of EraserEnd: what is announced is not forgotten.
EraserEndKeeping(b, pass) == EraserMove(b, pass)
EraserEnd(b, pass) == [EraserMove(b, pass) EXCEPT !.eraserRemoved = {}, !.eraserAdded = <<>>]

\* EraseRegion keeps its own increments and records the page as it was before.
EraseRegion(b, pass) == WithElements(PushSnapshot(b), Erased(Elements(b), pass))

Clear(b) == ResetTransientState(WithElements(PushSnapshot(b), <<>>))
AddElement(b, e) == AppendElement(PushSnapshot(b), e)
RemoveElements(b, ids) == RemoveAll(PushSnapshot(b), ids)

\* A change of an element's content, with or without a snapshot.
UpdateElement(b, id, content) == Changed(PushSnapshot(b), id, content)
UpdateQuietly(b, id, content) == Changed(b, id, content)

BeginBatch(b) == IF b.batchSuppress THEN b ELSE [PushSnapshot(b) EXCEPT !.batchSuppress = TRUE]
EndBatch(b) == [b EXCEPT !.batchSuppress = FALSE]

CanUndo(b) == History(b, CurrentPage(b).pageId).undo # <<>>
CanRedo(b) == History(b, CurrentPage(b).pageId).redo # <<>>

Undo(b) ==
    LET p == CurrentPage(b)
        h == History(b, p.pageId)
    IN ResetTransientState(
           [WithHistory(b, p.pageId, [undo |-> Front(h.undo), redo |-> PushFront(p, h.redo)])
               EXCEPT !.pages[b.currentPage] = Last(h.undo)])
Redo(b) ==
    LET p == CurrentPage(b)
        h == History(b, p.pageId)
    IN ResetTransientState(
           [WithHistory(b, p.pageId, [undo |-> PushBack(h.undo, p), redo |-> Tail(h.redo)])
               EXCEPT !.pages[b.currentPage] = Head(h.redo)])

CreatePage(b, pageId) == InsertPage(b, b.currentPage + 1, Page(pageId, <<>>))
SelectPage(b, pageId) == Show(b, IndexOf(b, pageId))

\* Mutant of DeletePage: the history of the deleted page stays.
DeletePageKeepingHistory(b, pageId) ==
    LET left == RemoveAt(b.pages, IndexOf(b, pageId))
    IN Show([b EXCEPT !.pages = left], IF b.currentPage > Len(left) THEN Len(left) ELSE b.currentPage)

CanDelete(b, pageId) == Len(b.pages) > 1 /\ pageId \in PageIds(b)
DeletePage(b, pageId) ==
    LET left == RemoveAt(b.pages, IndexOf(b, pageId))
    IN Show([b EXCEPT !.pages = left,
                      !.histories = [q \in DOMAIN @ \ {pageId} |-> b.histories[q]]],
            IF b.currentPage > Len(left) THEN Len(left) ELSE b.currentPage)

\* The copy of a page has a new id and new ids for its elements: copyId + i.
Copy(b, pageId, copyId) ==
    LET source == b.pages[IndexOf(b, pageId)].elements
    IN Page(copyId, [i \in 1 .. Len(source) |-> [source[i] EXCEPT !.id = copyId + i]])
CopyPage(b, pageId, copyId) == InsertPage(b, IndexOf(b, pageId) + 1, Copy(b, pageId, copyId))
-----------------------------------------------------------------------------
(* The same from remote, where it differs.  Only the page commands look at *)
(* a page id: the others work on the page the receiver shows.              *)

RemoteStrokeBegin(b, id) == Unfinished(PushSnapshot(b), RemoteKey(id), id)
RemoteStrokeEnd(b, id) ==
    IF StrokesAt(b, RemoteKey(id)) = {} THEN b ELSE Finished(b, RemoteKey(id))

RemoteEraserEnd(b, removed, added) ==
    LET pushed == PushSnapshot(b)
    IN WithElements(pushed, Elements(RemoveAll(pushed, removed)) \o added)

RemoteRemove(b, id) ==
    IF id \notin ElementIds(Elements(b)) THEN b ELSE RemoveElement(PushSnapshot(b), id)
RemoteUpdateElement(b, e) == AppendElement(RemoveElement(PushSnapshot(b), e.id), e)

RemoteSelectPage(b, pageId) == IF pageId \in PageIds(b) THEN SelectPage(b, pageId) ELSE b
\* Mutant of RemoteCreatePage: the new page comes last.
RemoteCreatePageLast(b, pageId) ==
    IF pageId \in PageIds(b) THEN SelectPage(b, pageId)
    ELSE InsertPage(b, Len(b.pages) + 1, Page(pageId, <<>>))
RemoteCreatePage(b, pageId) ==
    IF pageId \in PageIds(b) THEN SelectPage(b, pageId) ELSE CreatePage(b, pageId)
RemoteDeletePage(b, pageId) == IF CanDelete(b, pageId) THEN DeletePage(b, pageId) ELSE b
RemoteUndo(b) == IF CanUndo(b) THEN Undo(b) ELSE b
RemoteRedo(b) == IF CanRedo(b) THEN Redo(b) ELSE b

ApplyFullSync(b, pages) == Show([b EXCEPT !.pages = pages, !.histories = <<>>], 1)

\* WhiteboardSession::DispatchCommand.
Command(type, id) == [type |-> type, id |-> id]
UpdateCommand(id, content) == [type |-> "StrokeUpdate", id |-> id, content |-> content]
ElementCommand(type, e) == [type |-> type, element |-> e]
EraserCommand(removed, added) == [type |-> "EraserEnd", removed |-> removed, added |-> added]
FullSync(b) == [type |-> "FullSync", pages |-> b.pages]

Apply(b, c) ==
    CASE c.type = "StrokeBegin"   -> RemoteStrokeBegin(b, c.id)
      [] c.type = "StrokeEnd"     -> RemoteStrokeEnd(b, c.id)
      [] c.type = "StrokeUpdate"  -> UpdateElement(b, c.id, c.content)
      [] c.type = "EraserEnd"     -> RemoteEraserEnd(b, c.removed, c.added)
      [] c.type = "ElementAdd"    -> AddElement(b, c.element)
      [] c.type = "ElementRemove" -> RemoteRemove(b, c.id)
      [] c.type = "ElementUpdate" -> RemoteUpdateElement(b, c.element)
      [] c.type = "PageCreate"    -> RemoteCreatePage(b, c.id)
      [] c.type = "PageSelect"    -> RemoteSelectPage(b, c.id)
      [] c.type = "PageDelete"    -> RemoteDeletePage(b, c.id)
      [] c.type = "PageClear"     -> Clear(b)
      [] c.type = "Undo"          -> RemoteUndo(b)
      [] c.type = "Redo"          -> RemoteRedo(b)
      [] c.type = "FullSync"      -> ApplyFullSync(b, c.pages)
=============================================================================
