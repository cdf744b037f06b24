------------------------------ MODULE BoardRoom ------------------------------
(***************************************************************************)
(* The members of one room and their boards: on each member's side the     *)
(* data thread of QtBoardData and the api thread of DataStream, which call *)
(* each other synchronously through WhiteboardSession, and between them    *)
(* the room server, which relays one frame at a time.                      *)
(*                                                                         *)
(* A task of the data thread is one action; if it has commands for the     *)
(* room the thread then waits until the api thread has sent each of them.  *)
(* A task of the api thread is one action, except that a request for the   *)
(* full data makes it wait for the data thread.  What the user does is     *)
(* posted to the data thread, so it may come before or after any remote    *)
(* command that is queued there.  Channels are FIFO (TCP); members join    *)
(* once and stay.  Commands that only draw a preview elsewhere (StrokeMove,*)
(* EraserBegin, EraserMove, LassoPreview, SelectionPreview) are left out.  *)
(***************************************************************************)
EXTENDS Board, FiniteSets

CONSTANTS
    Members,
    Founders,   \* the members in the room at the start, oldest first, all with
                \* the oldest one's empty board
    Sessions,   \* fingers or pointers of one user (sessionId)
    Ops,        \* bound: the operations users perform
    MaxId,      \* bound: ids handed out to pages, elements and contents
    MaxPieces,  \* bound: fragments one pass of the eraser leaves of one stroke
    DistinctStamps, \* the clock ticks between two fragments of one pass; if not, they
                \* may get the same id
    TurnTaking, \* bound: an operation waits until all commands are delivered, no other
                \* gesture goes on during a drag of the eraser, and nobody operates
                \* after an operation that is not Mirrored
    None

Operations == {"Pen", "Erase", "EraseRegion", "Clear", "Add", "Remove", "RemoveMany", "Update",
               "UpdateQuietly", "Batch", "UndoRedo", "CreatePage", "SelectPage", "DeletePage",
               "CopyPage"}
ASSUME OpsAreOperations == Ops \subseteq Operations
ASSUME FoundersAreMembers == Founders \in Seq(Members) /\ Founders # <<>>
ASSUME MembersFinite == IsFiniteSet(Members) /\ None \notin Members
ASSUME BoundsAreBounds == MaxId \in Nat /\ Cardinality(Members) <= MaxId /\ TurnTaking \in BOOLEAN
ASSUME PiecesAreCounted == MaxPieces \in Nat /\ DistinctStamps \in BOOLEAN

VARIABLES
    board,      \* each member's QtBoardData
    tool,       \* what each session of each user is doing
    nextId,     \* ids are time stamps: those of different operations are taken to be
                \* different, whoever they are by
    link,       \* DataStream: "off", "connecting", "joined" (joined_)
    callback,   \* onOutgoingCmd_ is set
    dataQueue,  \* tasks of the data thread that come from the api thread or Start
    outbox,     \* commands the running data task still has to broadcast
    apiQueue,   \* tasks of the api thread
    serving,    \* the requester for whom the api thread waits in GetAllPages
    up, down,   \* frames on the way to and from the server
    order,      \* join_order_ of the room
    synced,     \* history: the member's board has come from the room
    early,      \* history: the member operated before that moment
    mirrored,   \* history: every operation so far was one of Mirrored
    torn,       \* history: the full data was read in the middle of a drag of the
                \* eraser, with fragments that are announced at its end
    crossed     \* history: the server relayed a command while a newcomer's request
                \* was under way, from another member than the one that answers it

boardVars == <<board, tool, nextId>>
dataVars == <<callback, dataQueue, outbox>>
apiVars == <<link, apiQueue, serving>>
netVars == <<up, down, order>>
historyVars == <<synced, early, mirrored, torn, crossed>>
vars == <<boardVars, dataVars, apiVars, netVars, historyVars>>

Founding(m) == m \in Range(Founders)

Init ==
    /\ \E page \in [Members -> 1 .. Cardinality(Members)] :
          /\ \A m \in Members : (page[m] = 1) <=> Founding(m)
          /\ \A m, n \in Members : page[m] = page[n] => (m = n \/ page[m] = 1)
          /\ board = [m \in Members |-> NewBoard(page[m])]
    /\ tool = [m \in Members |-> [s \in Sessions |-> "none"]]
    /\ nextId = Cardinality(Members) + 1
    /\ link = [m \in Members |-> IF Founding(m) THEN "joined" ELSE "off"]
    /\ callback = [m \in Members |-> Founding(m)]
    /\ dataQueue = [m \in Members |-> <<>>]
    /\ outbox = [m \in Members |-> <<>>]
    /\ apiQueue = [m \in Members |-> <<>>]
    /\ serving = [m \in Members |-> None]
    /\ up = [m \in Members |-> <<>>]
    /\ down = [m \in Members |-> <<>>]
    /\ order = Founders
    /\ synced = [m \in Members |-> Founding(m)]
    /\ early = [m \in Members |-> FALSE]
    /\ mirrored = TRUE /\ torn = FALSE /\ crossed = FALSE
-----------------------------------------------------------------------------
Delivered ==
    /\ \A m \in Members :
          /\ dataQueue[m] = <<>> /\ outbox[m] = <<>> /\ apiQueue[m] = <<>>
          /\ up[m] = <<>> /\ down[m] = <<>> /\ serving[m] = None /\ link[m] # "connecting"
Unused(t) == \A m \in Members : \A s \in Sessions : tool[m][s] # t
Quiet == Delivered /\ Unused("eraser")

\* The data thread of m takes a task: it is not in the callback of another.
DataFree(m) == outbox[m] = <<>>

Send(c) == [kind |-> "SEND", cmd |-> c]

\* A user's operation on the data thread: the board becomes b, used ids are
\* spent, and the commands cmds go to the room if the callback is set; the first
\* is handed to the api thread.
Operate(m, b, cmds, used) ==
    /\ DataFree(m) /\ nextId + used <= MaxId + 1
    /\ board' = [board EXCEPT ![m] = b]
    /\ nextId' = nextId + used
    /\ outbox' = [outbox EXCEPT ![m] = IF callback[m] THEN cmds ELSE <<>>]
    /\ apiQueue' = IF callback[m] /\ cmds # <<>>
                   THEN [apiQueue EXCEPT ![m] = Append(@, Send(Head(cmds)))] ELSE apiQueue
    /\ early' = [early EXCEPT ![m] = @ \/ ~synced[m]]
    /\ UNCHANGED <<link, callback, dataQueue, serving, netVars, synced, torn, crossed>>

\* The operations of which the others repeat each step.
Mirrored == {"Pen", "Erase", "EraseRegion", "Clear", "Add", "Remove", "Update", "UndoRedo",
             "CreatePage", "SelectPage", "DeletePage"}

May(op) ==
    /\ op \in Ops
    /\ TurnTaking => Quiet /\ mirrored /\ (op = "Erase" => Unused("pen"))
    /\ mirrored' = (mirrored /\ op \in Mirrored)
Use(m, s, t) == tool' = [tool EXCEPT ![m][s] = t]

StrokeIds(m) == {e.id : e \in {x \in Range(Elements(board[m])) : x.stroke}}

\* The passes the eraser can make over m's page, with n new ids for the fragments:
\* some strokes go, each leaving some fragments.
Stamps(pass) == UNION {Range(pass[x]) : x \in DOMAIN pass}
OneEach(pass) ==
    \A x, y \in DOMAIN pass : \A i \in DOMAIN pass[x], j \in DOMAIN pass[y] :
        pass[x][i] = pass[y][j] => x = y /\ i = j
Passes(m, n) ==
    LET ids == nextId .. nextId + n - 1
    IN {pass \in UNION {[S -> BoundedSeq(ids, MaxPieces)] : S \in SUBSET StrokeIds(m)} :
            Stamps(pass) = ids /\ (DistinctStamps => OneEach(pass))}
NewIds == 0 .. MaxId + 1 - nextId
-----------------------------------------------------------------------------
(* What users do.                                                          *)

DoPenBegin(m, s) ==
    /\ May("Pen") /\ tool[m][s] = "none" /\ Use(m, s, "pen")
    /\ Operate(m, PenBegin(board[m], s, nextId), <<Command("StrokeBegin", nextId)>>, 1)

\* The end of a stroke that was dropped in between (ResetTransientState) does nothing.
DoPenEnd(m, s) ==
    /\ tool[m][s] = "pen" /\ Use(m, s, "none") /\ (TurnTaking => Quiet) /\ UNCHANGED mirrored
    /\ LET mine == StrokesAt(board[m], LocalKey(s))
       IN IF mine = {} THEN Operate(m, board[m], <<>>, 0)
          ELSE \E stroke \in mine :
                  Operate(m, PenEnd(board[m], s), <<Command("StrokeEnd", stroke.id)>>, 0)

DoEraserBegin(m, s) ==
    /\ May("Erase") /\ tool[m][s] = "none" /\ Use(m, s, "eraser")
    /\ \E n \in NewIds : \E pass \in Passes(m, n) :
          Operate(m, EraserBegin(board[m], pass), <<>>, n)

DoEraserMove(m, s) ==
    /\ tool[m][s] = "eraser"
    /\ \E n \in NewIds : \E pass \in Passes(m, n) :
          Operate(m, EraserMove(board[m], pass), <<>>, n)
    /\ UNCHANGED <<tool, mirrored>>

DoEraserEnd(m, s) ==
    /\ tool[m][s] = "eraser" /\ Use(m, s, "none") /\ UNCHANGED mirrored
    /\ \E n \in NewIds : \E pass \in Passes(m, n) :
          LET b == EraserMove(board[m], pass)
          IN Operate(m, EraserEnd(board[m], pass),
                     <<EraserCommand(b.eraserRemoved, FlushedAdded(b))>>, n)

DoEraseRegion(m) ==
    /\ May("EraseRegion") /\ UNCHANGED tool
    /\ \E n \in NewIds : \E pass \in Passes(m, n) :
          /\ DOMAIN pass # {}
          /\ Operate(m, EraseRegion(board[m], pass),
                     <<EraserCommand(DOMAIN pass, Fragments(Elements(board[m]), pass))>>, n)

DoClear(m) ==
    /\ May("Clear") /\ UNCHANGED tool
    /\ Operate(m, Clear(board[m]), <<Command("PageClear", 0)>>, 0)

DoAddElement(m) ==
    /\ May("Add") /\ UNCHANGED tool
    /\ LET e == Element(nextId, FALSE)
       IN Operate(m, AddElement(board[m], e), <<ElementCommand("ElementAdd", e)>>, 1)

\* Ids that are on the page no more are passed over.
DoRemoveElements(m) ==
    /\ UNCHANGED tool
    /\ \E ids \in SUBSET ElementIds(Elements(board[m])) :
          /\ \/ May("Remove") /\ Cardinality(ids) = 1
             \/ May("RemoveMany") /\ Cardinality(ids) \in 2 .. MaxId
          /\ Operate(m, RemoveAll(PushSnapshot(board[m]), ids),
                     [i \in 1 .. Cardinality(ids) |-> Command("ElementRemove", SetToSeq(ids)[i])], 0)

\* UpdateStroke for a stroke, one of the other Update operations for the rest:
\* they send the element as a whole.
DoUpdate(m) ==
    /\ UNCHANGED tool
    /\ \E i \in DOMAIN Elements(board[m]) :
          LET e == Elements(board[m])[i]
              command == IF e.stroke THEN UpdateCommand(e.id, nextId)
                         ELSE ElementCommand("ElementUpdate", [e EXCEPT !.content = nextId])
          IN \/ May("Update") /\ Operate(m, UpdateElement(board[m], e.id, nextId), <<command>>, 1)
             \/ May("UpdateQuietly") /\ ~e.stroke
                /\ Operate(m, UpdateQuietly(board[m], e.id, nextId), <<command>>, 1)

DoBatch(m) ==
    /\ May("Batch") /\ UNCHANGED tool
    /\ Operate(m, IF board[m].batchSuppress THEN EndBatch(board[m]) ELSE BeginBatch(board[m]), <<>>, 0)

DoUndoRedo(m) ==
    /\ May("UndoRedo") /\ UNCHANGED tool
    /\ \/ CanUndo(board[m]) /\ Operate(m, Undo(board[m]), <<Command("Undo", 0)>>, 0)
       \/ CanRedo(board[m]) /\ Operate(m, Redo(board[m]), <<Command("Redo", 0)>>, 0)

DoCreatePage(m) ==
    /\ May("CreatePage") /\ UNCHANGED tool
    /\ Operate(m, CreatePage(board[m], nextId), <<Command("PageCreate", nextId)>>, 1)

DoSelectPage(m) ==
    /\ May("SelectPage") /\ UNCHANGED tool
    /\ \E p \in PageIds(board[m]) :
          Operate(m, SelectPage(board[m], p), <<Command("PageSelect", p)>>, 0)

DoDeletePage(m) ==
    /\ May("DeletePage") /\ UNCHANGED tool
    /\ \E p \in PageIds(board[m]) :
          CanDelete(board[m], p)
          /\ Operate(m, DeletePage(board[m], p), <<Command("PageDelete", p)>>, 0)

DoCopyPage(m) ==
    /\ May("CopyPage") /\ UNCHANGED tool
    /\ \E p \in PageIds(board[m]) :
          LET copy == Copy(board[m], p, nextId).elements
          IN /\ Len(copy) \in 0 .. MaxId
             /\ Operate(m, CopyPage(board[m], p, nextId),
                        <<Command("PageCreate", nextId)>>
                          \o [i \in 1 .. Len(copy) |-> ElementCommand("ElementAdd", copy[i])]
                          \o <<Command("PageSelect", nextId)>>, 1 + Len(copy))
-----------------------------------------------------------------------------
(* Joining and the threads.                                                *)

\* WhiteboardSession::Start: the callback is posted, the connection begun.
Start(m) ==
    /\ link[m] = "off"
    /\ link' = [link EXCEPT ![m] = "connecting"]
    /\ dataQueue' = [dataQueue EXCEPT ![m] = Append(@, [kind |-> "SET_CALLBACK"])]
    /\ UNCHANGED <<boardVars, callback, outbox, apiQueue, serving, netVars, historyVars>>

\* DataStream::on_connected's task: JOIN is sent, which counts as being in the room.
OnConnected(m) ==
    /\ link[m] = "connecting" /\ serving[m] = None
    /\ link' = [link EXCEPT ![m] = "joined"]
    /\ up' = [up EXCEPT ![m] = Append(@, [kind |-> "JOIN"])]
    /\ UNCHANGED <<boardVars, dataVars, apiQueue, serving, down, order, historyVars>>

\* The data thread takes what was posted to it.
DataTask(m) ==
    /\ DataFree(m) /\ dataQueue[m] # <<>>
    /\ LET task == Head(dataQueue[m])
       IN /\ dataQueue' = [dataQueue EXCEPT ![m] = Tail(@)]
          /\ \/ /\ task.kind = "SET_CALLBACK"
                /\ callback' = [callback EXCEPT ![m] = TRUE]
                /\ UNCHANGED <<board, synced, serving, up>>
             \/ /\ task.kind = "APPLY"
                /\ board' = [board EXCEPT ![m] = Apply(@, task.cmd)]
                /\ synced' = [synced EXCEPT ![m] = @ \/ task.cmd.type = "FullSync"]
                /\ UNCHANGED <<callback, serving, up>>
             \/ /\ task.kind = "GET_ALL_PAGES"     \* the api thread goes on: Unicast
                /\ serving' = [serving EXCEPT ![m] = None]
                /\ up' = [up EXCEPT ![m] =
                            Append(@, [kind |-> "UNICAST", to |-> serving[m], cmd |-> FullSync(board[m])])]
                /\ UNCHANGED <<board, callback, synced>>
          /\ torn' = (torn \/ (task.kind = "GET_ALL_PAGES" /\ board[m].eraserAdded # <<>>))
    /\ UNCHANGED <<tool, nextId, outbox, link, apiQueue, down, order, early, mirrored, crossed>>

\* DataStream::Broadcast's task: the frame is dropped unless joined_, and the
\* data thread goes on to its next command.
Broadcast(m, c) ==
    /\ up' = IF link[m] = "joined"
             THEN [up EXCEPT ![m] = Append(@, [kind |-> "BROADCAST", cmd |-> c])] ELSE up
    /\ outbox' = [outbox EXCEPT ![m] = Tail(@)]
    /\ apiQueue' = [apiQueue EXCEPT ![m] =
                      IF Len(outbox[m]) > 1 THEN Append(Tail(@), Send(outbox[m][2])) ELSE Tail(@)]
    /\ UNCHANGED <<dataQueue, serving>>

\* Mutant of AskForPages: the pages are read without waiting for the data thread.
AskForPagesAtOnce(m, from) ==
    /\ up' = [up EXCEPT ![m] =
                 Append(@, [kind |-> "UNICAST", to |-> from, cmd |-> FullSync(board[m])])]
    /\ UNCHANGED <<serving, dataQueue>>
\* Mutant of AskForPages: a request that finds the data thread in its callback
\* is given up.
AskForPagesOrDrop(m, from) ==
    IF outbox[m] # <<>> THEN UNCHANGED <<serving, dataQueue, up>>
    ELSE /\ serving' = [serving EXCEPT ![m] = from]
         /\ dataQueue' = [dataQueue EXCEPT ![m] = Append(@, [kind |-> "GET_ALL_PAGES"])]
         /\ UNCHANGED up

\* onRequestData: GetAllPages goes to the end of the data thread's queue, and
\* the api thread waits for it.
AskForPages(m, from) ==
    /\ serving' = [serving EXCEPT ![m] = from]
    /\ dataQueue' = [dataQueue EXCEPT ![m] = Append(@, [kind |-> "GET_ALL_PAGES"])]
    /\ UNCHANGED up

\* A task of the api thread, which does not go on while GetAllPages waits.
ApiTask(m) ==
    /\ serving[m] = None /\ apiQueue[m] # <<>>
    /\ LET task == Head(apiQueue[m])
       IN \/ task.kind = "SEND" /\ Broadcast(m, task.cmd)
          \/ /\ task.kind = "MESSAGE"
             /\ dataQueue' = [dataQueue EXCEPT ![m] = Append(@, [kind |-> "APPLY", cmd |-> task.cmd])]
             /\ apiQueue' = [apiQueue EXCEPT ![m] = Tail(@)]
             /\ UNCHANGED <<up, outbox, serving>>
          \/ /\ task.kind = "REQUEST_DATA"
             /\ AskForPages(m, task.from)
             /\ apiQueue' = [apiQueue EXCEPT ![m] = Tail(@)]
             /\ UNCHANGED outbox
    /\ UNCHANGED <<boardVars, callback, link, down, order, historyVars>>

\* A frame arrives: DataStream::on_message posts it to the api thread.
OnMessage(m) ==
    /\ down[m] # <<>>
    /\ apiQueue' = [apiQueue EXCEPT ![m] = Append(@, Head(down[m]))]
    /\ down' = [down EXCEPT ![m] = Tail(@)]
    /\ UNCHANGED <<boardVars, dataVars, link, serving, up, order, historyVars>>

\* The server takes a frame of m.  HandleJoin asks the oldest member for the data;
\* HandleBroadcast goes to everybody else in the room, HandleUnicast to one.
Message(c) == [kind |-> "MESSAGE", cmd |-> c]
Asked(n) == [kind |-> "REQUEST_DATA", from |-> n]

\* Mutant of HandleJoin: the newest member is asked, who is the newcomer.
HandleJoinNewest(m) ==
    /\ order' = Append(order, m)
    /\ down' = [down EXCEPT ![m] = Append(@, Asked(m))]
HandleJoin(m) ==
    /\ order' = Append(order, m)
    /\ down' = [down EXCEPT ![Head(order)] = Append(@, Asked(m))]
HandleBroadcast(m, c) ==
    /\ down' = [n \in Members |->
                  IF n \in Range(order) \ {m} THEN Append(down[n], Message(c)) ELSE down[n]]
    /\ UNCHANGED order
HandleUnicast(to, c) ==
    /\ down' = [down EXCEPT ![to] = Append(@, Message(c))]
    /\ UNCHANGED order

\* The answer to n's request has not passed the server yet.
Awaiting(n) ==
    \E m \in Members :
        \/ Asked(n) \in Range(down[m]) \cup Range(apiQueue[m]) \/ serving[m] = n
        \/ \E frame \in Range(up[m]) : frame.kind = "UNICAST" /\ frame.to = n

ServerTask(m) ==
    /\ up[m] # <<>>
    /\ up' = [up EXCEPT ![m] = Tail(@)]
    /\ LET frame == Head(up[m])
       IN \/ frame.kind = "JOIN" /\ HandleJoin(m)
          \/ frame.kind = "BROADCAST" /\ HandleBroadcast(m, frame.cmd)
          \/ frame.kind = "UNICAST" /\ HandleUnicast(frame.to, frame.cmd)
    /\ crossed' = (crossed \/ /\ Head(up[m]).kind = "BROADCAST" /\ m # Head(order)
                              /\ \E n \in Members : Awaiting(n))
    /\ UNCHANGED <<boardVars, dataVars, apiVars, synced, early, mirrored, torn>>
-----------------------------------------------------------------------------
UserStep(m) ==
    \/ \E s \in Sessions : DoPenBegin(m, s) \/ DoPenEnd(m, s)
    \/ \E s \in Sessions : DoEraserBegin(m, s) \/ DoEraserMove(m, s) \/ DoEraserEnd(m, s)
    \/ DoEraseRegion(m) \/ DoClear(m) \/ DoAddElement(m) \/ DoRemoveElements(m) \/ DoUpdate(m)
    \/ DoBatch(m) \/ DoUndoRedo(m)
    \/ DoCreatePage(m) \/ DoSelectPage(m) \/ DoDeletePage(m) \/ DoCopyPage(m)

ThreadStep(m) == OnConnected(m) \/ DataTask(m) \/ ApiTask(m) \/ OnMessage(m) \/ ServerTask(m)

Next == \E m \in Members : UserStep(m) \/ Start(m) \/ ThreadStep(m)

Spec == Init /\ [][Next]_vars

\* Threads and the network go on; users do what they like.
Fairness ==
    \A m \in Members :
        /\ WF_vars(OnConnected(m)) /\ WF_vars(OnMessage(m)) /\ WF_vars(ServerTask(m))
        /\ WF_vars(ApiTask(m)) /\ SF_vars(DataTask(m))

FairSpec == Spec /\ Fairness
-----------------------------------------------------------------------------
Tasks == {"SET_CALLBACK", "APPLY", "GET_ALL_PAGES"}

TypeOK ==
    /\ \A m \in Members : board[m].currentPage \in DOMAIN board[m].pages
    /\ tool \in [Members -> [Sessions -> {"none", "pen", "eraser"}]]
    /\ nextId \in 1 .. MaxId + 1
    /\ link \in [Members -> {"off", "connecting", "joined"}]
    /\ callback \in [Members -> BOOLEAN]
    /\ \A m \in Members : \A i \in DOMAIN dataQueue[m] : dataQueue[m][i].kind \in Tasks
    /\ serving \in [Members -> Members \cup {None}]
    /\ order \in Seq(Members)
    /\ synced \in [Members -> BOOLEAN] /\ early \in [Members -> BOOLEAN]
    /\ torn \in BOOLEAN /\ crossed \in BOOLEAN

\* On every board the pages have different ids, a history belongs to a page that
\* exists, holds snapshots of that page only, and no more than HistoryLimit of
\* them: an undo never puts another page in the place of the one it undoes.
BoardSound(b) ==
    /\ b.currentPage \in DOMAIN b.pages
    /\ \A i, j \in DOMAIN b.pages : b.pages[i].pageId = b.pages[j].pageId => i = j
    /\ \A p \in DOMAIN b.histories :
          /\ p \in PageIds(b)
          /\ Len(b.histories[p].undo) <= HistoryLimit /\ Len(b.histories[p].redo) <= HistoryLimit
          /\ \A s \in Range(b.histories[p].undo) \cup Range(b.histories[p].redo) : s.pageId = p
HistoriesSound == \A m \in Members : BoardSound(board[m])

\* An element's id is its own, and no page has it twice.
ElementsOnce ==
    \A m \in Members : \A p \in DOMAIN board[m].pages :
        LET es == board[m].pages[p].elements
        IN \A i, j \in DOMAIN es : es[i].id = es[j].id => i = j

\* No board shows an element twice, whoever operates when and whatever arrives in
\* which order: an element is announced once, before anything else speaks of it.
\* Only a newcomer's data read in the middle of a drag of the eraser breaks this.
NoDoubles == ~torn => ElementsOnce

\* Two boards show the same: the same pages in the same order with the same
\* elements (their order on the page is left aside: an update moves an element
\* to the end on the remote boards only), and have the same page open.
Contents(pages) == [i \in DOMAIN pages |-> Page(pages[i].pageId, Range(pages[i].elements))]
SameContents(b, c) == Contents(b.pages) = Contents(c.pages)
SameHistories(b, c) ==
    \A p \in PageIds(b) :
        /\ Contents(History(b, p).undo) = Contents(History(c, p).undo)
        /\ Contents(History(b, p).redo) = Contents(History(c, p).redo)

InRoom == {m \in Members : \E i \in DOMAIN order : order[i] = m}

\* Once everything is delivered the members' boards are the same: contents, open
\* page, strokes being drawn, and histories, so that whoever undoes next undoes
\* the same everywhere.  Operations whose steps the others do not all repeat are
\* left aside: a batch, a removal of several, an update without a snapshot, a copy.
BoardsAgree ==
    (Quiet /\ mirrored) =>
        \A m, n \in InRoom :
            /\ SameContents(board[m], board[n])
            /\ board[m].currentPage = board[n].currentPage
            /\ {s.id : s \in board[m].strokes} = {s.id : s \in board[n].strokes}
            /\ SameHistories(board[m], board[n])

\* The same for the contents only, when users add and remove elements at will and
\* others join meanwhile, as long as nobody operates between joining and getting
\* the full data, and the server relays no command of a third member then.
ContentsAgree ==
    (Ops \subseteq {"Add", "Remove"} /\ Quiet /\ ~crossed /\ \A m \in Members : ~early[m]) =>
        \A m, n \in InRoom : SameContents(board[m], board[n])

\* The data thread and the api thread of one member each wait for the other.
Stuck(m) == serving[m] # None /\ outbox[m] # <<>>
NeverStuck == \A m \in Members : ~Stuck(m)

\* Whoever joins gets the board of the room, unless the member asked for it has
\* its two threads waiting for each other.
JoinAnswered ==
    \A m \in Members : (link[m] # "off") ~> (synced[m] \/ \E n \in Members : Stuck(n))
=============================================================================
