------------------------------- MODULE Sidebar -------------------------------
(***************************************************************************)
(* The categories of a user's boards in the sidebar (store/sidebar.ts,     *)
(* components/sidebar): two windows of one user, the requests that the     *)
(* first one sends, the server's tables and what it broadcasts.            *)
(***************************************************************************)
EXTENDS Integers, Sequences, SequencesExt, FiniteSets, FiniteSetsExt, TLC

CONSTANTS
    Default,        \* the category "Boards"
    FirstServer,    \* what the tables hold at first: cats and rows
    Linked,         \* a board that is in no category yet
    NewCategories,  \* ids and names of the categories that may be created
    NewBoard,       \* the id of the copy of a board
    NameRank,       \* of a name: its place in the alphabet
    SidebarActs     \* bound: what the user does

VARIABLES
    srv,        \* cats: id -> name, sort; rows: board -> category, hidden, sort
    lists,      \* each window's categoryAttributes
    live,       \* the boards that the client has
    open,       \* the board that is open in the first window
    calls,      \* chains of requests, each sent when the one before is answered
    delayed,    \* debounced updates of a category that have not fired
    news,       \* broadcasts under way to each window
    updated,    \* updatedData: what each window has received and not yet applied
    socket,     \* first: the window whose session the server finds first; missed
                \* (history): windows that were not told of a change since they loaded
    blemish,    \* history: why the sidebar may be wrong
    sbActs      \* history: how much was done

sidebarVars == <<srv, lists, live, open, calls, delayed, news, updated, socket, blemish, sbActs>>

Windows == {1, 2}
None == ""
Meta(b, hidden) == [board |-> b, hidden |-> hidden]
BoardCategory(b, c, hidden) == [board |-> b, category |-> c, hidden |-> hidden]

-----------------------------------------------------------------------------
\* The server's tables
CatsOf(s) == SetToSortSeq(DOMAIN s.cats, LAMBDA c, d :
    \/ s.cats[c].sort < s.cats[d].sort
    \/ s.cats[c].sort = s.cats[d].sort /\ NameRank[s.cats[c].name] < NameRank[s.cats[d].name])
RowsOf(s, c) == {b \in DOMAIN s.rows : s.rows[b].category = c}
BoardsOf(s, c) == SetToSortSeq(RowsOf(s, c), LAMBDA a, b : s.rows[a].sort < s.rows[b].sort)
GetUserCategoryBoards(s) ==
    [i \in DOMAIN CatsOf(s) |->
        LET c == CatsOf(s)[i]
        IN  [id |-> c, name |-> s.cats[c].name, isNew |-> FALSE,
             boards |-> [j \in DOMAIN BoardsOf(s, c) |-> Meta(BoardsOf(s, c)[j], s.rows[BoardsOf(s, c)[j]].hidden)]]]

\* addUpdateCategoryBoard: a board that has a row keeps its place number and whether it
\* is hidden; all boards of the category are broadcast.
Moved(s, boards, to) ==
    [s EXCEPT !.rows = [b \in boards |-> IF b \in DOMAIN @ THEN [@[b] EXCEPT !.category = to]
                                         ELSE [category |-> to, hidden |-> FALSE, sort |-> 0]] @@ @]
BoardChange(s, to) ==
    [kind |-> "boards", data |-> [i \in DOMAIN BoardsOf(s, to) |->
        BoardCategory(BoardsOf(s, to)[i], to, s.rows[BoardsOf(s, to)[i]].hidden)]]
CategoryChange(c, name, gone) == [kind |-> "category", data |-> <<[id |-> c, name |-> name, gone |-> gone]>>]

\* What a request does: the tables and the broadcasts.
Answered(s, r) ==
    LET done(t, messages) == [server |-> t, messages |-> messages]
        refused == done(s, <<>>)
        moved == Moved(s, {r.board}, r.to)
        emptied == Moved(s, RowsOf(s, r.to), Default)
    IN  CASE r.op = "move" -> done(moved, <<BoardChange(moved, r.to)>>)
          [] r.op = "reorderBoards" ->
                 IF Len(r.list) # Cardinality(RowsOf(s, r.to)) \/ ~(ToSet(r.list) \subseteq RowsOf(s, r.to))
                 THEN refused
                 ELSE done([s EXCEPT !.rows = [b \in DOMAIN @ |-> IF b \in ToSet(r.list)
                              THEN [@[b] EXCEPT !.sort = 9 + SelectInSeq(r.list, LAMBDA x : x = b)] ELSE @[b]]], <<>>)
          [] r.op = "reorder" ->
                 IF Len(r.list) # Cardinality(DOMAIN s.cats) \/ ~(ToSet(r.list) \subseteq DOMAIN s.cats)
                 THEN refused
                 ELSE done([s EXCEPT !.cats = [c \in DOMAIN @ |->
                              [@[c] EXCEPT !.sort = 10 * (SelectInSeq(r.list, LAMBDA x : x = c) - 1)]]],
                           <<[kind |-> "order", data |-> r.list]>>)
          [] r.op = "create" ->
                 LET cats == (r.to :> [name |-> r.name, sort |-> 0]) @@ s.cats
                 IN  done([s EXCEPT !.cats = [c \in DOMAIN cats |-> [cats[c] EXCEPT !.sort = @ + 10]]],
                          <<CategoryChange(r.to, r.name, FALSE)>>)
          [] r.op = "update" ->
                 LET name == IF r.to = Default THEN s.cats[Default].name ELSE r.name
                 IN  IF r.to \notin DOMAIN s.cats THEN refused
                     ELSE done([s EXCEPT !.cats[r.to].name = name], <<CategoryChange(r.to, name, FALSE)>>)
          [] r.op = "delete" ->
                 IF r.to \notin DOMAIN s.cats \ {Default} THEN refused
                 ELSE done([emptied EXCEPT !.cats = Restrict(@, DOMAIN @ \ {r.to})],
                           (IF RowsOf(s, r.to) = {} THEN <<>> ELSE <<BoardChange(emptied, Default)>>)
                           \o <<CategoryChange(r.to, s.cats[r.to].name, TRUE)>>)
          [] r.op = "hide" ->
                 done(IF r.board \in RowsOf(s, r.to) THEN [s EXCEPT !.rows[r.board].hidden = TRUE] ELSE s,
                      <<[kind |-> "boards", data |-> <<BoardCategory(r.board, r.to, TRUE)>>]>>)
          [] r.op = "duplicate" ->
                 LET to == IF r.board \in DOMAIN s.rows THEN s.rows[r.board].category ELSE Default
                     copied == Moved(s, {NewBoard}, to)
                 IN  IF r.name = "template" THEN refused ELSE done(copied, <<BoardChange(copied, to)>>)

-----------------------------------------------------------------------------
\* The reducers of the sidebar, on a list of categories
At(list, id) == SelectInSeq(list, LAMBDA c : c.id = id)

\* A category that the list does not have is put on top, also one that was deleted.
updateCategories(list, changes) ==
    FoldLeft(LAMBDA l, c :
        LET i == At(l, c.id)
        IN  CASE i = 0 -> <<[id |-> c.id, name |-> c.name, isNew |-> TRUE, boards |-> <<>>]>> \o l
              [] i # 0 /\ c.gone -> RemoveAt(l, i)
              [] OTHER -> [l EXCEPT ![i].name = c.name, ![i].isNew = FALSE],
        list, changes)

\* Mutant: the board stays in the category that it was in.
addBoardCategories(list, changes) ==
    FoldLeft(LAMBDA l, b : [i \in DOMAIN l |->
        LET c == l[i]
            j == SelectInSeq(c.boards, LAMBDA m : m.board = b.board)
        IN  IF c.id # b.category \/ j # 0 THEN c
            ELSE [c EXCEPT !.boards = <<Meta(b.board, b.hidden)>> \o @, !.isNew = FALSE]],
        list, changes)

updateBoardCategories(list, changes) ==
    FoldLeft(LAMBDA l, b : [i \in DOMAIN l |->
        LET c == l[i]
            j == SelectInSeq(c.boards, LAMBDA m : m.board = b.board)
        IN  CASE c.id # b.category -> [c EXCEPT !.boards = SelectSeq(@, LAMBDA m : m.board # b.board)]
              [] c.id = b.category /\ j # 0 -> [c EXCEPT !.boards[j].hidden = b.hidden]
              [] OTHER -> [c EXCEPT !.boards = <<Meta(b.board, b.hidden)>> \o @, !.isNew = FALSE]],
        list, changes)

\* A category that the new order does not name is dropped.
updateCategoryOrder(list, order) ==
    LET known == SelectSeq(order, LAMBDA c : At(list, c) # 0)
    IN  IF order = <<>> THEN list ELSE [i \in DOMAIN known |-> list[At(list, known[i])]]

updateCategoryBoardsOrder(list, id, boards) ==
    IF boards = <<>> \/ At(list, id) = 0 THEN list
    ELSE [list EXCEPT ![At(list, id)].boards = boards, ![At(list, id)].isNew = FALSE]

-----------------------------------------------------------------------------
\* What the user sees and does, in the first window
List == lists[1]
NoUpdates == [categories |-> <<>>, boards |-> <<>>, order |-> <<>>]
Quiet == /\ calls = <<>> /\ delayed = {}
         /\ \A w \in Windows : news[w] = <<>> /\ updated[w] = NoUpdates

SidebarInit ==
    /\ srv = FirstServer /\ lists = [w \in Windows |-> GetUserCategoryBoards(FirstServer)]
    /\ live = DOMAIN FirstServer.rows \cup {Linked} /\ open = None
    /\ calls = <<>> /\ delayed = {} /\ news = [w \in Windows |-> <<>>]
    /\ updated = [w \in Windows |-> NoUpdates] /\ blemish = {} /\ sbActs = 0
    /\ \E w \in Windows : socket = [first |-> w, missed |-> {}]

Request(op, board, to, name, list) == [op |-> op, board |-> board, to |-> to, name |-> name, list |-> list]

\* The board that is open is moved to the category of the name "Boards" when the list, or
\* the board, has changed and no category has it.
Implicit(list, b) ==
    LET boards == SelectInSeq(list, LAMBDA c : c.name = "Boards")
        placed == \E c \in ToSet(list) : \E m \in ToSet(c.boards) : m.board = b
    IN  IF (list # List \/ b # open) /\ b # None /\ ~placed /\ boards # 0
        THEN <<<<Request("move", b, list[boards].id, None, <<>>)>>>> ELSE <<>>

Do(list, b, chain, faults) ==
    /\ sbActs < SidebarActs /\ sbActs' = sbActs + 1
    /\ lists' = [lists EXCEPT ![1] = list] /\ open' = b
    /\ calls' = calls \o (IF chain = <<>> THEN <<>> ELSE <<chain>>) \o Implicit(list, b)
    /\ blemish' = blemish \cup faults \cup (IF Quiet THEN {} ELSE {"overlap"})
                          \cup (IF 1 \in socket.missed THEN {"stale window"} ELSE {})

getSortedCategoryBoards(c) == SelectSeq(c.boards, LAMBDA m : m.board \in live)

\* SidebarCategory: the boards of a category that are rendered, and so what the index of
\* a dragged board counts.
Visible(c) == SelectSeq(getSortedCategoryBoards(c), LAMBDA m : ~m.hidden)

handleCategoryDND(i, j) ==
    LET order == [k \in DOMAIN List |-> List[k].id]
        new == InsertAt(RemoveAt(order, i), j, order[i])
    IN  /\ i # j
        /\ Do(updateCategoryOrder(List, new), open, <<Request("reorder", None, None, None, new)>>, {})
        /\ UNCHANGED <<srv, live, delayed, news, updated, socket>>

\* handleCategoryBoardDND: the board that is moved is the one at the index among all the
\* boards of the category, the request names the one that was dragged.
DropBoard(from, i, to, j) ==
    LET source == List[from]
        dragged == Visible(source)[i].board
        metadata == source.boards[i]
        target == IF from = to THEN RemoveAt(source.boards, i) ELSE List[to].boards
        dropped == InsertAt(target, j, metadata)
        ids == [k \in DOMAIN dropped |-> dropped[k].board]
        placed == updateCategoryBoardsOrder(List, List[to].id, dropped)
        reorder == Request("reorderBoards", None, List[to].id, None, ids)
    IN  /\ from = to => i # j
        /\ Do(IF from = to THEN placed
              ELSE updateBoardCategories(placed, <<BoardCategory(metadata.board, List[to].id, metadata.hidden)>>),
              open, (IF from = to THEN <<>> ELSE <<Request("move", dragged, List[to].id, None, <<>>)>>) \o <<reorder>>,
              IF metadata.board = dragged THEN {} ELSE {"hidden board"})
        /\ UNCHANGED <<srv, live, delayed, news, updated, socket>>

\* generateMoveToCategoryOptions
MoveTo(from, b, to) ==
    /\ from # to
    /\ Do(List, open, <<Request("move", b, List[to].id, None, <<>>)>>, {})
    /\ UNCHANGED <<srv, live, delayed, news, updated, socket>>

CreateCategory(c, name) ==
    /\ c \notin DOMAIN srv.cats /\ \A k \in DOMAIN calls : calls[k][1].to # c
    /\ Do(List, open, <<Request("create", None, c, name, <<>>)>>, {})
    /\ UNCHANGED <<srv, live, delayed, news, updated, socket>>
RenameCategory(i, name) ==
    /\ List[i].id # Default /\ name # List[i].name
    /\ Do(List, open, <<Request("update", None, List[i].id, name, <<>>)>>, {})
    /\ UNCHANGED <<srv, live, delayed, news, updated, socket>>
handleDeleteCategory(i) ==
    /\ List[i].id # Default
    /\ Do(List, open, <<Request("delete", None, List[i].id, None, <<>>)>>, {})
    /\ UNCHANGED <<srv, live, delayed, news, updated, socket>>

\* toggleCollapse: the whole category as it is now is sent 400 ms later; a second toggle
\* of the same category replaces the first, unless the category changed in between.
toggleCollapse(i) ==
    /\ Do(List, open, <<>>, {})
    /\ delayed' = delayed \cup {[id |-> List[i].id, name |-> List[i].name]}
    /\ UNCHANGED <<srv, live, news, updated, socket>>
Debounced(d) ==
    /\ delayed' = delayed \ {d}
    /\ calls' = Append(calls, <<Request("update", None, d.id, d.name, <<>>)>>)
    /\ UNCHANGED <<srv, lists, live, open, news, updated, socket, blemish, sbActs>>

\* handleHideBoard: when the board is open, the first one that is not hidden is shown after.
FirstVisible(b) ==
    LET all == FlattenSeq([i \in DOMAIN List |-> List[i].boards])
        visible == SelectSeq(all, LAMBDA m : ~m.hidden /\ m.board # b)
    IN  IF visible = <<>> THEN None ELSE visible[1].board
handleHideBoard(i, b) ==
    /\ Do(List, open, <<Request("hide", b, List[i].id, None, IF open = b THEN <<FirstVisible(b)>> ELSE <<>>)>>, {})
    /\ UNCHANGED <<srv, live, delayed, news, updated, socket>>

\* handleDuplicateBoard: the server gives a template no category, the client does.
handleDuplicateBoard(i, b, asTemplate) ==
    /\ NewBoard \notin live /\ \A k \in DOMAIN calls : calls[k][1].op # "duplicate"
    /\ Do(List, open, <<Request("duplicate", b, List[i].id, IF asTemplate THEN "template" ELSE None, <<>>)>>,
          IF asTemplate THEN {"template"} ELSE {})
    /\ UNCHANGED <<srv, live, delayed, news, updated, socket>>

\* onDeleteBoard: the next board of the category is shown, or the one before the last;
\* when that is the first, none.
DeleteBoard(i, b) ==
    LET shown == getSortedCategoryBoards(List[i])
        at == SelectInSeq(shown, LAMBDA m : m.board = b)
        next == IF at = Len(shown) THEN at - 1 ELSE at + 1
    IN  /\ Do(List, IF Len(shown) > 1 /\ next # 1 THEN shown[next].board ELSE open, <<>>, {})
        /\ live' = live \ {b}
        /\ UNCHANGED <<srv, delayed, news, updated, socket>>

\* showBoard
ShowBoard(b) ==
    /\ open # b
    /\ Do(List, b, <<>>, {})
    /\ UNCHANGED <<srv, live, delayed, news, updated, socket>>

-----------------------------------------------------------------------------
\* A request is answered: what the server does, and what the handler does next.  It
\* broadcasts to the first session of the user only (getListenerForUser).
Serve(k) ==
    LET r == calls[k][1]
        a == Answered(srv, r)
        mine == CASE r.op = "hide" -> <<BoardCategory(r.board, r.to, TRUE)>>
                  [] r.op = "duplicate" -> <<BoardCategory(NewBoard, r.to, FALSE)>>
                  [] OTHER -> <<>>
        list == updateBoardCategories(List, mine)
        next == CASE r.op = "hide" /\ r.list # <<>> -> r.list[1]
                  [] r.op = "duplicate" -> NewBoard
                  [] OTHER -> open
    IN  /\ srv' = a.server
        /\ news' = [news EXCEPT ![socket.first] = @ \o a.messages]
        /\ socket' = IF a.messages = <<>> THEN socket
                     ELSE [socket EXCEPT !.missed = @ \cup (Windows \ {socket.first})]
        /\ lists' = [lists EXCEPT ![1] = list]
        /\ calls' = (IF Len(calls[k]) = 1 THEN RemoveAt(calls, k) ELSE [calls EXCEPT ![k] = Tail(@)])
                    \o Implicit(list, next)
        /\ live' = IF r.op = "duplicate" /\ r.name # "template" THEN live \cup {NewBoard} ELSE live
        /\ open' = next
        /\ UNCHANGED <<delayed, updated, blemish, sbActs>>

\* A broadcast arrives, in any order: of a category and of a board only the last is kept
\* until the next flush.
Receive(w, k) ==
    LET m == news[w][k]
    IN  /\ news' = [news EXCEPT ![w] = RemoveAt(@, k)]
        /\ updated' = [updated EXCEPT ![w] =
               CASE m.kind = "category" ->
                        [@ EXCEPT !.categories = SelectSeq(@, LAMBDA c : c.id # m.data[1].id) \o m.data]
                 [] m.kind = "boards" ->
                        [@ EXCEPT !.boards = SelectSeq(@, LAMBDA b : ~\E x \in ToSet(m.data) : x.board = b.board) \o m.data]
                 [] m.kind = "order" -> [@ EXCEPT !.order = m.data]]
        /\ UNCHANGED <<srv, lists, live, open, calls, delayed, socket, blemish, sbActs>>

\* flushUpdateNotifications
FlushSidebar(w) ==
    LET u == updated[w]
        list == updateCategoryOrder(
                    updateBoardCategories(updateCategories(lists[w], u.categories), u.boards), u.order)
    IN  /\ u # NoUpdates
        /\ lists' = [lists EXCEPT ![w] = list]
        /\ calls' = calls \o (IF w = 1 THEN Implicit(list, open) ELSE <<>>)
        /\ updated' = [updated EXCEPT ![w] = NoUpdates]
        /\ UNCHANGED <<srv, live, open, delayed, news, socket, blemish, sbActs>>

\* fetchSidebarCategories: the second window is loaded again; its new session comes last.
Reload ==
    /\ sbActs < SidebarActs /\ sbActs' = sbActs + 1
    /\ lists' = [lists EXCEPT ![2] = GetUserCategoryBoards(srv)]
    /\ news' = [news EXCEPT ![2] = <<>>] /\ updated' = [updated EXCEPT ![2] = NoUpdates]
    /\ socket' = [first |-> 1, missed |-> socket.missed \ {2}]
    /\ blemish' = blemish \cup (IF Quiet THEN {} ELSE {"overlap"})
    /\ UNCHANGED <<srv, live, open, calls, delayed>>

SidebarNext ==
    \/ \E i, j \in DOMAIN List : handleCategoryDND(i, j)
    \/ \E from, to \in DOMAIN List : \E i \in DOMAIN Visible(List[from]) :
        \/ MoveTo(from, Visible(List[from])[i].board, to)
        \/ \E j \in 1..(Len(Visible(List[to])) + IF from = to THEN 0 ELSE 1) : DropBoard(from, i, to, j)
    \/ \E i \in DOMAIN List :
        \/ handleDeleteCategory(i) \/ toggleCollapse(i)
        \/ \E c \in NewCategories : RenameCategory(i, c[2])
        \/ \E k \in DOMAIN Visible(List[i]) :
            LET b == Visible(List[i])[k].board
            IN  \/ handleHideBoard(i, b) \/ DeleteBoard(i, b)
                \/ \E asTemplate \in BOOLEAN : handleDuplicateBoard(i, b, asTemplate)
    \/ \E c \in NewCategories : CreateCategory(c[1], c[2])
    \/ \E b \in live : ShowBoard(b)
    \/ Reload
    \/ \E d \in delayed : Debounced(d)
    \/ \E k \in DOMAIN calls : Serve(k)
    \/ \E w \in Windows : FlushSidebar(w) \/ \E k \in DOMAIN news[w] : Receive(w, k)

-----------------------------------------------------------------------------
\* Each board is in one category of a window at most, whatever overtakes what.
EachBoardOnce ==
    \A w \in Windows : \A i, j \in DOMAIN lists[w] :
        \A m \in ToSet(lists[w][i].boards), n \in ToSet(lists[w][j].boards) : m.board = n.board => i = j

\* When everything that was done has been answered and broadcast, a window that was told
\* of everything since it was loaded shows what the server keeps: its categories in its
\* order, each with its boards, unless two things were done at a time or in a window that
\* was not told, a board was dragged in a category with hidden ones, or a template was made
\* of a board.
SidebarAgrees ==
    Quiet /\ blemish = {} =>
        \A w \in Windows \ socket.missed :
            LET l == lists[w]
            IN  /\ {l[i].id : i \in DOMAIN l} = DOMAIN srv.cats
                /\ \A i \in DOMAIN l :
                    /\ l[i].name = srv.cats[l[i].id].name
                    /\ ToSet(l[i].boards) = {Meta(b, srv.rows[b].hidden) : b \in RowsOf(srv, l[i].id)}
                    /\ \A j \in DOMAIN l : i < j => srv.cats[l[i].id].sort <= srv.cats[l[j].id].sort
SidebarKept == EachBoardOnce /\ SidebarAgrees
=============================================================================
