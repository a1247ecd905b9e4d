---------------------------- MODULE BoardEditing ----------------------------
(***************************************************************************)
(* The callbacks of the components that edit a board: the card dialog, the *)
(* table, the kanban, the menus of a view, the sharing dialog.  Each reads *)
(* the page's copy of the board and calls the mutator.                     *)
(***************************************************************************)
EXTENDS Editing

CONSTANTS Title, Person     \* titles and icons that are typed in; users

Live(d) == {b \in DOMAIN d.blocks : d.blocks[b].live}
OfType(t) == {b \in Live(seen) : seen.blocks[b].fields.type = t}
Of(b) == seen.blocks[b].fields
Property(id) == seen.props[At(seen.props, id)]
New == Fresh(1)[1]
On(t) == task = t

-----------------------------------------------------------------------------
\* The card dialog
SaveTitle(b, t) == Of(b).title # t /\ Call(changeBlockTitle(b, Of(b).title, t))
SetIcon(b, t) == Call(changeBlockIcon(b, Of(b).icon, t))

\* addBlock, addTextBlock, addBlockNewEditor, AddContentMenuItem: the content goes
\* to place i of the order; the undo puts the order back that was there.
AddContent(card, i) ==
    LET order == Of(card).contentOrder
    IN  i <= Len(order) + 1
        /\ Making(1, insertBlock(New, card, [type |-> "text", title |-> ""],
                        <<<<Patch(card, "contentOrder" :> InsertAt(order, i, New))>>>>,
                        <<<<Patch(card, "contentOrder" :> order)>>>>))

DeleteContent(card, i) ==
    LET order == Of(card).contentOrder
    IN  i <= Len(order)
        /\ InGroup(<<deleteBlock(order[i]), changeCardContentOrder(card, order, RemoveAt(order, i))>>)

\* moveBlock, moveUp and moveDown
MoveContent(card, i, j) ==
    LET order == Of(card).contentOrder
    IN  i # j /\ {i, j} \subseteq DOMAIN order
        /\ Call(changeCardContentOrder(card, order, MovedTo(order, i, j)))

\* onBlockMoved: the undo moves it back next to what was its neighbour.
onBlockMoved(card, i, j) ==
    LET order == Of(card).contentOrder
    IN  i # j /\ {i, j} \subseteq DOMAIN order
        /\ Call(moveContentBlock(order[i], order[j], "after",
                     IF i = 1 THEN order[2] ELSE order[i - 1], IF i = 1 THEN "before" ELSE "after"))

\* onBlockModified: a text that is emptied is deleted, the order still lists it.
onBlockModified(b, t) ==
    IF t = "" THEN Call(deleteBlock(b))
    ELSE Call(updateBlock(b, [Of(b) EXCEPT !.title = t], Of(b)))

AddComment(card) == Making(1, insertBlock(New, card, [type |-> "comment", title |-> "c"], <<>>, <<>>))
\* Also a comment, an attachment, a card from a menu of any view, a view.
DeleteBlock(b) == Call(deleteBlock(b))

Follow(b) == IF b \in seen.follows THEN Call(unfollowBlock(b)) ELSE Call(followBlock(b))

\* The copy of a card has room for the ids of its contents.
DuplicateCard(card) ==
    LET n == 1 + Cardinality({b \in Live(seen) : seen.blocks[b].parent = card /\ Of(b).type # "comment"})
    IN  Making(n, duplicateCard(seen, card, Fresh(n), "copy", <<>>))

-----------------------------------------------------------------------------
\* Properties: the card's list of them, the headers of a table, their editors
View == CHOOSE v \in OfType("view") : TRUE
Cards == SetToSeq(OfType("card"))

AddProperty(i, isTable) ==
    i <= Len(seen.props) + 1
    /\ Making(1, insertPropertyTemplate(seen.props, View, Of(View), isTable, i,
                    [id |-> New, name |-> "New", type |-> "text", options |-> <<>>]))

DuplicateProperty(id, isTable) ==
    Making(1, duplicatePropertyTemplate(seen.props, View, Of(View), isTable, id, New))

DeleteProperty(id) == Call(deleteProperty(seen, SetToSeq(OfType("view")), Cards, id))

ChangeType(id, type, name) ==
    Making(2, changePropertyTypeAndName(seen, Cards, Property(id), type, name, Fresh(2)))

\* A new option is made in the editor of a value, which is then set to it.
CreateOption(card, p) ==
    LET have == ValueOf(Of(card), p.id).ids
        new == [id |-> New, value |-> "new", color |-> "propColorDefault"]
    IN  p.type \in Selects
        /\ Await(FALSE, <<insertPropertyOption(seen.props, p, new),
                          changePropertyValue(card, Of(card), p.id,
                              IF p.type = "select" THEN One(New) ELSE Many(Append(have, New)))>>, 1)

OptionDeleted(p, o) == Call(deletePropertyOption(seen.props, p, o))
OptionRenamed(p, o) == Call(changePropertyOptionValue(seen.props, p, o, "renamed"))
OptionRecolored(p, o) == Call(changePropertyOptionColor(seen.props, p, o, "red"))

\* An editor yields a value of its type; "" clears it.
Editable(p) ==
    CASE p.type = "select" -> {NoValue} \cup {One(o) : o \in Ids(p.options)}
      [] p.type = "multiSelect" -> {Many(<<>>)} \cup {Many(<<o>>) : o \in Ids(p.options)}
      [] p.type = "person" -> {NoValue} \cup {One(u) : u \in Person}
      [] p.type = "multiPerson" -> {Many(<<u>>) : u \in Person}
      [] p.type = "text" -> {NoValue, One("x")}
SetValue(card, p, v) == Call(changePropertyValue(card, Of(card), p.id, v))

ToggleProperty(id) ==
    LET shown == Of(View).visiblePropertyIds
    IN  Call(changeViewVisibleProperties(View, shown,
                  IF Contains(shown, id) THEN Without(shown, {id}) ELSE Append(shown, id)))

MoveProperty(i, j) ==
    LET shown == Of(View).visiblePropertyIds
    IN  i # j /\ {i, j} \subseteq DOMAIN shown
        /\ Call(changeViewVisiblePropertiesOrder(View, shown, shown[i], j))

-----------------------------------------------------------------------------
\* A view: columns, the order of cards, grouping, calculations, templates
GroupProperty == seen.props[1]
Options == Ids(GroupProperty.options)

\* getVisibleAndHiddenGroups: options that are in neither list are visible, and so
\* is the group without a value, first.
VisibleGroups ==
    LET v == Of(View)
        listed == v.visibleOptionIds \o SelectSeq([i \in DOMAIN GroupProperty.options |->
                      GroupProperty.options[i].id],
                      LAMBDA o : o \notin ToSet(v.visibleOptionIds) \cup ToSet(v.hiddenOptionIds))
        all == IF Contains(listed, "") \/ Contains(v.hiddenOptionIds, "") THEN listed ELSE <<"">> \o listed
    IN  SelectSeq(all, LAMBDA o : o \in Options \cup {""})
CardsIn(o) ==
    {c \in OfType("card") : LET v == ValueOf(Of(c), GroupProperty.id).ids[1]
                            IN  v = o \/ (o = "" /\ v \notin Options)}

HideColumn(o) == Contains(VisibleGroups, o) /\ Call(hideViewColumns(View, Of(View), <<o>>))
UnhideColumn(o) == Contains(Of(View).hiddenOptionIds, o) /\ Call(unhideViewColumns(View, Of(View), <<o>>))
HideEmptyGroups ==
    Call(hideViewColumns(View, Of(View), SelectSeq(VisibleGroups, LAMBDA o : CardsIn(o) = {})))
ShowHiddenGroups ==
    Call(unhideViewColumns(View, Of(View),
              SelectSeq(Of(View).hiddenOptionIds, LAMBDA o : o \in Options \cup {""})))

InsertedGroup(o, i) == InsertAt(Without(VisibleGroups, {o}), i, o)
MoveColumn(o, i) ==
    i <= Len(VisibleGroups) /\ Contains(VisibleGroups, o)
    /\ Call(changeViewVisibleOptionIds(View, Of(View).visibleOptionIds, InsertedGroup(o, i)))

\* addGroupBefore, addGroupAfter: the option, then its place; no undo group.
AddGroup(i) ==
    LET new == [id |-> New, value |-> "New group", color |-> "red"]
    IN  i <= Len(VisibleGroups) + 1
        /\ Await(FALSE, <<insertPropertyOption(seen.props, GroupProperty, new),
                          changeViewVisibleOptionIds(View, Of(View).visibleOptionIds,
                                                     InsertedGroup(New, i))>>, 1)

\* onDropCardToColumn: the value and the order together, after the last card of
\* the column.
DropToColumn(card, o) ==
    LET order == Of(View).cardOrder
        rest == Without(order, {card})
        in == SelectSeq(order, LAMBDA c : c \in CardsIn(o))
        last == SelectInSeq(rest, LAMBDA c : in # <<>> /\ c = in[Len(in)])
        new == IF in = <<>> THEN order ELSE InsertAt(rest, last + 1, card)
    IN  InGroup(<<changePropertyValue(card, Of(card), GroupProperty.id, One(o))
                  \o changeViewCardOrder(View, order, new)>>)

\* onDropToCard of the kanban sets the value only.
DropToCard(card, dst) ==
    card # dst
    /\ LET v == changePropertyValue(card, Of(card), GroupProperty.id,
                    ValueOf(Of(dst), GroupProperty.id))
       IN  v # <<>> /\ InGroup(<<v>>)

\* onDropToGroup of the table, over a card: its group, and its place in the order.
DropInTable(card, dst) ==
    LET have == Of(View).cardOrder
        all == have \o SelectSeq(Cards, LAMBDA c : ~Contains(have, c))
        at(s, c) == SelectInSeq(s, LAMBDA x : x = c)
        rest == Without(all, {card})
        to == at(rest, dst) + (IF at(all, card) <= at(all, dst) THEN 1 ELSE 0)
    IN  card # dst
        /\ InGroup(<<changePropertyValue(card, Of(card), GroupProperty.id,
                         ValueOf(Of(dst), GroupProperty.id))
                     \o changeViewCardOrder(View, have, InsertAt(rest, to, card))>>)

GroupBy(id) == Of(View).groupById # id /\ Call(changeViewGroupById(View, Of(View).groupById, id))
DisplayBy(id) == Call(changeViewDateDisplayPropertyId(View, Of(View).dateDisplayPropertyId, id))
Calculate(c) ==
    \/ Call(changeViewKanbanCalculations(View, Of(View).kanbanCalculations, c))
    \/ Call(changeViewColumnCalculations(View, Of(View).columnCalculations, c))

\* hideGroup of the table, the columns' widths, onManualSort: the whole view is
\* copied and its differences are sent.
EditView(f, value) ==
    Call(updateBlock(View, [createBoardView(Of(View)) EXCEPT ![f] = value], Of(View)))
Collapse(o) ==
    LET have == Of(View).collapsedOptionIds
    IN  EditView("collapsedOptionIds", IF Contains(have, o) THEN Without(have, {o}) ELSE Append(have, o))
Resize(w) == EditView("columnWidths", w)
ManualSort == Call(updateBlock(View, [Of(View) EXCEPT !.cardOrder = Cards, !.sortOptions = <<>>], Of(View)))

SetDefault(card) ==
    IF Of(View).defaultTemplateId = card
    THEN Call(clearDefaultTemplate(View, card))
    ELSE Call(setDefaultTemplate(View, Of(View).defaultTemplateId, card))
DeleteTemplate(card) ==
    InGroup((IF Of(View).defaultTemplateId = card THEN <<clearDefaultTemplate(View, card)>> ELSE <<>>)
            \o <<deleteBlock(card)>>)

\* addCard: the card, then its place at the end of the view's order.
AddCard(o) ==
    Await(TRUE, <<insertBlock(New, "board", WithValue([type |-> "card", title |-> ""],
                                                      GroupProperty.id, One(o)), <<>>, <<>>),
                  changeViewCardOrder(View, Of(View).cardOrder, Append(Of(View).cardOrder, New))>>, 1)
AddCardFromTemplate(card, o) ==
    Await(TRUE, <<duplicateCard(seen, card, Fresh(1), "", GroupProperty.id :> One(o)),
                  changeViewCardOrder(View, Of(View).cardOrder, Append(Of(View).cardOrder, New))>>, 1)
AddView == Making(1, insertBlock(New, "board", createBoardView([type |-> "view", title |-> "new"]), <<>>, <<>>))
DuplicateView == Making(1, insertBlock(New, "board", [createBoardView(Of(View)) EXCEPT !.title = "copy"], <<>>, <<>>))

\* ctrl+d and del on selected cards: the calls of the group are not awaited.
DuplicateSelected(set) ==
    LET s == SetToSeq(set)
        ids == Fresh(Len(s))
    IN  Launch(TRUE, FlattenSeq([i \in DOMAIN s |-> duplicateCard(seen, s[i], <<ids[i]>>, "copy", <<>>)]), Len(s))
DeleteSelected(set) == Launch(TRUE, FlattenSeq([i \in DOMAIN SetToSeq(set) |-> deleteBlock(SetToSeq(set)[i])]), 0)

-----------------------------------------------------------------------------
\* The board: its header, the sharing dialog, the menus of the sidebar
BoardTitle(t) == Call(changeBoardTitle(Of("board").title, t))
BoardIcon(t) == Call(changeBoardIcon(Of("board").icon, t))
Description(t) == Call(changeBoardDescription(Of("board").description, t))
ShowDescription(show) == Call(showBoardDescription(Of("board").showDescription, show))
Share(f, value) ==
    LET old == Of("board")
    IN  Call(updateBoard([old EXCEPT ![f] = value], seen.props, old, seen.props))
SetMember(u, role) ==
    LET old == seen.members[u]
    IN  role # old /\ Call(IF old = "none" THEN createBoardMember(u, role)
                            ELSE IF role = "none" THEN deleteBoardMember(u, old)
                            ELSE updateBoardMember(u, role, old))
DeleteBoard == Call(deleteBoard)
DuplicateBoard ==
    LET n == Cardinality({b \in Live(seen) : Of(b).type # "comment"})
    IN  Making(n, duplicateBoard(Fresh(n)))
PasteImages(card) ==
    LET order == Of(card).contentOrder
        new == Fresh(2)
        part(i) == [Part("insert", new[i]) EXCEPT !.where = card, !.set = [type |-> "image", title |-> ""]]
    IN  Making(2, insertBlocks(<<part(1), part(2)>>,
                      <<<<Patch(card, "contentOrder" :> (order \o new))>>>>,
                      <<<<Patch(card, "contentOrder" :> order)>>>>))

-----------------------------------------------------------------------------
Place == 1..3
Types == {"text", "select", "multiSelect", "person", "multiPerson"}

WorkOnCard ==
    \/ \E b \in OfType("card") :
        \/ \E t \in Title : SaveTitle(b, t) \/ SetIcon(b, t)
        \/ \E i, j \in Place : MoveContent(b, i, j) \/ onBlockMoved(b, i, j)
        \/ \E i \in Place : AddContent(b, i) \/ DeleteContent(b, i)
        \/ AddComment(b) \/ DeleteBlock(b) \/ Follow(b) \/ DuplicateCard(b) \/ PasteImages(b)
    \/ \E b \in OfType("text"), t \in Title \cup {""} : onBlockModified(b, t)
    \/ \E b \in OfType("comment") : DeleteBlock(b)

WorkOnProperties ==
    \/ \E i \in {0} \cup Place, isTable \in BOOLEAN : AddProperty(i, isTable)
    \/ \E p \in ToSet(seen.props) :
        \/ DeleteProperty(p.id) \/ ToggleProperty(p.id)
        \/ \E isTable \in BOOLEAN : DuplicateProperty(p.id, isTable)
        \/ \E type \in Types, name \in {p.name, "renamed"} : ChangeType(p.id, type, name)
        \/ \E c \in OfType("card") : CreateOption(c, p) \/ \E v \in Editable(p) : SetValue(c, p, v)
        \/ \E o \in Ids(p.options) : OptionDeleted(p, o) \/ OptionRenamed(p, o) \/ OptionRecolored(p, o)
    \/ \E i, j \in Place : MoveProperty(i, j)

WorkOnView ==
    \/ \E o \in Options \cup {""} :
        \/ HideColumn(o) \/ UnhideColumn(o) \/ AddCard(o) \/ Collapse(o)
        \/ \E i \in Place : MoveColumn(o, i)
        \/ \E c \in OfType("card") : DropToColumn(c, o) \/ AddCardFromTemplate(c, o)
    \/ HideEmptyGroups \/ ShowHiddenGroups \/ ManualSort \/ AddView \/ DuplicateView
    \/ \E i \in Place : AddGroup(i)
    \/ \E c, dst \in OfType("card") : DropToCard(c, dst) \/ DropInTable(c, dst)
    \/ \E id \in {"", GroupProperty.id} : GroupBy(id) \/ DisplayBy(id)
    \/ \E w \in Title : Calculate("all" :> w) \/ Resize("title" :> w)
    \/ \E c \in OfType("card") : SetDefault(c) \/ DeleteTemplate(c)
    \/ \E set \in SUBSET OfType("card") : set # {} /\ (DuplicateSelected(set) \/ DeleteSelected(set))

WorkOnBoard ==
    \/ \E t \in Title : BoardTitle(t) \/ BoardIcon(t) \/ Description(t)
    \/ \E show \in BOOLEAN : ShowDescription(show)
    \/ \E t \in {"P", "O"} : Share("access", t)
    \/ \E u \in Person, role \in {"none", "viewer", "editor"} : SetMember(u, role)
    \/ DeleteBoard \/ DuplicateBoard

\* A few callbacks for the tasks in which they overlap, on the card there was at first.
WorkInHaste ==
    \/ \E b \in OfType("card") \cap DOMAIN Start[task].blocks :
        \/ \E t \in Title : SaveTitle(b, t)
        \/ DeleteContent(b, 1) \/ DuplicateSelected({b})
        \/ \E p \in ToSet(seen.props), v \in {NoValue, One("x")} :
               p.type = "text" /\ v \in Editable(p) /\ SetValue(b, p, v)

\* A command has been undone or redone and undo() or redo() is about to go on: in the
\* same turn of the event loop only what awaits other requests can come before it.
InTurn == job.do \in {"undo", "redo"} /\ ~executing

Next ==
    \/ /\ ~InTurn
       /\ \/ /\ seen.blocks["board"].live
             /\ \/ task = "card" /\ WorkOnCard
                \/ task = "properties" /\ WorkOnProperties
                \/ task = "view" /\ OfType("view") # {} /\ WorkOnView
                \/ task = "board" /\ WorkOnBoard
                \/ task = "haste" /\ WorkInHaste
          \/ \E i \in DOMAIN calls : Serve(i) \/ Fail(i)
          \/ undo \/ redo \/ Perform \/ Undone \/ Redid \/ Rejected \/ Sync
          \/ \E b \in DOMAIN Start[task].blocks : doc.blocks[b].fields.type = "card" /\
                 (Theirs(b, "title", "") \/ Theirs(b, "properties", doc.props[1].id))
    \/ \E i \in DOMAIN calls : Finish(i)
    \/ UndoLoop \/ RedoLoop

Spec == Init /\ [][Next]_vars

-----------------------------------------------------------------------------
TypeOK ==
    /\ IndexInRange
    /\ given <= Len(Pool[task])
    /\ DOMAIN doc.blocks \subseteq DOMAIN Start[task].blocks \cup ToSet(Pool[task])
    /\ group \in Group /\ (script.grouped <=> group # NoGroup)

\* What the user sees of a board: contents that their card lists; properties
\* regardless of their order (what a patch puts back comes last).
Listed(d, s) == SelectSeq(s, LAMBDA b : b \in Live(d))
Visible(d) == {b \in Live(d) : d.blocks[b].fields.type \in {"text", "image"} =>
                  Contains(d.blocks[d.blocks[b].parent].fields.contentOrder, b)}
Shown(d) ==
    [blocks |-> [b \in Visible(d) |-> [f \in DOMAIN d.blocks[b].fields |->
                    IF f \in {"contentOrder", "cardOrder"} THEN Listed(d, d.blocks[b].fields[f])
                    ELSE d.blocks[b].fields[f]]],
     props |-> ToSet(d.props), members |-> d.members, follows |-> d.follows]

AtRest == Idle /\ calm

\* The cards, with their contents, that the undone commands copied.
Copies == UNION {ToSet(commands[k].made) : k \in {k \in (index + 1)..Len(commands) :
                                                     commands[k].undo = DeleteUndefined}}
But(copies, shown) == [shown EXCEPT !.blocks = Restrict(@, DOMAIN @ \ copies)]

\* Undo restores: when the changes after the index are undone, one at a time and
\* with nobody else editing, the board shows what it did before the first of them
\* - whatever patch each method computed for its undo.  Only a copied card stays:
\* its undo deletes nothing (mutator.ts 1055-1062).
UndoRestores ==
    AtRest /\ index < Len(commands) =>
        But(Copies, Shown(doc)) = Shown(commands[index + 1].before)

\* The value of a card fits the type of its property: several values where the type
\* has several, one where it has one (changePropertyTypeAndName converts the cards
\* together with the board; undo and redo convert them back).
ValuesFitType ==
    AtRest => \A b \in Live(doc) : doc.blocks[b].fields.type = "card" =>
        \A p \in ToSet(doc.props) : p.id \in DOMAIN doc.blocks[b].fields.properties =>
            doc.blocks[b].fields.properties[p.id].many <=> p.type \in {"multiSelect", "multiPerson"}

\* A column is visible or hidden, not both, and in one place: hideViewColumns and
\* unhideViewColumns move it between the two lists.
ColumnsApart ==
    AtRest => \A b \in Live(doc) : doc.blocks[b].fields.type = "view" =>
        LET v == doc.blocks[b].fields
            both == v.visibleOptionIds \o v.hiddenOptionIds
        IN  Cardinality(ToSet(both)) = Len(both)

\* A change of one thing leaves alone what another user has just set elsewhere,
\* although it was computed from an older copy.  What a command is about: the
\* blocks that it makes, and the fields that its redo and its undo set to
\* different values.
Commands == {calls[i].cmd : i \in {i \in DOMAIN calls : calls[i].rest # <<>>}}
            \cup (IF work.rest = <<>> THEN {} ELSE {work.cmd})
PartsOf(requests) == UNION {ToSet(requests[i]) : i \in DOMAIN requests}
Names(cmd, b, f, p) == b \in ToSet(cmd.made) \/
    \E x \in PartsOf(cmd.redo), y \in PartsOf(cmd.undo) :
        /\ {x.id, y.id} = {b} /\ f \in DOMAIN x.set \cap DOMAIN y.set
        /\ IF f = "properties" THEN ValueOf(x.set, p) # ValueOf(y.set, p) ELSE x.set[f] # y.set[f]
Has(d, x) == IF x[2] = "properties" THEN ValueOf(d.blocks[x[1]].fields, x[3])
             ELSE d.blocks[x[1]].fields[x[2]]
Kept(x) ==
    Has(doc', x) # Has(doc, x) =>
        others' # others \/ \E cmd \in Commands : Names(cmd, x[1], x[2], x[3])

\* For a title or icon it holds: the patch of a card has only the fields that differ.
PrimitivesKept == [][\A x \in theirs : x[2] # "properties" => Kept(x)]_vars
=============================================================================
