------------------------------ MODULE Mutator ------------------------------
(***************************************************************************)
(* The methods of the mutator (mutator.ts), as the command that each hands *)
(* to undoManager.perform: the requests of its redo and those of its undo. *)
(* An argument is the client's copy of a block or board; a method that     *)
(* returns early yields no command (<<>>).                                 *)
(*                                                                         *)
(* A request is a sequence of parts that the server carries out together.  *)
(***************************************************************************)
EXTENDS Patches

\* "made" are the ids that the server gives to what the redo creates.
ToPerform(redo, undo, made) == <<[redo |-> redo, undo |-> undo, made |-> made]>>

\* Methods that patch one field of a block or board, back and forth.
SetField(id, f, old, new) ==
    ToPerform(<<<<Patch(id, f :> new)>>>>, <<<<Patch(id, f :> old)>>>>, <<>>)

changeBlockTitle(id, old, new) == SetField(id, "title", old, new)
changeBlockIcon(id, old, new) == SetField(id, "icon", old, new)
changeBoardTitle(old, new) == SetField("board", "title", old, new)
changeBoardIcon(old, new) == SetField("board", "icon", old, new)
changeBoardDescription(old, new) == SetField("board", "description", old, new)
showBoardDescription(old, new) == SetField("board", "showDescription", old, new)
changeCardContentOrder(card, old, new) == SetField(card, "contentOrder", old, new)
setDefaultTemplate(view, old, new) == SetField(view, "defaultTemplateId", old, new)
clearDefaultTemplate(view, old) == SetField(view, "defaultTemplateId", old, "")
changeViewGroupById(view, old, new) == SetField(view, "groupById", old, new)
changeViewDateDisplayPropertyId(view, old, new) == SetField(view, "dateDisplayPropertyId", old, new)
changeViewVisibleProperties(view, old, new) == SetField(view, "visiblePropertyIds", old, new)
changeViewVisibleOptionIds(view, old, new) == SetField(view, "visibleOptionIds", old, new)
changeViewKanbanCalculations(view, old, new) == SetField(view, "kanbanCalculations", old, new)
changeViewColumnCalculations(view, old, new) == SetField(view, "columnCalculations", old, new)
changeViewCardOrder(view, old, new) == SetField(view, "cardOrder", old, new)

changeViewVisiblePropertiesOrder(view, old, property, dest) ==
    LET src == SelectInSeq(old, LAMBDA p : p = property)
    IN  SetField(view, "visiblePropertyIds", old, MovedTo(old, src, dest))

\* createCard and createBoardView fill in what the block lacks.
CardFields == [icon |-> "", properties |-> <<>>, contentOrder |-> <<>>, isTemplate |-> FALSE]
ViewFields ==
    [groupById |-> Undefined, dateDisplayPropertyId |-> Undefined, sortOptions |-> <<>>,
     visiblePropertyIds |-> <<>>, visibleOptionIds |-> <<>>, hiddenOptionIds |-> <<>>,
     collapsedOptionIds |-> <<>>, cardOrder |-> <<>>, columnWidths |-> <<>>,
     columnCalculations |-> <<>>, kanbanCalculations |-> <<>>, defaultTemplateId |-> ""]
createCard(fields) == fields @@ CardFields
createBoardView(fields) == fields @@ ViewFields

updateBlock(id, new, old) ==
    ToPerform(<<<<BlockPatch(id, new, old)>>>>, <<<<BlockPatch(id, old, new)>>>>, <<>>)

\* The hooks afterRedo and beforeUndo patch a field that lists the new block.
insertBlock(id, parent, fields, afterRedo, beforeUndo) ==
    ToPerform(<<<<[Part("insert", id) EXCEPT !.where = parent, !.set = fields]>>>> \o afterRedo,
            beforeUndo \o <<<<Part("delete", id)>>>>, <<id>>)

deleteBlock(id) == ToPerform(<<<<Part("delete", id)>>>>, <<<<Part("undelete", id)>>>>, <<>>)
deleteBoard == deleteBlock("board")

\* Blocks that are made or deleted together, by one request or by several at once.
insertBlocks(parts, afterRedo, beforeUndo) ==
    ToPerform(<<parts>> \o afterRedo,
            beforeUndo \o [i \in DOMAIN parts |-> <<Part("delete", parts[i].id)>>],
            [i \in DOMAIN parts |-> parts[i].id])

updateBoard(newFields, new, oldFields, old) ==
    ToPerform(<<<<BoardPatch(newFields, new, oldFields, old)>>>>,
            <<<<BoardPatch(oldFields, old, newFields, new)>>>>, <<>>)

\* patchBoardsAndBlocks: the board's properties together with blocks.  "changed"
\* lists the blocks as records of id, new and old fields.
updateAll(new, old, changed) ==
    ToPerform(<<<<PropertiesPatch(new, old)>>
                \o [i \in DOMAIN changed |-> BlockPatch(changed[i].id, changed[i].new, changed[i].old)]>>,
            <<<<PropertiesPatch(old, new)>>
                \o [i \in DOMAIN changed |-> BlockPatch(changed[i].id, changed[i].old, changed[i].new)]>>,
            <<>>)
Change(id, new, old) == [id |-> id, new |-> new, old |-> old]

\* The property goes into the list at index (from 1; 0: at the end), and, in a
\* table, into the view: at the end when it is the first of the list.
insertPropertyTemplate(props, view, v, isTable, index, new) ==
    LET at == IF index = 0 THEN Len(props) + 1 ELSE index
        shown == v.visiblePropertyIds
        col == IF index > 1 /\ index <= Len(shown) THEN index ELSE Len(shown) + 1
        newView == [createBoardView(v) EXCEPT !.visiblePropertyIds = InsertAt(shown, col, new.id)]
    IN  updateAll(InsertAt(props, at, new), props,
                  IF isTable THEN <<Change(view, newView, v)>> ELSE <<>>)

duplicatePropertyTemplate(props, view, v, isTable, id, copy) ==
    LET i == At(props, id)
        new == [props[i] EXCEPT !.id = copy, !.name = "copy"]
        newView == [createBoardView(v) EXCEPT !.visiblePropertyIds = Append(@, copy)]
    IN  IF i = 0 THEN <<>>
        ELSE updateAll(InsertAt(props, i + 1, new), props,
                       IF isTable THEN <<Change(view, newView, v)>> ELSE <<>>)

\* Mutant: the undo forgets the fields of the cards.
deletePropertyForgetting(d, views, cards, id) ==
    ToPerform(<<<<PropertiesPatch(SelectSeq(d.props, LAMBDA p : p.id # id), d.props)>>
                \o [i \in DOMAIN cards |-> BlockPatch(cards[i],
                       [createCard(d.blocks[cards[i]].fields) EXCEPT
                           !.properties = Restrict(@, DOMAIN @ \ {id})], d.blocks[cards[i]].fields)]>>,
            <<<<PropertiesPatch(d.props, SelectSeq(d.props, LAMBDA p : p.id # id))>>>>, <<>>)

\* The property leaves the board, the views that show it and the cards that
\* have a value of it.
deleteProperty(d, views, cards, id) ==
    LET showing == SelectSeq(views, LAMBDA v :
                       Contains(d.blocks[v].fields.visiblePropertyIds, id))
        having == SelectSeq(cards, LAMBDA c : id \in DOMAIN d.blocks[c].fields.properties)
        newView(v) == [createBoardView(v) EXCEPT !.visiblePropertyIds = Without(@, {id})]
        newCard(c) == [createCard(c) EXCEPT !.properties = Restrict(@, DOMAIN @ \ {id})]
        of(b) == d.blocks[b].fields
    IN  updateAll(SelectSeq(d.props, LAMBDA p : p.id # id), d.props,
                  [i \in DOMAIN showing |-> Change(showing[i], newView(of(showing[i])), of(showing[i]))]
                  \o [i \in DOMAIN having |-> Change(having[i], newCard(of(having[i])), of(having[i]))])

\* updateBoardCardProperties and its callers, which edit a deep copy of the
\* properties: the options of one of them.
updateBoardCardProperties(old, new) ==
    ToPerform(<<<<PropertiesPatch(new, old)>>>>, <<<<PropertiesPatch(old, new)>>>>, <<>>)
WithOptions(props, id, options) ==
    [props EXCEPT ![At(props, id)].options = options]
insertPropertyOption(props, p, option) ==
    updateBoardCardProperties(props, WithOptions(props, p.id, <<option>> \o p.options))
deletePropertyOption(props, p, o) ==
    updateBoardCardProperties(props,
        WithOptions(props, p.id, SelectSeq(p.options, LAMBDA q : q.id # o)))
changePropertyOptionValue(props, p, o, value) ==
    updateBoardCardProperties(props,
        WithOptions(props, p.id, [p.options EXCEPT ![At(p.options, o)].value = value]))
changePropertyOptionColor(props, p, o, color) ==
    updateBoardCardProperties(props,
        WithOptions(props, p.id, [p.options EXCEPT ![At(p.options, o)].color = color]))

One(id) == [many |-> FALSE, ids |-> <<id>>]
Many(ids) == [many |-> TRUE, ids |-> ids]
NoValue == One("")
Falsy(v) == v = NoValue
ValueOf(c, p) == IF p \in DOMAIN c.properties THEN c.properties[p] ELSE NoValue
WithValue(c, p, v) ==
    [createCard(c) EXCEPT !.properties =
        IF Falsy(v) THEN Restrict(@, DOMAIN @ \ {p}) ELSE (p :> v) @@ @]

\* "if property value was not changed": two arrays are never the same, and an
\* absent value is not the empty one.
changePropertyValue(card, c, p, v) ==
    IF ~v.many /\ p \in DOMAIN c.properties /\ c.properties[p] = v THEN <<>>
    ELSE updateBlock(card, WithValue(c, p, v), c)

Selects == {"select", "multiSelect"}
Persons == {"person", "multiPerson"}

\* Mutant: several values are kept when the new type holds one.
ConvertedAsIs(p, type, options, v) ==
    IF {type, p.type} \subseteq Selects \/ {type, p.type} \subseteq Persons
    THEN v ELSE NoValue

\* changePropertyTypeAndName.  What becomes of a card's value: of several the
\* first counts; an option stays one when the new type has options, a person when
\* it has persons, a text becomes an option; everything else is deleted.
Converted(p, type, options, v) ==
    LET first == IF v.ids = <<>> THEN "" ELSE v.ids[1]
        keep == CASE p.type \in Persons -> IF type \in Persons THEN first ELSE ""
                  [] p.type \in Selects ->
                         IF type \in Selects /\ At(p.options, first) # 0 THEN first ELSE ""
                  [] type \in Selects ->
                         options[SelectInSeq(options, LAMBDA o : o.value = first)].id
                  [] OTHER -> ""
    IN  IF keep = "" THEN NoValue
        ELSE IF type \in {"multiSelect", "multiPerson"} THEN Many(<<keep>>) ELSE One(keep)

\* A text that is not yet an option becomes one, with a new id.
OptionsOf(values, optionId) ==
    LET distinct == SetToSeq(values)
    IN  [i \in DOMAIN distinct |->
            [id |-> optionId[i], value |-> distinct[i], color |-> "propColorDefault"]]

changePropertyTypeAndName(d, cards, p, type, name, optionId) ==
    LET of(b) == d.blocks[b].fields
        valued == SelectSeq(cards, LAMBDA c : LET v == ValueOf(of(c), p.id) IN
                                ~Falsy(v) /\ v.ids # <<>>)
        fromList == p.type \in Selects \cup Persons
        options == CASE type = p.type -> p.options
                     [] fromList -> IF type \in Selects /\ cards # <<>> THEN p.options ELSE <<>>
                     [] type \in Selects ->
                            OptionsOf({ValueOf(of(c), p.id).ids[1] : c \in ToSet(valued)}, optionId)
                     [] OTHER -> <<>>
        touched == IF type # p.type /\ (fromList \/ type \in Selects \cup Persons)
                   THEN valued ELSE <<>>
        new == [d.props EXCEPT ![At(d.props, p.id)] =
                   [@ EXCEPT !.type = type, !.name = name, !.options = options]]
        changed(c) == Change(c, WithValue(of(c), p.id,
                          Converted(p, type, options, ValueOf(of(c), p.id))), of(c))
    IN  IF p.type = type /\ p.name = name THEN <<>>
        ELSE updateAll(new, d.props, [i \in DOMAIN touched |-> changed(touched[i])])

hideViewColumns(view, v, columns) ==
    LET set == ToSet(columns)
    IN  IF set \subseteq ToSet(v.hiddenOptionIds) THEN <<>>
        ELSE updateBlock(view,
                 [createBoardView(v) EXCEPT !.visibleOptionIds = Without(@, set),
                                            !.hiddenOptionIds = @ \o columns], v)

\* Mutant: the columns that are shown again stay in the hidden ones.
unhideViewColumnsOnly(view, v, columns) ==
    updateBlock(view, [createBoardView(v) EXCEPT
                           !.visibleOptionIds = Without(@, ToSet(columns)) \o columns], v)

unhideViewColumns(view, v, columns) ==
    LET set == ToSet(columns)
    IN  IF set \subseteq ToSet(v.visibleOptionIds) THEN <<>>
        ELSE updateBlock(view,
                 [createBoardView(v) EXCEPT !.hiddenOptionIds = Without(@, set),
                                            !.visibleOptionIds = Without(@, set) \o columns], v)

Following(id, do) == Part(do, id)
followBlock(id) == ToPerform(<<<<Following(id, "follow")>>>>, <<<<Following(id, "unfollow")>>>>, <<>>)
unfollowBlock(id) == ToPerform(<<<<Following(id, "unfollow")>>>>, <<<<Following(id, "follow")>>>>, <<>>)

Member(u, role) == [Part("member", u) EXCEPT !.where = role]
createBoardMember(u, role) == ToPerform(<<<<Member(u, role)>>>>, <<<<Member(u, "none")>>>>, <<>>)
updateBoardMember(u, new, old) == ToPerform(<<<<Member(u, new)>>>>, <<<<Member(u, old)>>>>, <<>>)
deleteBoardMember(u, role) == ToPerform(<<<<Member(u, "none")>>>>, <<<<Member(u, role)>>>>, <<>>)

\* The server copies, then the title, icon and properties are patched from the
\* copy's.  The undo gets what the redo returned, [blocks, newRootBlock.id], and
\* takes the first of the pair for the copied block: it asks for the deletion of the
\* block "undefined" of the board "undefined", which changes nothing.
DeleteUndefined == <<<<>>>>
duplicateCard(d, card, to, title, overrides) ==
    LET c == createCard(d.blocks[card].fields)
        patch == [title |-> title, icon |-> c.icon, properties |-> overrides @@ c.properties]
    IN  ToPerform(<<<<[Part("copy", card) EXCEPT !.to = to]>>, <<Patch(to[1], patch)>>>>,
                DeleteUndefined, to)

\* The copies of a board and its blocks, or what createBoardsAndBlocks made: the
\* undo deletes every block of it and then the board, or all at once.
duplicateBoard(to) ==
    ToPerform(<<<<[Part("copy", "board") EXCEPT !.to = to]>>>>,
            [i \in 1..(Len(to) - 1) |-> <<Part("delete", to[i + 1])>>] \o <<<<Part("delete", to[1])>>>>, to)

moveContentBlock(id, dst, where, src, srcWhere) ==
    LET part(w, o) == [Part("move", id) EXCEPT !.where = w, !.to = <<o>>]
    IN  ToPerform(<<<<part(where, dst)>>>>, <<<<part(srcWhere, src)>>>>, <<>>)
=============================================================================
