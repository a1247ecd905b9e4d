------------------------------ MODULE ViewPage ------------------------------
(***************************************************************************)
(* A view of a board: its filter, order and groups, the search field, and  *)
(* the cards that are added to it (components/viewHeader, store/views.ts,  *)
(* store/cards.ts, centerPanel.tsx).  Filters and the order by a property  *)
(* are the reader's own: they change the client's copy of the view only.   *)
(***************************************************************************)
EXTENDS Calculations

CONSTANTS
    FirstCards, FirstProps, FirstView,  \* what the board has at first: cards by id,
                                        \* its properties, the view
    NewId,                              \* of the card that is added
    Values,                             \* what can be chosen or typed, by kind of property
    Names,                              \* usernames
    DefaultFilters,                     \* names of properties whose filter a header adds
    MaxActs                             \* bound: what happens on the page

VARIABLES
    cards,      \* the client's cards
    props,      \* the board's properties
    view,       \* the client's copy of the view
    stored,     \* the server's view
    limit,      \* limitTimestamp
    header,     \* is the view's header mounted?
    here,       \* the view that is open: "this" one or the "other"
    search,     \* the search field: the text that is typed, what the debounced call
                \* will set ("none": no call), the text that the cards are searched for
    adding,     \* the card that is being added, as a sequence of at most one
    asked,      \* history: the filter that the reader set last
    overtaken,  \* history: a stale copy of the view replaced a newer one
    made,       \* history: cards that were added for a filter they can meet
    acts        \* history: how much has happened

viewVars == <<cards, props, view, stored, limit, header, here, search, adding, asked,
              overtaken, made, acts>>

Act == acts < MaxActs /\ acts' = acts + 1
OnThis == here = "this" /\ header

ViewInit ==
    /\ cards = FirstCards /\ props = FirstProps
    /\ view = [FirstView EXCEPT !.filter = NoFilter] /\ stored = FirstView
    /\ limit = 0 /\ header = FALSE /\ here = "this"
    /\ search = [typed |-> "", pending |-> "none", text |-> ""]
    /\ adding = <<>> /\ asked = NoFilter /\ overtaken = FALSE /\ made = {} /\ acts = 0

\* propsRegistry: the kinds of values by which a type of property is filtered.
Kind(type) ==
    CASE type \in {"select", "multiSelect"} -> "options"
      [] type \in {"person", "multiPerson", "createdBy", "updatedBy"} -> "person"
      [] type = "checkbox" -> "boolean"
      [] type \in {"text", "email", "phone", "url"} -> "text"
      [] type \in {"date", "createdTime", "updatedTime"} -> "date"
      [] OTHER -> "none"
canFilter(t) == Kind(t.type) # "none"
KindOf(clause) == IF clause.propertyId = "title" THEN "text" ELSE Kind(Template(props, clause.propertyId).type)

Options(t) == {t.options[i].id : i \in DOMAIN t.options}

-----------------------------------------------------------------------------
\* The filter.  Each callback copies the group, changes one clause of the copy and
\* dispatches updateViewFilter.
updateViewFilter(filters) ==
    /\ Act
    /\ view' = [view EXCEPT !.filter.filters = filters]
    /\ asked' = view'.filter
    /\ UNCHANGED <<cards, props, stored, limit, header, here, search, adding, overtaken, made>>

Filters == view.filter.filters
Filtered(id) == \E i \in DOMAIN Filters : Filters[i].propertyId = id

\* addFilterClicked: the first property that can be filtered and is not yet; when
\* there is none, a clause about nothing.
AddFilter ==
    LET free == SelectSeq(props, LAMBDA t : canFilter(t) /\ ~Filtered(t.id))
    IN  /\ OnThis
        /\ updateViewFilter(Append(Filters,
               Clause(IF free = <<>> THEN "" ELSE free[1].id, "includes", <<>>)))

\* addFilters, when the header of an editor mounts: the properties of these names.
Mount ==
    LET named == SelectSeq(props, LAMBDA t : canFilter(t) /\ ~Filtered(t.id) /\ t.name \in DefaultFilters)
        clauses == [i \in DOMAIN named |->
                       Clause(named[i].id, IF named[i].type = "text" THEN "contains" ELSE "includes", <<>>)]
    IN  /\ ~header /\ header' = TRUE
        /\ view' = [view EXCEPT !.filter.filters = @ \o clauses]
        /\ asked' = view'.filter
        /\ UNCHANGED <<cards, props, stored, limit, here, search, adding, overtaken, made, acts>>

\* Another property for the i-th clause: its condition stays when the new kind
\* offers it; for the title it stays in any case.
PickProperty(i, id) ==
    LET c == Filters[i]
        kept == IF id = "title" THEN c.condition
                ELSE filterConditionValidOrDefault(Kind(Template(props, id).type), c.condition)
    IN  /\ OnThis /\ c.propertyId # id
        /\ id = "title" \/ canFilter(Template(props, id))
        /\ updateViewFilter([Filters EXCEPT ![i] = Clause(id, kept, <<>>)])

\* The conditions that the menu shows for the kind of property.
Menu(clause) ==
    LET type == Template(props, clause.propertyId).type
        kind == KindOf(clause)
        empty == {"isEmpty", "isNotEmpty"}
        set == {"isSet", "isNotSet"}
    IN  CASE kind = "person" -> {"includes", "notIncludes"}
                                \cup (IF type \in {"person", "multiPerson"} THEN empty ELSE {})
          [] kind = "date" -> {"is", "isBefore", "isAfter"} \cup (IF type = "date" THEN set ELSE {})
          [] OTHER -> Conditions(kind)
conditionClicked(i, condition) ==
    /\ OnThis /\ condition \in Menu(Filters[i]) /\ condition # Filters[i].condition
    /\ updateViewFilter([Filters EXCEPT ![i].condition = condition])

\* A text is typed, a date picked: it is the only value.  Clearing a date leaves none,
\* clearing a text an empty one.
SetValue(i, v) ==
    /\ OnThis /\ KindOf(Filters[i]) \in {"text", "date"}
    /\ Filters[i].condition \notin {"isSet", "isNotSet"}
    /\ updateViewFilter([Filters EXCEPT ![i].values =
           IF v = "" /\ KindOf(Filters[i]) = "date" THEN <<>> ELSE <<v>>])

\* An option is switched, a person picked or removed.
ToggleValue(i, v) ==
    /\ OnThis /\ KindOf(Filters[i]) \in {"options", "person"}
    /\ Filters[i].condition \in {"includes", "notIncludes"}
    /\ updateViewFilter([Filters EXCEPT ![i].values =
           IF Contains(@, v) THEN SelectSeq(@, LAMBDA x : x # v) ELSE Append(@, v)])

\* Every clause that is equal to the deleted one goes.
DeleteFilter(i) ==
    /\ OnThis
    /\ updateViewFilter(SelectSeq(Filters, LAMBDA c : c # Filters[i]))

-----------------------------------------------------------------------------
\* Order and groups
Current == [i \in 1..Cardinality(DOMAIN cards) |-> cards[SetToSeq(DOMAIN cards)[i]]]
LastComment == [id \in DOMAIN cards |-> 0]

\* getCurrentViewCardsSortedFilteredAndGrouped
ShownCards ==
    LET whole == SelectSeq(Current, LAMBDA c : ~c.limited)
        found == searchFilterCards(applyFilterGroup(view.filter, props, whole), props, search.text)
    IN  sortCards(found, props, view, Names, LastComment)
GroupProperty == Template(props, view.groupById)
Groups ==
    LET g == getVisibleAndHiddenGroups(ShownCards, view.visible, view.hidden, GroupProperty)
    IN  g.visible \o g.hidden

\* sortChanged, reverseSort: the same property again reverses the order.
updateViewSort(options) ==
    /\ Act /\ OnThis /\ view' = [view EXCEPT !.sortOptions = options]
    /\ UNCHANGED <<cards, props, stored, limit, header, here, search, adding, asked, overtaken, made>>
SortBy(id) ==
    LET o == view.sortOptions
    IN  updateViewSort(<<[propertyId |-> id,
                          reversed |-> o # <<>> /\ o[1].propertyId = id /\ ~o[1].reversed]>>)
RevertSort == view.sortOptions # <<>> /\ updateViewSort(<<>>)

IdsOf(s) == [i \in DOMAIN s |-> s[i].id]

\* onManualSort: the cards that are shown, in their order, become the order of the
\* view for everyone.
ManualSort ==
    /\ Act /\ OnThis /\ view.sortOptions # <<>>
    /\ stored' = [stored EXCEPT !.sortOptions = <<>>,
                      !.cardOrder = IdsOf(ShownCards)]
    /\ UNCHANGED <<cards, props, view, limit, header, here, search, adding, asked, overtaken, made>>

-----------------------------------------------------------------------------
\* The search field, with a debounced call of setSearchText
Type(text) ==
    /\ Act /\ text # search.typed
    /\ search' = [search EXCEPT !.typed = text, !.pending = text]
    /\ UNCHANGED <<cards, props, view, stored, limit, header, here, adding, asked, overtaken, made>>
setSearchText ==
    /\ search.pending # "none"
    /\ search' = [search EXCEPT !.text = search.pending, !.pending = "none"]
    /\ UNCHANGED <<cards, props, view, stored, limit, header, here, adding, asked, overtaken, made, acts>>

\* The other view is opened: the field is emptied and a pending call cancelled.
OpenView ==
    /\ Act /\ here' = (IF here = "this" THEN "other" ELSE "this")
    /\ search' = [typed |-> "", pending |-> "none", text |-> ""]
    /\ UNCHANGED <<cards, props, view, stored, limit, header, adding, asked, overtaken, made>>

-----------------------------------------------------------------------------
\* addCard: the card is given what the filter and the group ask for.
Given(o) ==
    LET met == propertiesThatMeetFilterGroup(view.filter, props)
        others == Restrict(met, DOMAIN met \ {view.groupById})
    IN  CASE GroupProperty = NoTemplate -> met
          [] o = "" -> others
          [] OTHER -> (view.groupById :> One(o)) @@ others

\* The filters of which a new card can meet every clause.
Settable(filter, o) ==
    \A i \in DOMAIN filter.filters :
        LET c == filter.filters[i]
            t == Template(props, c.propertyId)
        IN  /\ \A j \in DOMAIN filter.filters : filter.filters[j].propertyId = c.propertyId => j = i
            /\ IF c.propertyId = view.groupById THEN o \in ToSet(c.values) \cap Options(t)
               ELSE t.type \in {"select", "multiSelect", "person", "multiPerson"}
            /\ \/ c.condition = "includes" /\ "" \notin ToSet(c.values)
               \/ c.condition = "isNotEmpty" /\ t.type = "select" /\ t.options # <<>>

AddCard(o, show) ==
    /\ Act /\ OnThis /\ adding = <<>> /\ NewId \notin DOMAIN cards
    /\ o = "" \/ o \in {g.option : g \in ToSet(Groups)}
    /\ adding' = <<[view |-> view, show |-> show, given |-> Given(o), meets |-> Settable(view.filter, o)]>>
    /\ UNCHANGED <<cards, props, view, stored, limit, header, here, search, asked, overtaken, made>>

\* The card is inserted; it is put at the end of the order that the view had when
\* it was asked for.  With "show" it and that old copy of the view enter the store,
\* otherwise the card comes by the websocket.
CardMade ==
    /\ adding # <<>>
    /\ LET a == adding[1]
           order == Append(a.view.cardOrder, NewId)
       IN  /\ cards' = (NewId :> [id |-> NewId, title |-> "", properties |-> a.given, limited |-> FALSE,
                                  createdBy |-> "me", modifiedBy |-> "me", createAt |-> 9, updateAt |-> 9]) @@ cards
           /\ view' = IF a.show THEN [a.view EXCEPT !.cardOrder = order] ELSE view
           /\ overtaken' = (overtaken \/ view'.filter # view.filter)
           /\ stored' = [stored EXCEPT !.cardOrder = order]
           /\ made' = IF a.meets THEN {[card |-> NewId, filter |-> a.view.filter]} ELSE {}
    /\ adding' = <<>>
    /\ UNCHANGED <<props, limit, header, here, search, asked, acts>>

-----------------------------------------------------------------------------
\* Others

\* Somebody changes the view on the server: its order, groups or filter.
ViewChanged(f, v) ==
    /\ Act /\ stored[f] # v
    /\ stored' = [stored EXCEPT ![f] = v]
    /\ UNCHANGED <<cards, props, view, limit, header, here, search, adding, asked, overtaken, made>>

\* Mutant: the view arrives with the filter of the server.
smartViewUpdateWhole(old, new) == new
\* updateViews: of a view that arrives everything but the filter is taken.
smartViewUpdate(old, new) == [new EXCEPT !.filter = old.filter]
ViewArrives ==
    /\ view # smartViewUpdate(view, stored)
    /\ view' = smartViewUpdate(view, stored)
    /\ UNCHANGED <<cards, props, stored, limit, header, here, search, adding, asked, overtaken, made, acts>>

\* The board is loaded again: the cards are whole, the view has no filter.
LoadBoard ==
    /\ Act /\ view' = [stored EXCEPT !.filter = NoFilter] /\ asked' = NoFilter
    /\ cards' = [id \in DOMAIN cards |-> IF id \in DOMAIN FirstCards THEN FirstCards[id] ELSE cards[id]]
    /\ made' = {}
    /\ UNCHANGED <<props, stored, limit, header, here, search, adding, overtaken>>

\* An option of a property is deleted; the cards keep it.
OptionDeleted(id, o) ==
    /\ Act
    /\ o \in Options(Template(props, id))
    /\ props' = [i \in DOMAIN props |-> IF props[i].id # id THEN props[i]
                     ELSE [props[i] EXCEPT !.options = SelectSeq(@, LAMBDA x : x.id # o)]]
    /\ made' = {}
    /\ UNCHANGED <<cards, view, stored, limit, header, here, search, adding, asked, overtaken>>

\* limitCard: of a card that is too old for the plan only the outside stays.
limitCard(c, at) ==
    IF c.updateAt >= at THEN c ELSE [c EXCEPT !.properties = <<>>, !.limited = TRUE]
setLimitTimestamp(at) ==
    /\ Act /\ limit' = at
    /\ cards' = [id \in DOMAIN cards |-> limitCard(cards[id], at)]
    /\ UNCHANGED <<props, view, stored, header, here, search, adding, asked, overtaken, made>>
\* refreshCards: those that are not too old any more are asked for again.
RefreshCards ==
    /\ \E id \in DOMAIN cards : cards[id].limited /\ cards[id].updateAt >= limit
    /\ cards' = [id \in DOMAIN cards |->
                    IF cards[id].limited /\ cards[id].updateAt >= limit /\ id \in DOMAIN FirstCards
                    THEN FirstCards[id] ELSE cards[id]]
    /\ UNCHANGED <<props, view, stored, limit, header, here, search, adding, asked, overtaken, made, acts>>

ViewNext ==
    \/ Mount \/ AddFilter \/ RevertSort \/ ManualSort \/ setSearchText \/ OpenView \/ CardMade
    \/ \E i \in DOMAIN Filters :
        \/ DeleteFilter(i)
        \/ \E id \in {"title"} \cup {props[j].id : j \in DOMAIN props} : PickProperty(i, id)
        \/ \E c \in Menu(Filters[i]) : conditionClicked(i, c)
        \/ \E v \in Values[KindOf(Filters[i])] : SetValue(i, v) \/ ToggleValue(i, v)
    \/ \E id \in {"title"} \cup {props[j].id : j \in DOMAIN props} : SortBy(id)
    \/ \E text \in Values["text"] : Type(text)
    \/ \E o \in {""} \cup Options(GroupProperty), show \in BOOLEAN : AddCard(o, show)
    \/ \E o \in Options(GroupProperty) :
        \/ ViewChanged("visible", <<o>>) \/ ViewChanged("hidden", <<"", o>>)
        \/ OptionDeleted(GroupProperty.id, o)
    \/ ViewChanged("cardOrder", <<>>)
    \/ ViewArrives \/ LoadBoard \/ RefreshCards
    \/ \E at \in {0, 2} : setLimitTimestamp(at)

-----------------------------------------------------------------------------
\* The filter of the view is the one that its reader set last, whatever arrives from
\* the server, unless a card that was being added brought back an old copy of it.
FilterIsMine == ~overtaken => view.filter = asked

\* A card that is added to a filtered view shows up in it, when the filter is one
\* whose every clause a value can meet.
NewCardShown ==
    \A m \in made : m.filter = view.filter /\ search.text = "" /\ ~cards[m.card].limited
                        => m.card \in {c.id : c \in ToSet(ShownCards)}

\* The groups of a view add up to it: each card that the view shows is in exactly one
\* of them, and so the numbers at their heads sum up to the one of the whole,
\* also after an option was deleted or columns were moved by someone else.
GroupsAddUp ==
    GroupProperty # NoTemplate /\ ToSet(view.visible) \cap ToSet(view.hidden) = {} =>
        \A shown \in {ShownCards} : \A all \in {[i \in DOMAIN Groups |-> Groups[i].cards]} :
            /\ Len(FlattenSeq(all)) = Len(shown) /\ ToSet(FlattenSeq(all)) = ToSet(shown)
            /\ \A j \in DOMAIN props :
                /\ FoldLeft(LAMBDA n, s : n + countValue(s, props[j]), 0, all) = countValue(shown, props[j])
                /\ countUniqueValue(shown, props[j]) <= countValue(shown, props[j])
                /\ countEmpty(shown, props[j]) + countNotEmpty(shown, props[j]) = Len(shown)
=============================================================================
