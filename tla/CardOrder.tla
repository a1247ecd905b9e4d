----------------------------- MODULE CardOrder -----------------------------
(***************************************************************************)
(* In which order and in which groups a view shows its cards               *)
(* (sortCards in store/cards.ts, boardUtils.ts).  A comparator is an       *)
(* operator that yields a number below, equal to or above 0.               *)
(***************************************************************************)
EXTENDS CardFilter, FiniteSetsExt

CONSTANTS
    Rank,       \* of a text: its place in the order of localeCompare
    Number      \* of a text: the number it stands for

titleOrCreatedOrder(a, b) ==
    CASE a.title # "" /\ b.title # "" -> Rank[a.title] - Rank[b.title]
      [] a.title # "" -> -1
      [] b.title # "" -> 1
      [] OTHER -> a.createAt - b.createAt

\* A card that the order does not list goes to the end when it is the first
\* argument; as the second one it counts as listed before all others.
manualOrder(cardOrder, a, b) ==
    LET index(c) == SelectInSeq(cardOrder, LAMBDA x : x = c.id) - 1
    IN  CASE index(a) < 0 /\ index(b) < 0 -> titleOrCreatedOrder(a, b)
          [] index(a) < 0 -> 1
          [] OTHER -> index(a) - index(b)

\* What cards are compared by: a rank or number, or Missing when the card has no value.
Missing == -1
Key(card, t, names, lastComment) ==
    LET v == Property(card, t.id)
        text == IF v.texts = <<>> THEN "" ELSE v.texts[1]
        option == SelectInSeq(t.options, LAMBDA o : o.id = text)
        username(u) == IF u \in DOMAIN names THEN Rank[names[u]] ELSE Missing
    IN  CASE t.type = "createdTime" -> card.createAt
          [] t.type = "updatedTime" -> Max({card.updateAt, lastComment[card.id]})
          [] t.type = "createdBy" -> username(card.createdBy)
          [] t.type = "updatedBy" -> username(card.modifiedBy)
          [] text = "" -> Missing
          [] t.type = "number" -> Number[text]
          [] t.type = "date" -> v.from
          [] t.type \in {"select", "multiSelect"} ->
                 IF option = 0 THEN Rank[""] ELSE Rank[t.options[option].value]
          [] OTHER -> Rank[text]

\* Cards without a value stay at the end, also when the order is reversed; equal
\* ones are in the order of their titles, reversed with the rest.
propertyOrder(a, b, t, reversed, names, lastComment) ==
    LET x == Key(a, t, names, lastComment)
        y == Key(b, t, names, lastComment)
        result == IF x # y THEN x - y ELSE titleOrCreatedOrder(a, b)
    IN  CASE {x, y} = {Missing} -> titleOrCreatedOrder(a, b)
          [] x = Missing -> 1
          [] y = Missing -> -1
          [] OTHER -> IF reversed THEN -result ELSE result

\* Array.sort: stable, by insertion.
Sorted(cards, Order(_, _)) ==
    FoldLeft(LAMBDA s, c :
                 LET after == {i \in DOMAIN s : Order(s[i], c) <= 0}
                     at == IF after = {} THEN 0 ELSE Max(after)
                 IN  InsertAt(s, at + 1, c),
             <<>>, cards)

\* sortCards: the sort options in turn, so that the last one decides first.  An
\* option whose property is gone ends the sorting.
sortCards(cards, props, view, names, lastComment) ==
    LET one(acc, o) ==
            LET t == Template(props, o.propertyId)
                title(a, b) == IF o.reversed THEN -titleOrCreatedOrder(a, b)
                               ELSE titleOrCreatedOrder(a, b)
                property(a, b) == propertyOrder(a, b, t, o.reversed, names, lastComment)
            IN  CASE acc.stopped -> acc
                  [] o.propertyId = "title" -> [acc EXCEPT !.cards = Sorted(@, title)]
                  [] t = NoTemplate -> [acc EXCEPT !.stopped = TRUE]
                  [] OTHER -> [acc EXCEPT !.cards = Sorted(@, property)]
        manual(a, b) == manualOrder(view.cardOrder, a, b)
    IN  IF view.sortOptions = <<>> THEN Sorted(cards, manual)
        ELSE FoldLeft(one, [cards |-> cards, stopped |-> FALSE], view.sortOptions).cards

-----------------------------------------------------------------------------
\* Groups
Group(o, cards) == [option |-> o, cards |-> cards]

\* Mutant: the group without a value misses the cards whose option was deleted.
groupCardsStrictly(cards, ids, t) ==
    [i \in DOMAIN ids |-> Group(ids[i], SelectSeq(cards, LAMBDA c :
        Property(c, t.id) = One(ids[i])))]

\* An option that the property does not have is skipped; "" stands for no value, or
\* for an option that was deleted.
groupCardsByOptions(cards, ids, t) ==
    LET options == {t.options[i].id : i \in DOMAIN t.options}
        known == SelectSeq(ids, LAMBDA o : o = "" \/ o \in options)
        of(c) == LET v == Property(c, t.id)
                 IN  IF v.texts # <<>> /\ v.texts[1] \in options THEN v.texts[1] ELSE ""
    IN  [i \in DOMAIN known |-> Group(known[i], SelectSeq(cards, LAMBDA c : of(c) = known[i]))]

\* Options in neither list are visible; the group without a value comes first
\* unless one of the lists has it.
getOptionGroups(cards, visible, hidden, t) ==
    LET listed == ToSet(visible) \cup ToSet(hidden)
        ids == [i \in DOMAIN t.options |-> t.options[i].id]
        all == visible \o SelectSeq(ids, LAMBDA o : o \notin listed)
        first == IF "" \in ToSet(all) \cup ToSet(hidden) THEN <<>> ELSE <<"">>
    IN  [visible |-> groupCardsByOptions(cards, first \o all, t),
         hidden |-> groupCardsByOptions(cards, hidden, t)]

\* A group per person who occurs, in the order of the cards (no person: "undefined").
getPersonGroups(cards, t, hidden) ==
    LET person(c) == CASE t.type = "createdBy" -> c.createdBy
                       [] t.type = "updatedBy" -> c.modifiedBy
                       [] OTHER -> Property(c, t.id).texts[1]
        ids == FoldLeft(LAMBDA s, c : IF Contains(s, person(c)) THEN s ELSE Append(s, person(c)), <<>>, cards)
        groups == [i \in DOMAIN ids |-> Group(ids[i], SelectSeq(cards, LAMBDA c : person(c) = ids[i]))]
    IN  [visible |-> SelectSeq(groups, LAMBDA g : g.option = "" \/ g.option \notin ToSet(hidden)),
         hidden |-> SelectSeq(groups, LAMBDA g : g.option # "" /\ g.option \in ToSet(hidden))]

Persons == {"createdBy", "updatedBy", "person"}
getVisibleAndHiddenGroups(cards, visible, hidden, t) ==
    IF t.type \in Persons THEN getPersonGroups(cards, t, hidden)
    ELSE getOptionGroups(cards, visible, hidden, t)
=============================================================================
