----------------------------- MODULE CardFilter -----------------------------
(***************************************************************************)
(* Which cards a view shows: its filter (cardFilter.ts) and the search text *)
(* (store/cards.ts), as functions of a card.                               *)
(*                                                                         *)
(* Texts are members of a set, known by what the code asks of them; the    *)
(* value of a property has "many" texts (an array) or one; a date's text is *)
(* JSON with a first and a last time (0: none).                            *)
(***************************************************************************)
EXTENDS Integers, Sequences, SequencesExt, TLC

CONSTANTS
    Lower,      \* a text in lower case
    Within,     \* <<t, u>>: t includes u; likewise its start and its end
    Starting, Ending,
    Time,       \* the number that parseInt makes of the text of a date filter
    HalfDay

One(t) == [many |-> FALSE, texts |-> <<t>>, from |-> 0, to |-> 0]
Many(s) == [many |-> TRUE, texts |-> s, from |-> 0, to |-> 0]
Dates(from, to) == [many |-> FALSE, texts |-> <<"json">>, from |-> from, to |-> to]
Nothing == One("")
Falsy(v) == v = Nothing
IsEmpty(v) == v.texts \in {<<>>, <<"">>}

\* createFilterClause, createFilterGroup: filters are clauses and groups.
Clause(p, condition, values) == [propertyId |-> p, condition |-> condition, values |-> values]
FilterGroup(operation, filters) == [operation |-> operation, filters |-> filters]
isAFilterGroupInstance(f) == "filters" \in DOMAIN f
NoFilter == FilterGroup("and", <<>>)

NoTemplate == [id |-> "", type |-> "none", options |-> <<>>]
Template(props, id) ==
    IF \E i \in DOMAIN props : props[i].id = id
    THEN props[SelectInSeq(props, LAMBDA p : p.id = id)] ELSE NoTemplate
Property(card, id) == IF id \in DOMAIN card.properties THEN card.properties[id] ELSE Nothing

\* The value that a clause looks at: the title in lower case, the property, or for
\* the properties that every card has what the block says.
ValueFor(clause, template, card) ==
    LET v == Property(card, clause.propertyId)
    IN  CASE clause.propertyId = "title" -> One(Lower[card.title])
          [] ~Falsy(v) -> v
          [] template.type = "createdBy" -> One(card.createdBy)
          [] template.type = "updatedBy" -> One(card.modifiedBy)
          [] template.type = "createdTime" -> Dates(card.createAt, 0)
          [] template.type = "updatedTime" -> Dates(card.updateAt, 0)
          [] OTHER -> v

Timed == {"createdTime", "updatedTime"}     \* with the time of day, not just a date

\* is, isBefore and isAfter of a time: of a date, noon of the day is stored.
TimeMet(condition, type, v, at) ==
    CASE condition = "is" ->
             IF type \in Timed THEN v.from # 0 /\ v.from > at - HalfDay /\ v.from < at + HalfDay
             ELSE IF v.from # 0 /\ v.to # 0 THEN v.from <= at /\ v.to >= at
             ELSE v.from = at
      [] condition = "isBefore" ->
             v.from # 0 /\ v.from < (IF type \in Timed THEN at - HalfDay ELSE at)
      [] condition = "isAfter" ->
             IF type \in Timed THEN v.from # 0 /\ v.from > at + HalfDay
             ELSE IF v.to # 0 THEN v.to > at ELSE v.from # 0 /\ v.from > at

\* contains and the like.  Only contains puts the value itself in lower case.
TextMet(condition, text, sought) ==
    CASE condition = "contains" -> <<Lower[text], sought>> \in Within
      [] condition = "notContains" -> <<text, sought>> \notin Within
      [] condition = "startsWith" -> <<text, sought>> \in Starting
      [] condition = "notStartsWith" -> <<text, sought>> \notin Starting
      [] condition = "endsWith" -> <<text, sought>> \in Ending
      [] condition = "notEndsWith" -> <<text, sought>> \notin Ending

\* A clause without a value is met by every card.
isClauseMet(clause, props, card) ==
    LET t == Template(props, clause.propertyId)
        v == ValueFor(clause, t, card)
        isDate == t.type \in Timed \cup {"date"}
        included == \E c \in ToSet(clause.values) :
                        IF v.many THEN Contains(v.texts, c) ELSE v.texts = <<c>>
        first == Lower[clause.values[1]]
    IN  CASE clause.condition = "isEmpty" -> IsEmpty(v)
          [] clause.condition = "isNotEmpty" -> ~IsEmpty(v)
          [] clause.condition = "isSet" -> ~Falsy(v)
          [] clause.condition = "isNotSet" -> Falsy(v)
          [] clause.values = <<>> -> TRUE
          [] clause.condition = "includes" -> included
          [] clause.condition = "notIncludes" -> ~included
          [] clause.condition \in {"is", "isBefore", "isAfter"} /\ isDate ->
                 TimeMet(clause.condition, t.type, v, Time[clause.values[1]])
          [] clause.condition = "is" -> v.texts = <<first>> /\ ~v.many
          [] clause.condition \in {"isBefore", "isAfter"} -> FALSE
          [] OTHER -> TextMet(clause.condition, v.texts[1], first)

RECURSIVE isFilterGroupMet(_, _, _)
isFilterGroupMet(group, props, card) ==
    LET met(f) == IF isAFilterGroupInstance(f) THEN isFilterGroupMet(f, props, card)
                  ELSE isClauseMet(f, props, card)
    IN  \/ group.filters = <<>>
        \/ group.operation = "or" /\ \E f \in ToSet(group.filters) : met(f)
        \/ group.operation = "and" /\ \A f \in ToSet(group.filters) : met(f)

applyFilterGroup(group, props, cards) ==
    SelectSeq(cards, LAMBDA c : isFilterGroupMet(group, props, c))

\* What a new card is given so that it meets a clause: nothing when that is enough,
\* or when the clause cannot be met by a value.  The value is one text, whatever the
\* property's type.
propertyThatMeetsFilterClause(clause, props) ==
    LET t == Template(props, clause.propertyId)
        give(v) == IF v = "" THEN <<>> ELSE clause.propertyId :> One(v)
    IN  CASE t.type \in {"none", "createdBy", "updatedBy"} -> <<>>
          [] clause.condition = "includes" /\ clause.values # <<>> -> give(clause.values[1])
          [] clause.condition = "isNotEmpty" /\ t.type = "select" /\ t.options # <<>> ->
                 give(t.options[1].id)
          [] OTHER -> <<>>

\* Mutant: the first clause is enough for an "and" too.
propertiesThatMeetOneClause(group, props) ==
    IF group.filters = <<>> THEN <<>> ELSE propertyThatMeetsFilterClause(group.filters[1], props)

\* Of an "or" the first clause is enough; of an "and" all are met in turn.  Nested
\* groups are not looked at.
propertiesThatMeetFilterGroup(group, props) ==
    LET clauses == SelectSeq(group.filters, LAMBDA f : ~isAFilterGroupInstance(f))
        first == IF group.operation = "or" THEN SubSeq(clauses, 1, 1) ELSE clauses
    IN  FoldLeft(LAMBDA given, c : propertyThatMeetsFilterClause(c, props) @@ given, <<>>, first)

\* filterConditionValidOrDefault: a condition that the kind of property offers.
Conditions(kind) ==
    CASE kind = "options" -> {"includes", "notIncludes", "isEmpty", "isNotEmpty"}
      [] kind = "boolean" -> {"isSet", "isNotSet"}
      [] kind = "text" -> {"is", "contains", "notContains", "startsWith", "notStartsWith",
                           "endsWith", "notEndsWith"}
      [] kind = "date" -> {"is", "isBefore", "isAfter", "isSet", "isNotSet"}
      [] OTHER -> {}
filterConditionValidOrDefault(kind, condition) ==
    CASE condition \in Conditions(kind) -> condition
      [] kind = "boolean" -> "isSet"
      [] kind \in {"text", "date"} -> "is"
      [] OTHER -> "includes"

\* searchFilterCards: the title, the value of an option that is chosen (a multi-select
\* has to be equal to the text), any other property but a date.
Found(card, props, sought) ==
    LET option(t, id) == LET i == SelectInSeq(t.options, LAMBDA o : o.id = id)
                         IN  IF i = 0 THEN "" ELSE Lower[t.options[i].value]
        holds(id) ==
            LET t == Template(props, id)
                v == card.properties[id]
            IN  /\ t # NoTemplate /\ ~Falsy(v)
                /\ CASE t.type = "select" -> <<option(t, v.texts[1]), sought>> \in Within
                     [] t.type = "multiSelect" -> \E o \in ToSet(v.texts) : option(t, o) = sought
                     [] OTHER -> t.type # "date" /\ \E x \in ToSet(v.texts) : <<Lower[x], sought>> \in Within
    IN  <<Lower[card.title], sought>> \in Within \/ \E id \in DOMAIN card.properties : holds(id)

searchFilterCards(cards, props, text) ==
    IF text = "" THEN cards ELSE SelectSeq(cards, LAMBDA c : Found(c, props, Lower[text]))
=============================================================================
