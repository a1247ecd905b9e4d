---------------------------- MODULE Calculations ----------------------------
(***************************************************************************)
(* The number under a column or at the head of a group                     *)
(* (components/calculations/calculations.ts).  Numbers are in hundredths,  *)
(* to which the code rounds; NoResult is the empty text.                   *)
(***************************************************************************)
EXTENDS CardOrder

CONSTANT Minute     \* of the timestamps

NoResult == -1
Rounded(a, b) == (2 * a + b) \div (2 * b)

\* fixTimestampToMinutesAccuracy: of times of the day, seconds do not count.
Minutes(at) == at - (at % Minute)
getCardProperty(card, t) ==
    CASE t.id = "title" -> One(card.title)
      [] t.type = "createdBy" -> One(card.createdBy)
      [] t.type = "updatedBy" -> One(card.modifiedBy)
      [] t.type = "createdTime" -> Dates(Minutes(card.createAt), 0)
      [] t.type = "updatedTime" -> Dates(Minutes(card.updateAt), 0)
      [] OTHER -> Property(card, t.id)

\* An empty array counts as a value.
cardsWithValue(cards, t) == SelectSeq(cards, LAMBDA c : ~Falsy(getCardProperty(c, t)))
ValuesOf(cards, t) == LET s == cardsWithValue(cards, t) IN [i \in DOMAIN s |-> getCardProperty(s[i], t)]

count(cards, t) == Len(cards)
countNotEmpty(cards, t) == Len(cardsWithValue(cards, t))
countEmpty(cards, t) == Len(cards) - countNotEmpty(cards, t)
Percent(part, cards) == IF cards = <<>> THEN NoResult ELSE Rounded(100 * part, Len(cards))
percentEmpty(cards, t) == Percent(countEmpty(cards, t), cards)
percentNotEmpty(cards, t) == Percent(countNotEmpty(cards, t), cards)

\* Mutant: the values of a multi-select count once per card.
countCards(cards, t) == Len(cardsWithValue(cards, t))
\* Of a multi-select every value counts; a checked box is a value.
countValue(cards, t) ==
    FoldLeft(LAMBDA n, v : n + IF t.type = "multiSelect" THEN Len(v.texts) ELSE 1, 0, ValuesOf(cards, t))
countChecked(cards, t) == countValue(cards, t)
countUnchecked(cards, t) == Len(cards) - countValue(cards, t)
\* Of no cards the code divides by zero and shows NaN.
percentChecked(cards, t) == Percent(countChecked(cards, t), cards)
percentUnchecked(cards, t) == Percent(countUnchecked(cards, t), cards)

countUniqueValue(cards, t) ==
    LET values == ToSet(ValuesOf(cards, t))
    IN  IF t.type = "multiSelect" THEN Cardinality(UNION {ToSet(v.texts) : v \in values})
        ELSE Cardinality(values)

Numbers(cards, t) == LET s == ValuesOf(cards, t) IN [i \in DOMAIN s |-> Number[s[i].texts[1]]]
sum(cards, t) == FoldLeft(LAMBDA n, x : n + x, 0, Numbers(cards, t))
average(cards, t) ==
    LET n == Len(cardsWithValue(cards, t)) IN IF n = 0 THEN 0 ELSE Rounded(sum(cards, t), n)
median(cards, t) ==
    LET s == SortSeq(Numbers(cards, t), LAMBDA x, y : x < y)
        half == Len(s) \div 2
    IN  CASE s = <<>> -> 0
          [] Len(s) % 2 = 0 -> Rounded(s[half + 1] + s[half], 2)
          [] OTHER -> s[half + 1]
\* 0 when no card has a number.
min(cards, t) == LET s == ToSet(Numbers(cards, t)) IN IF s = {} THEN 0 ELSE Min(s)
max(cards, t) == LET s == ToSet(Numbers(cards, t)) IN IF s = {} THEN 0 ELSE Max(s)
range(cards, t) == <<min(cards, t), max(cards, t)>>

\* Both ends of a date count; a time of 0 is none.
Timestamps(cards, t) ==
    UNION {{v.from, v.to} : v \in ToSet(ValuesOf(cards, t))} \ {0}
earliest(cards, t) == LET s == Timestamps(cards, t) IN IF s = {} THEN NoResult ELSE Min(s)
latest(cards, t) == LET s == Timestamps(cards, t) IN IF s = {} THEN NoResult ELSE Max(s)
dateRange(cards, t) ==
    IF earliest(cards, t) = NoResult THEN NoResult ELSE latest(cards, t) - earliest(cards, t)

\* optionsByType: what the menu of a column offers beyond the common ones.
Offered(type) ==
    CASE type = "checkbox" -> {"countChecked", "countUnchecked", "percentChecked", "percentUnchecked"}
      [] type = "number" -> {"sum", "average", "median", "min", "max", "range"}
      [] type \in {"date", "createdTime", "updatedTime"} -> {"earliest", "latest", "dateRange"}
      [] OTHER -> {}
=============================================================================
