----------------------------- MODULE BlockSlices -----------------------------
(***************************************************************************)
(* The parts of the client's Redux store that hold blocks: how a batch of  *)
(* changes and the answer to a load of the board are merged into them      *)
(* (store/cards.ts, views.ts, contents.ts, comments.ts, attachments.ts).   *)
(*                                                                         *)
(* A block is represented by its id and version; kind, parent and board of *)
(* an id do not change.  A change is a record [id, ver, live].             *)
(***************************************************************************)
EXTENDS Naturals, Sequences, SequencesExt, Functions, Selection

CONSTANTS Block, KindOf, ParentOf

NoMap == <<>>

Put(map, id, ver) == [k \in DOMAIN map \cup {id} |-> IF k = id THEN ver ELSE map[k]]

Drop(map, id) == Restrict(map, DOMAIN map \ {id})

\* updateCards and updateViews: a deleted block leaves the map, any other one
\* enters it.
StepMap(map, c) == IF c.live THEN Put(map, c.id, c.ver) ELSE Drop(map, c.id)

UpdateMap(map, changes) ==
    LET after[n \in 0 .. Len(changes)] ==
            IF n = 0 THEN map ELSE StepMap(after[n - 1], changes[n])
    IN  after[Len(changes)]

(***************************************************************************)
(* Contents, comments and attachments are kept twice, by id and in a list  *)
(* per card.  Their reducers leave the loop with "return" in some cases;   *)
(* then the rest of the batch is not applied.  "stop" says so, "taken" are *)
(* the blocks whose change has reached the list.                           *)
(***************************************************************************)
NoList == [byId |-> NoMap, byCard |-> NoMap]

ListOf(l, card) == IF card \in DOMAIN l.byCard THEN l.byCard[card] ELSE <<>>

InList(list, id) == \E i \in DOMAIN list : list[i].id = id

\* What the three reducers do about a block that is already in its card's list.
Replaced(kind, list, c) ==
    IF kind = "attachment" THEN list
    ELSE [i \in DOMAIN list |-> IF list[i].id = c.id THEN c ELSE list[i]]

KeepListed(kind, l, c) ==
    LET p    == ParentOf[c.id]
        list == ListOf(l, p)
        seen == InList(list, c.id)
    IN  [byId   |-> Put(l.byId, c.id, c.ver),
         byCard |-> Put(l.byCard, p, IF seen THEN Replaced(kind, list, c)
                                     ELSE Append(list, c)),
         stop   |-> \/ p \notin DOMAIN l.byCard
                    \/ seen /\ kind = "comment",
         listed |-> ~(seen /\ kind = "attachment")]

\* The card's list is found through the stored block, so a block the slice
\* does not know has none.
DropListed(l, c) ==
    LET known == c.id \in DOMAIN l.byId /\ ParentOf[c.id] \in DOMAIN l.byCard
        p     == ParentOf[c.id]
    IN  [byId   |-> Drop(l.byId, c.id),
         byCard |-> IF known
                    THEN Put(l.byCard, p,
                             Selected(l.byCard[p], {e \in Range(l.byCard[p]) : e.id # c.id}))
                    ELSE l.byCard,
         stop   |-> ~known,
         listed |-> TRUE]

StepListed(kind, acc, c) ==
    IF acc.stop THEN acc
    ELSE LET r == IF c.live THEN KeepListed(kind, acc, c) ELSE DropListed(acc, c)
         IN  [byId |-> r.byId, byCard |-> r.byCard, stop |-> r.stop,
              taken |-> IF r.listed THEN acc.taken \cup {c.id} ELSE acc.taken]

RunListed(kind, l, changes) ==
    LET after[n \in 0 .. Len(changes)] ==
            IF n = 0
            THEN [byId |-> l.byId, byCard |-> l.byCard, stop |-> FALSE, taken |-> {}]
            ELSE StepListed(kind, after[n - 1], changes[n])
    IN  after[Len(changes)]

UpdateListed(kind, l, changes) ==
    LET r == RunListed(kind, l, changes) IN [byId |-> r.byId, byCard |-> r.byCard]

\* The blocks of a kind whose changes a batch did not bring to the list: the loop
\* had ended, or the new version of an attachment left the listed one in place.
LeftOut(kind, l, changes) ==
    {b \in {c.id : c \in Range(changes)} : KindOf[b] = kind}
        \ RunListed(kind, l, changes).taken

(***************************************************************************)
(* All slices together.                                                    *)
(***************************************************************************)
ListedKinds == {"content", "comment", "attachment"}

EmptySlices == [cards |-> NoMap, views |-> NoMap,
                listed |-> [k \in ListedKinds |-> NoList]]

\* The part of a batch that incrementalBlockUpdate hands to each reducer: the
\* blocks of its kind and every deleted block.  A deletion is broadcast without a type, so
\* that the filter of the contents, which names the types to leave out, lets it pass.
Share(kind, changes) ==
    Selected(changes, {c \in Range(changes) : KindOf[c.id] = kind \/ ~c.live})

ApplyBatch(s, changes) ==
    [cards  |-> UpdateMap(s.cards, Share("card", changes)),
     views  |-> UpdateMap(s.views, Share("view", changes)),
     listed |-> [k \in ListedKinds |->
                    UpdateListed(k, s.listed[k], Share(k, changes))]]

\* loadBoardData.fulfilled: every slice is replaced by the blocks of the answer.
\* The contents take whatever is no view or comment: cards and attachments too.
Loads(kind) == IF kind = "content" THEN {"content", "attachment", "card"} ELSE {kind}

LoadSlices(answer) ==
    LET Ids(kind)     == {b \in DOMAIN answer : KindOf[b] \in Loads(kind)}
        Listed(kind, p) == SetToSeq({b \in Ids(kind) : ParentOf[b] = p})
        Entry(b)      == [id |-> b, ver |-> answer[b], live |-> TRUE]
    IN  [cards  |-> Restrict(answer, Ids("card")),
         views  |-> Restrict(answer, Ids("view")),
         listed |-> [k \in ListedKinds |->
             [byId   |-> Restrict(answer, Ids(k)),
              byCard |-> [p \in {ParentOf[b] : b \in Ids(k)} |->
                             [i \in DOMAIN Listed(k, p) |-> Entry(Listed(k, p)[i])]]]]]

\* The version of a block that the page shows, 0 if it shows none.  Cards and views
\* are read from the maps, the others from the list of their card.
ShownInMap(m, b) == IF b \in DOMAIN m THEN m[b] ELSE 0

ShownInList(l, b) ==
    IF InList(l, b) THEN l[CHOOSE i \in DOMAIN l : l[i].id = b].ver ELSE 0

Shown(s, b) ==
    CASE KindOf[b] = "card" -> ShownInMap(s.cards, b)
      [] KindOf[b] = "view" -> ShownInMap(s.views, b)
      [] OTHER              -> ShownInList(ListOf(s.listed[KindOf[b]], ParentOf[b]), b)
=============================================================================
