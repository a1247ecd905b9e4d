------------------------------ MODULE Patches ------------------------------
(***************************************************************************)
(* What the client and the server keep of a board, and the patches that    *)
(* change it (blocks/block.ts, blocks/board.ts): a client builds a patch   *)
(* from an old and a new copy, the server applies it.                      *)
(*                                                                         *)
(* A document has blocks (the board is one of them), the board's card      *)
(* properties, its members and the blocks that the user follows.  A block's *)
(* title counts among its fields.  A property's value is [many, ids]: a    *)
(* string is one id, an array is several.                                  *)
(***************************************************************************)
EXTENDS Naturals, Sequences, SequencesExt, TLC

Undefined == "undefined"     \* a field of a view that is there but was never set

\* Fields that hold an object or an array.  createCard and createBoardView copy
\* them, so a copy's are never === to the original's.
Objects == {"properties", "contentOrder", "sortOptions", "visiblePropertyIds",
            "visibleOptionIds", "hiddenOptionIds", "collapsedOptionIds", "cardOrder",
            "columnWidths", "columnCalculations", "kanbanCalculations"}
Optional == {"groupById", "dateDisplayPropertyId"}

NoFields == [f \in {} |-> Undefined]
Part(do, id) == [do |-> do, id |-> id, set |-> NoFields, gone |-> {},
                 props |-> <<>>, lost |-> {}, to |-> <<>>, where |-> ""]

\* JSON has no undefined: a field with that value does not arrive.
Sent(set) == Restrict(set, {f \in DOMAIN set : ~(f \in Optional /\ set[f] = Undefined)})

\* patchBlock, patchBoard: set these fields, remove those; and for the board,
\* replace or add these properties, remove those.
Patch(id, set) == [Part("patch", id) EXCEPT !.set = Sent(set)]

\* Mutant: every field is sent, changed or not.
Everything(a, b) == DOMAIN a
\* createPatchesFromBlocks, its first patch; the second one is the same with the
\* two copies swapped.
Differing(a, b) == {f \in DOMAIN a : f \notin DOMAIN b \/ f \in Objects \/ a[f] # b[f]}
BlockPatch(id, new, old) ==
    [Patch(id, Restrict(new, Differing(new, old))) EXCEPT !.gone = DOMAIN old \ DOMAIN new]

\* isPropertyEqual: the order of the options does not count.
isPropertyEqual(p, q) ==
    /\ <<p.name, p.type, Len(p.options)>> = <<q.name, q.type, Len(q.options)>>
    /\ ToSet(p.options) \subseteq ToSet(q.options)

Ids(s) == {s[i].id : i \in DOMAIN s}
getPropertiesDifference(a, b) == Ids(a) \ Ids(b)

\* createCardPropertiesPatches, its first patch.
PropertiesPatch(new, old) ==
    [Part("patch", "board") EXCEPT
        !.props = SelectSeq(new, LAMBDA p :
                      ~\E q \in ToSet(old) : q.id = p.id /\ isPropertyEqual(p, q)),
        !.lost = getPropertiesDifference(old, new)]

\* createPatchesFromBoards, its first patch.
BoardPatch(newFields, new, oldFields, old) ==
    [PropertiesPatch(new, old) EXCEPT
        !.set = Restrict(newFields, {f \in DOMAIN newFields : newFields[f] # oldFields[f]})]

\* Where an element of a sequence of records is, 0 if it is not there.
At(s, id) == SelectInSeq(s, LAMBDA p : p.id = id)
Without(s, set) == SelectSeq(s, LAMBDA x : x \notin set)
MovedTo(s, from, to) == InsertAt(RemoveAt(s, from), to, s[from])

\* The server: properties that it has are replaced in place, others come last.
PropsApplied(have, props, lost) ==
    LET kept == SelectSeq(have, LAMBDA p : p.id \notin lost)
        new(p) == IF At(props, p.id) = 0 THEN p ELSE props[At(props, p.id)]
    IN  [i \in DOMAIN kept |-> new(kept[i])]
        \o SelectSeq(props, LAMBDA p : p.id \notin Ids(kept))

-----------------------------------------------------------------------------
\* Documents
\* A block and its children, or a board and all its blocks: in a document, two levels.
Under(d, b) ==
    LET below(set) == {c \in DOMAIN d.blocks : d.blocks[c].parent \in set}
    IN  {b} \cup below({b}) \cup below(below({b}))

Marked(d, set, live) ==
    [d EXCEPT !.blocks = [b \in DOMAIN @ |-> IF b \in set THEN [@[b] EXCEPT !.live = live] ELSE @[b]]]

Alive(d, b) == b \in DOMAIN d.blocks /\ d.blocks[b].live

\* A block moves in its card's contentOrder, where both must be found.
Moved(order, b, where, dst) ==
    LET rest == Without(order, {b})
        i == SelectInSeq(rest, LAMBDA x : x = dst)
    IN  IF i = 0 \/ rest = order THEN order
        ELSE InsertAt(rest, IF where = "after" THEN i + 1 ELSE i, b)

\* The copy of a block has new ids for itself and what is below it, but for the
\* comments (in the model as many as the caller has seen blocks), and lists those
\* ids; the copy of a card is no template, the copy of a board is private.
Copied(d, from, to) ==
    LET inside == SelectSeq(SetToSeq(Under(d, from) \ {from}),
                            LAMBDA b : d.blocks[b].live /\ d.blocks[b].fields.type # "comment")
        old == <<from>> \o inside
        n == IF Len(old) < Len(to) THEN Len(old) ELSE Len(to)
        new(b) == LET i == SelectInSeq(old, LAMBDA x : x = b) IN IF i \in 1..n THEN to[i] ELSE b
        own(b) == IF b # from THEN NoFields
                  ELSE IF d.blocks[b].fields.type = "board" THEN "access" :> "P"
                  ELSE "isTemplate" :> FALSE
        field(f, v) == CASE f \in {"contentOrder", "cardOrder"} -> [i \in DOMAIN v |-> new(v[i])]
                         [] f = "defaultTemplateId" -> new(v)
                         [] OTHER -> v
        copy(b) == [live |-> TRUE, parent |-> new(d.blocks[b].parent),
                    fields |-> own(b) @@ [f \in DOMAIN d.blocks[b].fields |-> field(f, d.blocks[b].fields[f])]]
        copies == [x \in {to[i] : i \in 1..n} |-> copy(CHOOSE o \in ToSet(old) : new(o) = x)]
    IN  [d EXCEPT !.blocks = copies @@ @]

\* What the server refuses to do with a block that is deleted.  The client does not
\* look at the status of the answer.
Refused(d, p) ==
    \/ p.do \in {"patch", "copy", "move"} /\ ~Alive(d, p.id)
    \/ p.do = "move" /\ ~(Alive(d, p.to[1]) /\ Alive(d, d.blocks[p.id].parent)
                          /\ d.blocks[p.to[1]].parent = d.blocks[p.id].parent)

\* One part of a request, carried out by the server; a block that is deleted is not
\* deleted again, nor one that is not undeleted.
Applied(d, p) ==
    CASE p.do = "patch" ->
             [d EXCEPT !.blocks[p.id].fields = LET all == p.set @@ @
                                               IN  Restrict(all, DOMAIN all \ p.gone),
                       !.props = IF p.id = "board" THEN PropsApplied(@, p.props, p.lost) ELSE @]
      [] p.do = "insert" ->
             [d EXCEPT !.blocks = (p.id :> [live |-> TRUE, parent |-> p.where, fields |-> p.set]) @@ @]
      [] p.do = "delete" -> IF Alive(d, p.id) THEN Marked(d, Under(d, p.id), FALSE) ELSE d
      [] p.do = "undelete" -> IF Alive(d, p.id) THEN d ELSE Marked(d, Under(d, p.id), TRUE)
      [] p.do = "copy" -> Copied(d, p.id, p.to)
      [] p.do = "move" ->
             [d EXCEPT !.blocks[d.blocks[p.id].parent].fields.contentOrder =
                           Moved(@, p.id, p.where, p.to[1])]
      [] p.do = "member" -> [d EXCEPT !.members[p.id] = p.where]
      [] p.do = "follow" -> [d EXCEPT !.follows = @ \cup {p.id}]
      [] p.do = "unfollow" -> [d EXCEPT !.follows = @ \ {p.id}]

\* The parts are carried out together, or none of them is.
Request(d, parts) ==
    IF \E i \in DOMAIN parts : Refused(d, parts[i]) THEN d ELSE FoldLeft(Applied, d, parts)
=============================================================================
