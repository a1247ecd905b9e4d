---------------------------- MODULE CardContents ----------------------------
(***************************************************************************)
(* The contents of a card in its dialog: rows of content blocks, some of   *)
(* several columns, that are dragged, added and deleted while another user *)
(* does so too; and the attachments, each shown as a placeholder while its *)
(* file is uploaded.  What a client sends is always the whole order.       *)
(***************************************************************************)
EXTENDS Integers, Sequences, SequencesExt, FiniteSets

CONSTANTS
    FirstOrder,     \* the order of the contents
    NewContent,     \* the block that I may add
    ContentActs,    \* bound: what I and the other user do, all before a flaw
    ContentBusy     \* bound: the requests under way when something is done

VARIABLES
    order,          \* the order the server and the store have
    exist,          \* server: the content blocks
    drag,           \* the block being dragged and where it was when that began
    orders,         \* requests: an order, and the one it was made from
    lastAdded,      \* the block added last, and whether automatically
    uploads,        \* the attachments: how far each is, and whether its placeholder is shown
    flaws,          \* history: what led to a lost or doubled block
    contentActs     \* history: how much was done

contentVars == <<order, exist, drag, orders, lastAdded, uploads, flaws, contentActs>>

\* A row is a block, or a list of blocks in columns. A block's place has the column 0 if it is
\* a row of its own.
Single(b) == [columns |-> FALSE, ids |-> <<b>>]
Columns(ids) == [columns |-> TRUE, ids |-> ids]
Place(b, x, y) == [id |-> b, x |-> x, y |-> y]
NoDrag == Place("", 0, 0)
Places(rows) ==
    UNION {{Place(rows[x].ids[y], x, IF rows[x].columns THEN y ELSE 0) : y \in DOMAIN rows[x].ids} : x \in DOMAIN rows}
Row(rows, x) == Place(IF rows[x].columns THEN "" ELSE rows[x].ids[1], x, 0)
IdsOf(rows) == FlattenSeq([x \in DOMAIN rows |-> rows[x].ids])

-----------------------------------------------------------------------------
\* dragAndDropRearrange: first the block is taken out.
Flat(row) == IF row.columns /\ Len(row.ids) = 1 THEN Single(row.ids[1]) ELSE row
TakenOut(rows, src, dst) ==
    IF src.y > 0
    THEN LET ids == rows[src.x].ids
             row == Columns(IF src.y \in DOMAIN ids THEN RemoveAt(ids, src.y) ELSE ids)
         IN  ReplaceAt(rows, src.x, IF src.x # dst.x THEN Flat(row) ELSE row)
    ELSE IF src.x \in DOMAIN rows THEN RemoveAt(rows, src.x) ELSE rows
\* Then it is put in beside another block, or above or below a row; nothing is sent, the empty
\* order here, when a row is gone, or has no columns, that should have.
Nothing == <<>>
PutIn(s, i, x) == InsertAt(s, IF i > Len(s) THEN Len(s) + 1 ELSE i, x)

\* Mutant: the place where it is put in does not move up when a row above it is taken out.
RowOfDstAsItWas(src, dst) == dst.x
RowOfDst(src, dst) == IF src.y = 0 /\ dst.x > src.x THEN dst.x - 1 ELSE dst.x
ColumnOfDst(src, dst) == IF RowOfDst(src, dst) = src.x /\ src.y > 0 /\ dst.y > src.y THEN dst.y - 1 ELSE dst.y
dragAndDropRearrange(rows, src, dst, moveTo) ==
    IF src.y > 0 /\ ~(src.x \in DOMAIN rows /\ rows[src.x].columns) THEN Nothing
    ELSE LET rest == TakenOut(rows, src, dst)
             x == RowOfDst(src, dst)
             y == ColumnOfDst(src, dst)
             pair == Columns(IF moveTo = "right" THEN <<dst.id, src.id>> ELSE <<src.id, dst.id>>)
         IN  CASE moveTo = "aboveRow" -> PutIn(rest, x, Single(src.id))
               [] moveTo = "belowRow" -> PutIn(rest, x + 1, Single(src.id))
               [] dst.y = 0 -> IF x \in DOMAIN rest THEN ReplaceAt(rest, x, pair) ELSE Append(rest, pair)
               [] x \notin DOMAIN rest \/ ~rest[x].columns -> Nothing
               [] OTHER -> ReplaceAt(rest, x, Columns(PutIn(rest[x].ids, IF moveTo = "right" THEN y + 1 ELSE y, src.id)))

-----------------------------------------------------------------------------
Act == flaws = {} /\ contentActs < ContentActs /\ Len(orders) <= ContentBusy /\ contentActs' = contentActs + 1
changeCardContentOrder(rows) == orders' = Append(orders, [rows |-> rows, base |-> order.here])
Keeps == UNCHANGED <<order, exist, uploads>>

StartDrag ==
    /\ drag = NoDrag /\ Act /\ Keeps /\ UNCHANGED <<orders, lastAdded, flaws>>
    /\ \E p \in Places(order.here) : drag' = p
\* A block is dropped beside another one, or in the gap above a row or below the last one.
moveBlock(dst, moveTo) ==
    /\ drag # NoDrag /\ Act /\ Keeps /\ UNCHANGED lastAdded
    /\ drag' = NoDrag
    /\ LET rows == dragAndDropRearrange(order.here, drag, dst, moveTo)
       IN  IF rows = Nothing \/ drag.id = dst.id THEN UNCHANGED orders ELSE changeCardContentOrder(rows)
    /\ flaws' = flaws \cup (IF drag \in Places(order.here) THEN {} ELSE {"moved meanwhile"})
Drop ==
    \/ \E dst \in Places(order.here), moveTo \in {"left", "right"} : (moveTo = "left" => dst.y <= 1) /\ moveBlock(dst, moveTo)
    \/ \E x \in DOMAIN order.here : moveBlock(Row(order.here, x), "aboveRow")
    \/ order.here # <<>> /\ moveBlock(Row(order.here, Len(order.here)), "belowRow")

\* The menu of a block moves its row, or deletes the block.
MoveRow(x, to) ==
    /\ {x, to} \subseteq DOMAIN order.here /\ Act /\ Keeps /\ UNCHANGED <<drag, lastAdded, flaws>>
    /\ changeCardContentOrder(InsertAt(RemoveAt(order.here, x), to, order.here[x]))
DeleteContent(p) ==
    /\ Act /\ exist' = exist \ {p.id} /\ UNCHANGED <<order, drag, lastAdded, uploads, flaws>>
    /\ LET rows == order.here
           rest == IF p.y > 0 THEN ReplaceAt(rows, p.x, Columns(RemoveAt(rows[p.x].ids, p.y))) ELSE RemoveAt(rows, p.x)
       IN  changeCardContentOrder(IF p.x \in DOMAIN rest THEN ReplaceAt(rest, p.x, Flat(rest[p.x])) ELSE rest)

\* addBlock: at the end, above a row, or after a checkbox, automatically.
addBlock(x, auto) ==
    /\ lastAdded.id = "" /\ Act /\ UNCHANGED <<order, drag, uploads, flaws>>
    /\ exist' = exist \cup {NewContent} /\ lastAdded' = [id |-> NewContent, auto |-> auto]
    /\ changeCardContentOrder(InsertAt(order.here, x, Single(NewContent)))
\* deleteBlock: what was added automatically and is left empty goes, with its whole row.
deleteBlock(p) ==
    /\ lastAdded = [id |-> p.id, auto |-> TRUE] /\ p.id \in exist /\ Act /\ exist' = exist \ {p.id}
    /\ changeCardContentOrder(RemoveAt(order.here, p.x)) /\ UNCHANGED <<order, drag, lastAdded, uploads>>
    /\ flaws' = flaws \cup (IF p.y > 0 THEN {"whole row"} ELSE {})

-----------------------------------------------------------------------------
\* Another user moves a row up or deletes one; whoever's order comes last is the one kept.
They ==
    /\ Act /\ UNCHANGED <<drag, orders, lastAdded, uploads, flaws>>
    /\ \E x \in DOMAIN order.server :
        \/ x > 1 /\ order' = [order EXCEPT !.server = InsertAt(RemoveAt(@, x), x - 1, @[x])] /\ UNCHANGED exist
        \/ order' = [order EXCEPT !.server = RemoveAt(@, x)] /\ exist' = exist \ Range(order.server[x].ids)
ServeOrder(i) ==
    /\ orders' = RemoveAt(orders, i) /\ order' = [order EXCEPT !.server = orders[i].rows]
    /\ flaws' = flaws \cup (IF orders[i].base = order.server THEN {} ELSE {"changed meanwhile"})
    /\ UNCHANGED <<exist, drag, lastAdded, uploads, contentActs>>
Sync ==
    /\ order.here # order.server /\ order' = [order EXCEPT !.here = order.server]
    /\ UNCHANGED <<exist, drag, orders, lastAdded, uploads, flaws, contentActs>>

-----------------------------------------------------------------------------
\* Attachments: the placeholder goes when the server answers with the file or without one, and
\* stays when it answers with another status or not at all.
File(status, shown) == [status |-> status, shown |-> shown, inserted |-> 0]
Rests == UNCHANGED <<order, exist, drag, orders, lastAdded, flaws>>
Becomes(i, file) == uploads' = [uploads EXCEPT ![i] = file] /\ Rests
selectAttachment(tooLarge) ==
    Act /\ Rests /\ uploads' = Append(uploads, IF tooLarge THEN File("refused", FALSE) ELSE File("uploading", TRUE))
uploaded(i) ==
    uploads[i].status = "uploading" /\ Becomes(i, [uploads[i] EXCEPT !.status = "inserting", !.shown = FALSE]) /\ UNCHANGED contentActs
uploadRefused(i) ==
    uploads[i].status = "uploading" /\ Becomes(i, [uploads[i] EXCEPT !.status = "refused", !.shown = FALSE]) /\ UNCHANGED contentActs
uploadFailed(i) ==
    uploads[i].status = "uploading" /\ Becomes(i, [uploads[i] EXCEPT !.status = "failed"]) /\ UNCHANGED contentActs
ServeInsert(i) ==
    uploads[i].status = "inserting" /\ Becomes(i, [uploads[i] EXCEPT !.status = "attached", !.inserted = @ + 1]) /\ UNCHANGED contentActs
deleteAttachment(i) == uploads[i].status = "attached" /\ Act /\ Becomes(i, [uploads[i] EXCEPT !.status = "deleted"])
LoadBoard ==
    /\ \E i \in DOMAIN uploads : uploads[i].shown
    /\ Act /\ Rests /\ uploads' = [i \in DOMAIN uploads |-> [uploads[i] EXCEPT !.shown = FALSE]]

-----------------------------------------------------------------------------
ContentInit ==
    /\ order = [server |-> FirstOrder, here |-> FirstOrder] /\ exist = Range(IdsOf(FirstOrder))
    /\ drag = NoDrag /\ orders = <<>> /\ lastAdded = [id |-> "", auto |-> FALSE] /\ uploads = <<>> /\ flaws = {} /\ contentActs = 0

ContentNext ==
    \/ uploads = <<>> /\
        \/ StartDrag \/ Drop \/ They \/ Sync
        \/ \E x, to \in DOMAIN order.here : to \in {x - 1, x + 1} /\ MoveRow(x, to)
        \/ \E p \in Places(order.here) : DeleteContent(p) \/ deleteBlock(p)
        \/ \E x \in 1..(Len(order.here) + 1), auto \in BOOLEAN : addBlock(x, auto)
        \/ \E i \in DOMAIN orders : ServeOrder(i)
    \/ order.here = FirstOrder /\ order.server = FirstOrder /\ orders = <<>> /\ drag = NoDrag /\
        \/ LoadBoard \/ \E tooLarge \in BOOLEAN : selectAttachment(tooLarge)
        \/ \E i \in DOMAIN uploads :
            uploaded(i) \/ uploadRefused(i) \/ uploadFailed(i) \/ ServeInsert(i) \/ deleteAttachment(i)

-----------------------------------------------------------------------------
\* Each content block stands in the order exactly once when all orders have arrived, unless
\* one was made from an order that was out of date, or a row was deleted for one of its
\* blocks; and an attachment is inserted once, its placeholder gone by then.
ContentsKept ==
    /\ orders = <<>> /\ flaws = {} =>
        Range(IdsOf(order.server)) = exist /\ IsInjective(IdsOf(order.server))
    /\ \A i \in DOMAIN uploads :
        uploads[i].status \in {"inserting", "attached", "deleted"} =>
            ~uploads[i].shown /\ uploads[i].inserted = (IF uploads[i].status = "inserting" THEN 0 ELSE 1)
=============================================================================
