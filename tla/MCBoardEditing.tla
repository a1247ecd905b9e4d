--------------------------- MODULE MCBoardEditing ---------------------------
(* Four boards to begin with, one for each part of the work. *)
EXTENDS BoardEditing

Block(parent, fields) == [live |-> TRUE, parent |-> parent, fields |-> fields]
Card(values, order) ==
    [type |-> "card", title |-> "t", icon |-> "i", properties |-> values,
     contentOrder |-> order, isTemplate |-> FALSE]
Text == [type |-> "text", title |-> "t"]
TheView == [type |-> "view", title |-> "t", sortOptions |-> <<>>, visiblePropertyIds |-> <<"p">>,
            visibleOptionIds |-> <<"o1">>, hiddenOptionIds |-> <<"o2">>,
            cardOrder |-> <<"a", "b">>, collapsedOptionIds |-> <<>>,
            columnCalculations |-> NoFields, kanbanCalculations |-> NoFields,
            defaultTemplateId |-> "", groupById |-> "p", dateDisplayPropertyId |-> ""]
TheBoard == Block("", [type |-> "board", access |-> "P", title |-> "t", icon |-> "i", description |-> "t",
                       showDescription |-> FALSE])
Option(id) == [id |-> id, value |-> id, color |-> "red"]
Choice == [id |-> "p", name |-> "Status", type |-> "select", options |-> <<Option("o1"), Option("o2")>>]
Note == [id |-> "q", name |-> "Note", type |-> "text", options |-> <<>>]
Document(blocks, props) ==
    [blocks |-> ("board" :> TheBoard) @@ blocks, props |-> props,
     members |-> ("u" :> "editor") @@ ("w" :> "none"), follows |-> {}]

StartBoards ==
    [card |-> Document(("a" :> Block("board", Card(NoFields, <<"c1", "c2">>)))
                @@ ("c1" :> Block("a", Text)) @@ ("c2" :> Block("a", Text))
                @@ ("m" :> Block("a", [type |-> "comment", title |-> "c"])), <<>>),
     properties |-> Document(("a" :> Block("board", Card(("p" :> One("o1")) @@ ("q" :> One("x")), <<>>)))
                @@ ("v" :> Block("board", TheView)), <<Choice, Note>>),
     view |-> Document(("a" :> Block("board", Card("p" :> One("o1"), <<>>)))
                @@ ("b" :> Block("board", Card(NoFields, <<>>)))
                @@ ("v" :> Block("board", TheView)), <<Choice>>),
     haste |-> Document(("a" :> Block("board", Card("p" :> One("o1"), <<"c1">>)))
                @@ ("c1" :> Block("a", Text)), <<Choice, Note>>),
     board |-> Document("a" :> Block("board", Card(NoFields, <<>>)), <<Choice>>)]
FreshIds == [t \in DOMAIN StartBoards |->
           CASE t = "haste" -> <<"n1">>
             [] t = "view" -> <<"n1", "n2">>
             [] OTHER -> <<"n1", "n2", "n3", "n4", "n5">>]
=============================================================================
