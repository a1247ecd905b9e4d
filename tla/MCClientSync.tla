----------------------------- MODULE MCClientSync -----------------------------
(* Two boards in two teams.  Board "a" has a card with a content block and an  *)
(* attachment, board "b" has no block.                                         *)
EXTENDS ClientSync

MCBlock == {"card", "text", "file"}
MCKind == [b \in MCBlock |-> CASE b = "card" -> "card"
                               [] b = "text" -> "content"
                               [] b = "file" -> "attachment"]
MCParent == [b \in MCBlock |-> IF b = "card" THEN "a" ELSE "card"]
MCBoardOf == [b \in MCBlock |-> "a"]
MCTeamOf == [b \in {"a", "b"} |-> IF b = "a" THEN "t" ELSE "u"]
=============================================================================
