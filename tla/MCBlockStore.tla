---------------------------- MODULE MCBlockStore ----------------------------
(* BlockStore over one board with two cards and a content block that can be  *)
(* moved between them: deletes and undeletes meet at every level of the tree.*)
EXTENDS BlockStore

CONSTANTS bd, card1, card2, text

MCBoard == {bd}
MCBlock == {card1, card2, text}
MCBoardOf == [b \in MCBlock |-> bd]
MCParents == [b \in MCBlock |-> IF b = text THEN {card1, card2} ELSE {bd}]
============================================================================
