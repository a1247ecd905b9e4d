----------------------------- MODULE MCWsServer -----------------------------
(* WsServer with one team, and a card on its board, with a text in the card.  *)
EXTENDS WsServer, TLC

CONSTANTS card, text

MCParent == [b \in Block |-> card]

\* A bound: with the text there are only readers of a shared board, without it there
\* are users too.
Readers == \A s \in Session : user[s] = NoUser
WithoutText ==
    /\ \A s \in Session : text \notin blocks[s] \cup job[s].todo
    /\ cast # NoCast => cast.of # text
Few == Readers \/ WithoutText

Symmetry == Permutations(Session) \cup Permutations(User)
============================================================================
