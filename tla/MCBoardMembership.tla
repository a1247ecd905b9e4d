-------------------------- MODULE MCBoardMembership --------------------------
(***************************************************************************)
(* Model values for BoardMembership: the users other than the creator are  *)
(* alike, and so are the request handlers.                                 *)
(***************************************************************************)
EXTENDS BoardMembership, TLC

Symmetry == Permutations(User \ {Creator}) \cup Permutations(Process)
============================================================================
