------------------------------ MODULE Selection ------------------------------
(***************************************************************************)
(* What Array.filter does to a list, written as a recursive function so    *)
(* that it can be reasoned about.                                          *)
(***************************************************************************)
EXTENDS Naturals, Sequences

\* The entries of s that belong to T, in their order.
Selected(s, T) ==
    LET kept[n \in 0 .. Len(s)] ==
            IF n = 0 THEN <<>>
            ELSE IF s[n] \in T THEN Append(kept[n - 1], s[n]) ELSE kept[n - 1]
    IN  kept[Len(s)]
=============================================================================
