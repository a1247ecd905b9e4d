---------------------------- MODULE UndoHistory ----------------------------
(***************************************************************************)
(* What the undo manager promises: a history of changes, each of them of a *)
(* group, and a position in it that Undo and Redo move by one whole group. *)
(***************************************************************************)
EXTENDS Naturals, Sequences

CONSTANTS Group, NoGroup    \* NoGroup: a change that is a step of its own

VARIABLES groups, pos       \* the groups of the changes, and how many are done

history == <<groups, pos>>

\* Between n and n + 1 one step ends and the next begins.
Boundary(s, n) == n \in {0, Len(s)} \/ s[n] # s[n + 1] \/ s[n] = NoGroup

Init == groups = <<>> /\ pos = 0

\* A change is done: what was undone before it is forgotten.
Do ==
    \E g \in Group :
        /\ groups' = Append(SubSeq(groups, 1, pos), g)
        /\ pos' = pos + 1

Undo ==
    /\ \E n \in 0..(pos - 1) :
        /\ Boundary(groups, n)
        /\ \A k \in (n + 1)..(pos - 1) : ~Boundary(groups, k)
        /\ pos' = n
    /\ UNCHANGED groups

Redo ==
    /\ \E n \in (pos + 1)..Len(groups) :
        /\ Boundary(groups, n)
        /\ \A k \in (pos + 1)..(n - 1) : ~Boundary(groups, k)
        /\ pos' = n
    /\ UNCHANGED groups

Next == Do \/ Undo \/ Redo

Spec == Init /\ [][Next]_history
=============================================================================
