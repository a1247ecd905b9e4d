---------------------------- MODULE UndoManager ----------------------------
(***************************************************************************)
(* The undo manager (undomanager.ts): the list of commands, the number of  *)
(* them that are done (index + 1 in the code), and the undo or redo that is *)
(* in progress.  A command that is undone or redone runs asynchronously;   *)
(* when it is done isExecuting is reset, and only the continuation of      *)
(* undo() or redo() moves the index and goes on with the group.  Between   *)
(* the two another continuation may register a change.  An event of the    *)
(* user cannot come there: it waits until the continuations have run.      *)
(***************************************************************************)
EXTENDS Naturals, Sequences

CONSTANTS Command,          \* records with at least a field "group"
          Group, NoGroup

ASSUME CommandAssumption ==
    /\ NoGroup \in Group
    /\ \A c \in Command : c.group \in Group

VARIABLES
    commands,   \* the commands, undone ones at the end
    index,      \* how many of them are done
    executing,  \* isExecuting
    job,        \* the undo or redo in progress, the index it started from, and
                \* currentGroupId
    slipped     \* history: the last change that was registered came between a
                \* command of an undo or redo and its continuation

undoVars == <<commands, index, executing, job, slipped>>

NoJob == [do |-> "none", from |-> 0, group |-> NoGroup]

UndoInit == /\ commands = <<>> /\ index = 0 /\ executing = FALSE
            /\ job = NoJob /\ slipped = FALSE

\* Mutant: the commands that were undone stay in the list.
RegisterKeeping(c) ==
    IF executing THEN UNCHANGED undoVars
    ELSE /\ commands' = Append(commands, c)
         /\ index' = index + 1
         /\ slipped' = (job.do # "none")
         /\ UNCHANGED <<executing, job>>

\* What is left of the commands when the undone ones are forgotten.
Spliced == IF index < Len(commands) THEN SubSeq(commands, 1, index) ELSE commands

\* registerUndo: nothing is recorded while a command executes.
Register(c) ==
    IF executing THEN UNCHANGED undoVars
    ELSE /\ commands' = Append(Spliced, c)
         /\ index' = Len(commands')
         /\ slipped' = (job.do # "none")
         /\ UNCHANGED <<executing, job>>

BeginUndo ==
    /\ job.do = "none" /\ index \in DOMAIN commands
    /\ executing' = TRUE
    /\ job' = [do |-> "undo", from |-> index, group |-> commands[index].group]
    /\ UNCHANGED <<commands, index, slipped>>

BeginRedo ==
    /\ job.do = "none" /\ index < Len(commands)
    /\ executing' = TRUE
    /\ job' = [do |-> "redo", from |-> index, group |-> commands[index + 1].group]
    /\ UNCHANGED <<commands, index, slipped>>

\* execute ends.  What the redo returned is kept as the value of the command,
\* here: c is the command with its new value.
UndoExecuted ==
    /\ job.do = "undo" /\ executing
    /\ executing' = FALSE
    /\ UNCHANGED <<commands, index, job, slipped>>

RedoExecuted(c) ==
    /\ job.do = "redo" /\ executing /\ c.group = commands[index + 1].group
    /\ commands' = [commands EXCEPT ![index + 1] = c]
    /\ executing' = FALSE
    /\ UNCHANGED <<index, job, slipped>>

\* m and n are of one group that is not empty.
SameGroup(m, n) == commands[m].group = commands[n].group /\ commands[m].group # NoGroup

\* The loop goes on with the next command of the group, or the undo or redo is over.
OfGroup(n) == job.group # NoGroup /\ commands[n].group = job.group
\* Mutant: off by one, undo looks at the group of the next command.
UndoLooksAhead == index > 1 /\ index < Len(commands) /\ OfGroup(index + 1)
UndoGoesOn == index > 1 /\ OfGroup(index - 1)
RedoGoesOn == index + 1 < Len(commands) /\ OfGroup(index + 2)
Loop(more) == IF more THEN executing' = TRUE /\ UNCHANGED job
              ELSE job' = NoJob /\ UNCHANGED executing

\* The continuations, on the list as it is by then.
EndUndo ==
    /\ job.do = "undo" /\ ~executing
    /\ index' = index - 1
    /\ Loop(UndoGoesOn)
    /\ UNCHANGED <<commands, slipped>>

EndRedo ==
    /\ job.do = "redo" /\ ~executing
    /\ index' = index + 1
    /\ Loop(RedoGoesOn)
    /\ UNCHANGED <<commands, slipped>>

\* A request of the command failed: the exception leaves execute before it
\* resets isExecuting.
Reject ==
    /\ job.do # "none" /\ executing
    /\ job' = [job EXCEPT !.do = "failed"]
    /\ UNCHANGED <<commands, index, executing, slipped>>

UndoNext ==
    \/ \E c \in Command : Register(c) \/ RedoExecuted(c)
    \/ BeginUndo \/ BeginRedo \/ UndoExecuted \/ EndUndo \/ EndRedo \/ Reject

UndoSpec == UndoInit /\ [][UndoNext]_undoVars

-----------------------------------------------------------------------------
\* What a slipped change spoils: the continuation counts on the index it left.  An
\* undo then steps below the new change and counts the command that it undid as
\* done; a redo, whose commands were cut off the list, steps beyond its end.  The
\* next change that is registered in its place puts the index right again.

\* The index stays within the commands; after a slip it may be one too high, so
\* that undo() and redo() find no command (lines 133 and 162) but never a wrong one.
IndexInRange == index \in 0..Len(commands) \/ (slipped /\ job.do = "none" /\ index = Len(commands) + 1)

\* No undo or redo that is over leaves the index between two commands of one group:
\* undo() and redo() loop over the group (lines 129-185), whatever is registered
\* meanwhile, unless it slipped between a command and its continuation.
NoHalfGroup ==
    job.do = "none" /\ ~slipped => index \in {0, Len(commands)} \/ ~SameGroup(index, index + 1)

\* The code implements a history with a position: while an undo or redo is in
\* progress, the position is still the one it started from.  A slipped change breaks
\* it, until the next change.
History == INSTANCE UndoHistory WITH
    groups <- [i \in DOMAIN commands |-> commands[i].group],
    pos <- IF job.do = "none" THEN index ELSE job.from
UndoesWholeGroups ==
    History!Init /\ [][slipped \/ slipped' \/ History!Next]_(History!history)
=============================================================================
