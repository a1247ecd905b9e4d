------------------------- MODULE UndoManagerProofs -------------------------
(***************************************************************************)
(* What the undo manager guarantees for every set of commands and groups   *)
(* and every history: how far its index may be off, and that without a     *)
(* slipped change it leaves no group half done and implements UndoHistory. *)
(***************************************************************************)
EXTENDS UndoManager, TLAPS

Jobs == [do : {"none", "undo", "redo", "failed"}, from : Nat, group : Group]

\* The state is of its types.  A command executes only for a job, and a failed one
\* for ever; the command of a job that goes on is in the list, whatever slipped.
TypeInv ==
    /\ commands \in Seq(Command)
    /\ index \in Nat
    /\ executing \in BOOLEAN /\ slipped \in BOOLEAN
    /\ job \in Jobs
    /\ executing => job.do # "none"
    /\ job.do = "failed" => executing
    /\ job.do = "undo" => index \in 1..Len(commands)
    /\ job.do = "redo" => index <= Len(commands) /\ (executing => index < Len(commands))
    /\ index <= Len(commands) \/ (slipped /\ job.do = "none" /\ index = Len(commands) + 1)

\* An undo in progress has come from job.from down to index, a redo up, through
\* commands of its group.
WithinGroup ==
    /\ job.do # "none" => job.from <= Len(commands)
    /\ job.do = "undo" =>
           /\ index <= job.from /\ commands[index].group = job.group
           /\ \A k \in index..(job.from - 1) : SameGroup(k, k + 1)
    /\ job.do = "redo" =>
           /\ job.from <= index /\ index < Len(commands) /\ commands[index + 1].group = job.group
           /\ \A k \in (job.from + 1)..index : SameGroup(k, k + 1)

InPlace == NoHalfGroup /\ WithinGroup

IInv == TypeInv /\ (~slipped => InPlace)

LEMMA NoJobType == NoJob.do = "none" /\ NoJob.from = 0 /\ NoJob \in Jobs
BY CommandAssumption DEF NoJob, Jobs

LEMMA InitInv == UndoInit => IInv
<1> SUFFICES ASSUME UndoInit PROVE IInv
  OBVIOUS
<1>1. commands = <<>> /\ index = 0 /\ executing = FALSE /\ job = NoJob /\ slipped = FALSE
  BY DEF UndoInit
<1>2. commands \in Seq(Command) /\ Len(commands) = 0 /\ index \in Nat /\ index <= Len(commands)
  BY <1>1
<1>3. executing \in BOOLEAN /\ slipped \in BOOLEAN /\ ~executing
  BY <1>1, Zenon
<1>4. TypeInv
  BY <1>1, <1>2, <1>3, NoJobType DEF TypeInv
<1>5. InPlace
  BY <1>1, NoJobType DEF InPlace, NoHalfGroup, WithinGroup
<1>6. QED
  BY <1>4, <1>5 DEF IInv

\* What registering does to the list: it ends with the new command.
LEMMA Registered ==
    ASSUME IInv, NEW c \in Command, Register(c), ~executing
    PROVE  /\ commands' = Append(Spliced, c) /\ index' = Len(commands') /\ Len(commands') >= 1
           /\ commands' \in Seq(Command) /\ slipped' = (job.do # "none")
           /\ executing' = executing /\ job' = job
           /\ index <= Len(commands) =>
                  Spliced = SubSeq(commands, 1, index) /\ Len(commands') = index + 1
<1>1. /\ commands' = Append(Spliced, c) /\ index' = Len(commands')
      /\ slipped' = (job.do # "none") /\ executing' = executing /\ job' = job
  BY DEF Register
<1>2. commands \in Seq(Command) /\ index \in Nat /\ Len(commands) \in Nat
  BY DEF IInv, TypeInv
<1>3. Spliced \in Seq(Command)
  <2>1. CASE index < Len(commands)
    BY <1>2, <2>1 DEF Spliced
  <2>2. CASE ~(index < Len(commands))
    BY <1>2, <2>2 DEF Spliced
  <2>3. QED
    BY <2>1, <2>2
<1>4. commands' \in Seq(Command) /\ Len(commands') >= 1
  BY <1>1, <1>3
<1>5. ASSUME index <= Len(commands)
      PROVE  Spliced = SubSeq(commands, 1, index) /\ Len(Spliced) = index
  <2>1. CASE index < Len(commands)
    BY <1>2, <2>1 DEF Spliced
  <2>2. CASE index = Len(commands)
    <3>1. SubSeq(commands, 1, Len(commands)) = commands
      BY <1>2
    <3>2. QED
      BY <1>2, <2>2, <3>1 DEF Spliced
  <2>3. QED
    BY <1>2, <1>5, <2>1, <2>2
<1>6. Len(commands') = Len(Spliced) + 1
  BY <1>1, <1>3
<1>7. QED
  BY <1>1, <1>4, <1>5, <1>6

\* Registering forgets what was undone, so the index is at the end again.
LEMMA RegisterInv == ASSUME IInv, NEW c \in Command, Register(c) PROVE IInv'
<1>1. CASE executing
  BY <1>1 DEF Register, undoVars, IInv, TypeInv, InPlace, NoHalfGroup, WithinGroup, SameGroup
<1>2. CASE ~executing
  <2>1. /\ index' = Len(commands') /\ Len(commands') >= 1 /\ commands' \in Seq(Command)
        /\ slipped' = (job.do # "none") /\ executing' = executing /\ job' = job
    BY <1>2, Registered
  <2>2. TypeInv'
    <3>1. index' \in Nat /\ Len(commands') \in Nat /\ index' \in 1..Len(commands')
      BY <2>1
    <3>2. slipped' \in BOOLEAN
      BY <2>1, Zenon
    <3>3. QED
      BY <1>2, <2>1, <3>1, <3>2 DEF IInv, TypeInv
  <2>3. ~slipped' => InPlace'
    BY <1>2, <2>1 DEF InPlace, NoHalfGroup, WithinGroup
  <2>4. QED
    BY <2>2, <2>3 DEF IInv
<1>3. QED
  BY <1>1, <1>2

LEMMA BeginInv == ASSUME IInv, BeginUndo \/ BeginRedo PROVE IInv'
<1>1. CASE BeginUndo
  <2>1. /\ job' = [do |-> "undo", from |-> index, group |-> commands[index].group]
        /\ executing' = TRUE /\ UNCHANGED <<commands, index, slipped>>
        /\ index \in 1..Len(commands) /\ commands[index] \in Command
    BY <1>1 DEF BeginUndo, IInv, TypeInv
  <2>2. job' \in Jobs
    BY <2>1, CommandAssumption DEF Jobs
  <2>3. TypeInv'
    BY <2>1, <2>2 DEF IInv, TypeInv
  <2>4. InPlace'
    BY <2>1 DEF IInv, TypeInv, InPlace, NoHalfGroup, WithinGroup
  <2>5. QED
    BY <2>3, <2>4 DEF IInv
<1>2. CASE BeginRedo
  <2>1. /\ job' = [do |-> "redo", from |-> index, group |-> commands[index + 1].group]
        /\ executing' = TRUE /\ UNCHANGED <<commands, index, slipped>>
        /\ index \in Nat /\ index < Len(commands) /\ commands[index + 1] \in Command
    BY <1>2 DEF BeginRedo, IInv, TypeInv
  <2>2. job' \in Jobs
    BY <2>1, CommandAssumption DEF Jobs
  <2>3. TypeInv'
    BY <2>1, <2>2 DEF IInv, TypeInv
  <2>4. InPlace'
    BY <2>1 DEF IInv, TypeInv, InPlace, NoHalfGroup, WithinGroup
  <2>5. QED
    BY <2>3, <2>4 DEF IInv
<1>3. QED
  BY <1>1, <1>2

LEMMA UndoExecutedInv == ASSUME IInv, UndoExecuted PROVE IInv'
<1>1. job.do = "undo" /\ executing' = FALSE /\ UNCHANGED <<commands, index, job, slipped>>
  BY DEF UndoExecuted
<1>2. TypeInv'
  BY <1>1 DEF IInv, TypeInv
<1>3. ~slipped' => InPlace'
  BY <1>1 DEF IInv, InPlace, NoHalfGroup, WithinGroup, SameGroup
<1>4. QED
  BY <1>2, <1>3 DEF IInv

LEMMA EndUndoInv == ASSUME IInv, EndUndo PROVE IInv'
<1>1. /\ job.do = "undo" /\ index' = index - 1 /\ commands' = commands /\ slipped' = slipped
      /\ index \in 1..Len(commands) /\ ~executing /\ Len(commands) \in Nat /\ index \in Nat
  BY DEF EndUndo, IInv, TypeInv
<1>2. CASE UndoGoesOn
  <2>1. executing' = TRUE /\ job' = job
    BY <1>2 DEF EndUndo, Loop
  <2>2. index > 1 /\ job.group # NoGroup /\ commands[index - 1].group = job.group
    BY <1>2 DEF UndoGoesOn, OfGroup
  <2>3. TypeInv'
    BY <1>1, <2>1, <2>2 DEF IInv, TypeInv
  <2>4. ASSUME ~slipped PROVE InPlace'
    <3>1. /\ job.from \in Nat /\ index <= job.from /\ job.from <= Len(commands)
          /\ commands[index].group = job.group
          /\ \A k \in index..(job.from - 1) : SameGroup(k, k + 1)
      BY <1>1, <2>4 DEF IInv, TypeInv, InPlace, WithinGroup, Jobs
    <3>2. SameGroup(index - 1, (index - 1) + 1)
      BY <1>1, <2>2, <3>1 DEF SameGroup
    <3>3. \A k \in (index - 1)..(job.from - 1) : SameGroup(k, k + 1)
      BY <1>1, <3>1, <3>2
    <3>4. \A k \in index'..(job'.from - 1) : SameGroup(k, k + 1)'
      BY <1>1, <2>1, <3>3 DEF SameGroup
    <3>5. index' <= job'.from /\ commands'[index'].group = job'.group
      BY <1>1, <2>1, <2>2, <3>1
    <3>6. QED
      BY <1>1, <2>1, <3>1, <3>4, <3>5 DEF InPlace, NoHalfGroup, WithinGroup
  <2>5. QED
    BY <1>1, <2>3, <2>4 DEF IInv
<1>3. CASE ~UndoGoesOn
  <2>1. executing' = executing /\ job' = NoJob
    BY <1>3 DEF EndUndo, Loop
  <2>2. TypeInv'
    BY <1>1, <2>1, NoJobType DEF IInv, TypeInv
  <2>3. ASSUME ~slipped PROVE InPlace'
    <3>1. commands[index].group = job.group
      BY <1>1, <2>3 DEF IInv, InPlace, WithinGroup
    <3>2. index' = 0 \/ ~SameGroup(index', index' + 1)
      BY <1>1, <1>3, <3>1 DEF UndoGoesOn, OfGroup, SameGroup
    <3>3. index' = 0 \/ ~SameGroup(index, index + 1)'
      BY <1>1, <3>2 DEF SameGroup
    <3>4. QED
      BY <2>1, <3>3, NoJobType DEF InPlace, NoHalfGroup, WithinGroup
  <2>4. QED
    BY <1>1, <2>2, <2>3 DEF IInv
<1>4. QED
  BY <1>2, <1>3

\* The command that is put back has the group of the one that was redone.
LEMMA SameGroups ==
    ASSUME IInv, NEW c \in Command, RedoExecuted(c)
    PROVE  /\ commands' \in Seq(Command) /\ Len(commands') = Len(commands)
           /\ \A k \in 1..Len(commands) : commands'[k].group = commands[k].group
<1>1. /\ c.group = commands[index + 1].group
      /\ commands' = [commands EXCEPT ![index + 1] = c]
      /\ commands \in Seq(Command) /\ index \in Nat /\ index + 1 \in 1..Len(commands)
  BY DEF RedoExecuted, IInv, TypeInv
<1>2. commands' \in Seq(Command) /\ Len(commands') = Len(commands)
  BY <1>1
<1>3. \A k \in 1..Len(commands) : commands'[k].group = commands[k].group
  BY <1>1
<1>4. QED
  BY <1>2, <1>3

LEMMA RedoExecutedInv == ASSUME IInv, NEW c \in Command, RedoExecuted(c) PROVE IInv'
<1>1. /\ job.do = "redo" /\ executing' = FALSE /\ UNCHANGED <<index, job, slipped>>
      /\ index \in Nat /\ index < Len(commands) /\ Len(commands) \in Nat
  BY DEF RedoExecuted, IInv, TypeInv
<1>2. /\ commands' \in Seq(Command) /\ Len(commands') = Len(commands)
      /\ \A k \in 1..Len(commands) : commands'[k].group = commands[k].group
  BY SameGroups
<1>3. TypeInv'
  BY <1>1, <1>2 DEF IInv, TypeInv
<1>4. ASSUME ~slipped PROVE InPlace'
  <2>1. /\ job.from \in Nat /\ job.from <= index /\ commands[index + 1].group = job.group
        /\ \A k \in (job.from + 1)..index : SameGroup(k, k + 1)
    BY <1>1, <1>4 DEF IInv, TypeInv, InPlace, WithinGroup, Jobs
  <2>2. \A k \in (job.from + 1)..index : SameGroup(k, k + 1)'
    <3>1. TAKE k \in (job.from + 1)..index
    <3>2. k \in 1..Len(commands) /\ k + 1 \in 1..Len(commands)
      BY <1>1, <2>1
    <3>3. QED
      BY <1>2, <2>1, <3>2 DEF SameGroup
  <2>3. commands'[index + 1].group = job.group
    BY <1>1, <1>2, <2>1
  <2>4. QED
    BY <1>1, <1>2, <2>1, <2>2, <2>3 DEF InPlace, NoHalfGroup, WithinGroup
<1>5. QED
  BY <1>1, <1>3, <1>4 DEF IInv

LEMMA EndRedoInv == ASSUME IInv, EndRedo PROVE IInv'
<1>1. /\ job.do = "redo" /\ index' = index + 1 /\ commands' = commands /\ slipped' = slipped
      /\ ~executing /\ index \in Nat /\ index <= Len(commands) /\ Len(commands) \in Nat
  BY DEF EndRedo, IInv, TypeInv
<1>2. ASSUME ~slipped
      PROVE  /\ job.from \in Nat /\ job.from <= index /\ index < Len(commands)
             /\ commands[index + 1].group = job.group
             /\ \A k \in (job.from + 1)..index : SameGroup(k, k + 1)
  BY <1>1, <1>2 DEF IInv, TypeInv, InPlace, WithinGroup, Jobs
<1>3. CASE RedoGoesOn
  <2>1. executing' = TRUE /\ job' = job
    BY <1>3 DEF EndRedo, Loop
  <2>2. index + 1 < Len(commands) /\ job.group # NoGroup /\ commands[index + 2].group = job.group
    BY <1>3 DEF RedoGoesOn, OfGroup
  <2>3. TypeInv'
    BY <1>1, <2>1, <2>2 DEF IInv, TypeInv
  <2>4. ASSUME ~slipped PROVE InPlace'
    <3>1. SameGroup(index + 1, (index + 1) + 1)
      <4>1. (index + 1) + 1 = index + 2
        BY <1>1
      <4>2. QED
        BY <2>2, <2>4, <1>2, <4>1 DEF SameGroup
    <3>2. \A k \in (job.from + 1)..(index + 1) : SameGroup(k, k + 1)
      BY <1>1, <1>2, <2>4, <3>1
    <3>3. \A k \in (job'.from + 1)..index' : SameGroup(k, k + 1)'
      BY <1>1, <2>1, <3>2 DEF SameGroup
    <3>4. job'.from <= index' /\ index' < Len(commands') /\ commands'[index' + 1].group = job'.group
      <4>1. index' + 1 = index + 2
        BY <1>1
      <4>2. QED
        BY <1>1, <1>2, <2>1, <2>2, <2>4, <4>1
    <3>5. job'.from <= Len(commands')
      BY <1>1, <1>2, <2>1, <2>4
    <3>6. QED
      BY <1>1, <2>1, <3>3, <3>4, <3>5 DEF InPlace, NoHalfGroup, WithinGroup
  <2>5. QED
    BY <1>1, <2>3, <2>4 DEF IInv
<1>4. CASE ~RedoGoesOn
  <2>1. executing' = executing /\ job' = NoJob
    BY <1>4 DEF EndRedo, Loop
  <2>2. index' <= Len(commands') \/ (slipped' /\ job'.do = "none" /\ index' = Len(commands') + 1)
    BY <1>1, <1>2, <2>1, NoJobType DEF IInv, TypeInv
  <2>3. TypeInv'
    BY <1>1, <2>1, <2>2, NoJobType DEF IInv, TypeInv
  <2>4. ASSUME ~slipped PROVE InPlace'
    <3>1. index' = Len(commands') \/ ~SameGroup(index, index + 1)'
      <4>1. CASE index + 1 < Len(commands)
        <5>1. job.group = NoGroup \/ commands[index + 2].group # job.group
          BY <1>4, <4>1 DEF RedoGoesOn, OfGroup
        <5>2. index' + 1 = index + 2
          BY <1>1
        <5>3. QED
          BY <1>1, <1>2, <2>4, <5>1, <5>2 DEF SameGroup
      <4>2. CASE ~(index + 1 < Len(commands))
        BY <1>1, <1>2, <2>4, <4>2
      <4>3. QED
        BY <4>1, <4>2
    <3>2. QED
      BY <2>1, <3>1, NoJobType DEF InPlace, NoHalfGroup, WithinGroup
  <2>5. QED
    BY <1>1, <2>3, <2>4 DEF IInv
<1>5. QED
  BY <1>3, <1>4

LEMMA RejectInv == ASSUME IInv, Reject PROVE IInv'
<1>1. /\ job' = [job EXCEPT !.do = "failed"] /\ executing
      /\ UNCHANGED <<commands, index, executing, slipped>>
  BY DEF Reject
<1>2. job'.do = "failed" /\ job'.from = job.from /\ job' \in Jobs
  BY <1>1 DEF IInv, TypeInv, Jobs
<1>3. TypeInv'
  BY <1>1, <1>2 DEF IInv, TypeInv
<1>4. ~slipped' => InPlace'
  BY <1>1, <1>2 DEF IInv, TypeInv, InPlace, NoHalfGroup, WithinGroup
<1>5. QED
  BY <1>3, <1>4 DEF IInv

LEMMA StepInv == IInv /\ [UndoNext]_undoVars => IInv'
<1> SUFFICES ASSUME IInv, [UndoNext]_undoVars PROVE IInv'
  OBVIOUS
<1>1. CASE UNCHANGED undoVars
  BY <1>1 DEF undoVars, IInv, TypeInv, InPlace, NoHalfGroup, WithinGroup, SameGroup
<1>2. ASSUME NEW c \in Command, Register(c) PROVE IInv'
  BY <1>2, RegisterInv
<1>3. ASSUME NEW c \in Command, RedoExecuted(c) PROVE IInv'
  BY <1>3, RedoExecutedInv
<1>4. CASE BeginUndo \/ BeginRedo
  BY <1>4, BeginInv
<1>5. CASE UndoExecuted
  BY <1>5, UndoExecutedInv
<1>6. CASE EndUndo
  BY <1>6, EndUndoInv
<1>7. CASE EndRedo
  BY <1>7, EndRedoInv
<1>8. CASE Reject
  BY <1>8, RejectInv
<1>9. QED
  BY <1>1, <1>2, <1>3, <1>4, <1>5, <1>6, <1>7, <1>8 DEF UndoNext

LEMMA Inductive == UndoSpec => []IInv
  BY InitInv, StepInv, PTL DEF UndoSpec

\* Whatever is registered while an undo or redo is in progress, even between a command
\* and its continuation, and whatever fails: the index stays within the commands, or
\* is one too high where undo() and redo() find no command.
THEOREM UndoTypes == UndoSpec => []IndexInRange
<1>1. IInv => IndexInRange
  BY DEF IInv, TypeInv, IndexInRange
<1>2. QED
  BY <1>1, Inductive, PTL

\* undo() and redo() loop over a group: when they end it is not half done, whatever
\* was registered meanwhile, unless it slipped between a command and its continuation.
THEOREM UndoLeavesNoHalfGroup == UndoSpec => []NoHalfGroup
<1>1. IInv => NoHalfGroup
  BY DEF IInv, InPlace, NoHalfGroup
<1>2. QED
  BY <1>1, Inductive, PTL

-----------------------------------------------------------------------------
\* The refinement.  Registering is Do; the end of an undo or redo is Undo or Redo;
\* everything else leaves the history as it was.
Groups == [i \in DOMAIN commands |-> commands[i].group]
Position == IF job.do = "none" THEN index ELSE job.from

LEMMA GroupsType ==
    ASSUME IInv
    PROVE  /\ Groups \in Seq(Group) /\ Len(Groups) = Len(commands)
           /\ \A i \in 1..Len(commands) : Groups[i] = commands[i].group
<1>1. commands \in Seq(Command)
  BY DEF IInv, TypeInv
<1>2. Len(commands) \in Nat /\ DOMAIN commands = 1..Len(commands)
  BY <1>1
<1>3. \A i \in 1..Len(commands) : commands[i] \in Command
  BY <1>1
<1>4. Groups = [i \in 1..Len(commands) |-> commands[i].group]
  BY <1>2 DEF Groups
<1>5. QED
  BY <1>2, <1>3, <1>4, CommandAssumption

\* Where a group ends and where it does not.
LEMMA Boundaries ==
    ASSUME IInv, NEW k \in 1..(Len(commands) - 1)
    PROVE  History!Boundary(Groups, k) <=> ~SameGroup(k, k + 1)
<1>1. Len(Groups) = Len(commands) /\ Len(commands) \in Nat
  BY GroupsType DEF IInv, TypeInv
<1>2. Groups[k] = commands[k].group /\ Groups[k + 1] = commands[k + 1].group
  BY <1>1, GroupsType
<1>3. QED
  BY <1>1, <1>2 DEF History!Boundary, SameGroup

LEMMA RegisterDoes ==
    ASSUME IInv, ~slipped, NEW c \in Command, Register(c), job.do = "none"
    PROVE  Groups' = Append(SubSeq(Groups, 1, Position), c.group) /\ Position' = Position + 1
<1>0. ~executing /\ index <= Len(commands)
  BY DEF IInv, TypeInv
<1>1. /\ commands' = Append(SubSeq(commands, 1, index), c)
      /\ index' = index + 1 /\ job' = job
      /\ commands \in Seq(Command) /\ index \in 0..Len(commands) /\ Len(commands) \in Nat
  <2>1. /\ commands' = Append(Spliced, c) /\ index' = Len(commands') /\ job' = job
        /\ index <= Len(commands) =>
               Spliced = SubSeq(commands, 1, index) /\ Len(commands') = index + 1
    BY <1>0, Registered
  <2>2. commands \in Seq(Command) /\ index \in 0..Len(commands) /\ Len(commands) \in Nat
    BY <1>0 DEF IInv, TypeInv
  <2>3. QED
    BY <1>0, <2>1, <2>2
<1>2. commands' \in Seq(Command) /\ Len(commands') = index + 1
  BY <1>1
<1>3. Position = index /\ Position' = index + 1
  BY <1>1 DEF Position
<1>4. Groups \in Seq(Group) /\ Len(Groups) = Len(commands)
  BY GroupsType
<1>5. Groups' = [i \in 1..(index + 1) |-> commands'[i].group]
  BY <1>2 DEF Groups
<1>6. \A i \in 1..index : commands'[i] = commands[i] /\ Groups[i] = commands[i].group
  BY <1>1, GroupsType
<1>7. commands'[index + 1] = c
  BY <1>1
<1>8. c.group \in Group
  BY CommandAssumption
<1>9. DEFINE s == Append(SubSeq(Groups, 1, index), c.group)
<1>10. s \in Seq(Group) /\ Len(s) = index + 1
  BY <1>1, <1>4, <1>8
<1>11. \A i \in 1..index : s[i] = Groups[i]
  BY <1>1, <1>4, <1>8
<1>12. s[index + 1] = c.group
  BY <1>1, <1>4, <1>8
<1>13. s = [i \in 1..(index + 1) |-> s[i]]
  BY <1>10
<1>14. \A i \in 1..(index + 1) : s[i] = commands'[i].group
  <2>1. TAKE i \in 1..(index + 1)
  <2>2. CASE i \in 1..index
    BY <2>2, <1>6, <1>11
  <2>3. CASE i = index + 1
    BY <2>3, <1>7, <1>12
  <2>4. QED
    BY <1>1, <2>2, <2>3
<1>15. Groups' = s
  BY <1>5, <1>13, <1>14
<1>16. QED
  BY <1>3, <1>15

LEMMA EndUndoUndoes ==
    ASSUME IInv, ~slipped, EndUndo
    PROVE  [History!Next]_(History!history)
<1>1. /\ job.do = "undo" /\ index' = index - 1 /\ commands' = commands
      /\ index \in 1..job.from /\ job.from \in 1..Len(commands) /\ Len(commands) \in Nat
      /\ commands[index].group = job.group
      /\ \A k \in index..(job.from - 1) : SameGroup(k, k + 1)
  BY DEF EndUndo, IInv, TypeInv, InPlace, WithinGroup, Jobs
<1>2. Groups' = Groups /\ Position = job.from
  BY <1>1 DEF Groups, Position
<1>3. CASE UndoGoesOn
  <2>1. Position' = Position
    BY <1>1, <1>2, <1>3 DEF EndUndo, Loop, Position
  <2>2. QED
    BY <1>2, <2>1 DEF History!history, Groups, Position
<1>4. CASE ~UndoGoesOn
  <2>1. Position' = index - 1
    BY <1>1, <1>4, NoJobType DEF EndUndo, Loop, Position
  <2>2. index - 1 \in 0..(Position - 1)
    BY <1>1, <1>2
  <2>3. History!Boundary(Groups, index - 1)
    <3>1. CASE index = 1
      BY <3>1 DEF History!Boundary
    <3>2. CASE index > 1
      <4>1. ~SameGroup(index - 1, (index - 1) + 1) /\ index - 1 \in 1..(Len(commands) - 1)
        BY <1>1, <1>4, <3>2 DEF UndoGoesOn, OfGroup, SameGroup
      <4>2. QED
        BY <4>1, Boundaries
    <3>3. QED
      BY <1>1, <3>1, <3>2
  <2>4. \A k \in (index - 1 + 1)..(Position - 1) : ~History!Boundary(Groups, k)
    <3>1. TAKE k \in (index - 1 + 1)..(Position - 1)
    <3>2. k \in 1..(Len(commands) - 1) /\ SameGroup(k, k + 1)
      BY <1>1, <1>2
    <3>3. QED
      BY <3>2, Boundaries
  <2>5. \E n \in 0..(Position - 1) :
            /\ History!Boundary(Groups, n)
            /\ \A k \in (n + 1)..(Position - 1) : ~History!Boundary(Groups, k)
            /\ Position' = n
    BY <2>1, <2>2, <2>3, <2>4
  <2>6. History!Undo
    BY <1>2, <2>5 DEF History!Undo, Groups, Position
  <2>7. QED
    BY <2>6 DEF History!Next
<1>5. QED
  BY <1>3, <1>4

LEMMA EndRedoRedoes ==
    ASSUME IInv, ~slipped, EndRedo
    PROVE  [History!Next]_(History!history)
<1>1. /\ job.do = "redo" /\ index' = index + 1 /\ commands' = commands
      /\ index \in job.from..(Len(commands) - 1)
      /\ commands[index + 1].group = job.group
      /\ \A k \in (job.from + 1)..index : SameGroup(k, k + 1)
      /\ index \in Nat /\ job.from \in Nat /\ Len(commands) \in Nat
  BY DEF EndRedo, IInv, TypeInv, InPlace, WithinGroup, Jobs
<1>2. Groups' = Groups
  BY <1>1 DEF Groups
<1>3. Position = job.from
  BY <1>1 DEF Position
<1>4. CASE RedoGoesOn
  <2>1. Position' = Position
    BY <1>1, <1>3, <1>4 DEF EndRedo, Loop, Position
  <2>2. QED
    BY <1>2, <2>1 DEF History!history, Groups, Position
<1>5. CASE ~RedoGoesOn
  <2>1. Position' = index + 1
    BY <1>1, <1>5, NoJobType DEF EndRedo, Loop, Position
  <2>2. index + 1 \in (Position + 1)..Len(Groups)
    BY <1>1, <1>3, GroupsType
  <2>3. History!Boundary(Groups, index + 1)
    <3>1. CASE index + 1 = Len(commands)
      BY <3>1, GroupsType DEF History!Boundary
    <3>2. CASE index + 1 < Len(commands)
      <4>1. ~SameGroup(index + 1, (index + 1) + 1) /\ index + 1 \in 1..(Len(commands) - 1)
        <5>1. (index + 1) + 1 = index + 2
          BY <1>1
        <5>2. ~SameGroup(index + 1, index + 2)
          BY <1>1, <1>5, <3>2 DEF RedoGoesOn, OfGroup, SameGroup
        <5>3. QED
          BY <1>1, <3>2, <5>1, <5>2
      <4>2. QED
        BY <4>1, Boundaries
    <3>3. QED
      BY <1>1, <3>1, <3>2
  <2>4. \A k \in (Position + 1)..((index + 1) - 1) : ~History!Boundary(Groups, k)
    <3>1. TAKE k \in (Position + 1)..((index + 1) - 1)
    <3>2. k \in 1..(Len(commands) - 1) /\ SameGroup(k, k + 1)
      BY <1>1, <1>3
    <3>3. QED
      BY <3>2, Boundaries
  <2>5. \E n \in (Position + 1)..Len(Groups) :
            /\ History!Boundary(Groups, n)
            /\ \A k \in (Position + 1)..(n - 1) : ~History!Boundary(Groups, k)
            /\ Position' = n
    <3> DEFINE n == index + 1
    <3>2. /\ n \in (Position + 1)..Len(Groups) /\ Position' = n
          /\ History!Boundary(Groups, n)
      BY <2>1, <2>2, <2>3 DEF n
    <3>3. \A k \in (Position + 1)..(n - 1) : ~History!Boundary(Groups, k)
      BY <2>4 DEF n
    <3>4. QED
      <4> HIDE DEF n
      <4> QED
        BY <3>2, <3>3
  <2>6. History!Redo
    BY <1>2, <2>5 DEF History!Redo, Groups, Position
  <2>7. QED
    BY <2>6 DEF History!Next
<1>6. QED
  BY <1>4, <1>5

\* The value that a redo returned changes no group.
LEMMA RedoExecutedStutters ==
    ASSUME IInv, NEW c \in Command, RedoExecuted(c)
    PROVE  Groups' = Groups /\ Position' = Position
<1>1. commands' \in Seq(Command) /\ Len(commands') = Len(commands)
  BY SameGroups
<1>2. DOMAIN commands' = DOMAIN commands /\ DOMAIN commands = 1..Len(commands)
  BY <1>1 DEF IInv, TypeInv
<1>3. \A i \in 1..Len(commands) : commands'[i].group = commands[i].group
  BY SameGroups
<1>4. job' = job /\ index' = index
  BY DEF RedoExecuted
<1>5. QED
  BY <1>2, <1>3, <1>4 DEF Groups, Position

Refined == slipped \/ slipped' \/ History!Next

LEMMA StepRefines == IInv /\ [UndoNext]_undoVars => [Refined]_(History!history)
<1> SUFFICES ASSUME IInv, [UndoNext]_undoVars, ~slipped, ~slipped'
             PROVE  [History!Next]_(History!history)
  BY DEF Refined
<1>1. CASE UNCHANGED undoVars
  BY <1>1 DEF undoVars, History!history
<1>2. ASSUME NEW c \in Command, Register(c) PROVE [History!Next]_(History!history)
  <2>1. CASE executing
    BY <1>2, <2>1 DEF Register, undoVars, History!history
  <2>2. CASE ~executing
    <3>1. job.do = "none"
      BY <1>2, <2>2, Registered
    <3>2. Groups' = Append(SubSeq(Groups, 1, Position), c.group) /\ Position' = Position + 1
      BY <1>2, <3>1, RegisterDoes
    <3>3. c.group \in Group
      BY CommandAssumption
    <3>4. QED
      BY <3>2, <3>3 DEF History!Next, History!Do, Groups, Position
  <2>3. QED
    BY <2>1, <2>2
<1>3. ASSUME NEW c \in Command, RedoExecuted(c) PROVE [History!Next]_(History!history)
  <2>1. Groups' = Groups /\ Position' = Position
    BY <1>3, RedoExecutedStutters
  <2>2. QED
    BY <2>1 DEF History!history, Groups, Position
<1>4. CASE BeginUndo \/ BeginRedo
  <2>1. commands' = commands /\ job.do = "none" /\ job'.do # "none" /\ job'.from = index
    BY <1>4 DEF BeginUndo, BeginRedo
  <2>2. Groups' = Groups /\ Position' = Position
    BY <2>1 DEF Groups, Position
  <2>3. QED
    BY <2>2 DEF History!history, Groups, Position
<1>5. CASE UndoExecuted
  <2>1. Groups' = Groups /\ Position' = Position
    BY <1>5 DEF UndoExecuted, Groups, Position
  <2>2. QED
    BY <2>1 DEF History!history, Groups, Position
<1>6. CASE EndUndo
  BY <1>6, EndUndoUndoes
<1>7. CASE EndRedo
  BY <1>7, EndRedoRedoes
<1>8. CASE Reject
  <2>1. commands' = commands /\ job.do # "none" /\ job'.do = "failed" /\ job'.from = job.from
    BY <1>8 DEF Reject, IInv, TypeInv, Jobs
  <2>2. Groups' = Groups /\ Position' = Position
    BY <2>1 DEF Groups, Position
  <2>3. QED
    BY <2>2 DEF History!history, Groups, Position
<1>9. QED
  BY <1>1, <1>2, <1>3, <1>4, <1>5, <1>6, <1>7, <1>8 DEF UndoNext

LEMMA InitRefines == UndoInit => History!Init
<1> SUFFICES ASSUME UndoInit PROVE History!Init
  OBVIOUS
<1>1. commands = <<>> /\ index = 0 /\ job = NoJob
  BY DEF UndoInit
<1>2. Groups = <<>> /\ Position = 0
  BY <1>1, NoJobType DEF Groups, Position
<1>3. QED
  BY <1>2 DEF History!Init, Groups, Position

\* The undo manager implements a history in which Undo and Redo move by one whole
\* group and a change forgets what was undone, however the requests of an undo are
\* interleaved with the changes that register meanwhile (undomanager.ts 76-185), but
\* for a change that slips between a command and its continuation, and until the next.
THEOREM UndoRefines == UndoSpec => UndoesWholeGroups
<1>1. IInv /\ [UndoNext]_undoVars => [slipped \/ slipped' \/ History!Next]_(History!history)
  BY StepRefines DEF Refined
<1>2. QED
  BY <1>1, Inductive, InitRefines, PTL DEF UndoSpec, UndoesWholeGroups
=============================================================================
