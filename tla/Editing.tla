------------------------------ MODULE Editing ------------------------------
(***************************************************************************)
(* A user who edits a board: the callbacks of the components call methods  *)
(* of the mutator, alone or as an undo group; each performs its requests,  *)
(* one after the other, and is registered with the undo manager when they  *)
(* are done; the user undoes and redoes; another user edits too.  The page *)
(* shows a copy of the board that lags behind the server's (ClientSync has *)
(* how it is kept up to date).                                             *)
(***************************************************************************)
EXTENDS Mutator, UndoManager, FiniteSets

CONSTANTS
    Start,      \* the board that the user begins with, for each part of the work
    Pool,       \* ids the server gives out, in order, for each part of the work
    Busy,       \* bound: the tasks in which things happen at the same time; in
                \* the others the user waits until a change is shown
    MaxSteps, MaxOthers, MaxFaults   \* bounds: changes of the user and of the
                                     \* other one, and requests that fail
VARIABLES
    doc,        \* the server's board
    seen,       \* the page's copy of it
    task,       \* the part of the page that this user works on
    calls,      \* performs in progress: command, requests to make, whether the
                \* script awaits it
    script,     \* the callback that goes on when the calls it awaits are done
    group,      \* mutator.undoGroupId, NoGroup when no group is open
    work,       \* the command being undone or redone and its requests to make
    given, steps, others, faults,    \* ids given out, and the bounds' counters
    calm,       \* history: one thing at a time so far, as one user would see it
    theirs      \* history: fields that the other user was the last to set

userVars == <<calls, script, group, given, steps>>
vars == <<undoVars, doc, seen, task, calls, script, group,
          work, given, steps, others, faults, calm, theirs>>

NoScript == [waves |-> <<>>, grouped |-> FALSE, before |-> <<>>]
NoWork == [rest |-> <<>>, cmd |-> <<>>]

Init ==
    /\ UndoInit
    /\ task \in DOMAIN Start /\ doc = Start[task] /\ seen = doc
    /\ calls = <<>> /\ script = NoScript /\ group = NoGroup /\ work = NoWork
    /\ given = 0 /\ steps = 0 /\ others = 0 /\ faults = 0
    /\ calm = TRUE /\ theirs = {}

Fresh(n) == SubSeq(Pool[task], given + 1, given + n)

\* perform: the group id is read when the call is made.
Calls(cmds, awaited, g, before) ==
    [i \in DOMAIN cmds |->
        [cmd |-> [group |-> g, before |-> before] @@ cmds[i],
         rest |-> cmds[i].redo, awaited |-> awaited]]

Idle == calls = <<>> /\ script = NoScript /\ job.do = "none"

\* Undeleting a block brings back what was below it, also what had been deleted
\* on its own: such an undo does not restore.
Revives(cmds) ==
    \E i \in DOMAIN cmds : \E j \in DOMAIN cmds[i].undo : \E k \in DOMAIN cmds[i].undo[j] :
        LET p == cmds[i].undo[j][k]
        IN  p.do = "undelete" /\ \E b \in Under(doc, p.id) : ~doc.blocks[b].live

Alone == Idle /\ seen = doc
Before == IF calm THEN doc ELSE <<>>    \* history: the board before a change
MayBegin == task \in Busy \/ Alone

\* A callback with several waves of calls; each wave begins when the calls of the
\* one before are done.  With "grouped" it is performAsUndoGroup.
Await(grouped, waves, n) ==
    LET g == IF grouped THEN steps + 1 ELSE group
    IN  /\ MayBegin /\ steps < MaxSteps /\ given + n <= Len(Pool[task])
        /\ script = NoScript /\ Len(calls) < 2
        /\ Head(waves) # <<>>
        /\ steps' = steps + 1 /\ given' = given + n
        /\ calls' = calls \o Calls(Head(waves), TRUE, g, Before)
        /\ script' = [waves |-> Tail(waves), grouped |-> grouped, before |-> Before]
        /\ group' = g
        /\ calm' = (calm /\ Alone /\ ~Revives(FlattenSeq(waves)))
        /\ UNCHANGED <<undoVars, doc, seen, task, work, others, faults, theirs>>

\* A callback that awaits nothing: a group is closed as soon as the calls are made.
Launch(grouped, cmds, n) ==
    LET g == IF grouped /\ group = NoGroup THEN steps + 1 ELSE group
    IN  /\ MayBegin /\ steps < MaxSteps /\ given + n <= Len(Pool[task])
        /\ Len(calls) < 2 /\ cmds # <<>>
        /\ steps' = steps + 1 /\ given' = given + n
        /\ calls' = calls \o Calls(cmds, FALSE, g, Before)
        /\ calm' = (calm /\ Alone /\ ~Revives(cmds))
        /\ UNCHANGED <<undoVars, doc, seen, task, script, group, work,
                       others, faults, theirs>>

Call(cmds) == Launch(FALSE, cmds, 0)
Making(n, cmds) == Launch(FALSE, cmds, n)
InGroup(waves) == Await(TRUE, waves, 0)

\* What the server has done reaches the page, in a busy task some time later.
Reaches == seen' = IF task \in Busy THEN seen ELSE doc'

\* The request at the head of a call is carried out.
Serve(i) ==
    /\ calls[i].rest # <<>>
    /\ doc' = Request(doc, Head(calls[i].rest)) /\ Reaches
    /\ calls' = [calls EXCEPT ![i].rest = Tail(@)]
    /\ UNCHANGED <<undoVars, task, script, group, work, given,
                   steps, others, faults, calm, theirs>>

\* The script goes on when none of the calls in "left" is awaited: with its next
\* wave, or it ends, and with it its group (performAsUndoGroup goes on after a rejected call).
GoesOn(left) == script # NoScript /\ ~\E i \in DOMAIN left : left[i].awaited
\* Mutant: a group whose call fails stays open.
AdvanceOpen(left, failed) ==
    IF ~GoesOn(left) THEN calls' = left /\ UNCHANGED <<script, group>>
    ELSE IF script.waves = <<>> \/ failed
         THEN /\ calls' = left /\ script' = NoScript
              /\ group' = IF script.grouped /\ ~failed THEN NoGroup ELSE group
         ELSE /\ calls' = left \o Calls(Head(script.waves), TRUE, group, Before)
              /\ script' = [script EXCEPT !.waves = Tail(@)]
              /\ UNCHANGED group

Advance(left, failed) ==
    IF ~GoesOn(left) THEN calls' = left /\ UNCHANGED <<script, group>>
    ELSE IF script.waves = <<>> \/ failed
         THEN /\ calls' = left /\ script' = NoScript
              /\ group' = IF script.grouped THEN NoGroup ELSE group
         ELSE /\ calls' = left \o Calls(Head(script.waves), TRUE, group,
                                        IF script.grouped THEN script.before ELSE Before)
              /\ script' = [script EXCEPT !.waves = Tail(@)]
              /\ UNCHANGED group

Finish(i) ==
    /\ calls[i].rest = <<>>
    /\ Register(calls[i].cmd)
    /\ Advance(RemoveAt(calls, i), FALSE)
    /\ calm' = (calm /\ job.do = "none")
    /\ UNCHANGED <<doc, seen, task, work, given, steps, others, faults, theirs>>

\* A request fails: the perform is not registered, its script is left.
Fail(i) ==
    /\ calls[i].rest # <<>> /\ task \in Busy /\ faults < MaxFaults
    /\ faults' = faults + 1
    /\ Advance(RemoveAt(calls, i), TRUE)
    /\ calm' = FALSE
    /\ UNCHANGED <<undoVars, doc, seen, task, work, given, steps,
                   others, theirs>>

-----------------------------------------------------------------------------
\* Undo and redo.  The redo of an insert creates a block with another id, which
\* the commands after it do not know: their redo is then about nothing.
Renamed(cmd, new) ==
    LET ren(x) == LET i == SelectInSeq(cmd.made, LAMBDA y : y = x) IN IF i = 0 THEN x ELSE new[i]
        all(s) == [i \in DOMAIN s |-> ren(s[i])]
        part(p) == [p EXCEPT !.id = ren(@), !.to = all(@),
                       !.set = [f \in DOMAIN @ |-> IF f \in {"contentOrder", "cardOrder"}
                                                   THEN all(@[f]) ELSE @[f]]]
        requests(s) == [i \in DOMAIN s |-> [j \in DOMAIN s[i] |-> part(s[i][j])]]
    IN  [cmd EXCEPT !.redo = requests(@), !.undo = requests(@), !.made = new]

Redone(cmd) == IF cmd.made = <<>> THEN cmd ELSE Renamed(cmd, Fresh(Len(cmd.made)))
CanRedo(cmd) == given + Len(cmd.made) <= Len(Pool[task])

undo ==
    /\ BeginUndo /\ MayBegin
    /\ work' = [rest |-> commands[index].undo, cmd |-> commands[index]]
    /\ calm' = (calm /\ Idle)
    /\ UNCHANGED <<doc, seen, task, calls, script, group, given, steps, others, faults, theirs>>

Redoing(cmd) == work' = [rest |-> Redone(cmd).redo, cmd |-> Redone(cmd)]
                /\ given' = given + Len(cmd.made)

redo ==
    /\ BeginRedo /\ MayBegin
    /\ CanRedo(commands[index + 1]) /\ Redoing(commands[index + 1])
    /\ calm' = (calm /\ Idle /\ commands[index + 1].made = <<>>)
    /\ UNCHANGED <<doc, seen, task, calls, script, group, steps, others, faults, theirs>>

Perform ==      \* a request of the undo or redo is carried out
    /\ work.rest # <<>> /\ job.do # "failed"
    /\ doc' = Request(doc, Head(work.rest)) /\ Reaches
    /\ work' = [work EXCEPT !.rest = Tail(@)]
    /\ UNCHANGED <<undoVars, task, userVars, others, faults, calm, theirs>>

Undone ==
    /\ work.rest = <<>> /\ UndoExecuted
    /\ UNCHANGED <<doc, seen, task, userVars, work, others, faults, calm, theirs>>

Redid ==
    /\ work.rest = <<>> /\ RedoExecuted(work.cmd)
    /\ UNCHANGED <<doc, seen, task, userVars, work, others, faults, calm, theirs>>

\* undo() and redo() go on.
UndoLoop ==
    /\ EndUndo
    /\ work' = IF UndoGoesOn THEN [rest |-> commands[index - 1].undo, cmd |-> commands[index - 1]]
               ELSE NoWork
    /\ UNCHANGED <<doc, seen, task, userVars, others, faults, calm, theirs>>

RedoLoop ==
    /\ EndRedo
    /\ IF RedoGoesOn
       THEN /\ CanRedo(commands[index + 2]) /\ Redoing(commands[index + 2])
            /\ calm' = (calm /\ commands[index + 2].made = <<>>)
       ELSE work' = NoWork /\ UNCHANGED <<given, calm>>
    /\ UNCHANGED <<doc, seen, task, calls, script, group, steps, others, faults, theirs>>

Rejected ==
    /\ work.rest # <<>> /\ job.do # "failed" /\ task \in Busy /\ faults < MaxFaults
    /\ Reject
    /\ faults' = faults + 1 /\ calm' = FALSE
    /\ UNCHANGED <<doc, seen, task, userVars, work, others, theirs>>

\* The change has arrived on the page.
Sync ==
    /\ seen # doc /\ seen' = doc
    /\ UNCHANGED <<undoVars, doc, task, userVars, work, others, faults,
                   calm, theirs>>

\* Another user changes a title or icon, or the value of a card's property.
Theirs(b, f, p) ==
    /\ task \in Busy /\ others < MaxOthers /\ Alive(doc, b)
    /\ others' = others + 1
    /\ doc' = IF f = "properties"
              THEN [doc EXCEPT !.blocks[b].fields.properties = (p :> One("theirs")) @@ @]
              ELSE [doc EXCEPT !.blocks[b].fields[f] = "theirs"]
    /\ theirs' = theirs \cup {<<b, f, p>>} /\ calm' = FALSE
    /\ UNCHANGED <<undoVars, seen, task, userVars, work, faults>>
=============================================================================
