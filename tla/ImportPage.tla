----------------------------- MODULE ImportPage -----------------------------
(***************************************************************************)
(* Importing: the tools of src/import, each run on a file, and in the web  *)
(* application archives and Trello boards with their members               *)
(* (archiver.ts, mutator.importFullArchiveTrello).                         *)
(***************************************************************************)
EXTENDS Converters

CONSTANTS
    Files,      \* what may be imported: [tool, input]
    FieldsOfJira,
    Username,   \* of a Trello member: the name of the account (makeUsername)
    Accounts    \* the accounts that the server has before

VARIABLES
    file,       \* the file that was chosen
    step,       \* what the import is doing
    asking,     \* members whose registration is not answered
    accounts,   \* the server's accounts: names, and those that this import made
    memberIds,  \* memberIdMap
    newUsers,   \* newUserInfo
    downloaded, \* the accounts whose passwords were given to the user
    archive,    \* the lines of the archive that was written or sent
    inviting,   \* the accounts that are being made members of the board
    onBoard,    \* members of the imported board
    onComplete  \* the import's caller was told that it is over

importVars == <<file, step, asking, accounts, memberIds, newUsers, downloaded, archive, inviting, onBoard, onComplete>>

NoFile == [tool |-> "none", input |-> <<>>]

ImportInit ==
    /\ file = NoFile /\ step = "choose" /\ asking = {} /\ accounts = [all |-> Accounts, made |-> {}]
    /\ memberIds = Empty /\ newUsers = {} /\ downloaded = {} /\ archive = <<>> /\ inviting = {} /\ onBoard = {} /\ onComplete = FALSE

-----------------------------------------------------------------------------
\* The tools: the archive is written, or the tool stops before.
Runs(f, tool) == step = "choose" /\ f.tool = tool /\ file' = f
                 /\ UNCHANGED <<asking, accounts, memberIds, newUsers, inviting, onBoard, onComplete, downloaded>>
Writes(output) == step' = "done" /\ \E o \in {output} : archive' = buildBlockArchive(o)
Stops == archive' = <<>> /\ step' = "failed"

\* The file may not be there.
RunAsana(f) == Runs(f, "asana") /\ (Writes(convertAsana(f.input)) \/ Stops)
RunTodoist(f) == Runs(f, "todoist") /\ (Writes(convertTodoist(f.input)) \/ Stops)
RunTrello(f) == Runs(f, "trello") /\ (Writes(convertTrelloFile(f.input)) \/ Stops)
\* A file with one item is no list: the tool stops, too.
RunJira(f) == Runs(f, "jira") /\ ((Len(f.input) > 1 /\ Writes(convertJira(f.input, FieldsOfJira))) \/ Stops)
\* The folder may not be there, or have no table; a table without rows stops it as well.
RunNotion(f) ==
    /\ Runs(f, "notion")
    /\ \/ f.input.rows # <<>> /\ Writes(convertNotion("notion", f.input.columns, f.input.rows, f.input.markdown))
       \/ Stops
\* The board, its stacks and the comments of the cards that have any are fetched, the
\* comments at the same time; one answer that is not ok stops the tool.
DeckFetched(input) ==
    [input EXCEPT !.stacks = [i \in DOMAIN @ |-> [@[i] EXCEPT !.cards = [k \in DOMAIN @ |->
        IF @[k].commentsCount > 0 THEN @[k] ELSE [@[k] EXCEPT !.comments = <<>>]]]]]
RunDeck(f) == Runs(f, "deck") /\ (Writes(convertDeck(DeckFetched(f.input))) \/ Stops)

\* importFullArchiveTrello: all members are registered at the same time, with passwords
\* made up here.
ChooseFile(f) ==
    /\ step = "choose" /\ f.tool = "webTrello"
    /\ file' = f /\ step' = "register" /\ asking' = ToSet(f.input.members)
    /\ UNCHANGED <<accounts, memberIds, newUsers, archive, inviting, onBoard, onComplete, downloaded>>

\* registerOrFetch is answered: the account is made, or was there, or is refused.
WithAccount(name) ==
    IF name \in accounts.all THEN accounts
    ELSE [all |-> accounts.all \cup {name}, made |-> accounts.made \cup {name}]
Registered(m) ==
    LET name == Username[m]
        isNew == name \notin accounts.all
    IN  /\ m \in asking /\ step \in {"register", "failed"}
        /\ asking' = asking \ {m} /\ accounts' = WithAccount(name)
        /\ memberIds' = (m :> name) @@ memberIds
        /\ newUsers' = IF isNew THEN newUsers \cup {name} ELSE newUsers
        /\ UNCHANGED <<file, step, archive, inviting, onBoard, onComplete, downloaded>>
Refused(m) ==
    /\ m \in asking /\ step \in {"register", "failed"}
    /\ asking' = asking \ {m}
    /\ UNCHANGED <<file, step, accounts, memberIds, newUsers, archive, inviting, onBoard, onComplete, downloaded>>

\* A request that gets no answer, carried out or not, ends the import; the others go on.
Unanswered(m) ==
    /\ m \in asking /\ step \in {"register", "failed"}
    /\ step' = "failed" /\ asking' = asking \ {m}
    /\ accounts' \in {accounts, WithAccount(Username[m])}
    /\ UNCHANGED <<file, memberIds, newUsers, downloaded, archive, inviting, onBoard, onComplete>>

SendArchive ==
    /\ step = "register" /\ asking = {}
    /\ \E o \in {convertTrello(file.input, memberIds)} : archive' = buildBlockArchive(o)
    /\ step' = "upload"
    /\ UNCHANGED <<file, asking, accounts, memberIds, newUsers, inviting, onBoard, onComplete, downloaded>>

\* The archive was imported, or refused: the answer's status is not looked at.  The
\* members are invited, and nobody waits for that; the passwords are downloaded.
Uploaded(status) ==
    /\ step = "upload"
    /\ step' = IF status = 200 THEN "done" ELSE "refused"
    /\ inviting' = {memberIds[m] : m \in DOMAIN memberIds}
    /\ onComplete' = TRUE /\ downloaded' = newUsers
    /\ UNCHANGED <<file, asking, accounts, memberIds, newUsers, archive, onBoard>>
UploadLost ==
    /\ step = "upload" /\ step' = "failed"
    /\ UNCHANGED <<file, asking, accounts, memberIds, newUsers, archive, inviting, onBoard, onComplete, downloaded>>

Invited(u) ==
    /\ u \in inviting /\ inviting' = inviting \ {u}
    /\ onBoard' = IF step = "done" THEN onBoard \cup {u} ELSE onBoard
    /\ UNCHANGED <<file, step, asking, accounts, memberIds, newUsers, archive, onComplete, downloaded>>

\* importFullArchive: the file that a tool wrote is sent as it is.
SendArchiveFile ==
    /\ step = "done" /\ file.tool # "webTrello" /\ ~onComplete
    /\ step' = "upload"
    /\ UNCHANGED <<file, archive, asking, accounts, memberIds, newUsers, inviting, onBoard, onComplete, downloaded>>

ImportNext ==
    \/ \E f \in Files : \/ RunAsana(f) \/ RunTodoist(f) \/ RunTrello(f) \/ RunJira(f) \/ RunNotion(f) \/ RunDeck(f)
                        \/ ChooseFile(f)
    \/ \E m \in asking : Registered(m) \/ Refused(m) \/ Unanswered(m)
    \/ SendArchive \/ SendArchiveFile
    \/ \E status \in {200, 500} : Uploaded(status)
    \/ UploadLost
    \/ \E u \in inviting : Invited(u)

-----------------------------------------------------------------------------
\* An archive holds together: each block is below its board or a card of it, comments on
\* Trello cards that are not imported aside; the contents of a card are those it lists, in
\* their order; a value of a select is an option of the property; no id comes twice.
OnSkippedCard(b) == file.tool = "webTrello" /\ b.type = "comment"
HoldsTogether ==
    LET boards == LinesOf(archive, "board")
        blocks == parseBlockArchive(archive)
        ids == [i \in DOMAIN blocks |-> blocks[i].id]
        cards == SelectSeq(blocks, LAMBDA b : b.type = "card")
    IN  /\ IsInjective(ids)
        /\ \A b \in ToSet(blocks) :
            /\ \/ b.parentId \in {x.id : x \in ToSet(boards)}
               \/ b.parentId \in {c.id : c \in ToSet(cards)}
               \/ OnSkippedCard(b)
            /\ b.type = "card" =>
                b.contentOrder = SelectSeq(ids, LAMBDA id : \E c \in ToSet(blocks) :
                    c.id = id /\ c.parentId = b.id /\ c.type \in {"text", "checkbox"})
        /\ \A c \in ToSet(cards) : \E b \in ToSet(boards) :
            /\ c.parentId = b.id
            /\ \A p \in DOMAIN c.properties : \E q \in ToSet(b.cardProperties) :
                /\ q.id = p
                /\ q.type = "select" => \E o \in ToSet(q.options) : o.id = c.properties[p]
                /\ q.type = "multiSelect" => \A v \in ToSet(c.properties[p]) : \E o \in ToSet(q.options) : o.id = v

\* The options of a select are different values.
OptionsOnce ==
    \A b \in ToSet(LinesOf(archive, "board")) : \A q \in ToSet(b.cardProperties) :
        file.tool # "todoist" => IsInjective([i \in DOMAIN q.options |-> q.options[i].value])

\* Every card from Todoist is in a column, with or without a section, in a project with or
\* without sections, whatever projects come before.
InColumn ==
    file.tool = "todoist" =>
        \A b \in ToSet(parseBlockArchive(archive)) : b.type = "card" => "List" \in DOMAIN b.properties

\* When the import of a Trello board is answered, also with a refusal, the user has the
\* passwords of all accounts that were made; when it succeeds and all invitations are
\* answered, every member whom the server did not refuse is on the board.
MembersKept ==
    file.tool = "webTrello" =>
        /\ step \in {"done", "refused"} => accounts.made \subseteq downloaded
        /\ step = "done" /\ inviting = {} =>
            accounts.made \cup {memberIds[m] : m \in DOMAIN memberIds} \subseteq onBoard

\* Each value of a Jira field that is not empty has its option in the imported board, unless
\* it comes after an item that has none: there buildCardPropertyFromValues loses count.
JiraValuesKept ==
    file.tool = "jira" =>
        \A b \in ToSet(LinesOf(archive, "board")), i \in DOMAIN file.input, f \in ToSet(FieldsOfJira) :
            \/ \E j \in 1..i : file.input[j].fields[f] = Nothing
            \/ \E q \in ToSet(b.cardProperties) : q.id = f /\ \E o \in ToSet(q.options) : o.value = file.input[i].fields[f]

ImportKept == HoldsTogether /\ OptionsOnce /\ InColumn /\ MembersKept /\ JiraValuesKept
=============================================================================
