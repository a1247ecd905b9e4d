--------------------------- MODULE ChannelBoards ---------------------------
(***************************************************************************)
(* The boards of a Mattermost channel: the list beside the channel, the    *)
(* dialog in which boards are searched and linked to it, and the board     *)
(* that is made with a new channel.  Other users link, rename and delete   *)
(* the same boards; searches, loads and broadcasts may overtake another.   *)
(***************************************************************************)
EXTENDS Integers, Sequences, SequencesExt

CONSTANTS
    Channels,
    FirstBoards,    \* the boards of the team: [id, channel, title, live]
    Joined,         \* those I have joined; of the others I am a member by their channel
    Matches,        \* of a query: the boards it finds, in order
    NewBoard,       \* the id of a board that is made
    LinkActs,       \* bound: what I and the others do
    LinkBusy        \* bound: requests and broadcasts under way when something is done

VARIABLES
    remote,         \* the server: the boards, and those I have joined
    channelPage,    \* the channel, and the store's boards and memberships
    selector,       \* the dialog: the channel it links to, its query, results and confirmation
    making,         \* the new channel's form: whether it gets a board, from which template
    awaited,        \* searches and loads that are not answered
    changes,        \* boards being changed or made
    told,           \* broadcasts on their way
    written,        \* history: the title of each board as the others wrote it last
    orderly,        \* history: no answer was refused, or came after what was newer
    linkActs        \* history: how much was done

channelVars == <<remote, channelPage, selector, making, awaited, changes, told, written, orderly, linkActs>>

NoBoard == [id |-> "none", channel |-> "", title |-> "", live |-> FALSE]
NotTyped == "none"
Blank == {"", " "}
\* The bounds; nothing more is done either once an answer came late or was refused.
Act ==
    /\ linkActs < LinkActs /\ linkActs' = linkActs + 1
    /\ orderly /\ Len(awaited) + Len(changes) + Len(told) <= LinkBusy

-----------------------------------------------------------------------------
\* The server
IsMember(b) == remote.boards[b].live /\ (b \in remote.joined \/ remote.boards[b].channel # "")
Found(query) ==
    LET ids == SelectSeq(Matches[query], LAMBDA b : remote.boards[b].live /\ b \in remote.joined)
    IN  [i \in DOMAIN ids |-> remote.boards[ids[i]]]
Tell(board, isMember) == told' = IF isMember THEN Append(told, board) ELSE told
Becomes(board) ==
    /\ remote' = [remote EXCEPT !.boards[board.id] = board]
    /\ Tell(board, board.id \in remote.joined \/ board.channel # "")

Asked(kind, query) == [kind |-> kind, query |-> query, at |-> linkActs, served |-> FALSE, late |-> FALSE, data |-> <<>>]
Answer(i) ==
    /\ ~awaited[i].served
    /\ LET boards == {b \in DOMAIN remote.boards : IsMember(b)}
       IN  awaited' = [awaited EXCEPT ![i].served = TRUE, ![i].data =
              CASE awaited[i].kind = "search" -> Found(awaited[i].query)
                [] awaited[i].kind = "boards" -> [b \in boards |-> remote.boards[b]]
                [] awaited[i].kind = "mine" -> boards]
    /\ UNCHANGED <<remote, channelPage, selector, making, changes, told, written, orderly, linkActs>>
\* A status that is not 200 is an empty answer.
RefuseAnswer(i) ==
    /\ ~awaited[i].served
    /\ awaited' = [awaited EXCEPT ![i].served = TRUE, ![i].late = TRUE, ![i].data = IF awaited[i].kind = "mine" THEN {} ELSE <<>>]
    /\ UNCHANGED <<remote, channelPage, selector, making, changes, told, written, orderly, linkActs>>

-----------------------------------------------------------------------------
\* Answers come in any order; each replaces what was there.
searchHandler(data) == selector' = [selector EXCEPT !.results = data] /\ UNCHANGED channelPage
loadBoards(data, last) == channelPage' = [channelPage EXCEPT !.boards = data, !.loaded = @ \/ last] /\ UNCHANGED selector
loadMyBoardsMemberships(data, last) == channelPage' = [channelPage EXCEPT !.mine = data, !.loaded = @ \/ last] /\ UNCHANGED selector
Arrive(i) ==
    LET a == awaited[i]
        rest == RemoveAt(awaited, i)
        last == \A k \in DOMAIN rest : rest[k].kind = "search" \/ rest[k].at # a.at
    IN  /\ a.served /\ awaited' = rest
        /\ orderly' = (orderly /\ ~a.late /\ \A k \in 1..(i - 1) : awaited[k].kind # a.kind)
        /\ \/ a.kind = "search" /\ searchHandler(a.data)
           \/ a.kind = "boards" /\ loadBoards(a.data, last)
           \/ a.kind = "mine" /\ loadMyBoardsMemberships(a.data, last)
        /\ UNCHANGED <<remote, making, changes, told, written, linkActs>>

\* A broadcast: the store drops a deleted board, the dialog keeps it among its results.
onChangeBoardHandler(board) ==
    [i \in DOMAIN selector.results |-> IF selector.results[i].id = board.id THEN board ELSE selector.results[i]]
updateBoards(board) ==
    IF board.live THEN [b \in {board.id} |-> board] @@ channelPage.boards
    ELSE [b \in DOMAIN channelPage.boards \ {board.id} |-> channelPage.boards[b]]
Deliver ==
    /\ told # <<>> /\ told' = Tail(told)
    /\ awaited' = [i \in DOMAIN awaited |-> [awaited[i] EXCEPT !.late = @ \/ awaited[i].served]]
    /\ \/ /\ Head(told).id = "member"
          /\ channelPage' = [channelPage EXCEPT !.mine = @ \cup {Head(told).title}] /\ UNCHANGED selector
       \/ /\ Head(told).id # "member"
          /\ channelPage' = [channelPage EXCEPT !.boards = updateBoards(Head(told))]
          /\ selector' = [selector EXCEPT !.results = onChangeBoardHandler(Head(told))]
    /\ UNCHANGED <<remote, making, changes, written, orderly, linkActs>>

-----------------------------------------------------------------------------
\* The list of the channel: loaded again whenever I go to another channel.
Listed ==
    IF ~channelPage.loaded THEN {}
    ELSE {b \in DOMAIN channelPage.boards \cap channelPage.mine : channelPage.boards[b].channel = channelPage.here}
SwitchChannel(c) ==
    /\ c # channelPage.here /\ ~making.add /\ Act
    /\ channelPage' = [channelPage EXCEPT !.here = c]
    /\ awaited' = awaited \o <<Asked("boards", ""), Asked("mine", "")>>
    /\ UNCHANGED <<remote, selector, making, changes, told, written, orderly>>

\* What changes between two versions of a board is sent, and nothing else. Mutant: all of it.
wholeBoard(new, old) == [f \in {"channel", "title"} |-> new[f]]
createPatchesFromBoards(new, old) == [f \in {f \in {"channel", "title"} : new[f] # old[f]} |-> new[f]]
Change(do, board, channel) ==
    [do |-> do, id |-> board.id, channel |-> channel, done |-> FALSE,
     patch |-> createPatchesFromBoards([board EXCEPT !.channel = channel], board)]
updateBoard(do, board, channel) == changes' = Append(changes, Change(do, board, channel))
onUnlinkBoard(b) ==
    /\ b \in Listed /\ Act /\ updateBoard("unlink", channelPage.boards[b], "")
    /\ UNCHANGED <<remote, channelPage, selector, making, awaited, told, written, orderly>>

-----------------------------------------------------------------------------
\* The dialog
InSelector == Act /\ UNCHANGED <<remote, channelPage, making, told, written, orderly>>
Closed == [channel |-> "", typed |-> selector.typed, query |-> "", results |-> <<>>, confirm |-> NoBoard]

setLinkToChannel ==
    /\ selector.channel = "" /\ channelPage.loaded /\ ~making.add
    /\ selector' = [selector EXCEPT !.channel = channelPage.here]
    /\ UNCHANGED <<remote, channelPage, making, awaited, changes, told, written, orderly, linkActs>>
Type(q) ==
    /\ selector.channel # "" /\ selector.typed # q /\ InSelector /\ UNCHANGED <<awaited, changes>>
    /\ selector' = [selector EXCEPT !.typed = q]

\* The search begins a moment after the last key, also when the dialog was closed meanwhile.
debouncedSearchHandler ==
    /\ selector.typed # NotTyped
    /\ selector' = [selector EXCEPT !.query = selector.typed, !.typed = NotTyped]
    /\ awaited' = IF selector.typed \in Blank THEN awaited ELSE Append(awaited, Asked("search", selector.typed))
    /\ UNCHANGED <<remote, channelPage, making, changes, told, written, orderly, linkActs>>

Shown(i) == selector.channel # "" /\ selector.query # "" /\ i \in DOMAIN selector.results
linkBoard(i) ==
    /\ Shown(i) /\ selector.results[i].channel # selector.channel /\ InSelector /\ UNCHANGED <<awaited, changes>>
    /\ selector' = [selector EXCEPT !.confirm = selector.results[i]]
confirmLink ==
    /\ selector.channel # "" /\ selector.confirm # NoBoard /\ InSelector
    /\ updateBoard("link", selector.confirm, selector.channel) /\ UNCHANGED <<awaited, selector>>
cancelLink ==
    /\ selector.confirm # NoBoard /\ InSelector /\ UNCHANGED <<awaited, changes>>
    /\ selector' = [selector EXCEPT !.confirm = NoBoard]
unlinkBoard(i) ==
    /\ Shown(i) /\ selector.results[i].channel = selector.channel /\ InSelector
    /\ updateBoard("unlink", selector.results[i], "") /\ UNCHANGED <<awaited, selector>>
closeDialog == selector.channel # "" /\ InSelector /\ selector' = Closed /\ UNCHANGED <<awaited, changes>>
\* A board is made elsewhere: the dialog goes, its query stays.
newLinkedBoard ==
    /\ selector.channel # "" /\ InSelector /\ UNCHANGED <<awaited, changes>>
    /\ selector' = [selector EXCEPT !.channel = ""]

-----------------------------------------------------------------------------
\* The board of a new channel: made first, linked when that is answered.
showNewBoardTemplateSelector ==
    /\ selector.channel = "" /\ ~making.used /\ Act /\ making' = [making EXCEPT !.add = ~@]
    /\ UNCHANGED <<remote, channelPage, selector, awaited, changes, told, written, orderly>>
onChange ==
    /\ making.add /\ ~making.chosen /\ making' = [making EXCEPT !.chosen = TRUE]
    /\ UNCHANGED <<remote, channelPage, selector, awaited, changes, told, written, orderly, linkActs>>
canCreate == ~making.add \/ making.chosen
addBoardToChannel(c) ==
    /\ canCreate /\ making.add /\ ~making.used /\ Act
    /\ making' = [making EXCEPT !.used = TRUE, !.add = FALSE]
    /\ changes' = Append(changes, [do |-> "create", id |-> NewBoard, channel |-> c, done |-> FALSE, patch |-> <<>>])
    /\ UNCHANGED <<remote, channelPage, selector, awaited, told, written, orderly>>

\* A request is carried out or refused, which nobody looks at; a refused board is not there.
Goes(i) == IF changes[i].do \in {"link", "create"} THEN [changes EXCEPT ![i].done = TRUE] ELSE RemoveAt(changes, i)
ServeChange(i) ==
    /\ changes[i].do # "create" /\ ~changes[i].done /\ changes' = Goes(i)
    /\ LET board == remote.boards[changes[i].id]
           p == changes[i].patch
       IN  IF board.live THEN Becomes([f \in DOMAIN board |-> IF f \in DOMAIN p THEN p[f] ELSE board[f]])
           ELSE UNCHANGED <<remote, told>>
    /\ UNCHANGED <<channelPage, selector, making, awaited, written, orderly, linkActs>>
ServeCreate(i) ==
    /\ changes[i].do = "create" /\ ~changes[i].done /\ changes' = Goes(i)
    /\ LET board == [id |-> NewBoard, channel |-> "", title |-> "new", live |-> TRUE]
       IN  /\ remote' = [boards |-> [b \in {NewBoard} |-> board] @@ remote.boards, joined |-> remote.joined \cup {NewBoard}]
           /\ told' = told \o <<board, [NoBoard EXCEPT !.id = "member", !.title = NewBoard]>>
           /\ written' = [b \in {NewBoard} |-> "new"] @@ written
    /\ UNCHANGED <<channelPage, selector, making, awaited, orderly, linkActs>>
RefuseChange(i) ==
    /\ ~changes[i].done /\ changes' = IF changes[i].do = "create" THEN RemoveAt(changes, i) ELSE Goes(i)
    /\ UNCHANGED <<remote, channelPage, selector, making, awaited, told, written, orderly, linkActs>>
\* The dialog closes when its link is answered, whatever it shows by then.
Linked(i) ==
    /\ changes[i].do = "link" /\ changes[i].done
    /\ changes' = RemoveAt(changes, i) /\ selector' = Closed
    /\ UNCHANGED <<remote, channelPage, making, awaited, told, written, orderly, linkActs>>
Created(i) ==
    /\ changes[i].do = "create" /\ changes[i].done
    /\ changes' = [changes EXCEPT ![i] = Change("unlink", [NoBoard EXCEPT !.id = NewBoard, !.title = "new"], changes[i].channel)]
    /\ UNCHANGED <<remote, channelPage, selector, making, awaited, told, written, orderly, linkActs>>

-----------------------------------------------------------------------------
\* The other users
They(board) ==
    /\ board # remote.boards[board.id] /\ remote.boards[board.id].live /\ Act /\ Becomes(board)
    /\ written' = [written EXCEPT ![board.id] = board.title]
    /\ UNCHANGED <<channelPage, selector, making, awaited, changes, orderly>>
TheyChange(b) ==
    \/ \E c \in Channels \cup {""} : They([remote.boards[b] EXCEPT !.channel = c])
    \/ They([remote.boards[b] EXCEPT !.title = "theirs"])
    \/ They([remote.boards[b] EXCEPT !.live = FALSE])

-----------------------------------------------------------------------------
ChannelInit ==
    /\ remote = [boards |-> FirstBoards, joined |-> Joined]
    /\ \E c \in Channels : channelPage = [here |-> c, boards |-> <<>>, mine |-> {}, loaded |-> FALSE]
    /\ selector = [channel |-> "", typed |-> NotTyped, query |-> "", results |-> <<>>, confirm |-> NoBoard]
    /\ making = [add |-> FALSE, chosen |-> FALSE, used |-> FALSE]
    /\ linkActs = 0 /\ awaited = <<Asked("boards", ""), Asked("mine", "")>>
    /\ changes = <<>> /\ told = <<>> /\ orderly = TRUE
    /\ written = [b \in DOMAIN FirstBoards |-> FirstBoards[b].title]

ChannelNext ==
    \/ Deliver \/ setLinkToChannel \/ debouncedSearchHandler \/ confirmLink \/ cancelLink \/ closeDialog \/ newLinkedBoard
    \/ showNewBoardTemplateSelector \/ onChange
    \/ \E c \in Channels : SwitchChannel(c) \/ addBoardToChannel(c)
    \/ \E q \in DOMAIN Matches \cup Blank : Type(q)
    \/ \E i \in DOMAIN awaited : Answer(i) \/ RefuseAnswer(i) \/ Arrive(i)
    \/ \E i \in DOMAIN selector.results : linkBoard(i) \/ unlinkBoard(i)
    \/ \E i \in DOMAIN changes : ServeChange(i) \/ ServeCreate(i) \/ RefuseChange(i) \/ Linked(i) \/ Created(i)
    \/ \E b \in DOMAIN remote.boards : onUnlinkBoard(b) \/ TheyChange(b)

-----------------------------------------------------------------------------
\* Linking a board, also from a result or a confirmation that is out of date, never takes back
\* what another user wrote in it.  When everything is answered and told, and no answer came
\* after what was newer: the results that are not deleted are those of the query, as they
\* are now, and the list has exactly the boards of the channel, of those I have joined.
ChannelKept ==
    /\ \A b \in DOMAIN remote.boards : remote.boards[b].title = written[b]
    /\ awaited = <<>> /\ told = <<>> /\ orderly =>
        /\ selector.query \notin Blank => SelectSeq(selector.results, LAMBDA r : r.live) = Found(selector.query)
        /\ channelPage.loaded =>
            Listed \cap remote.joined = {b \in remote.joined : remote.boards[b].live /\ remote.boards[b].channel = channelPage.here}
=============================================================================
