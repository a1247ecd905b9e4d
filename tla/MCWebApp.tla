------------------------------ MODULE MCWebApp ------------------------------
(***************************************************************************)
(* The pages of the web application, one at a time: "page" is the one that *)
(* is open, and the state of the others rests.  Drafts, Tour and Sharing,  *)
(* about which there are proofs, are extended, the others are instances.   *)
(***************************************************************************)
EXTENDS Drafts, Tour, Sharing, TLC

CONSTANTS Pages, MaxActs
VARIABLE page

\* The view of a board: a select, a text and a date; one card without a value and
\* one whose option is not there any more.
Lower == [t \in {"", "a", "A", "o1", "o2", "me", "you", "json"} |-> IF t = "A" THEN "a" ELSE t]
Within == {<<t, t>> : t \in DOMAIN Lower} \cup {<<t, "">> : t \in DOMAIN Lower}
Starting == Within
Ending == Within
Time == [t \in DOMAIN Lower |-> 2]
HalfDay == 1
Minute == 1
Rank == [t \in DOMAIN Lower |-> CASE t = "" -> 0 [] t \in {"a", "A"} -> 1 [] OTHER -> 2]
Number == [t \in DOMAIN Lower |-> 1]
One(t) == [many |-> FALSE, texts |-> <<t>>, from |-> 0, to |-> 0]
Many(s) == [many |-> TRUE, texts |-> s, from |-> 0, to |-> 0]
Dates(from, to) == [many |-> FALSE, texts |-> <<"json">>, from |-> from, to |-> to]
Card(id, title, properties, at) ==
    [id |-> id, title |-> title, properties |-> properties, limited |-> FALSE,
     createdBy |-> "me", modifiedBy |-> "you", createAt |-> at, updateAt |-> at]
Option(id) == [id |-> id, value |-> id]
Prop(id, name, type, options) == [id |-> id, name |-> name, type |-> type, options |-> options]
FirstCards ==
    ("a" :> Card("a", "A", ("s" :> One("o1")) @@ ("d" :> Dates(2, 3)), 1))
    @@ ("b" :> Card("b", "", ("s" :> One("o2")) @@ ("m" :> Many(<<"o1", "o2">>)), 3))
FirstProps == <<Prop("s", "Status", "select", <<Option("o1"), Option("o2")>>),
                Prop("m", "Tags", "multiSelect", <<Option("o1"), Option("o2")>>),
                Prop("d", "Due", "date", <<>>)>>
FirstView == [filter |-> [operation |-> "and", filters |-> <<>>], sortOptions |-> <<>>,
              groupById |-> "s", visible |-> <<>>, hidden |-> <<>>, cardOrder |-> <<"b">>]
NewId == "n"
Values == ("options" :> {"o1"}) @@ ("person" :> {"me"}) @@ ("text" :> {"", "a"})
          @@ ("date" :> {"", "json"}) @@ ("boolean" :> {}) @@ ("none" :> {})
Names == ("me" :> "a") @@ ("you" :> "o1")
DefaultFilters == {"Status", "Tags"}

VARIABLES cards, props, view, stored, limit, header, here, search, adding, asked, overtaken, made, acts
viewState == <<cards, props, view, stored, limit, header, here, search, adding, asked, overtaken, made, acts>>
V == INSTANCE ViewPage

\* The sidebar: a category of the user's own with a board that is hidden and one that is
\* not, the default one with none, a board without a category.
Default == "boards"
FirstServer == [cats |-> ("own" :> [name |-> "B", sort |-> 0]) @@ (Default :> [name |-> "Boards", sort |-> 10]),
                rows |-> ("b1" :> [category |-> "own", hidden |-> TRUE, sort |-> 10])
                         @@ ("b2" :> [category |-> "own", hidden |-> FALSE, sort |-> 20])
                         @@ ("b3" :> [category |-> "own", hidden |-> FALSE, sort |-> 30])]
Linked == "b4"
NewCategories == {<<"new", "A">>}
NewBoard == "b5"
NameRank == ("A" :> 1) @@ ("B" :> 2) @@ ("Boards" :> 3)
SidebarActs == 2
VARIABLES srv, lists, live, open, calls, delayed, news, updated, socket, blemish, sbActs
sidebarState == <<srv, lists, live, open, calls, delayed, news, updated, socket, blemish, sbActs>>
S == INSTANCE Sidebar

\* Imports: a file of each tool.
FieldsOfJira == <<"Status", "Type">>
Username == ("m1" :> "ann") @@ ("m2" :> "ann") @@ ("m3" :> "bob")
Accounts == {"bob"}
Task(name, projects, memberships, notes) ==
    [name |-> name, projects |-> projects, memberships |-> memberships, notes |-> notes]
Item(id, content, section, project) == [id |-> id, content |-> content, section |-> section, project |-> project]
Issue(summary, status, type, description) ==
    [summary |-> summary, fields |-> ("Status" :> status) @@ ("Type" :> type), link |-> "link", created |-> "",
     description |-> description]
List(id, closed) == [id |-> id, name |-> id, closed |-> closed]
TrelloCard(id, list, checklists, labels, members, closed) ==
    [id |-> id, name |-> id, desc |-> id, idList |-> list, idChecklists |-> checklists, labels |-> labels,
     idMembers |-> members, due |-> "1", shortUrl |-> "u", customFieldItems |-> <<<<"f", "v">>, <<"x", "v">>>>,
     closed |-> closed]
Did(type, card, member, text) == [type |-> type, card |-> card, idMemberCreator |-> member, text |-> text]
Trello ==
    [name |-> "Trello", lists |-> <<List("l1", FALSE), List("l2", TRUE)>>, labels |-> <<[id |-> "g", name |-> "G"]>>,
     customFields |-> <<"f">>, members |-> <<"m1", "m2", "m3">>,
     checklists |-> <<[id |-> "k", checkItems |-> <<"c1", "c2">>]>>,
     cards |-> <<TrelloCard("a", "l1", <<"k", "k">>, <<"g", "h">>, <<"m1", "m2">>, FALSE),
                 TrelloCard("b", "l2", <<>>, <<>>, <<"m3">>, FALSE), TrelloCard("c", "l1", <<>>, <<>>, <<>>, TRUE)>>,
     actions |-> <<Did("createCard", "a", "m1", ""), Did("commentCard", "a", "m3", "t"), Did("commentCard", "b", "m3", "t"),
                   Did("commentCard", "c", "m1", "t")>>]
Files ==
    {[tool |-> "asana", input |-> <<Task("t", <<"p", "q">>, <<<<"q", "s">>, <<"p", "r">>>>, "n"), Task("u", <<"q">>, <<>>, "")>>],
     [tool |-> "asana", input |-> <<Task("t", <<>>, <<>>, "n")>>],
     [tool |-> "todoist", input |->
        [projects |-> <<"p", "Inbox", "q", "r">>, sections |-> <<[id |-> "s", name |-> "S", project |-> "p"],
                                                                [id |-> "t", name |-> "T", project |-> "r"]>>,
         items |-> <<Item("1", "a", "", "p"), Item("2", "b", "s", "p"), Item("3", "c", "", "q"), Item("4", "d", "", "r"),
                     Item("5", "e", "", "Inbox")>>,
         notes |-> <<[item |-> "1", content |-> "n"]>>]],
     [tool |-> "deck", input |->
        [title |-> "deck", labels |-> <<"red">>, stacks |->
            <<[id |-> 1, title |-> "one", cards |->
                <<[id |-> 1, title |-> "a", stackId |-> 1, labels |-> <<"red", "gone">>, duedate |-> "1", commentsCount |-> 2, description |-> "d",
                   comments |-> <<"x", "y">>]>>]>>]],
     [tool |-> "jira", input |-> <<Issue("a", "Open", "", ""), Issue("b", "Open", "Bug", "d"), Issue("c", "Done", "Bug", "")>>],
     [tool |-> "jira", input |-> <<Issue("a", "Open", "", ""), Issue("b", "Open", "Bug", ""), Issue("c", "", "Task", "d")>>],
     [tool |-> "jira", input |-> <<Issue("a", "Open", "", "")>>],
     [tool |-> "notion", input |->
        [columns |-> <<"Status">>, rows |-> <<[title |-> "a", values |-> ("Status" :> "x")], [title |-> "a", values |-> ("Status" :> "")],
                                             [title |-> "b", values |-> ("Status" :> "x")]>>, markdown |-> ("a" :> "n")]],
     [tool |-> "trello", input |-> Trello], [tool |-> "webTrello", input |-> Trello]}
VARIABLES file, step, asking, accounts, memberIds, newUsers, downloaded, archive, inviting, onBoard, onComplete
importState == <<file, step, asking, accounts, memberIds, newUsers, downloaded, archive, inviting, onBoard, onComplete>>
I == INSTANCE ImportPage

\* A session: a board of the user's own, one that anyone may join and is published, a
\* private one; someone who manages the system.
FirstAccounts == ("ann" :> "p1") @@ ("bob" :> "p1")
Newcomer == "new"
Passwords == {"p1", "p2"}
Weak == {"p2"}
Admins == {"ann"}
Managers == {"ann"}
FirstMembers == ("m" :> {"bob"}) @@ ("o" :> {}) @@ ("x" :> {"new"})
OpenBoards == {"o"}
SharedBoards == {"o"}
Views == ("m" :> <<"v1">>) @@ ("o" :> <<"v1">>) @@ ("x" :> <<"v1">>)
Categories == <<<<"m", "o">>, <<>>>>
Link(p, board, long) == [page |-> p, board |-> board, view |-> "", long |-> long, back |-> ""]
Links == {Link("board", "", FALSE), Link("board", "o", TRUE), Link("login", "", FALSE), Link("register", "", FALSE),
          Link("workspace", "m", FALSE), Link("shared", "o", FALSE), Link("shared", "x", FALSE), Link("admin", "", FALSE)}
SessionActs == 4
Busy == 1
UnderWay == 3
VARIABLES server, kept, user, where, form, loaded, asks, joining, faults, sessionActs
sessionState == <<server, kept, user, where, form, loaded, asks, joining, faults, sessionActs>>
L == INSTANCE Session

\* The members of a board: I administrate it with another; a guest is
\* not a member.
ShareRoles == ("me" :> "admin") @@ ("you" :> "admin")
ShareRules == [type |-> "private", minimum |-> "none", channel |-> ""]

\* The contents of a card: a row of two columns between two blocks.
FirstOrder == <<[columns |-> FALSE, ids |-> <<"c1">>], [columns |-> TRUE, ids |-> <<"c2", "c3">>], [columns |-> FALSE, ids |-> <<"c4">>]>>
NewContent == "c5"
ContentActs == 4
ContentBusy == 0
VARIABLES order, exist, drag, orders, lastAdded, uploads, flaws, contentActs
contentState == <<order, exist, drag, orders, lastAdded, uploads, flaws, contentActs>>
C == INSTANCE CardContents

\* The boards of a channel: one that I have joined and is not linked, one that is linked to the
\* other channel, one of which I am a member by its channel only.
Channels == {"c1", "c2"}
Linkable(id, channel) == [id |-> id, channel |-> channel, title |-> "first", live |-> TRUE]
FirstBoards == ("l1" :> Linkable("l1", "")) @@ ("l2" :> Linkable("l2", "c2")) @@ ("l3" :> Linkable("l3", "c1"))
Joined == {"l1", "l2"}
Matches == ("all" :> <<"l1", "l2">>) @@ ("l" :> <<"l2">>)
LinkActs == 3
LinkBusy == 1
VARIABLES remote, channelPage, selector, making, awaited, changes, told, written, orderly, linkActs
channelState == <<remote, channelPage, selector, making, awaited, changes, told, written, orderly, linkActs>>
B == INSTANCE ChannelBoards WITH NewBoard <- "l4"

\* The dialog that finds boards.
FindActs == 6
VARIABLES finder, finding, goneTo, hasty, findActs
finderState == <<finder, finding, goneTo, hasty, findActs>>
F == INSTANCE BoardFinder

-----------------------------------------------------------------------------
\* The page that is open begins in any of its initial states, the others in one.
Init ==
    /\ page \in Pages
    /\ V!ViewInit /\ S!SidebarInit /\ SharingInit /\ TourInit /\ C!ContentInit /\ F!FinderInit
    /\ page # "sidebar" => socket.first = 1
    /\ L!SessionInit /\ (page # "session" => server.sessions = {})
    /\ B!ChannelInit /\ (page # "channel" => channelPage.here = "c1")
    /\ DraftInit
    /\ page # "draft" =>
        field = [kind |-> "Text", mayEdit |-> TRUE, auto |-> FALSE, row |-> FALSE] /\ value.here = ""
    /\ I!ImportInit

Next ==
    \/ page = "view" /\ V!ViewNext /\ UNCHANGED <<page, sidebarState, importState, sessionState, sharingVars, tourVars, draftVars, contentState, channelState, finderState>>
    \/ page = "sidebar" /\ S!SidebarNext /\ UNCHANGED <<page, viewState, importState, sessionState, sharingVars, tourVars, draftVars, contentState, channelState, finderState>>
    \/ page = "import" /\ I!ImportNext /\ UNCHANGED <<page, viewState, sidebarState, sessionState, sharingVars, tourVars, draftVars, contentState, channelState, finderState>>
    \/ page = "session" /\ L!SessionNext /\ UNCHANGED <<page, viewState, sidebarState, importState, sharingVars, tourVars, draftVars, contentState, channelState, finderState>>
    \/ page = "sharing" /\ SharingNext /\ UNCHANGED <<page, viewState, sidebarState, importState, sessionState, tourVars, draftVars, contentState, channelState, finderState>>
    \/ page = "tour" /\ TourNext /\ UNCHANGED <<page, viewState, sidebarState, importState, sessionState, sharingVars, draftVars, contentState, channelState, finderState>>
    \/ page = "draft" /\ DraftNext /\ UNCHANGED <<page, viewState, sidebarState, importState, sessionState, sharingVars, tourVars, contentState, channelState, finderState>>
    \/ page = "contents" /\ C!ContentNext /\ UNCHANGED <<page, viewState, sidebarState, importState, sessionState, sharingVars, tourVars, draftVars, channelState, finderState>>
    \/ page = "channel" /\ B!ChannelNext /\ UNCHANGED <<page, viewState, sidebarState, importState, sessionState, sharingVars, tourVars, draftVars, contentState, finderState>>
    \/ page = "finder" /\ F!FinderNext /\ UNCHANGED <<page, viewState, sidebarState, importState, sessionState, sharingVars, tourVars, draftVars, contentState, channelState>>

vars == <<page, viewState, sidebarState, importState, sessionState, sharingVars, tourVars, draftVars, contentState, channelState, finderState>>
Spec == Init /\ [][Next]_vars

\* The filter of a view is the one its reader set last (store/views.ts, smartViewUpdate).
FilterIsMine == page = "view" => V!FilterIsMine
\* A card added to a filtered view shows up in it (cardFilter.ts, propertiesThatMeetFilterGroup).
NewCardShown == page = "view" => V!NewCardShown
\* Each card that a view shows is in one group, and the calculations add up (boardUtils.ts).
GroupsAddUp == page = "view" => V!GroupsAddUp
\* A board is in one category, and a window that is told of all changes shows at last what
\* the server keeps (store/sidebar.ts).
SidebarKept == page = "sidebar" => S!SidebarKept
\* No import loses cards, options, contents, accounts or members (src/import, mutator.ts).
ImportKept == page = "import" => I!ImportKept
\* Who looks at a board is signed in and a member, sees that board, and comes back to it (router.tsx, boardPage.tsx).
SessionKept == page = "session" => L!SessionKept
\* Each content block stands in the card's order exactly once (cardDetailContentsUtility.ts).
ContentsKept == page = "contents" => C!ContentsKept
\* Linking takes nothing back, lists and results are those asked for, and ENTER opens what is
\* selected (boardSelector.tsx, rhsChannelBoards.tsx, boardSwitcherDialog.tsx).
BoardsFound == (page = "channel" => B!ChannelKept) /\ (page = "finder" => F!FinderKept)
=============================================================================
