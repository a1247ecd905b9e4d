# Focalboard in TLA+

Focalboard is a board and card application: a Go server with an SQL store, a
REST API and websockets, and a TypeScript web client.  This directory holds
TLA+ models of the parts in which order, overlap and failure decide whether the
program is right, TLC runs that check them on small instances, and theorems
that TLAPS checks for every instance.

    tlc -config CallbackQueue.cfg CallbackQueue.tla     one run (see "Runs")
    tlapm CallbackQueueProofs.tla                       the proofs of a module

An operator whose comment starts with "Mutant:" is not part of a model.  It is
a plausible mistake in the operator that follows it; with the operator's body
replaced by it, TLC finds one of the properties violated.  That is how each
property was shown to depend on the code (`PROJECT.json`, "mutants").

## 1. Inventory

| Component | State | Operations | What is hard |
|---|---|---|---|
| Callback queue, `server/utils/callbackqueue.go` | buffered channel, two signalling channels, the flag `idone` | Enqueue, Shutdown, ten worker goroutines | callers, workers and Shutdown race; expiry of Shutdown's context; panics |
| Block and board store, `sqlstore/blocks.go`, `board.go` | tables boards, blocks and their histories | insert, patch, delete, undelete | several statements per call, without a transaction on SQLite; trees restored from a log |
| Board members, `app/boards.go`, `sqlstore/board.go` | board_members and its history | add, join, update, leave, remove | read, check and write are separate statements |
| Websocket server, `server/ws/server.go` | sessions; listeners by team and by block | authenticate, (un)subscribe, broadcasts | broadcasts read the maps without the mutex; sessions break at any time |
| Websocket client, `webapp/src/wsclient.ts` | subscriptions with reference counts, queue of updates, reconnection | open, subscribe, handle messages | lost connections, debounce, missed changes |
| Client stores, `webapp/src/store/` | boards, cards, contents, members, views | update from a broadcast or a response | broadcasts and answers out of order |
| Mutator and undo manager, `webapp/src/mutator.ts`, `undomanager.ts` | undo stack, index, open group | perform, undo, redo | awaits between the commands of a group; other users' edits in between; patches from an old copy |
| Editing components, `components/cardDetail`, `table`, `kanban`, `viewHeader` | none of their own beyond the page's copy | call the mutator, alone or in groups | several calls from one copy of the board |
| Views, `cardFilter.ts`, `store/cards.ts`, `boardUtils.ts`, `calculations.ts` | the filter and order of a view, the search field | filter, sort, group, count, add a card that fits | filters are the reader's own, the view is shared; deleted options; empty values |
| Sidebar and categories, `store/sidebar.ts`, `components/sidebar`, `app/category*.go` | categories and the boards in each, per user, at the server and in each window | create, rename, delete, drag, hide | optimistic changes, debounced broadcasts, two windows |
| Sharing dialog and permissions, `shareBoard.tsx`, `permissions.tsx`, `store/boards.ts` | members, roles, minimum role, link | add, change, remove, publish | two administrators; what the page permits and what the server grants |
| Sessions and routes, `store/users.ts`, `pages/`, `router.tsx`, `boardPage.tsx` | token, who is signed in, the route, last board and view | sign in, up and out, open, join | late answers for a page that was left |
| Onboarding tour, `onboardingTour/`, `tutorial_tour_tip/` | category and step, in the store and at the server | next, previous, skip, hide | several effects save steps; every answer replaces the configuration |
| Fields, `widgets/editable*.tsx`, `properties/`, `cardDetail`, `comments` | a draft in each field beside the value of the store | focus, type, save, cancel | what leaves the field saves or not; the stored value moves under the draft |
| Contents and attachments of a card, `cardDetailContents*`, `attachment*` | rows and columns of blocks; uploads | drag, add, delete, upload | coordinates taken before a row disappears; whole orders sent |
| Boards of a channel, `mattermost-plugin/webapp/src/components` | the list, the dialog's query and results | search, link, unlink, create | answers after the channel or the query has changed |
| Board finder, `boardSwitcherDialog.tsx`, `searchDialog` | results, ids by index, the selection | type, UP, DOWN, ENTER | keys on the results of the search before |
| Importers, `import/`, `webapp/src/import` | maps from ids of the other program | convert a file; register and invite members | values lost on the way; refused registrations |
| Subscription notifications, `services/notify/notifysubscriptions/` | hints, `notified_at` per subscriber | block changed, the notifier's loop | timers, a lossy signal, crashes between removal and delivery |
| Mention notifications, `notifymentions/` | none | block changed | delivery is external |
| Boards and blocks in one call | none of its own | create, patch, delete a group | partial failure between store and broadcasts |
| Plugin adapter and cluster, `ws/plugin_adapter*.go` | connections of the Mattermost edition | connect, reconnect, cluster messages | stale connections |
| Archives, files, templates, cloud limits, migrations, API, life cycle | files, schema | | data formats and I/O |

How they interact.  On the server a request handler of the API checks
permissions and calls the app; the app calls the store, then hands a callback to
the callback queue; a worker of the queue runs it, which calls the websocket
server's broadcast and the notification services; the broadcast asks the store
for the board's members and writes to the sessions it finds.  In the browser a
component reads its copy of the board from the Redux store and calls the
mutator, which sends a patch and registers the change with the undo manager; the
answer, and the broadcast, reach the store in either order, and the components
that are mounted see the new copy.  Nothing but the database and the browser's
localStorage is persistent, and no lock spans two components, so every arrow of
this chain is a place where something else may happen first.

What makes each of them correct: callbacks start in the order in which they
were accepted and Shutdown leaves no thread running; the live tables and the
history agree and a deletion can be undone; a board keeps an admin; a session
gets exactly the messages it is entitled to and leaves no trace when it ends;
clients end up with what the server holds, and are told when they do not;
undoing takes a board back to what it was, by whole groups; a patch touches what
the user changed; a view shows each card that fits, once; a window ends up with
the categories, the members, the boards and the step of the tour that the server
has; what was typed is kept and what was cancelled is not.  `PROJECT.json` lists
the hazards at their lines, with the properties that cover them or the reason
why none does.

## 2. Modules

`SequenceLemmas` holds the facts about sequences that several proof modules need.

### CallbackQueue (CallbackQueueProofs)

State: `queue` is the buffered channel, `sendq` the senders parked on it in the
order of the Go runtime, `done` and `alive` the two other channels, `idone` the
atomic flag; `caller`, `worker` and `closer` are where each goroutine is,
`running` what it executes; `accepted` and `started` record the order of
events, `reaped` and `expired` are Shutdown's count and its context.  One action
is one step that is atomic in Go: a load or compare-and-swap, a send, a receive,
a close.  A receive from a full channel also moves the first parked sender's
value into the buffer, as the runtime does.  `select` with several ready cases
chooses any of them, so a worker may exit while callbacks are waiting and leave
them to the drain of Shutdown.

### BlockStore (MCBlockStore, BlockStoreProofs)

One action is one SQL statement of insertBlock, insertBoard, patchBlock,
deleteBlockAndChildren, deleteBoardAndChildren, undeleteBlock, undeleteBoard and
their `...Children` helpers; boards and blocks share them, as the Go functions
are the same text over two pairs of tables (the map names the block functions).  The one
difference that matters is kept: undeleteBoard brings a board back without the channel
it was linked to (`Unlinked`).
`row` is the live table, `history` the log, of which the model keeps the newest
version of an entity and the newest under each parent it had: the only ones that
the modelled queries can return.  `call` is the program counter of a request.  `trash` is a history
variable: what each deletion took away, as long as nothing else wrote it.  With
one process the calls run one after the other, which is what serializable
transactions give; with two they interleave at statements, which is what
`public_methods.go` does on SQLite.

### BoardMembership (MCBoardMembership, BoardMembershipProofs)

One action is one statement of AddMemberToBoard, UpdateBoardMember and
DeleteBoardMember with saveMember and deleteMember, for any number of requests
at once: the app's first read, the read of isLastAdmin, saveMember's second
read, the upsert, the DELETE, and the entry in board_members_history.  `raced`
is a history variable: two calls overlapped that write no admin role, for two
different users.  `mixed` says the same of two calls about one user.

### WsServer (MCWsServer, WsServerProofs)

A session's goroutine reads one command at a time.  What a command does under
`ws.mu` is one action per map entry, because broadcasts look at the maps
without the mutex and so see every step.  A broadcast reads the members from the
store, looks up the listeners member by member and then block by block, and
writes to them one at a time.  Reading a map while it is written is a data
race: the reader sees the map before or after the write, or the runtime ends
the process (`Crash`).  The broadcast of a change of a block is for the listeners of the
block and of its parent; that of a deletion is made up from the id alone, without a
parent, and is for those of the block only (`BroadcastBlockChange`,
`BroadcastBlockDelete`).  `due` and `heard` are history variables: the sessions
entitled to the message since the broadcast began, with the way in which they are (by
team, by the block, by its parent), and the users who were members, or addressed, at
some time of it.
BroadcastConfigChange is left out because the standalone server never calls it.

### ClientSync (BlockSlices, WsQueue, Selection, MCClientSync, ClientSyncProofs)

How a change of a block reaches the page of another user.  A browser is one
thread, so an action is one callback of it: the socket's onopen, onclose and
onmessage, the timers of the batch, of the reconnection and of the banner, the
answer to a load, the effects that follow a move to another board.  `WsQueue` is
queueUpdateNotification; `BlockSlices` has the reducers of the slices, with
their `return` out of a loop, their two copies of a block (by id and in the list of
its card, which is what the page reads) and the cards that a deletion leaves behind;
`Selection` is Array.filter.  The loops are recursive functions over the rounds, so
that they can be reasoned about.  The server
is external: it keeps `rows`, hands each change to an `outbox` from which the
threads of its pool broadcast in any order, and serves the subscribe and unsubscribe commands.
A deletion is broadcast without a type, so the filter of the contents lets every deletion
pass, and one of a block that the slice does not know ends its loop.
`missed` is a history variable with the blocks to whose last change one of three things
happened: no broadcast of it reached the client, which was not connected or not subscribed;
a reducer did not bring it to its list (`LeftOut`); or an older version, of a broadcast that
was overtaken or of a load, was stored after it, which `given` tells, the version that the
store was last given.  No reducer compares versions, so the last is what the code does.

### Editing (Patches, Mutator, UndoManager, UndoHistory, BoardEditing, MCBoardEditing, UndoManagerProofs)

`Patches` has the documents and createPatchesFromBlocks; `Mutator` one operator
per method of the mutator, whose value is the command that the method hands to
perform: the requests of redo and of undo.  `UndoManager` is undomanager.ts, on
its own a specification.  A command of an undo or redo that has run resets `isExecuting`
(`UndoExecuted`, `RedoExecuted`); the continuation of undo() or redo(), a step of its own,
moves the index and begins the next command of the group or ends (`EndUndo`,
`EndRedo`).  A change may be registered between the two; `slipped` is a history variable
that says that the last one was.  `Editing` composes them: `calls` are performs whose
requests are not all answered, `script` the callback of a component that awaits them, `doc` and
`seen` the server's board and the page's copy.  The continuation runs in the turn of the event
loop in which the command ended, so no event of the user comes in between, but what another
call awaited may (`InTurn`).  `BoardEditing` has the callbacks
of the components.  `calm` is a history variable: until now the user waited for
each change, nothing failed and nobody else edited; `theirs` the fields that the
other user was the last to set.

`UndoHistory` is the abstract specification: a list of the groups of the changes
and a position that moves over one whole group.  UndoManager implements it with
`History == INSTANCE UndoHistory WITH ...`, where the position of an undo that
is in progress is the one at which it began; `UndoesWholeGroups` is that refinement, for
all steps but those around a change that slipped.

### The pages of the web application (MCWebApp)

MCWebApp has a module for each page (Drafts, Tour and Sharing it extends, the others
are instances) and is at one of them, `page`, while the state of the others rests: the pages share code, not state that matters
here, and a product of their states would show nothing.

* **ViewPage**, with `CardFilter`, `CardOrder` and `Calculations` for the pure
  functions: the cards that a view shows, in which order and groups, and the
  numbers at the columns; the menus that change the filter, which is kept in the
  reader's copy of the view; other users' changes to the view, the board and the
  limit; a card that is added and must fit.
* **Sidebar**: `srv` are the server's tables, `lists` the categories of each of
  two windows of one user, `calls` chains of requests, `news` and `updated` the
  broadcasts on their way and collected.  The server sends them to the first session
  that it finds of the user; `socket` says which window that is and which was not told.
* **ImportPage** with `Converters`: a tool's converter as a function from a file
  to the lines of an archive, each run on a file; in the web application the members
  of a Trello board, registered all at once and invited after the upload, with answers
  that are lost after the account was made.
* **Session**: the server's passwords, sessions and members; the browser's token,
  last board and last view; the store's user; the route; requests that are answered in any
  order, also after the page that sent them was left.
* **Sharing** (WebAppProofs): the members' dialog and the person property, the requests (sent,
  served, answered) and the broadcasts, while another administrator changes the members, the
  board and the public link.  `known.least` is the minimum role that each member came with,
  which a broadcast does not tell; `relinked` says that the link was changed by another since
  I did.
* **Tour** (WebAppProofs): the preferences at the server and in the store, the screens and the
  tips that each shows, the requests that save a step.
* **Drafts** (WebAppProofs): one field, of any of the kinds that the application has, its draft and the
  value of the store; what saves, what cancels, what unmounts it.
* **CardContents**: the rows and columns of a card under drags, additions and
  deletions, each sending a whole order; attachments and their placeholders.
* **ChannelBoards**: the list beside a Mattermost channel, the dialog that links
  boards to it, the board of a new channel.
* **BoardFinder**: the results of the last search and the one that the keys
  select, which may be one that is not on the screen.

Much of this code is wrong when two things overlap, and says so nowhere.  Such
behaviour is in the models; a property about what happens otherwise then
names the case in a history variable (`overtaken`, `blemish`, `faults`,
`mishaps`, `troubles`, `flaws`, `orderly`, `hasty`) that becomes true at the
overlap and excuses what follows.  Section 4 lists what these variables stand for.

## 3. Runs

| Run | Instance | Shows |
|---|---|---|
| `CallbackQueue.cfg` | 3 callbacks, 2 workers, 2 Shutdown calls, buffer of 1 | `TypeOK`, `ExecutedInOrder`, `BoundedOvertaking`, `RunOnce`, `QuietAfterShutdown`, `DrainedOnReturn`, `AcceptedFinishes`, `ShutdownCompletes` |
| `CallbackQueueLate.cfg` | the same | violated: `AcceptsNothingAfterShutdown` |
| `BlockStore.cfg` | 1 board that is linked to a channel, 2 cards, 1 content block that moves between the cards, 2 titles, 1 process | `TablesAgree`, `BlockHasBoard`, `UndeleteRestores` |
| `BlockStoreOverlap.cfg` | the same with 2 processes, 1 title | violated: `DeletedCanBeUndeleted` |
| `BoardMembership.cfg` | 3 users, 2 requests | `TypeOK`, `AdminRemains`, `HistoryAgrees` |
| `BoardMembershipRace.cfg` | the same | violated: `NeverWithoutAdmin` |
| `WsServer.cfg` | 2 sessions, 2 users, 1 team, a card and a text in it | `MapsAgree`, `MeantForThem`, `StayersServed` |
| `WsServerLive.cfg` | 2 sessions, 1 user, 1 team, no block | `BroadcastEnds`, `DeadSessionsLeave` |
| `WsServerRace.cfg` | the same without the text | violated: `NeverCrashes` |
| `ClientSync.cfg` | 2 boards in 2 teams; a card, a content block and an attachment | `CaughtUp`, `ListensToItsTeam`, `OutageIsReported` |
| `BoardEditing.cfg` | 5 parts of the work on a board, each with its own first board | `TypeOK`, `NoHalfGroup`, `UndoRestores`, `ValuesFitType`, `ColumnsApart`, `PrimitivesKept`, `UndoesWholeGroups` |
| `WebApp.cfg` | ten pages, one at a time | `FilterIsMine`, `NewCardShown`, `GroupsAddUp`, `SidebarKept`, `ImportKept`, `SessionKept`, `SharingKept`, `TourKept`, `DraftsKept`, `ContentsKept`, `BoardsFound` |

The largest take two to four minutes with two workers; BlockStore has 2.2 million states, the
websocket server 2.2 million, ClientSync 1.8 million, BoardEditing 2.3 million, the web
application 2.1 million: view 33,000, sidebar 17,000, imports 170, session 430,000,
sharing 700,000, tour 56,000, drafts 100,000, contents 220,000, channel 580,000, finder
4,200.

### Bounds

The models of the server have no bound but their constants, and in WsServer that the
text is subscribed to, or changed, only while both sessions are readers of a shared board, who
are never members (the constraint `Few`).  With three
callbacks, two workers and a buffer of one, a sender parks while both workers
are busy and another callback waits, and Shutdown finds any of them in any
state; a second Shutdown shows the compare-and-swap.  With two cards and a block
that moves between them, versions of one block exist under two parents and its
deletion, restoration and the board's meet at every level.  Three users and two
requests are the smallest in which a demotion can rely on an admin whom the
other call removes; a third request adds no new pair.  Two sessions of one user,
of two users or not authenticated contend for the mutex and for a broadcast; the
liveness run leaves blocks out, whose subscriptions take the same locks.

A user of the client may go on for ever, so these models count what is done and
stop.  Answers, timers and broadcasts are not counted: what has begun can come
to its end, in every order.  The one exception is `UnderWay` of the session.

* ClientSync: `MaxEdits` = 2 changes (the fewest of which one can overtake the
  other), `MaxLoads` = 2 loads at a time, `MaxFrames` = 2 commands on the
  connection, `MaxRetries` = 1 (the code's last attempt differs from the first
  only in being the last).
* BoardEditing: `MaxSteps` = 2 callbacks of the user, so that a change follows
  another one or falls between the requests of its undo; undo and redo are not
  counted.  In the part "haste", `Busy`, up to two changes overlap, `MaxFaults` = 1 request
  is rejected and `MaxOthers` = 1 change is another user's; in the other parts the
  user waits until a change is shown.  `Pool` is the ids that
  the server can give.
* View: `MaxActs` = 3.  The header that mounts adds two clauses, which is not
  counted; then a clause is set, a card added, and another user, or the reader,
  changes something before or after it.
* Sidebar: `SidebarActs` = 2, the first pair that can overtake one another.  The windows are told
  apart by `socket`: in the first states the server finds either of them first.
* Session: `SessionActs` = 4 (a link, a login, a board and one more), `UnderWay` =
  3 requests at a time, because a session that has ended loads again and again;
  the user waits for all but `Busy` = 1 of them.
* Sharing: `SharingActs` = 3, a change of mine between two of another administrator, with
  `Crowd` = 1 request under way when the next begins.
* Tour: `TourActs` = 6, which reaches the card's part and its end; `TourBusy` = 1 request is
  under way when the user goes on, and nothing is begun once a request was overtaken
  or out of date.
* Drafts: `DraftActs` = 5: focus, type, another user, type again, leave; `DraftBusy` = 1
  save is under way when another begins.
* CardContents: `ContentActs` = 4, a drag into columns, out of them, and what
  follows; `ContentBusy` = 0: the user acts when the last order has been sent.  An
  order that another user sends overlaps all the same.
* ChannelBoards: `LinkActs` = 3 and `LinkBusy` = 1; once an answer was late or
  refused nothing more is begun.  One team; I administrate the boards that I
  have joined and may post in the channel; which boards a query finds is fixed.
* BoardFinder: `FindActs` = 6.
* In the first states cards lack a value; the files of the importers have empty
  values, in front and behind, repeated names, and references to things that are not there.

On the pages for the session, the sharing, the tour, the contents and the
channel nothing more is begun once something happened that the history variable
records and the property excuses: what is under way then still ends.

`BoardMembership.cfg` and `WsServer.cfg` use symmetry, over what is
interchangeable, with safety properties only.

Deadlock is checked in the store and member runs.  It is not in the runs of
CallbackQueue, where all goroutines end after Shutdown, of WsServer, where the
process may be gone after `Crash`, and of the client, whose user may stop.

### Fairness

CallbackQueue: weak fairness for each step of a worker and of Shutdown.  The Go
scheduler runs a goroutine that can run; channel operations that are possible
are carried out, parked senders in their order; a caller that has begun to send goes
on.  Nobody has to call Enqueue or Shutdown, and the context may never expire.  A
callback is assumed to return.

WsServer: weak fairness for the statements of a goroutine that holds the mutex
and for the broadcast in progress, strong fairness for a closed session to take
the mutex, because `sync.RWMutex` does not starve a waiter and the frames left
in a read buffer come to an end.  A write to a socket is assumed to end; the
code sets no deadline for it (see the hazards).

ClientSync: weak fairness for the timer that reopens the connection, for an
attempt to end, opened or refused, and for the banner's timer when no attempt
will follow.  That is what a browser does.  The timer is started again by every
failed attempt, so fairness while attempts go on would assert what is to be
shown.

The other modules have safety properties only.

## 4. What the runs found

The four violated runs:

* An Enqueue that has read `idone` before Shutdown is accepted after Shutdown
  returned true, and its callback never runs (`callbackqueue.go:50`).
  Also, a second Shutdown returns true at once, while the first still waits
  (lines 54-57); `QuietAfterShutdown` is about the call that closed the pool.
* On SQLite a deletion that overlaps a patch of the same block can leave a block
  that is gone and cannot be undeleted: the newest version says it is live.
* Two admins who leave, or are removed or demoted, at the same time each pass
  isLastAdmin and leave a board with no admin.
* Broadcasts read the listener maps without `ws.mu`.

Behaviour of the server that the models have and that no comment, test or document
contradicts; the properties state it as it is:

* A board that was linked to a channel comes back from a deletion without the link
  (`sqlstore/board.go:855-873` writes an empty `channel_id` into the row and the history):
  `UndeleteRestores` says `Unlinked`, and everything else as it was.
* The broadcast of a deleted block has neither parent nor type (`ws/server.go:517-526`).
  Who subscribed to the parent is told of a change but not of a deletion: `StayersServed`
  asks for the block's own subscribers, and for the parent's only if the block is
  changed.
* The categories, their boards and their order are broadcast to the first session that the
  server finds of the user (`ws/server.go:470-477`, 575, 598, 621, 644): the other window of the
  same user shows the old ones until it loads them again (`SidebarAgrees`, `socket.missed`).
* A member that is broadcast has no minimum role (`api/members.go:158`, 428), so a row of
  the dialog shows the member's own role even if the board raises it
  (`userPermissionsRow.tsx:42-45`), and the sharing of a board is never broadcast
  (`shareBoard.tsx:247` loads it when the dialog is mounted), so that the link of an open
  dialog may be dead: `Agrees` says exactly which role and when the link is right.

Behaviour of the client that the models have, and that the properties exclude by
name, because no comment, test or document promises otherwise:

* The reducers of contents, comments and attachments leave their loop with
  `return` when they have dealt with one kind of change: the rest of the batch is
  not applied (`missed` in ClientSync).  As a deletion arrives without a type, that of a card, a
  comment or an attachment passes through the contents too and ends their loop.
* No reducer compares versions: a load that was answered before a change, or a broadcast
  that was overtaken, puts the older version over the newer (`missed`).
* Between the end of an undone command and the continuation that moves the index
  `isExecuting` is false (`undomanager.ts:60`, 143, 172).  A change that is registered there cuts
  off the undone commands, and the continuation then counts on the index it left: an undo
  counts the command it undid as done, a redo leaves the index one above the list.  The
  next change puts it right (`slipped`).
* The undo of a duplicated card takes what the redo returned, a pair of the blocks and the
  new id (`mutator.ts:1055`), for the blocks, and asks for the deletion of the block
  `undefined` (1059): the copy stays, and a redo makes one more.  The test of such undos
  (`undoManager.test.ts:76`) has a redo that returns one block.  `UndoRestores` says that all but
  the copies is restored.
* A Trello import returns the passwords of the accounts it made only when all went well: after a
  registration without an answer, or an upload that fails, they are lost
  (`mutator.ts:1240-1259`).  `MembersKept` claims them for an import that is answered, also
  with a refusal.
* A new version of an attachment that its card's list has replaces the copy by id and not
  the one in the list, which is the one the page reads (attachments.ts:21-46; also `missed`).
* A patch of a card has only the fields that differ, but "properties" and
  "contentOrder" are fields, sent as a whole: another user's value of another
  property is sent back as it was.  `PrimitivesKept` is about the other
  fields; `flaws` in CardContents has the orders made from an old one.
* A rejected request leaves `isExecuting` set; nothing is undone or registered
  from then on.
* A card that was being added brings back the view as it was before
  (`overtaken`).
* Dragging in a category counts the visible boards only, so with a hidden one the
  board lands elsewhere; a template that is made of a board is put into a category of
  the window alone; two changes that overlap replace each other's order
  (`blemish`).
* Answers are not matched with what asked for them: the store of the
  members, the searches of the channel's dialog, the configuration of the tour
  and the blocks of a board are those of the answer that came last (`mishaps`,
  `orderly`, `troubles`, `faults`).
* A removed member leaves the dialog even if the server refuses the removal.
* The dialog of the person property that asks whether to add someone stays open, with the role
  picked, when my rights or the board's minimum role change under it: what it then asks
  may be refused, and counts as "raced".
* The backdrop of a tip saves a step without its category; that the request is
  served before another one is not ensured.
* Some fields take the value of the store once, when they are mounted, and save
  it when they are left: `DraftsKept` claims "sends only what was typed" of those
  that follow the store.  The validators of e-mail addresses and numbers look at the
  stored value, not at the draft.
* DOWN and ENTER while a search is under way work on the results before it: ENTER
  can open a board that is not on the screen.  The dialog breaks in two cases (`hasty`): an answer
  has fewer results than the selection ("replaced"); and a key is pressed on results that an
  emptied query hides, "cleared": the empty search ends at once, the answer of the one before
  sets the results (`searchDialog.tsx:75`), which are not rendered (129) but selected all the same
  (81-87), and the effect of `boardSwitcherDialog.tsx:103-106` reads a reference never set.
* The Jira importer compares an index in the list without empty values with one in the list
  that has them (`jiraImporter.ts:190-192`): behind an empty value, a value gets no option, or the
  one of a later repetition, though only duplicates were to be removed.  `JiraValuesKept` names
  the case.
* The comments on Trello cards of closed lists are imported without a card
  (`OnSkippedCard`).

## 5. Proofs

Each theorem is about the specification that the runs check, for every value of
the constants that the module's named assumption allows.  The inductive
invariants were checked by TLC on the runs' instances before they were proved.

**CallbackQueueProofs** (all sets of callbacks and closers, every
finite set of workers, every buffer size in Nat \ {0}).
`QueueInv` is inductive: the types, `OrderInv`, `ShutdownInv`, `SentOnce` and `RunInv`.

* `TypeCorrect`: `TypeOK` is inductive.
* `OrderCorrect`: `[]ExecutedInOrder`.  `accepted = started \o queue \o sendq`
  needs the fact that senders are parked only while the buffer is full; otherwise a
  send into the buffer would overtake them.  `AppendRight`, `MoveTwo` and `MoveOne` (of
  SequenceLemmas) say what the channel operations do to a concatenation.
* `QuietCorrect`: `[]QuietAfterShutdown`.  Shutdown returns true only after it
  has counted as many exit reports as there are workers.  `ShutdownInv` has two
  parts.  `OneWinner`: at most one Shutdown call wins, and it wins by raising
  `idone`.  `PoolLeft`: every worker whose report is in `alive` or was taken into
  `reaped` has exited, and the winner reaches the drain, and returns true, only when
  `reaped` holds every worker.
* `RunOnceCorrect`: `[]RunOnce`.  A receive starts something that was never
  started only because no callback was accepted twice (`SentOnce`) and the order of
  acceptance is kept; and no two goroutines run the same one (`RunApart`).
* `OvertakingBounded`: `[]BoundedOvertaking`.  Follows from the count in `RunOnce`
  and from `ShutdownInv`: once Shutdown runs a callback itself, every worker has
  exited (`BusyBound`).
* `DrainedCorrect`: `DrainedOnReturn`, an action property.  At the step that
  returns true the buffer is empty and, as nobody is parked unless it is full, what was
  accepted is what was started; nothing runs, so it has finished.

**BlockStoreProofs** (all boards, blocks, parents and titles).  The theorems have the
hypothesis `OneAtATime`, that there is one process: calls that follow each other, which is
what a serialized transaction gives.  It is needed: the run
`BlockStoreOverlap.cfg` shows what two processes do.  `Recalls` compares a version of the log
with what a deletion took away: the same, or without the channel (`UnlinkedRow` says that
losing it twice changes nothing).  `StoreInv` says, for each
statement of each call (`Stage`), exactly which rows are not yet what the history
says (`SyncedBut`) and which board is going (`HousedBut`); `HistoryInv` that a
version under an old parent is never a deletion, without which an
undelete would restore blocks that were moved away; `TrashInv` and `RestoredInv` what
the last deletion of an entity removed.

* `TablesCorrect`: `[]TablesAgree`.
* `HousedCorrect`: `[]BlockHasBoard`.
* `UndeleteCorrect`: `UndeleteRestores`, an action property.  What is in the trash of an
  entity is either found by the query of undeleteBlockChildren (`RemovedFound`) or already
  live.  The case of an undelete that finds its entity live already needs `RestoredInv`.

**BoardMembershipProofs** (all sets of users and request handlers; the only
assumption is that the creator is a user):

* `TypeCorrect`: `TypeOK` is inductive.
* `AdminCorrect`: `[]AdminRemains`.  `HasAdmin` alone is not inductive: a call
  that has passed its check will write later.  `IInv` adds, while no race was
  recorded: all calls in progress that write no admin role are about the same
  user (`OneDemoted`), each of them that is past its check knows of another
  admin (`BackedUp`), and only deletions reach the DELETE (`EraseByDelete`).
  `QuietIInv` covers the steps that leave the table alone, `WriteIInv` those that
  write it, `StartIInv` a new call.
* `HistoryCorrect`: `[]HistoryAgrees`.  `HistoryInv` adds what the one call about a
  user knows of the row at each of its statements (`KnowsRow`), and that the history
  disagrees only while its entry is the next statement.

**WsServerProofs** (all sets of sessions, users, teams and blocks).  `Without`, the
loop that removes a listener from a slice, is a recursive function: that the recursion
defines one (`RoundsExist`) and what it computes (`WithoutProperties`) is proved by
looking at the least index at which it would fail (`Least`, of SequenceLemmas),
which needs no induction over data.

* `MapsCorrect`: `[]MapsAgree`.  `MapsInv` adds that only the holder of the mutex has something to do under
  it (`Exclusive`), and that what it has to do fits the lists (`JobFits`): without them
  a second session could write the lists between two entries, or one entry be written twice.
* `MeantCorrect`: `[]MeantForThem`, and `StayersCorrect`: `StayersServed`, an action
  property.  `CastInv` says of the broadcast in progress that every session entitled
  since it began, in one of the ways that there are for this message (for a deletion the
  parent is none), is either still to be found (its member or block has not been looked
  up), or waits to be written to, or was; and that whom it found was a member then.
  A session's user never changes once it is set (`UserKept`), which is why a broadcast
  may look a session up and write to it later.

**ClientSyncProofs** (all boards and teams, every number of commands under way and
attempts):

* `ListensCorrect`: `[]ListensToItsTeam`.  The property only speaks of a connection
  without commands under way.  `ListenInv` speaks of all: `WillServe` is what the server will
  serve when it has read the commands that are on their way, in order, and that is the
  team of the page; and each component of the page counts once in `subs`.  `WillServeAppend` and
  `WillServeTail` say what a command that is sent, or read, changes in it.
* `CaughtUpCorrect`: `[]CaughtUp`, for every set of blocks of every kind.  The property
  speaks of the moment when nothing is on its way, so the invariant `SyncInv` says of every
  other moment that what is on its way makes up for what the store lacks (`Fresh`):
  of a block that is not missed, its last change is still to be broadcast, or on the
  connection, or in the batch, or the store was last given the server's version and shows it.
  Beside that no change on its way, no answer and nothing given is newer than the server's row,
  and of its newest version each says the same (`AllGenuine`, `AllFaithful`), the batch has a block once
  (`Distinct`), and a list of a slice has only blocks of its card that the slice knows, each in
  one version (`SliceOK`): without that a deletion could leave a block in a list.
  `BatchShows` says what a batch of any length makes of the store: a
  reducer's loop is a recursive function, that it computes something is `Iteration`, and
  what it has computed after each round follows by looking at the least round that would
  be different (`Reaches`, both in SequenceLemmas), not by induction over data.

**UndoManagerProofs** (for every set of commands and groups, and every history):

* `UndoTypes`: the index stays within the commands, and after a change that slipped between
  a command and its continuation at most one above them.
* `UndoLeavesNoHalfGroup`: `[]NoHalfGroup`.  The invariant is
  `IInv == TypeInv /\ (~slipped => InPlace)`.  `TypeInv` holds whatever slips: an undo that is to go on
  has a command to step over, a redo the place of one.  `InPlace` adds that an undo has
  come from where it began down through commands of one group, a redo up; a registration
  while a job is in progress gives it up, and the next one without gets it
  back, because it puts the index at the end of the list.
* `UndoRefines`: `UndoSpec => UndoesWholeGroups`.  `InitRefines` maps the initial
  state; `StepRefines` has one step per action: a registration is a change of the
  history, each command that an undo or redo ends and each continuation but the last a stutter,
  as the position that it shows is the one at which it began, and the last continuation moves
  it over the whole group.  A step from or to a state with a slipped change is left out.
  `SameGroups`, `Boundaries` and `GroupsType` state what the commands' groups
  are in the history's terms.

**WebAppProofs** (every kind of field, and every number of acts and of saves under way;
every number of acts in the tour and of requests under way; every team and board; `DraftSpec`,
`TourSpec` and `SharingSpec`, which are what MCWebApp runs on these pages):

* `DraftsCorrect`: `[]DraftsKept`.  The property speaks of what was sent; `DraftInv` says why
  nothing else can be.  `CancelInv`: a text that was cancelled is in the editor again
  only when the server has brought it back, and then only in a field whose draft always is
  the store's value, so that it does not count as changed; no field that saves on Escape
  ever cancels.  `FollowInv`: the draft of a field that follows the store is the store's value or
  was typed.  `DueInv`: what must still be sent is the draft, in a field that has
  the focus.  `SaveFits` and `SaveKeeps` say once what any way of leaving sends, whatever
  the kind of field; each action then has a lemma of its own.
* `TourCorrect`: `[]TourKept`.  The property speaks of a page at rest, or of the server;
  `TourInv` speaks of the requests on their way as well.  `Begun`: a tour that the page or an
  answer takes for begun has begun at the server, and a request for a step alone names a
  step of the category that its page knew; `InPlace`: so the server stands at a step
  of its category until a step is written to another category than the one it was meant for.
  `InStep`: as long as nothing is overtaken, requests are served from the first to
  the last, and the last answer on its way, or without one the page, has the server's place, or
  the page will still ask for it (`WillBeTold`, after a welcome board was made).  The
  actions of the user and of the screens change the tour in one way only, they ask for
  something (`Asks`); serving and answering then have one lemma per conjunct.
* `SharingCorrect`: `[]SharingKept`, where `SharingAssumption` says that I am a member of a board
  that has an administrator.  Of `Agrees`, which speaks of a page at rest, the invariant
  `SharingInv` says what holds before: the last broadcast on its way about a member, or about the
  board, says what the server has, and the page shows it if there is none
  (`NewsTrue`, `MineTrue`); each member's user is in the store or asked for
  (`Loaded`); a list of members that is still fresh is the server's (`FetchTrue`).  It
  claims nothing once I was removed, even before I am told (`Leaving`), because the server then
  stops telling me.  `ShareInv`: one request for the sharing is under way at a time, and without
  one the dialog has the server's, as long as no other administrator changed it (`relinked`).
  `AskedRight`, for `NeverRefused`: a request that is still fresh,
  because nothing was changed since it was asked at rest, is one that the server allows; the
  step that asks takes it from `NewsTrue`, so what the page knows and what the server checks are
  compared there, permission by permission (`RestGrants`).  A last administrator goes by no
  call: those of the dialog and of others end at `LastAdmin`.  `LeastTrue`: the minimum that a
  member came with is none or the board's, unless a broadcast of the board or a load of the
  members is under way: at rest a row shows the role so raised, or the member's own.

Only model-checked, and why:

* Liveness (`AcceptedFinishes`, `ShutdownCompletes`, `BroadcastEnds`,
  `DeadSessionsLeave`, `OutageIsReported`): out of the prover's reach.
* `TypeOK`, `UndoRestores`, `ValuesFitType`, `ColumnsApart` and `PrimitivesKept` of
  BoardEditing: they compare documents that dozens of methods patch, and what each patch
  does to each of them would be a lemma of its own.
* The properties of the other pages of the web application: some compare with what a fold over
  cards or columns computes (`GroupsAddUp`, `ContentsKept`), the others have no invariant
  worked out yet, and the view's filter is recursive (`CardFilter`).
* BlockStore with two processes: there the properties do not hold.

## 6. Not modelled

* **Subscription notifications**: the hints and the loop that delivers them need
  the Mattermost server, and what a lost hint means depends on the wall clock.  The
  hazards are listed.
* **Mention notifications**: a stateless dispatch to back ends.
* **Boards and blocks in one call**: straight-line compositions of the store's
  operations; the client's side of such a call is one request of `Patches`.
* **Plugin adapter, cluster, cloud limits**: only in the Mattermost edition; the
  reliability of its connections is the Mattermost server's.
* **Server life cycle**: straight-line start and stop; the one hard part of it,
  draining the queue, is in CallbackQueue.
* **Database migrations**: run once by a library, under its own lock.
* **REST API**: decoding and permission checks, which are guards of the modules.

Inside the modelled components: SQL errors other than a duplicate key, a crash
between two statements, `file_info`, duplication of blocks, batches, the
default category that the first read makes, the plugin's synthetic members, the payload
of messages; in the client the Mattermost client's connection, notification
settings, language, the gallery and calendar layouts, the export to a table
file, rendering and suggestions; the change of teams beside a channel; the
desktop wrappers, which start the server and a browser.

What could come next, in this order: failing statements and crashes in
BlockStore; the default category made twice by two first reads; the notifier's
loop with a clock that is bounded; proofs about the other pages of the
web application, each by an invariant of its own module.
