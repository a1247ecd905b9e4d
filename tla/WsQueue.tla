------------------------------- MODULE WsQueue -------------------------------
(***************************************************************************)
(* The updates that the websocket client collects before it tells the      *)
(* components (wsclient.ts, queueUpdateNotification).  Every message joins *)
(* the collection and starts the delay again, so that a burst of changes   *)
(* reaches the components as one batch.                                    *)
(*                                                                         *)
(* An entry is a record whose field "id" names the thing it is about.      *)
(***************************************************************************)
EXTENDS Sequences, Functions, Selection

\* Nothing was collected.
NoUpdates == [blocks |-> <<>>, categories |-> <<>>, boardCategories |-> <<>>,
              boards |-> <<>>, members |-> <<>>, categoryOrder |-> <<>>]

Without(entries, ids) == Selected(entries, {e \in Range(entries) : e.id \notin ids})

\* Mutant: what is queued already stays.
RenewNot(entries, e) ==
    IF \E i \in DOMAIN entries : entries[i].id = e.id THEN entries ELSE Append(entries, e)

\* A newer entry about the same thing takes the place of the older one, at the
\* end of the batch.
Renew(entries, e) == Append(Without(entries, {e.id}), e)

\* A category message carries every placement that changed, so it may replace
\* several entries; the order of categories is replaced as a whole.
QueueUpdate(u, type, data) ==
    CASE type = "block"           -> [u EXCEPT !.blocks = Renew(@, data)]
      [] type = "category"        -> [u EXCEPT !.categories = Renew(@, data)]
      [] type = "board"           -> [u EXCEPT !.boards = Renew(@, data)]
      [] type = "boardMembers"    -> [u EXCEPT !.members = Renew(@, data)]
      [] type = "blockCategories" ->
             [u EXCEPT !.boardCategories =
                 Without(@, {data[i].id : i \in DOMAIN data}) \o data]
      [] type = "categoryOrder"   -> [u EXCEPT !.categoryOrder = data]
=============================================================================
