---------------------------- MODULE BoardFinder ----------------------------
(***************************************************************************)
(* The dialog that finds boards (SearchDialog in BoardSwitcherDialog): the *)
(* results of the last answer, and the one that the keys have selected.    *)
(***************************************************************************)
EXTENDS Integers, Sequences, SequencesExt

CONSTANTS
    Matches,        \* of a query: the boards it finds, in order
    FindActs        \* bound: keys and queries

VARIABLES
    finder,         \* the dialog: query, results, the ids by index, what is selected
    finding,        \* queries that are not answered
    goneTo,         \* history: the board that was opened, and whether it was the one selected
    hasty,          \* history: what the dialog was not made for, since it was opened
    findActs        \* history: how much was done

finderVars == <<finder, finding, goneTo, hasty, findActs>>

Blank == {"", " "}
NotTyped == "none"
Nowhere == [board |-> "none", seen |-> TRUE]
Opened == [state |-> "open", typed |-> NotTyped, query |-> "", isSearching |-> FALSE,
           results |-> <<>>, IDs |-> [n \in {} |-> ""], selected |-> -1]
Acts == finder.state = "open" /\ findActs < FindActs /\ findActs' = findActs + 1

Type(q) ==
    /\ Acts /\ q # finder.typed /\ finder' = [finder EXCEPT !.typed = q]
    /\ UNCHANGED <<finding, goneTo, hasty>>

\* The search begins a moment after the last key; an empty query finds nothing at once.
Searching(q, selected) ==
    [finder EXCEPT !.typed = NotTyped, !.query = q, !.isSearching = q \notin Blank, !.selected = selected,
                   !.results = IF q \in Blank THEN <<>> ELSE @]
\* Mutant: what was selected stays selected.
searchKeepingSelected(q) == Searching(q, finder.selected)
searchHandler(q) == Searching(q, -1)
debouncedSearchHandler ==
    /\ finder.state = "open" /\ finder.typed # NotTyped
    /\ finder' = searchHandler(finder.typed)
    /\ finding' = IF finder.typed \in Blank THEN finding ELSE Append(finding, finder.typed)
    /\ UNCHANGED <<goneTo, hasty, findActs>>

\* The results are on the screen while there is a query, also one of blanks; the dialog
\* breaks when the one that gets the focus is not.
Rendered == IF finder.query = "" THEN {} ELSE 0..(Len(finder.results) - 1)
Broken == [Opened EXCEPT !.state = "broken"]

\* An answer, found or refused, replaces the results.  The ids of what was found before stay
\* behind it; those found now give the focus to the selected one before they are rendered.
setResults(items) ==
    IF items = <<>> \/ finder.selected \in {-1} \cup (Rendered \cap 0..(Len(items) - 1))
    THEN [finder EXCEPT !.results = items, !.isSearching = FALSE,
                        !.IDs = [n \in 0..(Len(items) - 1) |-> items[n + 1]] @@ @]
    ELSE Broken
Answer(i, items) ==
    /\ finder.state = "open" /\ finding' = RemoveAt(finding, i)
    /\ finder' = setResults(items)
    /\ hasty' = hasty \cup (IF finder.selected > -1 /\ items # finder.results THEN {"replaced"} ELSE {})
    /\ UNCHANGED <<goneTo, findActs>>

\* UP, DOWN and ENTER, also on the results of the query before, and on those that are
\* answered when the query is empty again.
handleUpDownKeyPress(n) ==
    /\ Acts /\ n \in 0..(Len(finder.results) - 1) /\ n \in {finder.selected - 1, finder.selected + 1}
    /\ finder' = IF n \in Rendered THEN [finder EXCEPT !.selected = n] ELSE Broken
    /\ hasty' = hasty \cup (IF finder.query = "" THEN {"cleared"} ELSE {})
    /\ UNCHANGED <<finding, goneTo>>
IsSeen == finder.selected < Len(finder.results) /\ finder.IDs[finder.selected] = finder.results[finder.selected + 1]
selectBoard(board, seen) == goneTo' = [board |-> board, seen |-> seen]
handleEnterKeyPress ==
    /\ Acts /\ finder.selected > -1 /\ selectBoard(finder.IDs[finder.selected], IsSeen)
    /\ finder' = [Opened EXCEPT !.state = "closed"] /\ finding' = <<>>
    /\ UNCHANGED hasty
ClickResult(i) ==
    /\ Acts /\ finder.query # "" /\ selectBoard(finder.results[i], TRUE)
    /\ finder' = [Opened EXCEPT !.state = "closed"] /\ finding' = <<>>
    /\ UNCHANGED hasty
Close ==
    /\ Acts /\ finder' = [Opened EXCEPT !.state = "closed"] /\ finding' = <<>>
    /\ UNCHANGED <<goneTo, hasty>>
Open ==
    /\ finder.state = "closed" /\ findActs < FindActs /\ findActs' = findActs + 1
    /\ finder' = Opened /\ goneTo' = Nowhere /\ hasty' = {} /\ UNCHANGED finding

FinderInit == finder = [Opened EXCEPT !.state = "closed"] /\ finding = <<>> /\ goneTo = Nowhere /\ hasty = {} /\ findActs = 0
FinderNext ==
    \/ Open \/ debouncedSearchHandler \/ handleEnterKeyPress \/ Close
    \/ \E q \in DOMAIN Matches \cup Blank : Type(q)
    \/ \E i \in DOMAIN finding : Answer(i, Matches[finding[i]]) \/ Answer(i, <<>>)
    \/ \E n \in 0..Len(finder.results) : handleUpDownKeyPress(n)
    \/ \E i \in DOMAIN finder.results : ClickResult(i)

\* Unless other results took the place of those among which one was selected, or a key was
\* pressed on results that an empty query hides, ENTER opens the board that is selected on
\* the screen, the dialog does not break, and nothing is selected that is not shown;
\* whatever was pressed, a search that is over says so.
FinderKept ==
    /\ hasty = {} => /\ finder.state # "broken" /\ goneTo.seen
                     /\ finder.selected > -1 => IsSeen
    /\ finder.isSearching => finding # <<>>
=============================================================================
