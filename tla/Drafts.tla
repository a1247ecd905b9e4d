------------------------------- MODULE Drafts -------------------------------
(***************************************************************************)
(* The fields of the web application in which a text is edited: each keeps *)
(* a draft of its own beside the value of the store, and saves it when the *)
(* user leaves the field, or when the field is no longer shown.  Another   *)
(* user may change the value in the meantime.                              *)
(***************************************************************************)
EXTENDS Integers, Sequences, SequencesExt

CONSTANTS
    DraftActs,      \* bound: what I and the other user do
    DraftBusy       \* bound: the saves under way when something is done

VARIABLES
    field,          \* the field: its kind, whether it may be edited, was added automatically, is in a row of a table
    value,          \* what the server and the store have
    editor,         \* the component: shown, focused, its draft; the text it was given first
    saves,          \* requests that the server has not seen
    typing,         \* history: what was typed, cancelled and sent, and what must still be sent
    draftActs       \* history: how much was done

draftVars == <<field, value, editor, saves, typing, draftActs>>

\* Texts: what I type, one of them malformed, and what others write; a date may be in its old
\* form, a number. Gone is an element that is deleted, Another one that is added after this one.
Mine == {"mine", "more", "malformed", ""}
Theirs == {"theirs", "old"}
Gone == "gone"
Another == "another"

Titles == {"CardTitle", "RowTitle", "BoardTitle", "GroupTitle"}
Properties == {"Text", "Email", "Number", "Url"}
Editables == Titles \cup Properties \cup {"Checkbox"}
Markdowns == {"Markdown", "Description", "NewText", "Comment"}
Kinds == Editables \cup Markdowns \cup {"Date"}
Is(kinds) == field.kind \in kinds

-----------------------------------------------------------------------------
SaveOnEsc == {"CardTitle", "BoardTitle", "Checkbox"}
SaveWhenClosed == {"CardTitle"} \cup Properties

\* The validators of an e-mail address and of a number look at the value of the card, not at
\* what was typed.
EmailValid == value.here \notin {"", "malformed"}
NumberValid == value.here # "malformed"
UrlValid == editor.draft # "malformed"
Validator ==
    CASE Is({"Email"}) -> EmailValid [] Is({"Number"}) -> NumberValid [] Is({"Url"}) -> UrlValid [] OTHER -> TRUE

\* A date that is saved is always in the new form.
datePropertyToString(t) == IF t = "old" THEN "theirs" ELSE t

\* What a field sends when it is saved with a text.
IfChanged(t) == IF t # value.here THEN <<t>> ELSE <<>>
onEditTitleSave(t) == <<t>>
onDescriptionBlur(t) == <<t>>
onSaveRow(t, saveType) == IfChanged(t) \o (IF t # value.here /\ saveType = "onEnter" THEN <<Another>> ELSE <<>>)
onSaveGroup(t) == IfChanged(t)
onSaveCheckbox(t, saveType) ==
    IF t = "" /\ field.auto THEN <<Gone>>
    ELSE IfChanged(t) \o (IF saveType = "onEnter" /\ t # "" THEN <<Another>> ELSE <<>>)
addTextBlock(t) == IF t = "" THEN <<>> ELSE <<t>>
onCloseDate(t) == IfChanged(datePropertyToString(t))
onSave(saveType) ==
    LET t == editor.draft
    IN  CASE Is({"RowTitle"}) -> onSaveRow(t, saveType)
          [] Is({"GroupTitle"}) -> onSaveGroup(t)
          [] Is({"Checkbox"}) -> onSaveCheckbox(t, saveType)
          [] Is({"BoardTitle"}) -> onEditTitleSave(t)
          [] Is({"Description"}) -> onDescriptionBlur(t)
          [] Is({"NewText"}) -> addTextBlock(t)
          [] Is({"Comment"}) -> <<>>
          [] Is({"Date"}) -> onCloseDate(t)
          [] OTHER -> IfChanged(t)

\* Mutant: leaving with Enter or Escape saves like any other way of leaving.
saveAtAnyBlur(saveType, saveOnBlur) ==
    IF ~Validator \/ (saveType = "onEsc" /\ ~Is(SaveOnEsc)) THEN <<>> ELSE onSave(saveType)
save(saveType, saveOnBlur) ==
    IF ~Validator \/ (saveType = "onBlur" /\ ~saveOnBlur) \/ (saveType = "onEsc" /\ ~Is(SaveOnEsc)) THEN <<>> ELSE onSave(saveType)

-----------------------------------------------------------------------------
\* An emptied title of a group is shown as it was, although the empty one is sent.
AfterSave == IF Is({"GroupTitle"}) /\ editor.draft = "" /\ Validator THEN value.here ELSE editor.draft
Leaves(draft) == editor' = [editor EXCEPT !.focused = FALSE, !.draft = draft]

\* Sends texts, because the field was left or is no longer shown; then nothing is due of them,
\* nor what the store has anyway, and nothing at all of a field that is deleted or not saved then.
Sent(texts, why) ==
    [i \in DOMAIN texts |-> [text |-> texts[i], why |-> why, typed |-> texts[i] \in typing.typed, dropped |-> texts[i] \in typing.dropped]]
Sends(texts, why) ==
    /\ saves' = saves \o texts
    /\ typing' = [typing EXCEPT
          !.due = IF Gone \in Range(texts) \/ (why = "closed" /\ ~Is(SaveWhenClosed)) THEN {} ELSE @ \ (Range(texts) \cup {value.here}),
          !.sent = @ \o Sent(texts, why)]

Act == draftActs < DraftActs /\ Len(saves) <= DraftBusy /\ draftActs' = draftActs + 1
Edits == editor.open /\ editor.focused /\ Act /\ UNCHANGED <<field, value>>

\* The editor of a Markdown text is made when it is focused, and the dialog of a date opened.
Focus ==
    /\ editor.open /\ ~editor.focused /\ field.mayEdit /\ Act /\ UNCHANGED <<field, value, saves, typing>>
    /\ editor' = [editor EXCEPT !.focused = TRUE, !.cache = value.here, !.used = FALSE,
                                !.draft = IF Is(Markdowns \ {"Comment"}) THEN value.here ELSE @]

Type(t) ==
    /\ Edits /\ t # editor.draft /\ editor' = [editor EXCEPT !.draft = t] /\ UNCHANGED saves
    /\ typing' = [typing EXCEPT !.typed = @ \cup {t}, !.dropped = @ \ {t}, !.due = IF t = "malformed" THEN {} ELSE {t} \ {value.here}]

Blur == Edits /\ Sends(save("onBlur", TRUE), "left") /\ Leaves(AfterSave)

\* Enter and Escape leave the field themselves, and that saves nothing more.
Enter ==
    /\ Is(Editables) /\ Edits /\ Leaves(AfterSave)
    /\ Sends(save("onEnter", FALSE) \o save("onBlur", FALSE), "left")
EscapeSaves ==
    /\ Is(SaveOnEsc) /\ Edits /\ Leaves(AfterSave)
    /\ Sends(save("onEsc", FALSE) \o save("onBlur", FALSE), "left")
onCancel ==
    /\ Is(Editables \ SaveOnEsc) /\ Edits /\ Leaves(value.here)
    /\ LET texts == save("onBlur", FALSE)
       IN  saves' = saves \o texts /\
           typing' = [typing EXCEPT !.due = {}, !.dropped = (@ \cup {editor.draft}) \ {value.here}, !.typed = @ \ {editor.draft},
               !.sent = @ \o [i \in DOMAIN texts |-> [text |-> texts[i], why |-> "cancelled", typed |-> FALSE, dropped |-> TRUE]]]

\* The box of a checkbox: the text of the draft goes with it.
Toggle ==
    /\ Is({"Checkbox"}) /\ editor.open /\ ~editor.focused /\ field.mayEdit /\ Act
    /\ Sends(IfChanged(editor.draft), "left") /\ UNCHANGED <<field, value, editor>>

onSendClicked ==
    /\ Is({"Comment"}) /\ editor.open /\ ~editor.focused /\ editor.draft # "" /\ Act
    /\ Sends(<<editor.draft>>, "left") /\ editor' = [editor EXCEPT !.draft = ""] /\ UNCHANGED <<field, value>>

\* The field is no longer shown, without having been left: a malformed text is saved as well.
SavedWhenClosed == IF Is(SaveWhenClosed) /\ (field.mayEdit \/ Is({"CardTitle"})) THEN IfChanged(editor.draft) ELSE <<>>
Close ==
    /\ editor.open /\ Act /\ Sends(SavedWhenClosed, "closed")
    /\ editor' = [editor EXCEPT !.open = FALSE, !.focused = FALSE] /\ UNCHANGED <<field, value>>

-----------------------------------------------------------------------------
They(t) ==
    /\ t # value.server /\ value.server # Gone /\ Act
    /\ value' = [value EXCEPT !.server = t] /\ UNCHANGED <<field, editor, saves, typing>>

\* A save is carried out, in any order, or refused, which the client does not notice.
Serve(i) ==
    /\ saves' = RemoveAt(saves, i) /\ UNCHANGED <<field, editor, typing, draftActs>>
    /\ value' = IF saves[i] = Another \/ Is({"Comment"}) \/ value.server = Gone THEN value ELSE [value EXCEPT !.server = saves[i]]
Refuse(i) == saves' = RemoveAt(saves, i) /\ UNCHANGED <<field, value, editor, typing, draftActs>>

\* The draft when the store has a new text. The title of a board, and a row of a table with the
\* fields in it, are made anew, and those fields save what was typed.
Remounted == Is({"RowTitle", "BoardTitle"}) \/ field.row
TitleFollows(t) == IF editor.draft = value.here THEN t ELSE editor.draft
TakesInitialText(t) == Is({"Markdown", "Description"}) /\ editor.focused /\ ~editor.used /\ t # "" /\ t # editor.cache
Follows(t) ==
    CASE Is({"CardTitle"}) -> TitleFollows(t)
      [] Is({"GroupTitle", "Date"}) \/ Remounted \/ TakesInitialText(t) -> t
      [] OTHER -> editor.draft
Sync ==
    /\ value.here # value.server /\ value' = [value EXCEPT !.here = value.server]
    /\ LET texts == IF field.row /\ editor.open THEN SavedWhenClosed ELSE <<>>
           stays == value.server # Gone /\ ~Is({"NewText"})
       IN  /\ editor' = [editor EXCEPT !.draft = Follows(value.server), !.used = @ \/ TakesInitialText(value.server),
                                       !.open = @ /\ stays, !.focused = @ /\ stays /\ ~Remounted]
           /\ saves' = saves \o texts
           /\ typing' = [typing EXCEPT !.sent = @ \o Sent(texts, "closed"),
                 !.due = IF value.server = Gone \/ Is({"RowTitle", "BoardTitle"}) THEN {}
                         ELSE @ \ (Range(texts) \cup {value.server})]
    /\ UNCHANGED <<field, draftActs>>

-----------------------------------------------------------------------------
DraftInit ==
    /\ field \in [kind : Kinds, mayEdit : BOOLEAN, auto : BOOLEAN, row : BOOLEAN]
    /\ (field.auto => Is({"Checkbox"})) /\ (field.row => Is(Properties))
    /\ \E t \in IF Is({"NewText", "Comment"}) THEN {""} ELSE {"", "first"} :
           /\ value = [server |-> t, here |-> t]
           /\ editor = [open |-> TRUE, focused |-> FALSE, draft |-> t, cache |-> t, used |-> FALSE]
    /\ saves = <<>> /\ draftActs = 0
    /\ typing = [typed |-> {}, dropped |-> {}, due |-> {}, sent |-> <<>>]

DraftNext ==
    \/ Focus \/ Blur \/ Enter \/ EscapeSaves \/ onCancel \/ Toggle \/ onSendClicked \/ Close \/ Sync
    \/ \E t \in Mine : Type(t)
    \/ \E t \in Theirs : They(t)
    \/ \E i \in DOMAIN saves : Serve(i) \/ Refuse(i)

DraftSpec == DraftInit /\ [][DraftNext]_draftVars

-----------------------------------------------------------------------------
\* The fields that follow the store, so that they never send what the user did not type; and
\* those that save what was typed however they are left.
Following == {"CardTitle", "RowTitle", "GroupTitle", "NewText", "Comment"}
Keeping == {"CardTitle", "RowTitle", "BoardTitle", "Text", "Url", "Checkbox"}

\* What was cancelled with Escape is never sent, whatever else leaves the field; a field that
\* follows the store sends only what was typed; a malformed address is sent only when the
\* field is closed or made anew; a well-formed text is never lost by leaving a field that keeps it.
DraftsKept ==
    /\ \A s \in Range(typing.sent) :
        /\ ~s.dropped
        /\ Is(Following) => s.typed \/ s.text = Another
        /\ Is({"Url"}) /\ s.text = "malformed" => s.why = "closed"
    /\ Is(Keeping) /\ ~editor.focused => typing.due = {}
=============================================================================
