---------------------------- MODULE WebAppProofs ----------------------------
(***************************************************************************)
(* Three of the pages: a field and its draft, for every kind of field and  *)
(* whatever the user and others do to it; the tour of a new user; and the  *)
(* members' dialog, for every team, board and roles: each for every       *)
(* number of acts and requests under way.  What was cancelled is not       *)
(* sent, and what was typed is not lost; the tour is where the server says *)
(* and can always go on; nothing that the dialog offers is refused, and at *)
(* rest it shows and grants what the server has.                           *)
(***************************************************************************)
EXTENDS Drafts, Tour, Sharing, SequenceTheorems, FiniteSetTheorems, TLAPS

(***************************************************************************)
(* The drafts.                                                             *)
(***************************************************************************)
Texts == Mine \cup Theirs \cup {"first", Gone, Another}
SentText == [text : Texts, why : {"left", "closed", "cancelled"},
             typed : BOOLEAN, dropped : BOOLEAN]

DraftType ==
    /\ field \in [kind : Kinds, mayEdit : BOOLEAN, auto : BOOLEAN, row : BOOLEAN]
    /\ field.row => Is(Properties)
    /\ value \in [server : Texts \ {Another}, here : Texts \ {Another}]
    /\ editor \in [open : BOOLEAN, focused : BOOLEAN, draft : Texts \ {Another},
                   cache : Texts, used : BOOLEAN]
    /\ saves \in Seq(Texts)
    /\ typing \in [typed : SUBSET Texts, dropped : SUBSET (Texts \ {Another}),
                   due : SUBSET Texts, sent : Seq(SentText)]

\* The draft is not one that was cancelled, unless the server has brought that text back
\* in a field whose draft always is the store's value when that changes.
CancelInv ==
    /\ typing.dropped # {} => Is(Editables \ SaveOnEsc)
    /\ editor.draft \in typing.dropped =>
           /\ editor.draft = value.here
           /\ Is({"RowTitle", "GroupTitle"}) \/ field.row

\* In a field that follows the store the draft is the store's value or was typed; the
\* fields that begin with an empty text do not show the store's.
FollowInv ==
    /\ Is({"CardTitle", "RowTitle", "GroupTitle"}) =>
           editor.draft = value.here \/ editor.draft \in typing.typed
    /\ Is({"NewText", "Comment"}) => editor.draft = "" \/ editor.draft \in typing.typed
    /\ Is({"NewText"}) /\ editor.open => value.here = ""

\* What must still be sent is the draft of the field that has the focus.
DueInv ==
    /\ editor.focused => editor.open /\ field.mayEdit
    /\ Is(Keeping) => /\ typing.due \subseteq {editor.draft} \ {value.here, "malformed"}
                      /\ ~editor.focused => typing.due = {}

\* What may be sent, and for what reason.
Sendable(s) ==
    /\ ~s.dropped
    /\ Is(Following) => s.typed \/ s.text = Another
    /\ Is({"Url"}) /\ s.text = "malformed" => s.why = "closed"
SentInv == \A s \in Range(typing.sent) : Sendable(s)

DraftInv == DraftType /\ CancelInv /\ FollowInv /\ DueInv /\ SentInv

-----------------------------------------------------------------------------
(* What a save sends *)

LEMMA TextsHave ==
    /\ Mine \cup Theirs \subseteq Texts \ {Another}
    /\ {"", "first", "theirs", "malformed", Gone} \subseteq Texts \ {Another}
    /\ Another \in Texts /\ "malformed" # Another /\ "malformed" # Gone
BY DEF Texts, Mine, Theirs, Another, Gone

\* Texts that may be sent now, for that reason.
Fit(texts, why) ==
    /\ texts \in Seq(Texts)
    /\ \A t \in Range(texts) :
           /\ t \notin typing.dropped
           /\ Is(Following) => t \in typing.typed \/ t = Another
           /\ Is({"Url"}) /\ t = "malformed" => why = "closed"

LEMMA NoText == <<>> \in Seq(Texts) /\ Range(<<>>) = {}
BY DEF Range

LEMMA OneText ==
    ASSUME NEW t \in Texts
    PROVE  <<t>> \in Seq(Texts) /\ Range(<<t>>) = {t}
BY DEF Range

\* What is sent as it differs from the store: the text, or nothing.
LEMMA IfChangedSends ==
    ASSUME NEW t \in Texts
    PROVE  /\ IfChanged(t) \in Seq(Texts)
           /\ Range(IfChanged(t)) = {t} \ {value.here}
BY NoText, OneText DEF IfChanged

\* A row or a checkbox that is left with Enter asks for another one.
LEMMA WithAnother ==
    ASSUME NEW texts \in Seq(Texts), NEW another \in BOOLEAN
    PROVE  /\ texts \o (IF another THEN <<Another>> ELSE <<>>) \in Seq(Texts)
           /\ Range(texts) \subseteq Range(texts \o (IF another THEN <<Another>> ELSE <<>>))
           /\ Range(texts \o (IF another THEN <<Another>> ELSE <<>>)) \subseteq Range(texts) \cup {Another}
<1>. DEFINE more == IF another THEN <<Another>> ELSE <<>>
<1>1. more \in Seq(Texts) /\ Range(more) \subseteq {Another}
  BY NoText, OneText, TextsHave
<1>2. texts \o more \in Seq(Texts) /\ Range(texts \o more) = Range(texts) \cup Range(more)
  BY <1>1, ConcatProperties, RangeConcatenation
<1>. QED  BY <1>1, <1>2

\* What leaving a field sends is the draft, unless the store has it, or nothing; the other
\* texts ask for another element or delete this one.  A field that keeps what is typed sends it.
LEMMA OnSaveSends ==
    ASSUME DraftType, NEW saveType
    PROVE  /\ onSave(saveType) \in Seq(Texts)
           /\ Is(Editables) =>
                  /\ Range(onSave(saveType)) \subseteq
                         (IF Is({"BoardTitle"}) THEN {editor.draft} ELSE {editor.draft} \ {value.here})
                         \cup (IF Is({"Checkbox"}) THEN {Another, Gone} ELSE {})
                         \cup (IF Is({"RowTitle"}) THEN {Another} ELSE {})
                  /\ \/ Gone \in Range(onSave(saveType))
                     \/ editor.draft \in Range(onSave(saveType)) \cup {value.here}
           /\ Is({"NewText"}) => Range(onSave(saveType)) \subseteq {editor.draft} \ {""}
           /\ Is({"Comment"}) => Range(onSave(saveType)) = {}
<1>. DEFINE t == editor.draft
            texts == onSave(saveType)
<1>1. t \in Texts /\ t # Another /\ field.kind \in Kinds
  BY DEF DraftType
<1>2. IfChanged(t) \in Seq(Texts) /\ Range(IfChanged(t)) = {t} \ {value.here}
  BY <1>1, IfChangedSends
<1>3. <<t>> \in Seq(Texts) /\ Range(<<t>>) = {t}
  BY <1>1, OneText
<1>. HIDE DEF t
<1>4. CASE Is({"RowTitle"})
  <2>. DEFINE another == t # value.here /\ saveType = "onEnter"
  <2>1. texts = IfChanged(t) \o (IF another THEN <<Another>> ELSE <<>>)
    BY <1>4 DEF onSave, onSaveRow, t, Is
  <2>2. another \in BOOLEAN
    OBVIOUS
  <2>. HIDE DEF another
  <2>3. /\ texts \in Seq(Texts) /\ {t} \ {value.here} \subseteq Range(texts)
        /\ Range(texts) \subseteq ({t} \ {value.here}) \cup {Another}
    BY <1>2, <2>1, <2>2, WithAnother
  <2>. HIDE DEF texts
  <2>. QED  BY <1>4, <2>3 DEF Is, t, texts
<1>5. CASE Is({"Checkbox"})
  <2>1. CASE t = "" /\ field.auto
    <3>1. texts = <<Gone>>
      BY <1>5, <2>1 DEF onSave, onSaveCheckbox, t, Is
    <3>2. texts \in Seq(Texts) /\ Range(texts) = {Gone}
      BY <3>1, OneText, TextsHave
    <3>. HIDE DEF texts
    <3>. QED  BY <1>5, <3>2 DEF Is, t, texts
  <2>2. CASE ~(t = "" /\ field.auto)
    <3>. DEFINE another == saveType = "onEnter" /\ t # ""
    <3>1. texts = IfChanged(t) \o (IF another THEN <<Another>> ELSE <<>>)
      BY <1>5, <2>2 DEF onSave, onSaveCheckbox, t, Is
    <3>2. another \in BOOLEAN
      OBVIOUS
    <3>. HIDE DEF another
    <3>3. /\ texts \in Seq(Texts) /\ {t} \ {value.here} \subseteq Range(texts)
          /\ Range(texts) \subseteq ({t} \ {value.here}) \cup {Another}
      BY <1>2, <3>1, <3>2, WithAnother
    <3>. HIDE DEF texts
    <3>. QED  BY <1>5, <3>3 DEF Is, t, texts
  <2>. QED  BY <2>1, <2>2
<1>6. CASE Is({"BoardTitle"})
  <2>1. texts = <<t>>
    BY <1>6 DEF onSave, onEditTitleSave, t, Is
  <2>. HIDE DEF texts
  <2>. QED  BY <1>3, <1>6, <2>1 DEF Is, t, texts
<1>7. CASE Is({"GroupTitle", "CardTitle"} \cup Properties)
  <2>1. texts = IfChanged(t)
    BY <1>7 DEF onSave, onSaveGroup, t, Is, Properties
  <2>. HIDE DEF texts
  <2>. QED  BY <1>2, <1>7, <2>1 DEF Is, t, texts, Properties
<1>8. CASE Is({"NewText"})
  <2>1. texts = IF t = "" THEN <<>> ELSE <<t>>
    BY <1>8 DEF onSave, addTextBlock, t, Is
  <2>2. texts \in Seq(Texts) /\ Range(texts) \subseteq {t} \ {""}
    BY <1>3, <2>1, NoText
  <2>. HIDE DEF texts
  <2>. QED  BY <1>8, <2>2 DEF Is, t, texts, Editables, Titles, Properties
<1>9. CASE Is({"Comment"})
  <2>1. texts = <<>>
    BY <1>9 DEF onSave, Is
  <2>. HIDE DEF texts
  <2>. QED  BY <1>9, <2>1, NoText DEF Is, texts, Editables, Titles, Properties
<1>10. CASE Is({"Date"})
  <2>1. texts = IfChanged(datePropertyToString(t))
    BY <1>10 DEF onSave, onCloseDate, t, Is
  <2>2. datePropertyToString(t) \in Texts
    BY <1>1, TextsHave DEF datePropertyToString
  <2>. HIDE DEF texts
  <2>. QED  BY <1>10, <2>1, <2>2, IfChangedSends DEF Is, texts, Editables, Titles, Properties
<1>11. CASE Is({"Markdown", "Description"})
  <2>1. texts = <<t>> \/ texts = IfChanged(t)
    BY <1>11 DEF onSave, onDescriptionBlur, t, Is
  <2>. HIDE DEF texts
  <2>. QED  BY <1>2, <1>3, <1>11, <2>1 DEF Is, t, texts, Editables, Titles, Properties
<1>12. Is({"RowTitle"}) \/ Is({"Checkbox"}) \/ Is({"BoardTitle"}) \/ Is({"NewText"}) \/ Is({"Comment"})
       \/ Is({"Date"}) \/ Is({"GroupTitle", "CardTitle"} \cup Properties) \/ Is({"Markdown", "Description"})
  BY <1>1 DEF Is, Kinds, Editables, Titles, Markdowns
<1>. QED  BY <1>4, <1>5, <1>6, <1>7, <1>8, <1>9, <1>10, <1>11, <1>12

\* Whatever is saved when the field is left may be sent.
LEMMA SaveFits ==
    ASSUME DraftInv, NEW saveType, NEW saveOnBlur
    PROVE  Fit(save(saveType, saveOnBlur), "left")
<1>. DEFINE texts == save(saveType, saveOnBlur)
<1>0. DraftType /\ CancelInv /\ FollowInv
  BY DEF DraftInv
<1>1. CASE texts = <<>>
  <2>. HIDE DEF texts
  <2>. QED  BY <1>1, NoText DEF Fit, texts
<1>2. CASE texts # <<>>
  <2>1. texts = onSave(saveType) /\ Validator
    BY <1>2 DEF save
  <2>. HIDE DEF texts
  <2>2. Is({"Url"}) => editor.draft # "malformed"
    BY <2>1 DEF Validator, UrlValid, Is
  <2>3. texts \in Seq(Texts)
    BY <1>0, <2>1, OnSaveSends
  <2>4. Is(Editables) =>
            Range(texts) \subseteq
                (IF Is({"BoardTitle"}) THEN {editor.draft} ELSE {editor.draft} \ {value.here})
                \cup (IF Is({"Checkbox"}) THEN {Another, Gone} ELSE {})
                \cup (IF Is({"RowTitle"}) THEN {Another} ELSE {})
    BY <1>0, <2>1, OnSaveSends
  <2>5. /\ Is({"NewText"}) => Range(texts) \subseteq {editor.draft} \ {""}
        /\ Is({"Comment"}) => Range(texts) = {}
    BY <1>0, <2>1, OnSaveSends
  <2>6. ASSUME NEW t \in Range(texts)
        PROVE  /\ t \notin typing.dropped
               /\ Is(Following) => t \in typing.typed \/ t = Another
               /\ Is({"Url"}) => t # "malformed"
    <3>1. Another \notin typing.dropped
      BY <1>0 DEF DraftType
    <3>2. t \notin typing.dropped
      BY <1>0, <2>4, <3>1 DEF CancelInv, Is, SaveOnEsc
    <3>3. Is(Following) => t \in typing.typed \/ t = Another
      BY <1>0, <2>4, <2>5 DEF FollowInv, Following, Is, Editables, Titles
    <3>4. Is({"Url"}) => t # "malformed"
      BY <2>2, <2>4 DEF Is, Editables, Properties
    <3>. QED  BY <3>2, <3>3, <3>4
  <2>. QED  BY <2>3, <2>6 DEF Fit, texts
<1>. QED  BY <1>1, <1>2

\* And in a field that keeps what is typed it is all that is due.
LEMMA SaveKeeps ==
    ASSUME DraftInv, NEW saveType, NEW saveOnBlur, Is(Keeping),
           saveType = "onBlur" => saveOnBlur, saveType = "onEsc" => Is(SaveOnEsc)
    PROVE  \/ Gone \in Range(save(saveType, saveOnBlur))
           \/ typing.due \ (Range(save(saveType, saveOnBlur)) \cup {value.here}) = {}
<1>1. DraftType /\ typing.due \subseteq {editor.draft} \ {value.here, "malformed"}
  BY DEF DraftInv, DueInv
<1>2. Is(Editables)
  BY DEF Is, Keeping, Editables, Titles, Properties
<1>3. CASE Validator
  <2>1. save(saveType, saveOnBlur) = onSave(saveType)
    BY <1>3 DEF save
  <2>2. \/ Gone \in Range(onSave(saveType))
        \/ editor.draft \in Range(onSave(saveType)) \cup {value.here}
    BY <1>1, <1>2, OnSaveSends
  <2>. QED  BY <1>1, <2>1, <2>2
<1>4. CASE ~Validator
  <2>1. editor.draft = "malformed"
    BY <1>4 DEF Validator, UrlValid, Is, Keeping
  <2>. QED  BY <1>1, <2>1
<1>. QED  BY <1>3, <1>4

LEMMA NotSavedTwice == save("onBlur", FALSE) = <<>>
BY DEF save

\* What is sent is recorded, and no other record changes.
LEMMA Recorded ==
    ASSUME DraftInv, NEW texts, NEW why \in {"left", "closed"}, Fit(texts, why)
    PROVE  /\ saves \o texts \in Seq(Texts)
           /\ typing.sent \o Sent(texts, why) \in Seq(SentText)
           /\ \A s \in Range(typing.sent \o Sent(texts, why)) : Sendable(s)
           /\ Range(texts) \subseteq Texts
<1>. DEFINE more == Sent(texts, why)
<1>1. /\ texts \in Seq(Texts) /\ Len(texts) \in Nat /\ DOMAIN texts = 1 .. Len(texts)
      /\ \A i \in 1 .. Len(texts) : texts[i] \in Texts /\ texts[i] \in Range(texts)
      /\ Range(texts) \subseteq Texts
  BY LenProperties, ElementOfSeq DEF Fit, Range
<1>2. \A i \in 1 .. Len(texts) :
          more[i] = [text |-> texts[i], why |-> why, typed |-> texts[i] \in typing.typed,
                     dropped |-> texts[i] \in typing.dropped]
  BY <1>1 DEF Sent
<1>3. ASSUME NEW i \in 1 .. Len(texts)
      PROVE  more[i] \in SentText /\ Sendable(more[i])
  <2>1. more[i] = [text |-> texts[i], why |-> why, typed |-> texts[i] \in typing.typed,
                   dropped |-> texts[i] \in typing.dropped]
    BY <1>2
  <2>. DEFINE s == more[i]
            typed == texts[i] \in typing.typed
            dropped == texts[i] \in typing.dropped
  <2>2. s.text = texts[i] /\ s.why = why /\ s.typed = typed /\ s.dropped = dropped
    BY <2>1
  <2>3. s \in SentText
    BY <1>1, <2>1 DEF SentText
  <2>. HIDE DEF s
  <2>4. texts[i] \in Range(texts)
    BY <1>1
  <2>5. Sendable(s)
    BY <2>2, <2>4 DEF Sendable, Fit
  <2>. QED  BY <2>3, <2>5 DEF s
<1>4. more = [i \in 1 .. Len(texts) |-> more[i]] /\ DOMAIN more = 1 .. Len(texts)
  BY <1>1 DEF Sent
<1>. HIDE DEF more
<1>5. more \in Seq(SentText)
  BY <1>1, <1>3, <1>4
<1>6. \A s \in Range(more) : Sendable(s)
  BY <1>3, <1>4 DEF Range
<1>7. saves \in Seq(Texts) /\ typing.sent \in Seq(SentText)
      /\ \A s \in Range(typing.sent) : Sendable(s)
  BY DEF DraftInv, DraftType, SentInv
<1>8. /\ typing.sent \o more \in Seq(SentText) /\ saves \o texts \in Seq(Texts)
      /\ Range(typing.sent \o more) = Range(typing.sent) \cup Range(more)
  BY <1>1, <1>5, <1>7, ConcatProperties, RangeConcatenation
<1>. QED  BY <1>1, <1>6, <1>7, <1>8 DEF more

LEMMA SendsKeeps ==
    ASSUME DraftInv, NEW texts, NEW why \in {"left", "closed"}, Fit(texts, why),
           Sends(texts, why), UNCHANGED field
    PROVE  /\ saves' \in Seq(Texts) /\ SentInv'
           /\ typing' \in [typed : SUBSET Texts, dropped : SUBSET (Texts \ {Another}),
                            due : SUBSET Texts, sent : Seq(SentText)]
           /\ typing'.typed = typing.typed /\ typing'.dropped = typing.dropped
           /\ typing'.due = IF Gone \in Range(texts) \/ (why = "closed" /\ ~Is(SaveWhenClosed)) THEN {}
                            ELSE typing.due \ (Range(texts) \cup {value.here})
<1>. DEFINE due == IF Gone \in Range(texts) \/ (why = "closed" /\ ~Is(SaveWhenClosed)) THEN {}
                   ELSE typing.due \ (Range(texts) \cup {value.here})
            sent == typing.sent \o Sent(texts, why)
<1>1. typing \in [typed : SUBSET Texts, dropped : SUBSET (Texts \ {Another}),
                  due : SUBSET Texts, sent : Seq(SentText)]
  BY DEF DraftInv, DraftType
<1>2. saves' = saves \o texts /\ typing' = [typing EXCEPT !.due = due, !.sent = sent]
  BY DEF Sends
<1>3. saves' \in Seq(Texts) /\ sent \in Seq(SentText) /\ \A s \in Range(sent) : Sendable(s)
  BY <1>2, Recorded
<1>4. due \in SUBSET Texts
  BY <1>1
<1>. HIDE DEF due, sent
<1>5. typing' = [typed |-> typing.typed, dropped |-> typing.dropped, due |-> due, sent |-> sent]
  BY <1>1, <1>2
<1>6. SentInv'
  BY <1>3, <1>5 DEF SentInv, Sendable, Is
<1>. QED  BY <1>1, <1>3, <1>4, <1>5, <1>6 DEF due

-----------------------------------------------------------------------------
(* The steps *)

LEMMA LeaveKeeps ==
    ASSUME DraftInv, Edits, Leaves(AfterSave),
           NEW texts, Fit(texts, "left"), Sends(texts, "left"),
           Is(Keeping) => \/ Gone \in Range(texts)
                          \/ typing.due \ (Range(texts) \cup {value.here}) = {}
    PROVE  DraftInv'
<1>1. field' = field /\ value' = value
  BY DEF Edits
<1>2. DraftType /\ CancelInv /\ FollowInv /\ DueInv
  BY DEF DraftInv
<1>3. /\ AfterSave \in {editor.draft, value.here}
      /\ AfterSave # editor.draft => Is({"GroupTitle"})
  BY DEF AfterSave, Validator
<1>4. /\ editor'.open = editor.open /\ editor'.focused = FALSE /\ editor'.draft = AfterSave
      /\ editor' \in [open : BOOLEAN, focused : BOOLEAN, draft : Texts \ {Another},
                      cache : Texts, used : BOOLEAN]
  BY <1>2, <1>3 DEF Leaves, DraftType
<1>5. /\ saves' \in Seq(Texts) /\ SentInv'
      /\ typing' \in [typed : SUBSET Texts, dropped : SUBSET (Texts \ {Another}),
                      due : SUBSET Texts, sent : Seq(SentText)]
      /\ typing'.typed = typing.typed /\ typing'.dropped = typing.dropped
      /\ typing'.due = IF Gone \in Range(texts) THEN {}
                       ELSE typing.due \ (Range(texts) \cup {value.here})
  BY <1>1, SendsKeeps
<1>6. DraftType'
  BY <1>1, <1>2, <1>4, <1>5 DEF DraftType, Is
<1>7. CancelInv'
  BY <1>1, <1>2, <1>3, <1>4, <1>5 DEF CancelInv, Is
<1>8. FollowInv'
  BY <1>1, <1>2, <1>3, <1>4, <1>5 DEF FollowInv, Is
<1>9. DueInv'
  BY <1>1, <1>2, <1>4, <1>5 DEF DueInv, Is
<1>. QED  BY <1>5, <1>6, <1>7, <1>8, <1>9 DEF DraftInv

LEMMA BlurKeeps == ASSUME DraftInv, Blur PROVE DraftInv'
<1>1. Fit(save("onBlur", TRUE), "left")
  BY SaveFits
<1>2. Is(Keeping) => \/ Gone \in Range(save("onBlur", TRUE))
                     \/ typing.due \ (Range(save("onBlur", TRUE)) \cup {value.here}) = {}
  BY SaveKeeps
<1>. QED  BY <1>1, <1>2, LeaveKeeps DEF Blur

\* Enter and Escape save, and the loss of the focus that follows saves nothing more.
LEMMA KeyKeeps == ASSUME DraftInv, Enter \/ EscapeSaves PROVE DraftInv'
<1>1. PICK saveType \in {"onEnter", "onEsc"} :
          /\ saveType = "onEsc" => Is(SaveOnEsc)
          /\ Edits /\ Leaves(AfterSave)
          /\ Sends(save(saveType, FALSE) \o save("onBlur", FALSE), "left")
  BY DEF Enter, EscapeSaves
<1>. DEFINE texts == save(saveType, FALSE)
<1>2. Fit(texts, "left")
  BY SaveFits
<1>3. Is(Keeping) => \/ Gone \in Range(texts)
                     \/ typing.due \ (Range(texts) \cup {value.here}) = {}
  BY <1>1, SaveKeeps
<1>. HIDE DEF texts
<1>4. texts \o save("onBlur", FALSE) = texts
  BY <1>2, NotSavedTwice, ConcatEmptySeq DEF Fit
<1>5. Sends(texts, "left")
  BY <1>1, <1>4 DEF texts
<1>. QED  BY <1>1, <1>2, <1>3, <1>5, LeaveKeeps

LEMMA CancelKeeps == ASSUME DraftInv, onCancel PROVE DraftInv'
<1>1. field' = field /\ value' = value /\ Is(Editables \ SaveOnEsc)
  BY DEF onCancel, Edits
<1>2. DraftType /\ CancelInv /\ FollowInv /\ DueInv /\ SentInv
  BY DEF DraftInv
<1>3. /\ editor'.open = editor.open /\ editor'.focused = FALSE /\ editor'.draft = value.here
      /\ editor' \in [open : BOOLEAN, focused : BOOLEAN, draft : Texts \ {Another},
                      cache : Texts, used : BOOLEAN]
  BY <1>2 DEF onCancel, Leaves, DraftType
<1>. DEFINE more == [i \in DOMAIN <<>> |-> [text |-> <<>>[i], why |-> "cancelled",
                                           typed |-> FALSE, dropped |-> TRUE]]
            dropped == (typing.dropped \cup {editor.draft}) \ {value.here}
            typed == typing.typed \ {editor.draft}
<1>4. /\ saves' = saves \o <<>>
      /\ typing' = [typing EXCEPT !.due = {}, !.dropped = dropped, !.typed = typed,
                                  !.sent = typing.sent \o more]
  BY NotSavedTwice DEF onCancel
<1>5. more = <<>>
  OBVIOUS
<1>6. saves' = saves /\ typing.sent \o more = typing.sent
  BY <1>2, <1>4, <1>5, ConcatEmptySeq DEF DraftType
<1>7. dropped \in SUBSET (Texts \ {Another}) /\ typed \in SUBSET Texts
  BY <1>2 DEF DraftType
<1>. HIDE DEF more
<1>8. typing' = [typed |-> typed, dropped |-> dropped, due |-> {}, sent |-> typing.sent]
  BY <1>2, <1>4, <1>6 DEF DraftType
<1>9. DraftType'
  BY <1>1, <1>2, <1>3, <1>6, <1>7, <1>8 DEF DraftType, Is
<1>10. CancelInv'
  BY <1>1, <1>3, <1>8 DEF CancelInv, Is
<1>11. FollowInv'
  BY <1>1, <1>2, <1>3, <1>8 DEF FollowInv, Is, Editables, SaveOnEsc, Titles, Properties
<1>12. DueInv' /\ SentInv'
  BY <1>1, <1>2, <1>3, <1>8 DEF DueInv, SentInv, Sendable, Is
<1>. QED  BY <1>9, <1>10, <1>11, <1>12 DEF DraftInv

LEMMA FocusKeeps == ASSUME DraftInv, Focus PROVE DraftInv'
<1>1. field' = field /\ value' = value /\ saves' = saves /\ typing' = typing
      /\ editor.open /\ field.mayEdit /\ ~editor.focused
  BY DEF Focus
<1>2. DraftType /\ CancelInv /\ FollowInv /\ DueInv /\ SentInv
  BY DEF DraftInv
<1>. DEFINE draft == IF Is(Markdowns \ {"Comment"}) THEN value.here ELSE editor.draft
<1>3. draft \in Texts \ {Another} /\ value.here \in Texts
  BY <1>2 DEF DraftType
<1>4. editor' = [editor EXCEPT !.focused = TRUE, !.cache = value.here, !.used = FALSE, !.draft = draft]
  BY DEF Focus
<1>5. Is(Editables) \/ Is({"Comment"}) => draft = editor.draft
  BY DEF Is, Editables, Titles, Properties, Markdowns
<1>6. Is({"NewText"}) => draft = value.here
  BY DEF Is, Markdowns
<1>. HIDE DEF draft
<1>7. /\ editor'.open = editor.open /\ editor'.focused = TRUE /\ editor'.draft = draft
      /\ editor' \in [open : BOOLEAN, focused : BOOLEAN, draft : Texts \ {Another},
                      cache : Texts, used : BOOLEAN]
  BY <1>2, <1>3, <1>4 DEF DraftType
<1>8. DraftType'
  BY <1>1, <1>2, <1>7 DEF DraftType, Is
<1>9. CancelInv'
  BY <1>1, <1>2, <1>5, <1>7 DEF CancelInv, Is
<1>10. FollowInv'
  BY <1>1, <1>2, <1>5, <1>6, <1>7 DEF FollowInv, Is, Editables, Titles
<1>11. DueInv' /\ SentInv'
  BY <1>1, <1>2, <1>5, <1>7
     DEF DueInv, SentInv, Sendable, Is, Keeping, Editables, Titles, Properties
<1>. QED  BY <1>8, <1>9, <1>10, <1>11 DEF DraftInv

LEMMA TypeKeeps == ASSUME DraftInv, NEW t \in Mine, Type(t) PROVE DraftInv'
<1>1. field' = field /\ value' = value /\ saves' = saves /\ editor.open /\ editor.focused
  BY DEF Type, Edits
<1>2. DraftType /\ CancelInv /\ FollowInv /\ DueInv /\ SentInv
  BY DEF DraftInv
<1>3. t \in Texts \ {Another}
  BY TextsHave
<1>4. /\ editor'.open = editor.open /\ editor'.focused = editor.focused /\ editor'.draft = t
      /\ editor' \in [open : BOOLEAN, focused : BOOLEAN, draft : Texts \ {Another},
                      cache : Texts, used : BOOLEAN]
  BY <1>2, <1>3 DEF Type, DraftType
<1>. DEFINE due == IF t = "malformed" THEN {} ELSE {t} \ {value.here}
            typed == typing.typed \cup {t}
            dropped == typing.dropped \ {t}
<1>5. due \in SUBSET Texts /\ typed \in SUBSET Texts /\ dropped \in SUBSET (Texts \ {Another})
  BY <1>2, <1>3 DEF DraftType
<1>6. typing' = [typed |-> typed, dropped |-> dropped, due |-> due, sent |-> typing.sent]
  BY <1>2 DEF Type, DraftType
<1>7. due \subseteq {t} \ {value.here, "malformed"}
  OBVIOUS
<1>. HIDE DEF due
<1>8. DraftType'
  BY <1>1, <1>2, <1>4, <1>5, <1>6 DEF DraftType, Is
<1>9. CancelInv' /\ FollowInv'
  BY <1>1, <1>2, <1>4, <1>6 DEF CancelInv, FollowInv, Is
<1>10. DueInv' /\ SentInv'
  BY <1>1, <1>2, <1>4, <1>6, <1>7 DEF DueInv, SentInv, Sendable, Is
<1>. QED  BY <1>8, <1>9, <1>10 DEF DraftInv

LEMMA ToggleKeeps == ASSUME DraftInv, Toggle PROVE DraftInv'
<1>1. /\ field' = field /\ value' = value /\ editor' = editor /\ ~editor.focused
      /\ Is({"Checkbox"}) /\ Sends(IfChanged(editor.draft), "left")
  BY DEF Toggle
<1>2. DraftType /\ CancelInv /\ FollowInv /\ DueInv
  BY DEF DraftInv
<1>3. Fit(IfChanged(editor.draft), "left")
  <2>1. /\ IfChanged(editor.draft) \in Seq(Texts)
        /\ Range(IfChanged(editor.draft)) = {editor.draft} \ {value.here}
    BY <1>2, IfChangedSends DEF DraftType
  <2>. QED  BY <1>1, <1>2, <2>1 DEF Fit, CancelInv, Is, Following
<1>4. /\ saves' \in Seq(Texts) /\ SentInv'
      /\ typing' \in [typed : SUBSET Texts, dropped : SUBSET (Texts \ {Another}),
                      due : SUBSET Texts, sent : Seq(SentText)]
      /\ typing'.typed = typing.typed /\ typing'.dropped = typing.dropped
      /\ typing'.due \subseteq typing.due
  BY <1>1, <1>3, SendsKeeps
<1>5. DraftType'
  BY <1>1, <1>2, <1>4 DEF DraftType, Is
<1>6. CancelInv' /\ FollowInv'
  BY <1>1, <1>2, <1>4 DEF CancelInv, FollowInv, Is
<1>7. DueInv'
  BY <1>1, <1>2, <1>4 DEF DueInv, Is
<1>. QED  BY <1>4, <1>5, <1>6, <1>7 DEF DraftInv

LEMMA CommentKeeps == ASSUME DraftInv, onSendClicked PROVE DraftInv'
<1>1. /\ field' = field /\ value' = value /\ ~editor.focused /\ editor.draft # ""
      /\ Is({"Comment"}) /\ Sends(<<editor.draft>>, "left")
      /\ editor' = [editor EXCEPT !.draft = ""]
  BY DEF onSendClicked
<1>2. DraftType /\ CancelInv /\ FollowInv /\ DueInv
  BY DEF DraftInv
<1>3. Fit(<<editor.draft>>, "left")
  <2>1. <<editor.draft>> \in Seq(Texts) /\ Range(<<editor.draft>>) = {editor.draft}
    BY <1>2, OneText DEF DraftType
  <2>2. typing.dropped = {} /\ editor.draft \in typing.typed
    BY <1>1, <1>2 DEF CancelInv, FollowInv, Is, Editables, Titles, Properties
  <2>. QED  BY <1>1, <2>1, <2>2 DEF Fit, Is
<1>4. /\ saves' \in Seq(Texts) /\ SentInv'
      /\ typing' \in [typed : SUBSET Texts, dropped : SUBSET (Texts \ {Another}),
                      due : SUBSET Texts, sent : Seq(SentText)]
      /\ typing'.typed = typing.typed /\ typing'.dropped = typing.dropped
  BY <1>1, <1>3, SendsKeeps
<1>5. /\ editor'.open = editor.open /\ editor'.focused = editor.focused /\ editor'.draft = ""
      /\ editor' \in [open : BOOLEAN, focused : BOOLEAN, draft : Texts \ {Another},
                      cache : Texts, used : BOOLEAN]
  BY <1>1, <1>2, TextsHave DEF DraftType
<1>6. DraftType'
  BY <1>1, <1>2, <1>4, <1>5 DEF DraftType, Is
<1>7. CancelInv' /\ FollowInv' /\ DueInv'
  BY <1>1, <1>2, <1>4, <1>5
     DEF CancelInv, FollowInv, DueInv, Is, Editables, Titles, Properties, Keeping
<1>. QED  BY <1>4, <1>6, <1>7 DEF DraftInv

\* What is saved when the field is closed, or made anew, may be sent and is all that is due.
LEMMA ClosedFits ==
    ASSUME DraftInv
    PROVE  /\ Fit(SavedWhenClosed, "closed")
           /\ Is(Keeping) /\ Is(SaveWhenClosed) =>
                  typing.due \ (Range(SavedWhenClosed) \cup {value.here}) = {}
<1>1. DraftType /\ CancelInv /\ FollowInv /\ DueInv
  BY DEF DraftInv
<1>2. /\ IfChanged(editor.draft) \in Seq(Texts)
      /\ Range(IfChanged(editor.draft)) = {editor.draft} \ {value.here}
  BY <1>1, IfChangedSends DEF DraftType
<1>3. CASE Is(SaveWhenClosed) /\ (field.mayEdit \/ Is({"CardTitle"}))
  <2>1. SavedWhenClosed = IfChanged(editor.draft)
    BY <1>3 DEF SavedWhenClosed
  <2>2. Fit(SavedWhenClosed, "closed")
    BY <1>1, <1>2, <1>3, <2>1
       DEF Fit, CancelInv, FollowInv, Is, Following, SaveWhenClosed, Properties
  <2>. QED  BY <1>1, <1>2, <2>1, <2>2 DEF DueInv
<1>4. CASE ~(Is(SaveWhenClosed) /\ (field.mayEdit \/ Is({"CardTitle"})))
  <2>1. SavedWhenClosed = <<>>
    BY <1>4 DEF SavedWhenClosed
  <2>2. Fit(SavedWhenClosed, "closed")
    BY <2>1, NoText DEF Fit
  <2>. QED  BY <1>1, <1>4, <2>2 DEF DueInv
<1>. QED  BY <1>3, <1>4

LEMMA CloseKeeps == ASSUME DraftInv, Close PROVE DraftInv'
<1>1. /\ field' = field /\ value' = value /\ Sends(SavedWhenClosed, "closed")
      /\ editor' = [editor EXCEPT !.open = FALSE, !.focused = FALSE]
  BY DEF Close
<1>2. DraftType /\ CancelInv /\ FollowInv /\ DueInv
  BY DEF DraftInv
<1>3. /\ saves' \in Seq(Texts) /\ SentInv'
      /\ typing' \in [typed : SUBSET Texts, dropped : SUBSET (Texts \ {Another}),
                      due : SUBSET Texts, sent : Seq(SentText)]
      /\ typing'.typed = typing.typed /\ typing'.dropped = typing.dropped
      /\ typing'.due = IF Gone \in Range(SavedWhenClosed) \/ ~Is(SaveWhenClosed) THEN {}
                       ELSE typing.due \ (Range(SavedWhenClosed) \cup {value.here})
  BY <1>1, ClosedFits, SendsKeeps
<1>4. /\ editor'.open = FALSE /\ editor'.focused = FALSE /\ editor'.draft = editor.draft
      /\ editor' \in [open : BOOLEAN, focused : BOOLEAN, draft : Texts \ {Another},
                      cache : Texts, used : BOOLEAN]
  BY <1>1, <1>2 DEF DraftType
<1>5. DraftType'
  BY <1>1, <1>2, <1>3, <1>4 DEF DraftType, Is
<1>6. CancelInv' /\ FollowInv'
  BY <1>1, <1>2, <1>3, <1>4 DEF CancelInv, FollowInv, Is
<1>7. DueInv'
  BY <1>1, <1>2, <1>3, <1>4, ClosedFits DEF DueInv, Is
<1>. QED  BY <1>3, <1>5, <1>6, <1>7 DEF DraftInv

LEMMA RemovedType ==
    ASSUME NEW S, NEW s \in Seq(S), NEW i \in DOMAIN s
    PROVE  RemoveAt(s, i) \in Seq(S) /\ s[i] \in S
<1>1. Len(s) \in Nat /\ DOMAIN s = 1 .. Len(s) /\ s[i] \in S
  BY LenProperties, ElementOfSeq
<1>2. SubSeq(s, 1, i - 1) \in Seq(S) /\ SubSeq(s, i + 1, Len(s)) \in Seq(S)
  BY <1>1, SubSeqProperties
<1>. QED  BY <1>1, <1>2, ConcatProperties DEF RemoveAt

\* The server takes a text, of another user or of a save, or refuses a save.
LEMMA ServerKeeps ==
    ASSUME DraftInv,
           \/ \E t \in Theirs : They(t)
           \/ \E i \in DOMAIN saves : Serve(i) \/ Refuse(i)
    PROVE  DraftInv'
<1>1. DraftType /\ CancelInv /\ FollowInv /\ DueInv /\ SentInv
  BY DEF DraftInv
<1>2. ASSUME NEW t \in Theirs, They(t)
      PROVE  /\ field' = field /\ editor' = editor /\ typing' = typing
             /\ saves' \in Seq(Texts)
             /\ \E u \in Texts \ {Another} : value' = [value EXCEPT !.server = u]
  BY <1>1, <1>2, TextsHave DEF They, DraftType
<1>3. ASSUME NEW i \in DOMAIN saves, Serve(i) \/ Refuse(i)
      PROVE  /\ field' = field /\ editor' = editor /\ typing' = typing
             /\ saves' \in Seq(Texts)
             /\ \E u \in Texts \ {Another} : value' = [value EXCEPT !.server = u]
  <2>1. RemoveAt(saves, i) \in Seq(Texts) /\ saves[i] \in Texts
    BY <1>1, RemovedType DEF DraftType
  <2>2. value.server \in Texts \ {Another} /\ value = [value EXCEPT !.server = value.server]
    BY <1>1 DEF DraftType
  <2>. QED  BY <1>3, <2>1, <2>2 DEF Serve, Refuse
<1>4. /\ field' = field /\ editor' = editor /\ typing' = typing
      /\ saves' \in Seq(Texts)
  BY <1>2, <1>3
<1>5. value'.here = value.here
      /\ value' \in [server : Texts \ {Another}, here : Texts \ {Another}]
  BY <1>1, <1>2, <1>3 DEF DraftType
<1>6. DraftType'
  BY <1>1, <1>4, <1>5 DEF DraftType, Is
<1>7. CancelInv' /\ FollowInv' /\ DueInv' /\ SentInv'
  BY <1>1, <1>4, <1>5 DEF CancelInv, FollowInv, DueInv, SentInv, Sendable, Is
<1>. QED  BY <1>6, <1>7 DEF DraftInv

\* The draft when the store has a new text: it follows, or stays as it is.
LEMMA SyncDraft ==
    ASSUME DraftInv, NEW t
    PROVE  /\ Follows(t) \in {t, editor.draft}
           /\ Is({"RowTitle", "GroupTitle", "BoardTitle"}) \/ field.row => Follows(t) = t
           /\ Is({"CardTitle"}) /\ editor.draft = value.here => Follows(t) = t
           /\ Is({"CardTitle"}) /\ editor.draft # value.here => Follows(t) = editor.draft
           /\ Is({"Comment", "NewText", "Checkbox"}) => Follows(t) = editor.draft
           /\ Is(Properties) /\ ~field.row => Follows(t) = editor.draft
<1>1. /\ Is({"CardTitle"}) => Follows(t) = IF editor.draft = value.here THEN t ELSE editor.draft
      /\ ~Is({"CardTitle"}) =>
             Follows(t) = IF Is({"GroupTitle", "Date"}) \/ Remounted \/ TakesInitialText(t)
                          THEN t ELSE editor.draft
  <2>1. field.row => Is(Properties)
    BY DEF DraftInv, DraftType
  <2>2. CASE Is({"CardTitle"})
    <3>1. ~Is({"GroupTitle", "Date"}) /\ ~Remounted /\ ~TakesInitialText(t)
      BY <2>1, <2>2 DEF Remounted, TakesInitialText, Is, Properties
    <3>. QED  BY <2>2, <3>1, Zenon DEF Follows, TitleFollows
  <2>3. CASE ~Is({"CardTitle"})
    BY <2>3, Zenon DEF Follows
  <2>. QED  BY <2>2, <2>3, Zenon
<1>2. field.row => Is(Properties)
  BY DEF DraftInv, DraftType
<1>. QED  BY <1>1, <1>2 DEF Remounted, TakesInitialText, Is, Properties

LEMMA SyncKeeps == ASSUME DraftInv, Sync PROVE DraftInv'
<1>. DEFINE t == value.server
            texts == IF field.row /\ editor.open THEN SavedWhenClosed ELSE <<>>
            stays == t # Gone /\ ~Is({"NewText"})
            due == IF t = Gone \/ Is({"RowTitle", "BoardTitle"}) THEN {}
                   ELSE typing.due \ (Range(texts) \cup {t})
            used == editor.used \/ TakesInitialText(t)
            sent == typing.sent \o Sent(texts, "closed")
<1>1. DraftType /\ CancelInv /\ FollowInv /\ DueInv /\ SentInv
  BY DEF DraftInv
<1>2. t \in Texts \ {Another}
  BY <1>1 DEF DraftType
<1>3. /\ field' = field /\ value' = [value EXCEPT !.here = t]
      /\ editor' = [editor EXCEPT !.draft = Follows(t), !.used = used,
                        !.open = editor.open /\ stays,
                        !.focused = editor.focused /\ stays /\ ~Remounted]
      /\ saves' = saves \o texts
      /\ typing' = [typing EXCEPT !.sent = sent, !.due = due]
  BY DEF Sync
<1>4. Fit(texts, "closed")
  BY ClosedFits, NoText DEF Fit
<1>5. /\ saves' \in Seq(Texts) /\ sent \in Seq(SentText)
      /\ \A s \in Range(sent) : Sendable(s)
  BY <1>3, <1>4, Recorded
<1>6. /\ Follows(t) \in Texts \ {Another} /\ used \in BOOLEAN /\ due \in SUBSET Texts
      /\ (stays /\ ~Remounted) \in BOOLEAN
  BY <1>1, <1>2, SyncDraft DEF DraftType, TakesInitialText
<1>7. /\ Is(Keeping) => due \subseteq typing.due \ {t}
      /\ Is({"RowTitle", "BoardTitle"}) \/ t = Gone => due = {}
      /\ Is(Keeping) /\ field.row => due = {}
  <2>1. ASSUME Is(Keeping), field.row
        PROVE  due = {}
    <3>1. Is(SaveWhenClosed) /\ typing.due \subseteq {editor.draft} \ {value.here}
      BY <1>1, <2>1 DEF DraftType, DueInv, Is, SaveWhenClosed
    <3>2. typing.due # {} => texts = SavedWhenClosed
      BY <1>1, <2>1 DEF DueInv
    <3>. HIDE DEF texts
    <3>. QED  BY <2>1, <3>1, <3>2, ClosedFits
  <2>. QED  BY <2>1
<1>. HIDE DEF t, texts, due, used, sent
<1>8. /\ value'.here = t /\ value' \in [server : Texts \ {Another}, here : Texts \ {Another}]
      /\ typing' = [typed |-> typing.typed, dropped |-> typing.dropped, due |-> due, sent |-> sent]
  BY <1>1, <1>2, <1>3 DEF DraftType
<1>9. /\ editor'.draft = Follows(t)
      /\ editor'.open <=> editor.open /\ stays
      /\ editor'.focused <=> editor.focused /\ stays /\ ~Remounted
      /\ editor' \in [open : BOOLEAN, focused : BOOLEAN, draft : Texts \ {Another},
                      cache : Texts, used : BOOLEAN]
  BY <1>1, <1>3, <1>6 DEF DraftType
<1>10. DraftType'
  BY <1>1, <1>3, <1>5, <1>6, <1>8, <1>9 DEF DraftType, Is
<1>11. CancelInv'
  <2>1. (typing.dropped # {} => Is(Editables \ SaveOnEsc))'
    BY <1>1, <1>3, <1>8 DEF CancelInv, Is
  <2>2. ASSUME Follows(t) \in typing.dropped
        PROVE  Follows(t) = t /\ (Is({"RowTitle", "GroupTitle"}) \/ field.row)
    <3>1. Is({"RowTitle", "GroupTitle"} \cup Properties)
      BY <1>1, <2>2 DEF CancelInv, Is, Editables, Titles, SaveOnEsc
    <3>2. ASSUME ~(Is({"RowTitle", "GroupTitle"}) \/ field.row)
          PROVE  FALSE
      <4>1. Follows(t) = editor.draft
        BY <3>1, <3>2, SyncDraft DEF Is
      <4>. QED  BY <1>1, <2>2, <3>2, <4>1 DEF CancelInv
    <3>. QED  BY <3>2, SyncDraft DEF Is
  <2>. QED  BY <1>3, <1>8, <1>9, <2>1, <2>2 DEF CancelInv, Is
<1>12. FollowInv'
  BY <1>1, <1>3, <1>8, <1>9, SyncDraft DEF FollowInv, Is
<1>13. DueInv'
  <2>1. (editor.focused => editor.open /\ field.mayEdit)'
    BY <1>1, <1>3, <1>9 DEF DueInv
  <2>2. ASSUME Is(Keeping)
        PROVE  due \subseteq {Follows(t)} \ {t, "malformed"} /\ (~editor'.focused => due = {})
    <3>1. typing.due \subseteq {editor.draft} \ {value.here, "malformed"}
          /\ (~editor.focused => typing.due = {})
      BY <1>1, <2>2 DEF DueInv
    <3>2. CASE Is({"RowTitle", "BoardTitle"}) \/ field.row \/ t = Gone
      BY <1>7, <2>2, <3>2
    <3>3. CASE ~(Is({"RowTitle", "BoardTitle"}) \/ field.row \/ t = Gone)
      <4>1. ~Remounted /\ stays
        BY <2>2, <3>3 DEF Remounted, Is, Keeping
      <4>2. Is({"CardTitle"}) \/ Is({"Checkbox"}) \/ Is(Properties)
        BY <2>2, <3>3 DEF Is, Keeping, Properties
      <4>3. typing.due # {} => Follows(t) = editor.draft
        BY <3>1, <3>3, <4>2, SyncDraft DEF Is
      <4>. QED  BY <1>7, <1>9, <2>2, <3>1, <4>1, <4>3
    <3>. QED  BY <3>2, <3>3
  <2>. QED  BY <1>3, <1>8, <1>9, <2>1, <2>2 DEF DueInv, Is
<1>14. SentInv'
  BY <1>3, <1>5, <1>8 DEF SentInv, Sendable, Is
<1>. QED  BY <1>10, <1>11, <1>12, <1>13, <1>14 DEF DraftInv

-----------------------------------------------------------------------------
LEMMA DraftInit0 == DraftInit => DraftInv
<1>. SUFFICES ASSUME DraftInit PROVE DraftInv
  OBVIOUS
<1>1. /\ value.here \in {"", "first"} /\ value.server = value.here
      /\ value = [server |-> value.here, here |-> value.here]
      /\ editor = [open |-> TRUE, focused |-> FALSE, draft |-> value.here,
                   cache |-> value.here, used |-> FALSE]
      /\ Is({"NewText", "Comment"}) => value.here = ""
  <2>1. PICK t \in IF Is({"NewText", "Comment"}) THEN {""} ELSE {"", "first"} :
              /\ value = [server |-> t, here |-> t]
              /\ editor = [open |-> TRUE, focused |-> FALSE, draft |-> t,
                           cache |-> t, used |-> FALSE]
    BY Zenon DEF DraftInit
  <2>2. value.here = t /\ value.server = t
    BY <2>1
  <2>3. t \in {"", "first"} /\ (Is({"NewText", "Comment"}) => t = "")
    OBVIOUS
  <2>. QED  BY <2>1, <2>2, <2>3, Zenon
<1>2. value.here \in Texts \ {Another} /\ value.here \in Texts
  BY <1>1, TextsHave
<1>3. <<>> \in Seq(Texts) /\ <<>> \in Seq(SentText) /\ Range(<<>>) = {}
  BY NoText, EmptySeq
<1>4. DraftType
  BY <1>1, <1>2, <1>3 DEF DraftInit, DraftType
<1>5. CancelInv /\ FollowInv /\ DueInv
  BY <1>1 DEF DraftInit, CancelInv, FollowInv, DueInv, Is
<1>6. SentInv
  BY <1>3 DEF DraftInit, SentInv
<1>. QED  BY <1>4, <1>5, <1>6 DEF DraftInv

LEMMA DraftStep == DraftInv /\ [DraftNext]_draftVars => DraftInv'
<1>. SUFFICES ASSUME DraftInv, [DraftNext]_draftVars
              PROVE  DraftInv'
  OBVIOUS
<1>1. CASE UNCHANGED draftVars
  BY <1>1
     DEF draftVars, DraftInv, DraftType, CancelInv, FollowInv, DueInv, SentInv, Sendable, Is
<1>2. ASSUME NEW t \in Mine, Type(t)
      PROVE  DraftInv'
  BY <1>2, TypeKeeps
<1>. QED
  BY <1>1, <1>2, FocusKeeps, BlurKeeps, KeyKeeps, CancelKeeps, ToggleKeeps, CommentKeeps,
     CloseKeeps, SyncKeeps, ServerKeeps DEF DraftNext

LEMMA DraftInvariant == DraftSpec => []DraftInv
<1>. QED  BY DraftInit0, DraftStep, PTL DEF DraftSpec

\* In every field, whatever is typed, cancelled, saved, refused or changed by others, and
\* in every order: what was cancelled is never sent, a field that follows the store sends
\* only what was typed, and one that keeps its text loses none by being left.
THEOREM DraftsCorrect == DraftSpec => []DraftsKept
<1>1. DraftInv => DraftsKept
  BY DEF DraftInv, SentInv, Sendable, DueInv, DraftsKept
<1>. QED  BY <1>1, DraftInvariant, PTL

(***************************************************************************)
(* The tour.                                                               *)
(***************************************************************************)
Categories == {"onboarding", "card", "board", "sidebar"}
Steps == {-1, 0, 1, 2, FINISHED}
Prefs == [started : BOOLEAN, category : Categories \cup {""}, step : Steps, viewed : BOOLEAN]
Places == [category : Categories \cup {""}, step : Steps]

\* What a request may write: nothing, the step alone, the place, the welcome page, a new start.
OnlyStep == [step : Steps \ {-1}]
Moves == {Place(c, 0) : c \in Categories} \cup {Place("sidebar", FINISHED)}
Fields == {<<>>} \cup OnlyStep \cup Moves \cup {[viewed |-> TRUE], Restarted}

Purposes == {"", "skip", "start", "prepare", "prepareAgain", "restart", "fetchMe"}
Patch == [fields : Fields, then : Purposes, seen : Places, served : BOOLEAN, answer : Prefs \cup {<<>>}]

TourType ==
    /\ prefs \in Prefs /\ config \in Prefs
    /\ screen \in [at : {"welcome", "home", "table", "board", "card"},
                   described : BOOLEAN, hidden : BOOLEAN, mounted : BOOLEAN]
    /\ patches \in Seq(Patch)
    /\ troubles \subseteq {"refused", "overtaken", "outdated"}

\* The steps of a place of the tour; the welcome board has one, and no end of its own.
StepsAt(category) ==
    TourCategoriesMapToSteps[category] \cup (IF category = "onboarding" THEN {} ELSE {FINISHED})

\* The tour that the page or an answer knows has begun, at the server it has begun.
\* A step alone is asked for by a tip, which is shown in a tour that has begun: it is one of
\* the category that the page knew then.
Begun ==
    /\ config.started => prefs.started
    /\ \A i \in DOMAIN patches :
           /\ patches[i].answer # <<>> /\ patches[i].answer.started => prefs.started
           /\ patches[i].fields \in OnlyStep =>
                  /\ prefs.started /\ patches[i].then = ""
                  /\ patches[i].seen.category \in Categories
                  /\ patches[i].fields.step \in StepsAt(patches[i].seen.category)

\* AtAStep, with the one step that the welcome board has.
InPlace ==
    prefs.started /\ troubles \cap {"overtaken", "outdated"} = {} =>
        prefs.category \in Categories /\ prefs.step \in StepsAt(prefs.category)

\* An answer that tells the page where the server is.
Informs(a) == a.served /\ a.answer # <<>> /\ a.then \notin Prepares

\* The page will be told: the welcome board was made, or all preferences are asked for.
WillBeTold ==
    \E i \in DOMAIN patches : IF patches[i].served THEN patches[i].then = "prepare" ELSE patches[i].then = "fetchMe"

\* As long as no request was overtaken they are served from the first to the last, and the
\* page, or the last answer on its way to it, knows where the server is.
ServedInOrder == \A i, j \in DOMAIN patches : i < j /\ patches[j].served => patches[i].served
LastKnown ==
    /\ \A i \in DOMAIN patches :
           Informs(patches[i]) /\ (\A j \in DOMAIN patches : i < j => ~Informs(patches[j])) =>
               At(patches[i].answer) = At(prefs)
    /\ (\A i \in DOMAIN patches : ~Informs(patches[i])) => At(config) = At(prefs)
InStep == troubles \subseteq {"refused"} => ServedInOrder /\ (WillBeTold \/ LastKnown)

TourInv == TourType /\ Begun /\ InPlace /\ InStep

-----------------------------------------------------------------------------
(* Requests that are sent *)

\* A request as it is sent: one for a step alone comes from a tip of a tour that has begun.
Asked(a) ==
    /\ a \in Patch /\ ~a.served /\ a.answer = <<>> /\ a.then # "fetchMe"
    /\ a.fields \in OnlyStep =>
           /\ config.started /\ a.then = ""
           /\ a.seen.category \in Categories /\ a.fields.step \in StepsAt(a.seen.category)

\* What a step of the user, or of an effect, does to the tour.
Asks ==
    /\ prefs' = prefs /\ config' = config /\ troubles' = troubles
    /\ patches' = patches \/ \E a \in Patch : Asked(a) /\ patches' = Append(patches, a)

Screens == [at : {"welcome", "home", "table", "board", "card"},
            described : BOOLEAN, hidden : BOOLEAN, mounted : BOOLEAN]

LEMMA AppendElements ==
    ASSUME NEW S, NEW s \in Seq(S), NEW e \in S
    PROVE  /\ Append(s, e) \in Seq(S)
           /\ DOMAIN s = 1 .. Len(s) /\ Len(s) \in Nat
           /\ DOMAIN Append(s, e) = DOMAIN s \cup {Len(s) + 1}
           /\ \A i \in DOMAIN s : Append(s, e)[i] = s[i] /\ i < Len(s) + 1
           /\ Append(s, e)[Len(s) + 1] = e
<1>1. Append(s, e) \in Seq(S) /\ Len(Append(s, e)) = Len(s) + 1
  BY AppendProperties
<1>2. DOMAIN Append(s, e) = 1 .. Len(s) + 1 /\ DOMAIN s = 1 .. Len(s) /\ Len(s) \in Nat
  BY <1>1, LenProperties
<1>. QED  BY <1>1, <1>2, AppendProperties

\* The tour stays what it is when a request is added to those that are not served.
LEMMA SendsKeep ==
    ASSUME TourInv, Asks, screen' \in Screens
    PROVE  TourInv'
<1>1. TourType /\ Begun /\ InPlace /\ InStep
  BY DEF TourInv
<1>2. CASE patches' = patches
  BY <1>1, <1>2 DEF Asks, TourInv, TourType, Screens, Begun, InPlace, InStep,
                    ServedInOrder, WillBeTold, LastKnown
<1>3. ASSUME NEW a \in Patch, Asked(a), patches' = Append(patches, a)
      PROVE  TourInv'
  <2>. DEFINE n == Len(patches) + 1
  <2>1. /\ patches' \in Seq(Patch) /\ n \in Nat
        /\ DOMAIN patches = 1 .. Len(patches)
        /\ DOMAIN patches' = DOMAIN patches \cup {n}
        /\ \A i \in DOMAIN patches : patches'[i] = patches[i] /\ i < n
        /\ patches'[n] = a
    BY <1>1, <1>3, AppendElements DEF TourType
  <2>. HIDE DEF n
  <2>2. TourType' /\ InPlace'
    BY <1>1, <2>1 DEF Asks, TourType, Screens, InPlace
  <2>3. Begun'
    BY <1>1, <1>3, <2>1 DEF Asks, Begun, Asked
  <2>4. ~Informs(a) /\ ~a.served
    BY <1>3 DEF Asked, Informs
  <2>5. ServedInOrder => ServedInOrder'
    <3>. SUFFICES ASSUME ServedInOrder, NEW i \in DOMAIN patches', NEW j \in DOMAIN patches',
                         i < j, patches'[j].served
                  PROVE  patches'[i].served
      BY DEF ServedInOrder
    <3>1. j \in DOMAIN patches
      BY <2>1, <2>4
    <3>2. i \in DOMAIN patches
      BY <2>1, <3>1
    <3>. QED  BY <2>1, <3>1, <3>2 DEF ServedInOrder
  <2>6. WillBeTold => WillBeTold'
    BY <2>1 DEF WillBeTold
  <2>7. LastKnown => LastKnown'
    <3>. SUFFICES ASSUME LastKnown PROVE LastKnown'
      OBVIOUS
    <3>1. ASSUME NEW i \in DOMAIN patches', Informs(patches'[i]),
                 \A j \in DOMAIN patches' : i < j => ~Informs(patches'[j])
          PROVE  At(patches'[i].answer) = At(prefs)
      BY <2>1, <2>4, <3>1 DEF LastKnown
    <3>2. ASSUME \A i \in DOMAIN patches' : ~Informs(patches'[i])
          PROVE  At(config) = At(prefs)
      BY <2>1, <3>2 DEF LastKnown
    <3>. QED  BY <3>1, <3>2 DEF LastKnown, Asks, At, Informs
  <2>8. InStep'
    BY <1>1, <2>5, <2>6, <2>7 DEF InStep, Asks
  <2>. QED  BY <2>2, <2>3, <2>8 DEF TourInv
<1>. QED  BY <1>2, <1>3 DEF Asks

-----------------------------------------------------------------------------
(* What the tips and the effects ask for *)

\* The tips are at steps of their category; the one of the welcome board has no buttons.
LEMMA TipsHave ==
    ASSUME NEW t \in Tips
    PROVE  /\ t.category \in Categories
           /\ t.step \in TourCategoriesMapToSteps[t.category]
           /\ t.category = "onboarding" => ~t.buttons
BY DEF Tips, Tip, OpenCardTourStep, AddPropertiesTourStep, AddCommentTourStep, AddDescriptionTourStep,
       AddViewTourStep, CopyLinkTourStep, ShareBoardTourStep, SidebarCategoriesTourStep,
       ManageCategoriesTourStep, SearchForBoardsTourStep, Categories, TourCategoriesMapToSteps

LEMMA ShownHas ==
    ASSUME NEW t \in Shown
    PROVE  /\ config.started /\ t.category = config.category /\ t.step = config.step
           /\ t.category \in Categories
           /\ t.step \in TourCategoriesMapToSteps[t.category]
           /\ t.category = "onboarding" => ~t.buttons
<1>1. t \in TourTipRenderer(screen.at)
  BY DEF Shown
<1>. QED  BY <1>1, TipsHave DEF TourTipRenderer

\* The steps of a category are 0, or 0 to 2; none of them is the end.
LEMMA StepsHave ==
    ASSUME NEW c \in Categories
    PROVE  /\ 0 \in TourCategoriesMapToSteps[c]
           /\ TourCategoriesMapToSteps[c] \subseteq {0, 1, 2}
           /\ c # "onboarding" => TourCategoriesMapToSteps[c] = {0, 1, 2}
BY DEF Categories, TourCategoriesMapToSteps

\* NEXT: the step after one that is not the last one is a step of the same category.
LEMMA NextStep ==
    ASSUME NEW c \in Categories, NEW n \in TourCategoriesMapToSteps[c], c # "onboarding"
    PROVE  (IF getLastStep(c) = n THEN FINISHED ELSE n + 1) \in StepsAt(c)
<1>1. TourCategoriesMapToSteps[c] = {0, 1, 2}
  BY StepsHave
<1>2. \E m \in {0, 1, 2} : \A k \in {0, 1, 2} : k <= m
  OBVIOUS
<1>3. getLastStep(c) \in {0, 1, 2} /\ \A k \in {0, 1, 2} : k <= getLastStep(c)
  BY <1>1, <1>2 DEF getLastStep
<1>. QED  BY <1>1, <1>3 DEF StepsAt

\* A request for a place, for the welcome page or for a new start.
LEMMA AsksPlain ==
    ASSUME TourType, NEW f \in Moves \cup {[viewed |-> TRUE], Restarted, <<>>}, NEW k \in Purposes
    PROVE  /\ patchUserConfig(f, k) \in Patch
           /\ k # "fetchMe" => Asked(patchUserConfig(f, k))
<1>1. f \in Fields /\ f \notin OnlyStep
  <2>1. CASE f = <<>>
    <3>1. DOMAIN f = {}
      BY <2>1
    <3>. QED  BY <2>1, <3>1 DEF Fields, OnlyStep
  <2>2. CASE f \in Moves \cup {[viewed |-> TRUE], Restarted}
    <3>1. DOMAIN f # {"step"}
      BY <2>2 DEF Moves, Place, Restarted
    <3>. QED  BY <2>2, <3>1 DEF Fields, OnlyStep
  <2>. QED  BY <2>1, <2>2
<1>2. At(config) \in Places
  BY DEF TourType, At, Prefs, Places
<1>. QED  BY <1>1, <1>2 DEF Asked, Patch, patchUserConfig

LEMMA AsksStep ==
    ASSUME TourType, config.started, config.category \in Categories,
           NEW n \in StepsAt(config.category)
    PROVE  Asked(patchUserConfig([step |-> n], ""))
<1>1. n \in Steps \ {-1}
  BY StepsHave DEF StepsAt, Steps, FINISHED
<1>2. At(config) \in Places
  BY DEF TourType, At, Prefs, Places
<1>3. [step |-> n] \in OnlyStep /\ [step |-> n] \in Fields
  BY <1>1 DEF OnlyStep, Fields
<1>. QED  BY <1>2, <1>3 DEF Asked, Patch, patchUserConfig, At, Purposes

\* A request is appended.
LEMMA AsksWhenSent ==
    ASSUME NEW a, Asked(a), Send(a), UNCHANGED <<prefs, config, troubles>>
    PROVE  Asks
BY DEF Asked, Send, Asks

LEMMA RenderType ==
    ASSUME NEW s \in Screens, NEW c
    PROVE  Render(s, c) \in Screens
BY DEF Render, Screens

LEMMA TipSends ==
    ASSUME TourType,
           handleNext \/ handlePrevious \/ ChooseDot \/ handleHide \/ handleOpen \/ CloseTip \/ ClickBackdrop
    PROVE  Asks /\ screen' \in Screens
<1>1. screen \in Screens
  BY DEF TourType, Screens
<1>2. Hide => screen' \in Screens
  BY <1>1 DEF Hide, Screens
<1>3. ASSUME NEW n \in StepsAt(config.category), config.started, config.category \in Categories,
             Stays, handleSavePreferences(n)
      PROVE  Asks /\ screen' \in Screens
  BY <1>2, <1>3, AsksStep, AsksWhenSent DEF handleSavePreferences, Stays
<1>4. ASSUME NEW c \in Categories, Stays, handleSendToNextTour(c)
      PROVE  Asks
  <2>. DEFINE i == CHOOSE i \in DOMAIN TOUR_ORDER : TOUR_ORDER[i] = c
              f == IF i = Len(TOUR_ORDER) THEN Place(c, FINISHED) ELSE Place(TOUR_ORDER[i + 1], 0)
  <2>1. \E j \in DOMAIN TOUR_ORDER : TOUR_ORDER[j] = c
    BY DEF TOUR_ORDER, Categories
  <2>2. i \in 1 .. 4 /\ TOUR_ORDER[i] = c /\ Len(TOUR_ORDER) = 4
    BY <2>1 DEF TOUR_ORDER
  <2>3. f \in Moves
    BY <2>2 DEF TOUR_ORDER, Moves, Categories
  <2>4. Asked(patchUserConfig(f, ""))
    BY <2>3, AsksPlain DEF Purposes
  <2>5. Send(patchUserConfig(f, ""))
    BY <1>4 DEF handleSendToNextTour
  <2>. QED  BY <1>4, <2>4, <2>5, AsksWhenSent DEF Stays
<1>5. CASE handleNext
  <2>1. PICK t \in Shown :
            /\ Stays /\ t.buttons
            /\ handleSavePreferences(IF getLastStep(t.category) = config.step THEN FINISHED ELSE config.step + 1)
    BY <1>5 DEF handleNext
  <2>2. (IF getLastStep(t.category) = config.step THEN FINISHED ELSE config.step + 1) \in StepsAt(config.category)
    BY <2>1, ShownHas, NextStep
  <2>. QED  BY <1>3, <2>1, <2>2, ShownHas
<1>6. CASE handlePrevious
  <2>1. PICK t \in Shown : Stays /\ t.buttons /\ t.step # 0 /\ handleSavePreferences(config.step - 1)
    BY <1>6 DEF handlePrevious
  <2>2. t.step \in {1, 2} /\ TourCategoriesMapToSteps[t.category] = {0, 1, 2}
    BY <2>1, ShownHas, StepsHave
  <2>3. config.step - 1 \in StepsAt(config.category)
    BY <2>2, ShownHas DEF StepsAt
  <2>. QED  BY <1>3, <2>1, <2>3, ShownHas
<1>7. CASE ChooseDot
  <2>1. PICK t \in Shown : Stays /\ \E i \in TourCategoriesMapToSteps[t.category] : handleSavePreferences(i)
    BY <1>7 DEF ChooseDot
  <2>2. TourCategoriesMapToSteps[t.category] \subseteq StepsAt(config.category)
    BY ShownHas DEF StepsAt
  <2>. QED  BY <1>3, <2>1, <2>2, ShownHas
<1>8. CASE handleHide \/ handleOpen
  BY <1>1, <1>8 DEF handleHide, handleOpen, Stays, Hide, Screens, Asks
<1>9. CASE CloseTip \/ ClickBackdrop
  <2>1. PICK t \in Shown : Stays /\ handleSendToNextTour(t.category) /\ (Hide \/ UNCHANGED screen)
    BY <1>9 DEF CloseTip, ClickBackdrop
  <2>. QED  BY <1>1, <1>2, <1>4, <2>1, ShownHas
<1>. QED  BY <1>5, <1>6, <1>7, <1>8, <1>9

LEMMA PageSends ==
    ASSUME TourType,
           \/ StartSidebarTour \/ startBoardsTour \/ OpenCard \/ EditCard \/ CloseCard
           \/ \E at \in NoCard : OpenBoard(at)
           \/ skipTour \/ startTour \/ ProductTour \/ resetTour
    PROVE  Asks /\ screen' \in Screens
<1>1. screen \in Screens
  BY DEF TourType, Screens
<1>2. ASSUME NEW f \in Moves \cup {[viewed |-> TRUE], Restarted}, NEW k \in Purposes \ {"fetchMe"},
             Send(patchUserConfig(f, k)), UNCHANGED <<prefs, config, troubles>>
      PROVE  Asks
  BY <1>2, AsksPlain, AsksWhenSent
<1>3. ASSUME NEW at \in {"welcome", "home", "table", "board", "card"}, GoTo(at)
      PROVE  screen' \in Screens
  <2>1. [screen EXCEPT !.at = at] \in Screens
    BY <1>1 DEF Screens
  <2>. QED  BY <1>3, <2>1, RenderType DEF GoTo
<1>4. ASSUME StartCardTour, Stays
      PROVE  Asks
  <2>1. Place("card", 0) \in Moves /\ "" \in Purposes \ {"fetchMe"}
    BY DEF Moves, Categories, Purposes
  <2>. QED  BY <1>2, <1>4, <2>1 DEF StartCardTour, Stays, Asks
<1>5. CASE StartSidebarTour
  <2>1. Place("sidebar", 0) \in Moves /\ "" \in Purposes \ {"fetchMe"}
    BY DEF Moves, Categories, Purposes
  <2>2. Send(patchUserConfig(Place("sidebar", 0), "")) \/ patches' = patches
    BY <1>5 DEF StartSidebarTour, Send
  <2>3. Asks
    BY <1>2, <1>5, <2>1, <2>2 DEF StartSidebarTour, Asks
  <2>. QED  BY <1>1, <1>5, <2>3 DEF StartSidebarTour, Screens
<1>6. CASE startBoardsTour
  <2>1. Place("board", 0) \in Moves /\ "" \in Purposes \ {"fetchMe"}
    BY DEF Moves, Categories, Purposes
  <2>. QED  BY <1>1, <1>2, <1>6, <2>1 DEF startBoardsTour
<1>7. CASE OpenCard
  BY <1>3, <1>4, <1>7 DEF OpenCard
<1>8. CASE EditCard
  <2>1. [screen EXCEPT !.described = ~@] \in Screens
    BY <1>1 DEF Screens
  <2>. QED  BY <1>4, <1>8, <2>1, RenderType DEF EditCard
<1>9. CASE CloseCard \/ \E at \in NoCard : OpenBoard(at)
  BY <1>3, <1>9 DEF CloseCard, OpenBoard, NoCard, Stays, Asks
<1>10. CASE skipTour \/ startTour \/ ProductTour
  BY <1>1, <1>2, <1>10 DEF skipTour, startTour, ProductTour, Stays, Purposes
<1>11. CASE resetTour
  BY <1>2, <1>3, <1>11 DEF resetTour, Stays, Purposes
<1>. QED  BY <1>5, <1>6, <1>7, <1>8, <1>9, <1>10, <1>11

-----------------------------------------------------------------------------
(* Requests that are served *)

\* The kinds of requests differ in the fields that they name.
LEMMA FieldsHave ==
    ASSUME NEW f \in Fields
    PROVE  /\ f = <<>> => DOMAIN f = {}
           /\ f \in OnlyStep => DOMAIN f = {"step"}
           /\ f \in Moves => DOMAIN f = {"category", "step"}
           /\ f = Restarted => DOMAIN f = {"category", "step", "started"}
           /\ f = [viewed |-> TRUE] => DOMAIN f = {"viewed"}
<1>1. DOMAIN <<>> = {}
  OBVIOUS
<1>2. f \in OnlyStep => DOMAIN f = {"step"}
  BY DEF OnlyStep
<1>3. f \in Moves => DOMAIN f = {"category", "step"}
  BY DEF Moves, Place
<1>4. f = Restarted => DOMAIN f = {"category", "step", "started"}
  BY DEF Restarted
<1>. QED  BY <1>1, <1>2, <1>3, <1>4

LEMMA FieldsDiffer ==
    ASSUME NEW f \in Fields
    PROVE  /\ f \in OnlyStep => f \notin Moves \cup {Restarted, <<>>, [viewed |-> TRUE]}
           /\ f \in Moves \cup {Restarted} => f \notin {<<>>, [viewed |-> TRUE]}
<1>1. "step" # "category" /\ "step" # "viewed" /\ "category" # "viewed"
  OBVIOUS
<1>2. ASSUME f \in OnlyStep, f \in Moves \cup {Restarted, <<>>, [viewed |-> TRUE]}
      PROVE  FALSE
  BY <1>1, <1>2, FieldsHave
<1>3. ASSUME f \in Moves \cup {Restarted}, f \in {<<>>, [viewed |-> TRUE]}
      PROVE  FALSE
  BY <1>1, <1>3, FieldsHave
<1>. QED  BY <1>2, <1>3

\* What the preferences are after a request: only what it names has changed.
LEMMA PatchedHas ==
    ASSUME prefs \in Prefs, NEW f \in Fields
    PROVE  /\ Patched(f) \in Prefs
           /\ prefs.started => Patched(f).started
           /\ f \in OnlyStep => /\ Patched(f).category = prefs.category /\ Patched(f).step = f.step
                                /\ Patched(f).started = prefs.started
           /\ f \in Moves \cup {Restarted} =>
                  /\ Patched(f).category \in Categories /\ Patched(f).step \in StepsAt(Patched(f).category)
           /\ f = Restarted => At(Patched(f)) = At(Restarted)
           /\ f \in {<<>>, [viewed |-> TRUE]} => At(Patched(f)) = At(prefs) /\ Patched(f).started = prefs.started
<1>. DEFINE q == Patched(f)
<1>1. /\ DOMAIN prefs = {"started", "category", "step", "viewed"}
      /\ prefs = [started |-> prefs.started, category |-> prefs.category, step |-> prefs.step, viewed |-> prefs.viewed]
  BY DEF Prefs
<1>2. q = [started |-> IF "started" \in DOMAIN f THEN f.started ELSE prefs.started,
           category |-> IF "category" \in DOMAIN f THEN f.category ELSE prefs.category,
           step |-> IF "step" \in DOMAIN f THEN f.step ELSE prefs.step,
           viewed |-> IF "viewed" \in DOMAIN f THEN f.viewed ELSE prefs.viewed]
  BY <1>1 DEF Patched
<1>. HIDE DEF q
<1>3. prefs.started \in BOOLEAN /\ prefs.viewed \in BOOLEAN /\ prefs.category \in Categories \cup {""} /\ prefs.step \in Steps
  BY DEF Prefs
<1>. DEFINE Goal == /\ q \in Prefs
                    /\ prefs.started => q.started
                    /\ f \in OnlyStep => /\ q.category = prefs.category /\ q.step = f.step
                                         /\ q.started = prefs.started
                    /\ f \in Moves \cup {Restarted} =>
                           q.category \in Categories /\ q.step \in StepsAt(q.category)
                    /\ f = Restarted => At(q) = At(Restarted)
                    /\ f \in {<<>>, [viewed |-> TRUE]} => At(q) = At(prefs) /\ q.started = prefs.started
<1>. SUFFICES Goal
  BY DEF q
<1>4. CASE f = <<>>
  <2>1. q = prefs
    BY <1>1, <1>2, <1>4, FieldsHave
  <2>. QED  BY <1>4, <2>1, FieldsDiffer
<1>5. CASE f \in OnlyStep
  <2>1. DOMAIN f = {"step"} /\ f.step \in Steps
    BY <1>5, FieldsHave DEF OnlyStep
  <2>2. q = [prefs EXCEPT !.step = f.step]
    BY <1>1, <1>2, <2>1
  <2>3. q \in Prefs /\ q.category = prefs.category /\ q.step = f.step /\ q.started = prefs.started
    BY <1>3, <2>1, <2>2 DEF Prefs
  <2>. QED  BY <1>5, <2>3, FieldsDiffer
<1>6. CASE f \in Moves \cup {Restarted}
  <2>1. PICK c \in Categories, n \in {0, FINISHED} : f.category = c /\ f.step = n /\ n \in StepsAt(c)
    <3>1. "onboarding" \in Categories /\ "sidebar" \in Categories /\ FINISHED \in StepsAt("sidebar")
      BY DEF Categories, StepsAt
    <3>2. ASSUME NEW c \in Categories
          PROVE  0 \in StepsAt(c)
      BY StepsHave DEF StepsAt
    <3>3. CASE f = Restarted
      BY <3>1, <3>2, <3>3 DEF Restarted
    <3>4. CASE f = Place("sidebar", FINISHED)
      BY <3>1, <3>4 DEF Place
    <3>5. ASSUME NEW c \in Categories, f = Place(c, 0)
          PROVE  f.category = c /\ f.step = 0 /\ 0 \in StepsAt(c)
      BY <3>2, <3>5 DEF Place
    <3>6. CASE f \in {Place(c, 0) : c \in Categories}
      <4>1. PICK c \in Categories : f = Place(c, 0)
        BY <3>6
      <4>. QED  BY <3>5, <4>1
    <3>. QED  BY <1>6, <3>3, <3>4, <3>6 DEF Moves
  <2>2. /\ "category" \in DOMAIN f /\ "step" \in DOMAIN f /\ "viewed" \notin DOMAIN f
        /\ "started" \in DOMAIN f => f.started = TRUE
    BY <1>6, FieldsHave DEF Restarted
  <2>3. n \in Steps
    BY DEF Steps
  <2>4. q \in Prefs /\ (prefs.started => q.started) /\ q.category = c /\ q.step = n
    BY <1>2, <1>3, <2>1, <2>2, <2>3 DEF Prefs
  <2>5. f = Restarted => At(q) = At(Restarted)
    BY <2>1, <2>4 DEF At
  <2>. QED  BY <1>6, <2>1, <2>4, <2>5, FieldsDiffer
<1>7. CASE f = [viewed |-> TRUE]
  <2>1. DOMAIN f = {"viewed"} /\ f.viewed = TRUE
    BY <1>7, FieldsHave
  <2>2. q = [started |-> prefs.started, category |-> prefs.category, step |-> prefs.step, viewed |-> TRUE]
    BY <1>2, <2>1
  <2>3. q \in Prefs /\ q.category = prefs.category /\ q.step = prefs.step /\ q.started = prefs.started
    BY <1>3, <2>2 DEF Prefs
  <2>4. At(q) = At(prefs)
    BY <2>3 DEF At
  <2>. QED  BY <1>7, <2>3, <2>4, FieldsDiffer
<1>. QED  BY <1>4, <1>5, <1>6, <1>7 DEF Fields

\* The request is marked as served and has its answer; the others stay as they are.
LEMMA ServeType ==
    ASSUME TourInv, NEW i \in DOMAIN patches, NEW refuses \in BOOLEAN, ServePrefs(i, refuses)
    PROVE  LET a == patches[i]
               new == Patched(IF a.then \in Prepares THEN Restarted ELSE a.fields)
           IN  /\ a \in Patch /\ new \in Prefs
               /\ TourType' /\ DOMAIN patches' = DOMAIN patches
               /\ patches'[i] = [a EXCEPT !.served = TRUE, !.answer = IF refuses THEN <<>> ELSE new]
               /\ \A j \in DOMAIN patches : j # i => patches'[j] = patches[j]
<1>. DEFINE a == patches[i]
            new == Patched(IF a.then \in Prepares THEN Restarted ELSE a.fields)
            b == [a EXCEPT !.served = TRUE, !.answer = IF refuses THEN <<>> ELSE new]
<1>1. TourType
  BY DEF TourInv
<1>2. a \in Patch
  BY <1>1, ElementOfSeq DEF TourType
<1>3. new \in Prefs
  <2>1. (IF a.then \in Prepares THEN Restarted ELSE a.fields) \in Fields
    BY <1>2 DEF Patch, Fields
  <2>. QED  BY <1>1, <2>1, PatchedHas DEF TourType
<1>4. b \in Patch
  BY <1>2, <1>3 DEF Patch
<1>5. patches' = [patches EXCEPT ![i] = b] /\ (prefs' = prefs \/ prefs' = new) /\ UNCHANGED <<config, screen>>
  BY DEF ServePrefs
<1>6. troubles' \subseteq {"refused", "overtaken", "outdated"}
  BY <1>1 DEF ServePrefs, TourType
<1>. HIDE DEF a, new, b
<1>7. patches' \in Seq(Patch) /\ DOMAIN patches' = DOMAIN patches
  BY <1>1, <1>4, <1>5, ExceptSeq DEF TourType
<1>8. TourType'
  BY <1>1, <1>3, <1>5, <1>6, <1>7 DEF TourType
<1>9. patches'[i] = b /\ \A j \in DOMAIN patches : j # i => patches'[j] = patches[j]
  BY <1>5
<1>. QED  BY <1>2, <1>3, <1>7, <1>8, <1>9 DEF a, new, b

\* What a serve tells of the order of the requests and of their place in the tour.
LEMMA ServeTroubles ==
    ASSUME NEW i \in DOMAIN patches, NEW refuses \in BOOLEAN, ServePrefs(i, refuses)
    PROVE  LET a == patches[i] IN
           /\ troubles \subseteq troubles' /\ ~a.served
           /\ refuses => a.then # "fetchMe"
           /\ "overtaken" \notin troubles' => \A j \in 1 .. (i - 1) : patches[j].served
           /\ "outdated" \notin troubles' =>
                  /\ DOMAIN a.fields = {"step"} => a.seen.category = prefs.category
                  /\ a.then = "prepareAgain" => Len(patches) <= 1 /\ At(prefs) = At(Restarted)
<1>. DEFINE a == patches[i]
<1>1. /\ ~a.served /\ (refuses => a.then # "fetchMe")
      /\ troubles' = troubles \cup (IF refuses THEN {"refused"} ELSE {})
               \cup {"overtaken" : j \in {j \in 1 .. (i - 1) : ~patches[j].served}}
               \cup (IF "category" \notin DOMAIN a.fields /\ "step" \in DOMAIN a.fields /\ a.seen.category # prefs.category
                     THEN {"outdated"} ELSE {})
               \cup (IF a.then \in Prepares /\ (Len(patches) > 1 \/ (a.then = "prepareAgain" /\ {a.seen, At(prefs)} # {At(Restarted)}))
                     THEN {"outdated"} ELSE {})
  BY DEF ServePrefs
<1>2. ASSUME NEW j \in 1 .. (i - 1), ~patches[j].served
      PROVE  "overtaken" \in troubles'
  BY <1>1, <1>2
<1>3. ASSUME DOMAIN a.fields = {"step"}, a.seen.category # prefs.category
      PROVE  "outdated" \in troubles'
  BY <1>1, <1>3
<1>4. ASSUME a.then = "prepareAgain", Len(patches) > 1 \/ At(prefs) # At(Restarted)
      PROVE  "outdated" \in troubles'
  <2>1. a.then \in Prepares
    BY <1>4 DEF Prepares
  <2>2. Len(patches) > 1 \/ {a.seen, At(prefs)} # {At(Restarted)}
    BY <1>4
  <2>. HIDE DEF a
  <2>. QED  BY <1>1, <1>4, <2>1, <2>2
<1>5. Len(patches) > 1 \/ Len(patches) <= 1 \/ ~(Len(patches) \in Int)
  OBVIOUS
<1>. QED  BY <1>1, <1>2, <1>3, <1>4, <1>5

\* The server's step keeps the tour at a place that it has.
LEMMA ServeInPlace ==
    ASSUME TourInv, NEW i \in DOMAIN patches, NEW refuses \in BOOLEAN, ServePrefs(i, refuses)
    PROVE  Begun' /\ InPlace' /\ (prefs.started => prefs'.started)
<1>. DEFINE a == patches[i]
            f == IF a.then \in Prepares THEN Restarted ELSE a.fields
<1>1. TourType /\ Begun /\ InPlace
  BY DEF TourInv
<1>2. /\ a \in Patch /\ DOMAIN patches' = DOMAIN patches
      /\ patches'[i] = [a EXCEPT !.served = TRUE, !.answer = IF refuses THEN <<>> ELSE Patched(f)]
      /\ \A j \in DOMAIN patches : j # i => patches'[j] = patches[j]
  BY ServeType
<1>3. config' = config /\ prefs' = IF refuses THEN prefs ELSE Patched(f)
  BY DEF ServePrefs
<1>4. f \in Fields /\ (f \in OnlyStep => f = a.fields)
  <2>1. Restarted \in Fields
    BY DEF Fields
  <2>. QED  BY <1>2, <2>1, FieldsDiffer DEF Patch
<1>5. patches'[i].fields = a.fields /\ patches'[i].then = a.then /\ patches'[i].seen = a.seen
      /\ patches'[i].answer = IF refuses THEN <<>> ELSE Patched(f)
  BY <1>2 DEF Patch
<1>6. prefs.started => prefs'.started
  BY <1>1, <1>3, <1>4, PatchedHas DEF TourType
<1>7. Begun'
  <2>1. config'.started => prefs'.started
    BY <1>1, <1>3, <1>6 DEF Begun
  <2>2. ASSUME NEW j \in DOMAIN patches, patches'[j].answer # <<>>, patches'[j].answer.started
        PROVE  prefs'.started
    <3>1. CASE j # i
      BY <1>1, <1>2, <1>6, <2>2, <3>1 DEF Begun
    <3>2. CASE j = i
      BY <1>3, <1>5, <2>2, <3>2
    <3>. QED  BY <3>1, <3>2
  <2>3. ASSUME NEW j \in DOMAIN patches, patches'[j].fields \in OnlyStep
        PROVE  /\ prefs'.started /\ patches'[j].then = ""
               /\ patches'[j].seen.category \in Categories
               /\ patches'[j].fields.step \in StepsAt(patches'[j].seen.category)
    <3>1. patches'[j].fields = patches[j].fields /\ patches'[j].then = patches[j].then /\ patches'[j].seen = patches[j].seen
      BY <1>2, <1>5
    <3>. QED  BY <1>1, <1>6, <2>3, <3>1 DEF Begun
  <2>. QED  BY <1>2, <2>1, <2>2, <2>3 DEF Begun
<1>8. InPlace'
  <2>. SUFFICES ASSUME prefs'.started, troubles' \cap {"overtaken", "outdated"} = {}
                PROVE  prefs'.category \in Categories /\ prefs'.step \in StepsAt(prefs'.category)
    BY DEF InPlace
  <2>1. troubles \cap {"overtaken", "outdated"} = {} /\ (DOMAIN a.fields = {"step"} => a.seen.category = prefs.category)
    BY ServeTroubles
  <2>2. CASE refuses
    BY <1>1, <1>3, <2>1, <2>2 DEF InPlace
  <2>3. CASE ~refuses /\ f \in Moves \cup {Restarted}
    BY <1>1, <1>3, <1>4, <2>3, PatchedHas DEF TourType
  <2>4. CASE ~refuses /\ f \in {<<>>, [viewed |-> TRUE]}
    <3>1. At(prefs') = At(prefs) /\ prefs'.started = prefs.started
      BY <1>1, <1>3, <1>4, <2>4, PatchedHas DEF TourType
    <3>2. prefs'.category = prefs.category /\ prefs'.step = prefs.step
      BY <3>1 DEF At
    <3>. QED  BY <1>1, <2>1, <3>1, <3>2 DEF InPlace
  <2>5. CASE ~refuses /\ f \in OnlyStep
    <3>1. f = a.fields /\ DOMAIN a.fields = {"step"}
      BY <1>4, <2>5, FieldsHave
    <3>2. prefs'.category = prefs.category /\ prefs'.step = a.fields.step
      BY <1>1, <1>3, <1>4, <2>5, <3>1, PatchedHas DEF TourType
    <3>. QED  BY <1>1, <2>1, <2>5, <3>1, <3>2 DEF Begun
  <2>. QED  BY <1>4, <2>2, <2>3, <2>4, <2>5 DEF Fields
<1>. QED  BY <1>6, <1>7, <1>8

\* The page, or the last answer, or one that will come, knows where the server is.
LEMMA ServeInStep ==
    ASSUME TourInv, NEW i \in DOMAIN patches, NEW refuses \in BOOLEAN, ServePrefs(i, refuses)
    PROVE  InStep'
<1>. DEFINE a == patches[i]
            f == IF a.then \in Prepares THEN Restarted ELSE a.fields
<1>. SUFFICES ASSUME troubles' \subseteq {"refused"}
              PROVE  ServedInOrder' /\ (WillBeTold' \/ LastKnown')
  BY DEF InStep
<1>1. /\ a \in Patch /\ DOMAIN patches' = DOMAIN patches
      /\ patches'[i] = [a EXCEPT !.served = TRUE, !.answer = IF refuses THEN <<>> ELSE Patched(f)]
      /\ \A j \in DOMAIN patches : j # i => patches'[j] = patches[j]
  BY ServeType
<1>2. /\ patches'[i].served /\ patches'[i].then = a.then
      /\ patches'[i].answer = IF refuses THEN <<>> ELSE Patched(f)
  BY <1>1 DEF Patch
<1>3. config' = config /\ prefs' = IF refuses THEN prefs ELSE Patched(f)
  BY DEF ServePrefs
<1>4. /\ ~a.served /\ (refuses => a.then # "fetchMe") /\ troubles \subseteq {"refused"}
      /\ \A j \in 1 .. (i - 1) : patches[j].served
      /\ a.then = "prepareAgain" => Len(patches) <= 1 /\ At(prefs) = At(Restarted)
  BY ServeTroubles
<1>5. ServedInOrder /\ (WillBeTold \/ LastKnown)
  BY <1>4 DEF TourInv, InStep
<1>6. DOMAIN patches = 1 .. Len(patches) /\ Len(patches) \in Nat
  BY LenProperties DEF TourInv, TourType
<1>7. ServedInOrder'
  <2>. SUFFICES ASSUME NEW j \in DOMAIN patches, NEW k \in DOMAIN patches, j < k, patches'[k].served
                PROVE  patches'[j].served
    BY <1>1 DEF ServedInOrder
  <2>1. CASE k = i
    <3>1. j \in 1 .. (i - 1) /\ j # i
      BY <1>6, <2>1
    <3>. QED  BY <1>1, <1>4, <3>1
  <2>2. CASE k # i
    BY <1>1, <1>2, <1>5, <2>2 DEF ServedInOrder
  <2>. QED  BY <2>1, <2>2
<1>8. CASE refuses
  <2>1. ~Informs(patches[i]) /\ ~Informs(patches'[i]) /\ \A j \in DOMAIN patches : j # i => patches'[j] = patches[j]
    BY <1>1, <1>2, <1>4, <1>8 DEF Informs
  <2>2. WillBeTold => WillBeTold'
    <3>. SUFFICES ASSUME NEW k \in DOMAIN patches,
                         IF patches[k].served THEN patches[k].then = "prepare" ELSE patches[k].then = "fetchMe"
                  PROVE  WillBeTold'
      BY DEF WillBeTold
    <3>1. k # i
      BY <1>4, <1>8
    <3>2. patches'[k] = patches[k] /\ k \in DOMAIN patches'
      BY <1>1, <3>1
    <3>. QED  BY <3>2 DEF WillBeTold
  <2>3. LastKnown => LastKnown'
    <3>. SUFFICES ASSUME LastKnown PROVE LastKnown'
      OBVIOUS
    <3>1. ASSUME NEW j \in DOMAIN patches, Informs(patches'[j]),
                 \A k \in DOMAIN patches : j < k => ~Informs(patches'[k])
          PROVE  At(patches'[j].answer) = At(prefs)
      <4>1. j # i /\ patches'[j] = patches[j]
        BY <2>1, <3>1
      <4>2. \A k \in DOMAIN patches : j < k => ~Informs(patches[k])
        BY <2>1, <3>1
      <4>. QED  BY <3>1, <4>1, <4>2 DEF LastKnown
    <3>2. ASSUME \A j \in DOMAIN patches : ~Informs(patches'[j])
          PROVE  At(config) = At(prefs)
      <4>1. \A j \in DOMAIN patches : ~Informs(patches[j])
        BY <2>1, <3>2
      <4>. QED  BY <4>1 DEF LastKnown
    <3>3. prefs' = prefs
      BY <1>3, <1>8
    <3>. QED  BY <1>1, <1>3, <3>1, <3>2, <3>3 DEF LastKnown, At, Informs
  <2>. QED  BY <1>5, <1>7, <2>2, <2>3
<1>9. CASE ~refuses /\ a.then = "prepare"
  <2>1. i \in DOMAIN patches' /\ patches'[i].served /\ patches'[i].then = "prepare"
    BY <1>1, <1>2, <1>9
  <2>2. WillBeTold'
    BY <2>1 DEF WillBeTold
  <2>. QED  BY <1>7, <2>2
<1>10. CASE ~refuses /\ a.then = "prepareAgain"
  <2>1. i = 1 /\ DOMAIN patches = {1}
    BY <1>4, <1>6, <1>10
  <2>2. ~WillBeTold
    BY <1>4, <1>10, <2>1 DEF WillBeTold
  <2>3. ~Informs(patches[1]) /\ ~Informs(patches'[1])
    BY <1>2, <1>10, <2>1 DEF Informs, Prepares
  <2>4. At(config) = At(prefs)
    BY <1>5, <2>1, <2>2, <2>3 DEF LastKnown
  <2>5. prefs \in Prefs /\ Restarted \in Fields
    BY DEF TourInv, TourType, Fields
  <2>6. At(prefs') = At(prefs)
    BY <1>3, <1>4, <1>10, <2>5, PatchedHas DEF Prepares
  <2>7. LastKnown'
    BY <1>1, <1>3, <2>1, <2>3, <2>4, <2>6 DEF LastKnown, At, Informs
  <2>. QED  BY <1>7, <2>7
<1>11. CASE ~refuses /\ a.then \notin Prepares
  <2>1. patches'[i].answer = prefs' /\ prefs' # <<>>
    <3>1. prefs' \in Prefs
      BY ServeType DEF TourType
    <3>2. DOMAIN prefs' = {"started", "category", "step", "viewed"}
      BY <3>1 DEF Prefs
    <3>3. DOMAIN <<>> = {}
      OBVIOUS
    <3>4. prefs' # <<>>
      BY <3>2, <3>3
    <3>. QED  BY <1>2, <1>3, <1>11, <3>4
  <2>2. Informs(patches'[i])
    BY <1>2, <1>11, <2>1 DEF Informs
  <2>3. ASSUME NEW j \in DOMAIN patches, i < j
        PROVE  ~Informs(patches'[j])
    <3>1. ~patches[j].served
      BY <1>4, <1>5, <2>3 DEF ServedInOrder
    <3>2. patches'[j] = patches[j]
      BY <1>1, <1>6, <2>3
    <3>. QED  BY <3>1, <3>2 DEF Informs
  <2>4. ASSUME NEW j \in DOMAIN patches, Informs(patches'[j]),
               \A k \in DOMAIN patches : j < k => ~Informs(patches'[k])
        PROVE  j = i
    BY <1>6, <2>2, <2>3, <2>4
  <2>5. LastKnown'
    <3>1. ASSUME NEW j \in DOMAIN patches', Informs(patches'[j]),
                 \A k \in DOMAIN patches' : j < k => ~Informs(patches'[k])
          PROVE  At(patches'[j].answer) = At(prefs')
      BY <1>1, <2>1, <2>4, <3>1
    <3>2. ~ \A j \in DOMAIN patches' : ~Informs(patches'[j])
      BY <1>1, <2>2
    <3>. QED  BY <3>1, <3>2 DEF LastKnown, At, Informs
  <2>. QED  BY <1>7, <2>5
<1>. QED  BY <1>8, <1>9, <1>10, <1>11 DEF Prepares

-----------------------------------------------------------------------------
(* Requests that are answered *)

\* One element of a sequence is removed and others are added after it.
LEMMA RemovedThen ==
    ASSUME NEW S, NEW s \in Seq(S), NEW i \in DOMAIN s, NEW t \in Seq(S)
    PROVE  LET r == RemoveAt(s, i) \o t IN
           /\ r \in Seq(S) /\ s[i] \in S
           /\ Len(s) \in Nat /\ Len(t) \in Nat /\ DOMAIN s = 1 .. Len(s) /\ DOMAIN t = 1 .. Len(t)
           /\ DOMAIN r = 1 .. (Len(s) - 1 + Len(t))
           /\ \A k \in DOMAIN r :
                  r[k] = IF k < i THEN s[k] ELSE IF k < Len(s) THEN s[k + 1] ELSE t[k - Len(s) + 1]
<1>. DEFINE front == SubSeq(s, 1, i - 1)
            back == SubSeq(s, i + 1, Len(s))
            r == (front \o back) \o t
<1>1. Len(s) \in Nat /\ DOMAIN s = 1 .. Len(s) /\ s[i] \in S /\ Len(t) \in Nat /\ DOMAIN t = 1 .. Len(t)
  BY LenProperties, ElementOfSeq
<1>2. /\ front \in Seq(S) /\ Len(front) = i - 1
      /\ \A k \in 1 .. (i - 1) : front[k] = s[k]
  BY <1>1, SubSeqProperties
<1>3. /\ back \in Seq(S) /\ Len(back) = Len(s) - i
      /\ \A k \in 1 .. (Len(s) - i) : back[k] = s[k + i]
  BY <1>1, SubSeqProperties
<1>. HIDE DEF front, back
<1>4. /\ front \o back \in Seq(S) /\ Len(front \o back) = Len(front) + Len(back)
      /\ \A k \in 1 .. Len(front) + Len(back) :
             (front \o back)[k] = IF k <= Len(front) THEN front[k] ELSE back[k - Len(front)]
  BY <1>2, <1>3, ConcatProperties
<1>. DEFINE kept == front \o back
<1>. HIDE DEF kept
<1>5. /\ kept \in Seq(S) /\ Len(kept) = Len(s) - 1
      /\ \A k \in 1 .. (Len(s) - 1) : kept[k] = IF k < i THEN s[k] ELSE s[k + 1]
  <2>1. Len(front) + Len(back) = Len(s) - 1 /\ i \in 1 .. Len(s)
    BY <1>1, <1>2, <1>3
  <2>2. ASSUME NEW k \in 1 .. (Len(s) - 1)
        PROVE  kept[k] = IF k < i THEN s[k] ELSE s[k + 1]
    <3>1. CASE k < i
      <4>1. k <= Len(front) /\ k \in 1 .. (i - 1)
        BY <1>2, <2>1, <3>1
      <4>. QED  BY <1>2, <1>4, <2>1, <3>1, <4>1 DEF kept
    <3>2. CASE ~(k < i)
      <4>1. ~(k <= Len(front)) /\ k - Len(front) \in 1 .. (Len(s) - i) /\ k - Len(front) + i = k + 1
        BY <1>1, <1>2, <2>1, <3>2
      <4>2. back[k - Len(front)] = s[k + 1]
        BY <1>3, <4>1
      <4>. QED  BY <1>4, <2>1, <3>2, <4>1, <4>2 DEF kept
    <3>. QED  BY <3>1, <3>2
  <2>. QED  BY <1>4, <2>1, <2>2 DEF kept
<1>6. /\ kept \o t \in Seq(S) /\ Len(kept \o t) = Len(kept) + Len(t)
      /\ \A k \in 1 .. Len(kept) + Len(t) :
             (kept \o t)[k] = IF k <= Len(kept) THEN kept[k] ELSE t[k - Len(kept)]
  BY <1>1, <1>5, ConcatProperties
<1>7. DOMAIN (kept \o t) = 1 .. (Len(s) - 1 + Len(t))
  BY <1>5, <1>6, LenProperties
<1>8. RemoveAt(s, i) = kept
  BY DEF RemoveAt, kept, front, back
<1>9. ASSUME NEW k \in 1 .. (Len(s) - 1 + Len(t))
      PROVE  (kept \o t)[k] = IF k < i THEN s[k] ELSE IF k < Len(s) THEN s[k + 1] ELSE t[k - Len(s) + 1]
  <2>1. CASE k < Len(s)
    BY <1>1, <1>5, <1>6, <2>1
  <2>2. CASE ~(k < Len(s))
    <3>1. ~(k < i) /\ k - (Len(s) - 1) = k - Len(s) + 1 /\ ~(k <= Len(s) - 1)
      BY <1>1, <2>2
    <3>. QED  BY <1>5, <1>6, <2>2, <3>1
  <2>. QED  BY <2>1, <2>2
<1>. QED  BY <1>1, <1>6, <1>7, <1>8, <1>9

\* What is asked for when an answer has come: a place, the welcome board, or all preferences.
LEMMA ThenHas ==
    ASSUME TourType, NEW a \in Patch
    PROVE  /\ Then(a) \in Seq(Patch)
           /\ \A k \in DOMAIN Then(a) :
                  /\ ~Then(a)[k].served /\ Then(a)[k].answer = <<>>
                  /\ Then(a)[k].fields \notin OnlyStep
           /\ a.then = "prepare" => Len(Then(a)) = 1 /\ Then(a)[1].then = "fetchMe"
<1>. DEFINE Fresh(b) == b \in Patch /\ ~b.served /\ b.answer = <<>> /\ b.fields \notin OnlyStep
<1>1. ASSUME NEW f \in Moves \cup {<<>>}, NEW k \in Purposes
      PROVE  Fresh(patchUserConfig(f, k)) /\ patchUserConfig(f, k).then = k
  <2>1. patchUserConfig(f, k) \in Patch
    BY <1>1, AsksPlain
  <2>2. patchUserConfig(f, k).fields = f /\ ~patchUserConfig(f, k).served
        /\ patchUserConfig(f, k).answer = <<>> /\ patchUserConfig(f, k).then = k
    BY DEF patchUserConfig
  <2>3. f \in Fields
    BY DEF Fields
  <2>4. f \notin OnlyStep
    BY <2>3, FieldsDiffer
  <2>. QED  BY <2>1, <2>2, <2>4
<1>2. ASSUME NEW k \in Purposes
      PROVE  Fresh(Request(k)) /\ Request(k).then = k
  <2>1. "" \in Purposes /\ Fresh(patchUserConfig(<<>>, ""))
    BY <1>1 DEF Purposes
  <2>2. Request(k) = [patchUserConfig(<<>>, "") EXCEPT !.then = k]
    BY DEF Request
  <2>3. patchUserConfig(<<>>, "") = [fields |-> <<>>, then |-> "", seen |-> At(config), served |-> FALSE, answer |-> <<>>]
    BY DEF patchUserConfig
  <2>4. Request(k) = patchUserConfig(<<>>, k)
    BY <2>2, <2>3 DEF patchUserConfig
  <2>. QED  BY <1>1, <2>4
<1>3. ASSUME NEW b, Fresh(b)
      PROVE  /\ <<b>> \in Seq(Patch) /\ Len(<<b>>) = 1
             /\ \A k \in DOMAIN <<b>> : k = 1
             /\ <<b>>[1] = b
  BY <1>3
<1>4. \/ a.then = "skip" /\ Then(a) = <<patchUserConfig(Place("sidebar", FINISHED), "")>>
      \/ a.then = "start" /\ Then(a) = <<Request("prepare")>>
      \/ a.then = "prepare" /\ Then(a) = <<Request("fetchMe")>>
      \/ a.then = "restart" /\ Then(a) = <<Request("prepareAgain")>>
      \/ a.then # "prepare" /\ Then(a) = <<>>
  BY DEF Then
<1>5. CASE Then(a) = <<>> /\ a.then # "prepare"
  <2>1. <<>> \in Seq(Patch) /\ DOMAIN <<>> = {}
    OBVIOUS
  <2>. QED  BY <1>5, <2>1
<1>6. CASE \E b : Fresh(b) /\ Then(a) = <<b>> /\ (a.then = "prepare" => b.then = "fetchMe")
  BY <1>3, <1>6
<1>7. Place("sidebar", FINISHED) \in Moves /\ {"", "prepare", "fetchMe", "prepareAgain"} \subseteq Purposes
  BY DEF Moves, Purposes
<1>8. /\ Fresh(patchUserConfig(Place("sidebar", FINISHED), ""))
      /\ Fresh(Request("prepare")) /\ Fresh(Request("prepareAgain"))
      /\ Fresh(Request("fetchMe")) /\ Request("fetchMe").then = "fetchMe"
  BY <1>1, <1>2, <1>7
<1>. HIDE DEF Fresh
<1>9. CASE a.then # "prepare" /\ \E b : Fresh(b) /\ Then(a) = <<b>>
  BY <1>6, <1>9
<1>10. CASE a.then = "prepare" /\ Then(a) = <<Request("fetchMe")>>
  BY <1>6, <1>8, <1>10
<1>11. \/ Then(a) = <<>> /\ a.then # "prepare"
       \/ a.then # "prepare" /\ \E b : Fresh(b) /\ Then(a) = <<b>>
       \/ a.then = "prepare" /\ Then(a) = <<Request("fetchMe")>>
  BY <1>4, <1>8
<1>. QED  BY <1>5, <1>9, <1>10, <1>11

\* What the page knows after an answer, and what is under way.
LEMMA AnswerType ==
    ASSUME TourInv, NEW i \in DOMAIN patches, Answer(i)
    PROVE  LET a == patches[i]
               m == Len(patches)
           IN  /\ a \in Patch /\ a.served /\ config' = Known(a) /\ prefs' = prefs
               /\ troubles \subseteq troubles' /\ (troubles' \subseteq {"refused"} => i = 1)
               /\ TourType'
               /\ Then(a) \in Seq(Patch) /\ m \in Nat /\ Len(Then(a)) \in Nat
               /\ DOMAIN patches = 1 .. m /\ DOMAIN Then(a) = 1 .. Len(Then(a))
               /\ DOMAIN patches' = 1 .. (m - 1 + Len(Then(a)))
               /\ \A k \in DOMAIN patches' :
                      patches'[k] = IF k < i THEN patches[k] ELSE IF k < m THEN patches[k + 1] ELSE Then(a)[k - m + 1]
<1>. DEFINE a == patches[i]
            c == Known(a)
            to == IF a.then \in {"fetchMe", "prepareAgain"} THEN (IF c.started /\ a.answer # <<>> THEN "board" ELSE "home") ELSE screen.at
<1>1. TourType
  BY DEF TourInv
<1>2. a \in Patch /\ Then(a) \in Seq(Patch)
  BY <1>1, ElementOfSeq, LenProperties, ThenHas DEF TourType
<1>3. /\ a.served /\ config' = c /\ prefs' = prefs
      /\ screen' = Render([screen EXCEPT !.at = FBRoute(c, to)], c)
      /\ patches' = RemoveAt(patches, i) \o Then(a)
      /\ troubles' = IF i > 1 THEN troubles \cup {"overtaken"} ELSE troubles
  BY DEF Answer
<1>4. c \in Prefs
  BY <1>1, <1>2 DEF Known, TourType, Patch
<1>5. [screen EXCEPT !.at = FBRoute(c, to)] \in Screens
  <2>1. screen \in Screens
    BY <1>1 DEF TourType, Screens
  <2>2. to \in {"welcome", "home", "table", "board", "card"}
    BY <2>1 DEF Screens
  <2>3. FBRoute(c, to) \in {"welcome", "home", "table", "board", "card"}
    BY <2>2 DEF FBRoute
  <2>. QED  BY <2>1, <2>3 DEF Screens
<1>6. screen' \in Screens
  BY <1>3, <1>5, RenderType
<1>. HIDE DEF a, c, to
<1>7. LET m == Len(patches) IN
      /\ patches' \in Seq(Patch) /\ m \in Nat /\ Len(Then(a)) \in Nat
      /\ DOMAIN patches = 1 .. m /\ DOMAIN Then(a) = 1 .. Len(Then(a))
      /\ DOMAIN patches' = 1 .. (m - 1 + Len(Then(a)))
      /\ \A k \in DOMAIN patches' :
             patches'[k] = IF k < i THEN patches[k] ELSE IF k < m THEN patches[k + 1] ELSE Then(a)[k - m + 1]
  BY <1>1, <1>2, <1>3, RemovedThen DEF TourType
<1>8. troubles' \subseteq {"refused", "overtaken", "outdated"}
  BY <1>1, <1>3 DEF TourType
<1>9. TourType'
  BY <1>1, <1>3, <1>4, <1>6, <1>7, <1>8 DEF TourType, Screens
<1>10. troubles \subseteq troubles' /\ (troubles' \subseteq {"refused"} => i = 1)
  <2>1. i \in 1 .. Len(patches) /\ Len(patches) \in Nat
    BY <1>1, LenProperties DEF TourType
  <2>2. i > 1 => "overtaken" \in troubles'
    BY <1>3
  <2>3. ~(i > 1) => i = 1
    BY <2>1
  <2>. QED  BY <1>3, <2>2, <2>3
<1>. QED  BY <1>2, <1>3, <1>7, <1>9, <1>10 DEF a, c

\* What an answer tells has been true, and the requests that follow it are new.
LEMMA AnswerInPlace ==
    ASSUME TourInv, NEW i \in DOMAIN patches, Answer(i)
    PROVE  Begun' /\ InPlace'
<1>. DEFINE a == patches[i]
            m == Len(patches)
            t == Then(a)
<1>0. TourType /\ Begun /\ InPlace
  BY DEF TourInv
<1>1. /\ a \in Patch /\ config' = Known(a) /\ prefs' = prefs /\ troubles \subseteq troubles'
      /\ m \in Nat /\ Len(t) \in Nat /\ DOMAIN patches = 1 .. m /\ DOMAIN t = 1 .. Len(t)
      /\ DOMAIN patches' = 1 .. (m - 1 + Len(t))
      /\ \A k \in DOMAIN patches' :
             patches'[k] = IF k < i THEN patches[k] ELSE IF k < m THEN patches[k + 1] ELSE t[k - m + 1]
  BY AnswerType
<1>2. \A k \in DOMAIN t : t[k].answer = <<>> /\ t[k].fields \notin OnlyStep
  BY <1>0, <1>1, ThenHas
<1>. HIDE DEF t, m
<1>3. ASSUME NEW k \in DOMAIN patches'
      PROVE  (\E j \in DOMAIN patches : patches'[k] = patches[j]) \/ (\E j \in DOMAIN t : patches'[k] = t[j])
  <2>1. CASE k < i
    BY <1>1, <2>1
  <2>2. CASE ~(k < i) /\ k < m
    BY <1>1, <2>2
  <2>3. CASE ~(k < i) /\ ~(k < m)
    <3>1. k - m + 1 \in DOMAIN t /\ patches'[k] = t[k - m + 1]
      BY <1>1, <2>3
    <3>. QED  BY <3>1
  <2>. QED  BY <2>1, <2>2, <2>3
<1>4. config'.started => prefs'.started
  BY <1>0, <1>1 DEF Known, Begun
<1>5. Begun'
  <2>1. ASSUME NEW k \in DOMAIN patches'
        PROVE  /\ patches'[k].answer # <<>> /\ patches'[k].answer.started => prefs'.started
               /\ patches'[k].fields \in OnlyStep =>
                      /\ prefs'.started /\ patches'[k].then = ""
                      /\ patches'[k].seen.category \in Categories
                      /\ patches'[k].fields.step \in StepsAt(patches'[k].seen.category)
    <3>1. CASE \E j \in DOMAIN patches : patches'[k] = patches[j]
      BY <1>0, <1>1, <3>1 DEF Begun
    <3>2. CASE \E j \in DOMAIN t : patches'[k] = t[j]
      BY <1>2, <3>2
    <3>. QED  BY <1>3, <3>1, <3>2
  <2>. QED  BY <1>4, <2>1 DEF Begun
<1>6. InPlace'
  BY <1>0, <1>1 DEF InPlace
<1>. QED  BY <1>5, <1>6

\* The first answer gives the page what it tells; the others remain as they were.
LEMMA AnswerInStep ==
    ASSUME TourInv, NEW i \in DOMAIN patches, Answer(i)
    PROVE  InStep'
<1>. DEFINE a == patches[1]
            m == Len(patches)
            t == Then(a)
<1>. SUFFICES ASSUME troubles' \subseteq {"refused"}
              PROVE  ServedInOrder' /\ (WillBeTold' \/ LastKnown')
  BY DEF InStep
<1>0. TourType /\ ServedInOrder /\ (WillBeTold \/ LastKnown) /\ i = 1
  BY AnswerType DEF TourInv, InStep
<1>1. /\ a \in Patch /\ a.served /\ config' = Known(a) /\ prefs' = prefs
      /\ m \in Nat /\ Len(t) \in Nat /\ DOMAIN patches = 1 .. m /\ DOMAIN t = 1 .. Len(t)
      /\ DOMAIN patches' = 1 .. (m - 1 + Len(t))
      /\ \A k \in DOMAIN patches' :
             patches'[k] = IF k < 1 THEN patches[k] ELSE IF k < m THEN patches[k + 1] ELSE t[k - m + 1]
  BY <1>0, AnswerType
<1>2. /\ \A k \in DOMAIN t : ~t[k].served
      /\ a.then = "prepare" => Len(t) = 1 /\ t[1].then = "fetchMe"
  BY <1>0, <1>1, ThenHas
<1>. HIDE DEF t, m
<1>3. \A k \in 1 .. (m - 1) : k \in DOMAIN patches' /\ patches'[k] = patches[k + 1]
  BY <1>1
<1>4. ASSUME NEW k \in DOMAIN patches', ~(k < m)
      PROVE  ~patches'[k].served /\ ~Informs(patches'[k])
  <2>1. k - m + 1 \in DOMAIN t /\ patches'[k] = t[k - m + 1]
    BY <1>1, <1>4
  <2>. QED  BY <1>2, <2>1 DEF Informs
<1>5. ServedInOrder'
  <2>. SUFFICES ASSUME NEW j \in DOMAIN patches', NEW k \in DOMAIN patches', j < k, patches'[k].served
                PROVE  patches'[j].served
    BY DEF ServedInOrder
  <2>1. k < m
    BY <1>4
  <2>2. patches'[k] = patches[k + 1] /\ patches'[j] = patches[j + 1]
        /\ j + 1 \in DOMAIN patches /\ k + 1 \in DOMAIN patches /\ j + 1 < k + 1
    BY <1>1, <2>1
  <2>. QED  BY <1>0, <2>2 DEF ServedInOrder
<1>6. CASE a.then = "prepare"
  <2>1. m \in DOMAIN patches' /\ patches'[m] = t[1]
    BY <1>0, <1>1, <1>2, <1>6
  <2>2. ~patches'[m].served /\ patches'[m].then = "fetchMe"
    BY <1>1, <1>2, <1>6, <2>1
  <2>3. WillBeTold'
    BY <2>1, <2>2 DEF WillBeTold
  <2>. QED  BY <1>5, <2>3
<1>7. CASE a.then # "prepare" /\ WillBeTold
  <2>1. PICK k \in DOMAIN patches :
            IF patches[k].served THEN patches[k].then = "prepare" ELSE patches[k].then = "fetchMe"
    BY <1>7 DEF WillBeTold
  <2>2. k # 1
    BY <1>1, <1>7, <2>1
  <2>3. k - 1 \in 1 .. (m - 1) /\ (k - 1) + 1 = k
    BY <1>1, <2>2
  <2>4. k - 1 \in DOMAIN patches' /\ patches'[k - 1] = patches[k]
    BY <1>3, <2>3
  <2>5. WillBeTold'
    BY <2>1, <2>4 DEF WillBeTold
  <2>. QED  BY <1>5, <2>5
<1>8. CASE a.then # "prepare" /\ LastKnown
  <2>1. ASSUME NEW j \in DOMAIN patches', Informs(patches'[j]),
               \A k \in DOMAIN patches' : j < k => ~Informs(patches'[k])
        PROVE  At(patches'[j].answer) = At(prefs)
    <3>1. j < m
      BY <1>4, <2>1
    <3>2. j + 1 \in DOMAIN patches /\ patches'[j] = patches[j + 1]
      BY <1>1, <3>1
    <3>3. ASSUME NEW k \in DOMAIN patches, j + 1 < k
          PROVE  ~Informs(patches[k])
      <4>1. k - 1 \in 1 .. (m - 1) /\ j < k - 1 /\ (k - 1) + 1 = k
        BY <1>1, <3>3
      <4>2. k - 1 \in DOMAIN patches' /\ patches'[k - 1] = patches[k]
        BY <1>3, <4>1
      <4>. QED  BY <2>1, <4>1, <4>2
    <3>. QED  BY <1>8, <2>1, <3>2, <3>3 DEF LastKnown
  <2>2. ASSUME \A j \in DOMAIN patches' : ~Informs(patches'[j])
        PROVE  At(config') = At(prefs)
    <3>1. ASSUME NEW k \in DOMAIN patches, k # 1
          PROVE  ~Informs(patches[k])
      <4>1. k - 1 \in 1 .. (m - 1) /\ (k - 1) + 1 = k
        BY <1>1, <3>1
      <4>2. k - 1 \in DOMAIN patches' /\ patches'[k - 1] = patches[k]
        BY <1>3, <4>1
      <4>. QED  BY <2>2, <4>2
    <3>2. 1 \in DOMAIN patches /\ \A k \in DOMAIN patches : 1 < k => ~Informs(patches[k])
      BY <1>0, <1>1, <3>1
    <3>3. CASE Informs(a)
      <4>1. At(a.answer) = At(prefs)
        BY <1>8, <3>2, <3>3 DEF LastKnown
      <4>2. config' = a.answer
        BY <1>1, <3>3 DEF Known, Informs
      <4>. QED  BY <4>1, <4>2
    <3>4. CASE ~Informs(a)
      <4>1. At(config) = At(prefs)
        BY <1>8, <3>1, <3>4 DEF LastKnown
      <4>2. config' = config
        BY <1>1, <3>4 DEF Known, Informs
      <4>. QED  BY <4>1, <4>2
    <3>. QED  BY <3>3, <3>4
  <2>3. LastKnown'
    BY <1>1, <2>1, <2>2 DEF LastKnown, At, Informs
  <2>. QED  BY <1>5, <2>3
<1>. QED  BY <1>0, <1>6, <1>7, <1>8

-----------------------------------------------------------------------------
(* The theorem *)

LEMMA TourStart == TourInit => TourInv
<1>. SUFFICES ASSUME TourInit PROVE TourInv
  OBVIOUS
<1>1. /\ prefs = [started |-> FALSE, category |-> "", step |-> -1, viewed |-> FALSE] /\ config = prefs
      /\ screen = [at |-> "welcome", described |-> TRUE, hidden |-> FALSE, mounted |-> FALSE]
      /\ patches = <<>> /\ troubles = {}
  BY DEF TourInit
<1>2. DOMAIN patches = {} /\ patches \in Seq(Patch)
  <2>1. DOMAIN <<>> = {} /\ <<>> \in Seq(Patch)
    OBVIOUS
  <2>. QED  BY <1>1, <2>1
<1>3. prefs \in Prefs
  BY <1>1 DEF Prefs, Steps
<1>4. TourType
  BY <1>1, <1>2, <1>3 DEF TourType
<1>5. Begun /\ InPlace
  BY <1>1, <1>2 DEF Begun, InPlace
<1>6. InStep
  BY <1>1, <1>2 DEF InStep, ServedInOrder, LastKnown
<1>. QED  BY <1>4, <1>5, <1>6 DEF TourInv

LEMMA TourStep == TourInv /\ [TourNext]_tourVars => TourInv'
<1>. SUFFICES ASSUME TourInv, [TourNext]_tourVars PROVE TourInv'
  OBVIOUS
<1>1. TourType
  BY DEF TourInv
<1>2. ASSUME Asks /\ screen' \in Screens
      PROVE  TourInv'
  BY <1>2, SendsKeep
<1>3. CASE \/ handleNext \/ handlePrevious \/ ChooseDot \/ handleHide \/ handleOpen \/ CloseTip \/ ClickBackdrop
  BY <1>1, <1>2, <1>3, TipSends
<1>4. CASE \/ StartSidebarTour \/ startBoardsTour \/ OpenCard \/ EditCard \/ CloseCard
           \/ \E at \in NoCard : OpenBoard(at)
           \/ skipTour \/ startTour \/ ProductTour \/ resetTour
  BY <1>1, <1>2, <1>4, PageSends
<1>5. ASSUME NEW i \in DOMAIN patches, NEW refuses \in BOOLEAN, ServePrefs(i, refuses)
      PROVE  TourInv'
  <2>1. TourType'
    BY <1>5, ServeType
  <2>2. Begun' /\ InPlace' /\ InStep'
    BY <1>5, ServeInPlace, ServeInStep
  <2>. QED  BY <2>1, <2>2 DEF TourInv
<1>6. ASSUME NEW i \in DOMAIN patches, Answer(i)
      PROVE  TourInv'
  <2>1. TourType'
    BY <1>6, AnswerType
  <2>2. Begun' /\ InPlace' /\ InStep'
    BY <1>6, AnswerInPlace, AnswerInStep
  <2>. QED  BY <2>1, <2>2 DEF TourInv
<1>7. CASE UNCHANGED tourVars
  BY <1>7 DEF tourVars, TourInv, TourType, Begun, InPlace, InStep, ServedInOrder, WillBeTold, LastKnown
<1>. QED  BY <1>3, <1>4, <1>5, <1>6, <1>7 DEF TourNext

LEMMA TourInvariant == TourSpec => []TourInv
BY TourStart, TourStep, PTL DEF TourSpec

\* A tour that has begun and is at a place of its own has a screen with a tip for it.
LEMMA TipsReach ==
    ASSUME config.started, screen.described, config.category \in Categories,
           config.step \in TourCategoriesMapToSteps[config.category]
    PROVE  \E at \in NoCard \cup {"card"} : TourTipRenderer(at) # {}
<1>1. ASSUME NEW t \in Tips, NEW at \in {"home", "table", "board", "card"}, at \in t.on,
             t.category = config.category, t.step = config.step
      PROVE  \E p \in NoCard \cup {"card"} : TourTipRenderer(p) # {}
  BY <1>1 DEF TourTipRenderer, NoCard
<1>2. /\ {"table", "board"} \subseteq AddViewTourStep.on /\ "board" \in OpenCardTourStep.on
      /\ "card" \in AddPropertiesTourStep.on /\ "card" \in AddCommentTourStep.on
      /\ "card" \in AddDescriptionTourStep.on /\ "board" \in CopyLinkTourStep.on
      /\ "board" \in ShareBoardTourStep.on /\ "board" \in SidebarCategoriesTourStep.on
      /\ "board" \in ManageCategoriesTourStep.on /\ "board" \in SearchForBoardsTourStep.on
  BY DEF Tip, OpenCardTourStep, AddPropertiesTourStep, AddCommentTourStep, AddDescriptionTourStep,
         AddViewTourStep, CopyLinkTourStep, ShareBoardTourStep, SidebarCategoriesTourStep,
         ManageCategoriesTourStep, SearchForBoardsTourStep, NoCard
<1>3. \/ config.category = "onboarding" /\ config.step = 0
      \/ config.category = "card" /\ config.step \in {0, 1, 2}
      \/ config.category = "board" /\ config.step \in {0, 1, 2}
      \/ config.category = "sidebar" /\ config.step \in {0, 1, 2}
  BY DEF Categories, TourCategoriesMapToSteps
<1>4. \E t \in Tips, at \in {"home", "table", "board", "card"} :
          at \in t.on /\ t.category = config.category /\ t.step = config.step
  <2>1. CASE config.category = "onboarding" /\ config.step = 0
    BY <1>2, <2>1 DEF Tips, OpenCardTourStep, Tip
  <2>2. CASE config.category = "card" /\ config.step \in {0, 1, 2}
    BY <1>2, <2>2 DEF Tips, AddPropertiesTourStep, AddCommentTourStep, AddDescriptionTourStep, Tip
  <2>3. CASE config.category = "board" /\ config.step \in {0, 1, 2}
    BY <1>2, <2>3 DEF Tips, AddViewTourStep, CopyLinkTourStep, ShareBoardTourStep, Tip
  <2>4. CASE config.category = "sidebar" /\ config.step \in {0, 1, 2}
    BY <1>2, <2>4 DEF Tips, SidebarCategoriesTourStep, ManageCategoriesTourStep, SearchForBoardsTourStep, Tip
  <2>. QED  BY <1>3, <2>1, <2>2, <2>3, <2>4
<1>. QED  BY <1>1, <1>4

\* Whatever the user, the effects and the server do: the tour is at a step that its part has,
\* the page is where the server says when nothing is under way, and a tour that has begun
\* has a screen on which it goes on.
THEOREM TourCorrect == TourSpec => []TourKept
<1>1. ASSUME TourInv PROVE TourKept
  <2>1. TourType /\ Begun /\ InPlace /\ InStep
    BY <1>1 DEF TourInv
  <2>2. AtAStep
    BY <2>1 DEF InPlace, AtAStep, StepsAt
  <2>3. SamePlace
    <3>. SUFFICES ASSUME patches = <<>>, troubles \subseteq {"refused"} PROVE At(config) = At(prefs)
      BY DEF SamePlace
    <3>1. DOMAIN patches = {}
      <4>1. DOMAIN <<>> = {}
        OBVIOUS
      <4>. QED  BY <4>1
    <3>. QED  BY <2>1, <3>1 DEF InStep, WillBeTold, LastKnown
  <2>4. GoesOn
    <3>. SUFFICES ASSUME patches = <<>>, config.started, troubles = {}, screen.described,
                         At(config) # [category |-> "sidebar", step |-> FINISHED]
                  PROVE  \/ \E at \in NoCard \cup {"card"} : TourTipRenderer(at) # {}
                         \/ At(config) \in {[category |-> "card", step |-> FINISHED], [category |-> "board", step |-> FINISHED]}
      BY DEF GoesOn
    <3>1. config.category = prefs.category /\ config.step = prefs.step
      BY <2>3 DEF SamePlace, At
    <3>2. config.category \in Categories /\ config.step \in StepsAt(config.category)
      BY <2>1, <3>1 DEF Begun, InPlace
    <3>3. CASE config.step \in TourCategoriesMapToSteps[config.category]
      BY <3>2, <3>3, TipsReach
    <3>4. CASE config.step = FINISHED /\ config.category # "onboarding"
      <4>1. config.category \in {"card", "board"}
        BY <3>2, <3>4 DEF At, Categories
      <4>. QED  BY <3>4, <4>1 DEF At
    <3>. QED  BY <3>2, <3>3, <3>4 DEF StepsAt
  <2>. QED  BY <2>2, <2>3, <2>4 DEF TourKept
<1>. QED  BY <1>1, TourInvariant, PTL

(***************************************************************************)
(* The members' dialog.                                                    *)
(***************************************************************************)
Roles == {"none", "viewer", "commenter", "editor", "admin"}
Memberships == UNION {[S -> Roles \ {"none"}] : S \in SUBSET People}
Boards == [type : {"open", "private"}, minimum : Roles \ {"admin"}, channel : {"", "channel"}]
Sharings == [on : BOOLEAN, token : Nat]
Minima == [People -> Roles \ {"admin"}]
Topics == People \cup {Nobody}

\* A change of the board names the fields that differ.
Changes == {[f \in D |-> b[f]] : D \in SUBSET {"type", "minimum", "channel"}, b \in Boards}
Answers == {<<>>} \cup Sharings \cup Memberships \cup Boards
Ones == {"add", "addPerson", "update", "remove", "getUser", "getBoard"}
Requests ==
    {a \in [kind : Ones \cup {"patch", "share", "fetchMembers"}, user : Topics, role : Roles,
            what : {<<>>} \cup Sharings \cup Changes, served : BOOLEAN, answer : Answers, fresh : BOOLEAN] :
        /\ a.kind \in Ones => a.user \in People
        /\ a.kind = "patch" => a.what \in Changes
        /\ a.kind = "share" => a.what \in Sharings /\ (a.served => a.answer \in Sharings)
        /\ a.kind = "fetchMembers" => a.role # "admin" /\ (a.served => a.answer \in Memberships \cup {<<>>})
        /\ a.kind = "getBoard" => a.user = Me /\ (a.served => a.answer \in Boards)}
News ==
    {n \in [kind : {"member", "board"}, user : Topics, role : Roles, board : Boards \cup {NoBoard}] :
        IF n.kind = "board" THEN n.user = Nobody /\ n.board \in Boards ELSE n.user \in People}
Dialogs == [sharing : Sharings, options : SUBSET People, adding : Topics, role : Roles, person : Topics]

SharingType ==
    /\ team \in [members : Memberships, board : Boards, shared : Sharings, tokens : Nat, relinked : BOOLEAN]
    /\ known \in [board : Boards \cup {NoBoard}, members : Memberships, least : Minima, users : SUBSET People, mine : Roles]
    /\ dialog \in Dialogs
    /\ underWay \in Seq(Requests) /\ pushed \in Seq(News)
    /\ mishaps \subseteq {"away", "late", "raced", "refused"}

\* A broadcast is about a member, or about the board; what it says of it, what the server has
\* and what the page shows.
Says(n) == IF n.kind = "board" THEN n.board ELSE n.role
Has(t, u) == IF u = Nobody THEN t.board ELSE RoleIn(t.members, u)
Shows(u) == IF u = Nobody THEN known.board ELSE RoleIn(known.members, u)
Silent(s, u) == \A i \in DOMAIN s : s[i].user # u
LastSays(s, u, v) ==
    \A i \in DOMAIN s : s[i].user = u /\ (\A j \in DOMAIN s : i < j => s[j].user # u) => Says(s[i]) = v

\* I was removed and am yet to be told: from then on broadcasts may be missing.
Leaving == \E i \in DOMAIN pushed : pushed[i].user = Me /\ pushed[i].role = "none"
Undisturbed == mishaps \cap {"away", "late"} = {} /\ ~Leaving

\* The last broadcast about a member or the board says what the server has; without one the
\* page shows it.  A member's user is in the store or asked for, and the answer
\* with the members that is still fresh has them all.
NewsTrue == \A u \in Topics : LastSays(pushed, u, Has(team, u)) /\ (Silent(pushed, u) => Shows(u) = Has(team, u))
MineTrue == Silent(pushed, Me) => known.mine = RoleIn(team.members, Me)
Loaded ==
    \A u \in DOMAIN team.members : Silent(pushed, u) =>
        u \in known.users \/ \E i \in DOMAIN underWay : underWay[i].kind = "getUser" /\ underWay[i].user = u
FetchTrue ==
    \A i \in DOMAIN underWay :
        underWay[i].kind = "fetchMembers" /\ underWay[i].served /\ underWay[i].fresh =>
            underWay[i].answer = team.members /\ underWay[i].role = team.board.minimum
\* Members came with the minimum role of the board or with none, unless a change of the board is
\* yet to be told, or they are asked for.
LeastTrue ==
    \/ \A u \in People : known.least[u] \in {"none", team.board.minimum}
    \/ ~Silent(pushed, Nobody)
    \/ \E i \in DOMAIN underWay : underWay[i].kind = "fetchMembers"
PageInv == Undisturbed => Me \in DOMAIN team.members /\ NewsTrue /\ MineTrue /\ Loaded /\ FetchTrue /\ LeastTrue

\* The board is only loaded again after I was away.
HomeInv == "away" \notin mishaps => known.board # NoBoard /\ \A i \in DOMAIN underWay : underWay[i].kind # "getBoard"

\* A request for a change that is still fresh will be allowed.
AskedRight ==
    mishaps = {} => \A i \in DOMAIN underWay :
        underWay[i].fresh /\ ~underWay[i].served /\ underWay[i].kind \notin Reads => Allowed(underWay[i])

\* One request of mine changes the sharing at a time; without one, and in its answer, it is the
\* server's, unless another administrator has changed that since.
OneShare == \A i, j \in DOMAIN underWay : underWay[i].kind = "share" /\ underWay[j].kind = "share" => i = j
ShareTrue ==
    /\ \A i \in DOMAIN underWay :
           underWay[i].kind = "share" /\ underWay[i].served => underWay[i].answer \in {NoSharing, team.shared}
    /\ (\A i \in DOMAIN underWay : underWay[i].kind # "share") => dialog.sharing \in {NoSharing, team.shared}
ShareInv == "late" \notin mishaps => OneShare /\ (~team.relinked => ShareTrue)

SharingInv == SharingType /\ HasAdmin /\ NeverRefused /\ AskedRight /\ HomeInv /\ ShareInv /\ PageInv

-----------------------------------------------------------------------------
(* Members and their roles *)

LEMMA Levels ==
    /\ DOMAIN Level = Roles
    /\ Level["none"] = 0 /\ Level["viewer"] = 1 /\ Level["commenter"] = 2
    /\ Level["editor"] = 3 /\ Level["admin"] = 4
BY DEF Level, Roles

LEMMA RoleHas ==
    ASSUME NEW m \in Memberships, NEW u
    PROVE  /\ RoleIn(m, u) \in Roles /\ (u \in DOMAIN m <=> RoleIn(m, u) # "none")
           /\ u \in DOMAIN m => u \in People /\ RoleIn(m, u) = m[u]
           /\ DOMAIN m \subseteq People
BY DEF Memberships, RoleIn, Roles

\* A member of that role, and no other change.
LEMMA WithHas ==
    ASSUME NEW m \in Memberships, NEW u \in People, NEW r \in Roles
    PROVE  /\ With(m, u, r) \in Memberships
           /\ \A v : RoleIn(With(m, u, r), v) = IF v = u THEN r ELSE RoleIn(m, v)
<1>. DEFINE D == IF r = "none" THEN DOMAIN m \ {u} ELSE DOMAIN m \cup {u}
            w == [v \in D |-> IF v = u THEN r ELSE m[v]]
<1>1. With(m, u, r) = w
  BY DEF With
<1>2. \A v \in DOMAIN m : v \in People /\ m[v] \in Roles \ {"none"}
  BY DEF Memberships
<1>3. D \in SUBSET People
  BY <1>2
<1>4. \A v \in D : (IF v = u THEN r ELSE m[v]) \in Roles \ {"none"}
  BY <1>2
<1>5. w \in [D -> Roles \ {"none"}]
  BY <1>4
<1>6. w \in Memberships
  BY <1>3, <1>5 DEF Memberships
<1>7. ASSUME NEW v
      PROVE  RoleIn(w, v) = IF v = u THEN r ELSE RoleIn(m, v)
  BY <1>2 DEF RoleIn
<1>. QED  BY <1>1, <1>6, <1>7

LEMMA SameMembers ==
    ASSUME NEW m \in Memberships, NEW n \in Memberships, \A u \in People : RoleIn(m, u) = RoleIn(n, u)
    PROVE  m = n
<1>1. DOMAIN m = DOMAIN n
  BY RoleHas
<1>2. \A u \in DOMAIN m : m[u] = n[u]
  BY <1>1, RoleHas
<1>3. m \in [DOMAIN m -> Roles] /\ n \in [DOMAIN n -> Roles]
  BY DEF Memberships
<1>. QED  BY <1>1, <1>2, <1>3

\* The server's rule keeps an administrator.
LEMMA AdminStays ==
    ASSUME NEW t, t.members \in Memberships, AdminsOf(t.members) # {},
           NEW u \in People, NEW r \in Roles, ~LastAdmin(t, u, r) \/ u \notin DOMAIN t.members
    PROVE  AdminsOf(With(t.members, u, r)) # {}
<1>. DEFINE m == t.members
            w == With(m, u, r)
<1>1. w \in Memberships /\ \A v : RoleIn(w, v) = IF v = u THEN r ELSE RoleIn(m, v)
  BY WithHas
<1>2. ASSUME NEW v, RoleIn(w, v) = "admin"
      PROVE  AdminsOf(w) # {}
  BY <1>1, <1>2, RoleHas DEF AdminsOf
<1>3. PICK v \in AdminsOf(m) : TRUE
  OBVIOUS
<1>4. RoleIn(m, v) = "admin"
  BY <1>3 DEF AdminsOf, RoleIn
<1>5. CASE v # u
  BY <1>1, <1>2, <1>4, <1>5
<1>6. CASE v = u /\ r = "admin"
  BY <1>1, <1>2, <1>6
<1>7. CASE v = u /\ r # "admin"
  <2>1. ~(AdminsOf(m) \subseteq {u})
    BY <1>4, <1>7, RoleHas DEF LastAdmin
  <2>2. PICK x \in AdminsOf(m) : x # u
    BY <2>1
  <2>3. RoleIn(m, x) = "admin"
    BY <2>2 DEF AdminsOf, RoleIn
  <2>. QED  BY <1>1, <1>2, <2>2, <2>3
<1>. QED  BY <1>5, <1>6, <1>7

-----------------------------------------------------------------------------
(* Broadcasts and requests on their way *)

\* A broadcast is added: it is the last about what it is about.
LEMMA SaysMore ==
    ASSUME NEW s \in Seq(News), NEW n \in News
    PROVE  LET t == s \o <<n>> IN
           /\ t \in Seq(News)
           /\ ~Silent(t, n.user) /\ LastSays(t, n.user, Says(n))
           /\ \A u : u # n.user => /\ Silent(t, u) <=> Silent(s, u)
                                   /\ \A v : LastSays(s, u, v) => LastSays(t, u, v)
           /\ \A i \in DOMAIN s : \E j \in DOMAIN t : t[j] = s[i]
           /\ \E j \in DOMAIN t : t[j] = n
<1>. DEFINE t == Append(s, n)
            l == Len(s) + 1
<1>1. s \o <<n>> = t
  BY AppendIsConcat
<1>2. /\ t \in Seq(News) /\ Len(s) \in Nat /\ DOMAIN s = 1 .. Len(s)
      /\ DOMAIN t = DOMAIN s \cup {l} /\ t[l] = n
      /\ \A i \in DOMAIN s : t[i] = s[i] /\ i < l
  BY AppendElements
<1>. HIDE DEF t
<1>3. \A j \in DOMAIN t : ~(l < j)
  BY <1>2
<1>4. ~Silent(t, n.user) /\ LastSays(t, n.user, Says(n))
  BY <1>2, <1>3 DEF Silent, LastSays
<1>5. ASSUME NEW u, u # n.user
      PROVE  /\ Silent(t, u) <=> Silent(s, u)
             /\ \A v : LastSays(s, u, v) => LastSays(t, u, v)
  BY <1>2, <1>5 DEF Silent, LastSays
<1>. QED  BY <1>1, <1>2, <1>4, <1>5

\* The first broadcast is taken: if it was the last about something, it says what the last says.
LEMMA SaysLess ==
    ASSUME NEW s \in Seq(News), s # <<>>
    PROVE  LET h == Head(s)
               t == Tail(s)
           IN  /\ h \in News /\ t \in Seq(News)
               /\ \A u, v : LastSays(s, u, v) => /\ LastSays(t, u, v)
                                                 /\ Silent(t, u) /\ h.user = u => Says(h) = v
               /\ \A u : h.user # u /\ Silent(t, u) => Silent(s, u)
               /\ \A i \in DOMAIN s : s[i] = h \/ \E j \in DOMAIN t : t[j] = s[i]
<1>. DEFINE h == Head(s)
            t == Tail(s)
<1>1. /\ Len(s) \in Nat /\ Len(s) >= 1 /\ DOMAIN s = 1 .. Len(s)
      /\ h = s[1] /\ h \in News /\ t \in Seq(News) /\ Len(t) = Len(s) - 1
      /\ \A i \in 1 .. Len(t) : t[i] = s[i + 1]
  BY HeadTailProperties, LenProperties, EmptySeq, ElementOfSeq
<1>2. DOMAIN t = 1 .. (Len(s) - 1) /\ \A i \in DOMAIN t : t[i] = s[i + 1] /\ i + 1 \in DOMAIN s
  BY <1>1, LenProperties
<1>3. \A i \in DOMAIN s : i = 1 \/ (i - 1 \in DOMAIN t /\ t[i - 1] = s[i])
  BY <1>1, <1>2
<1>. HIDE DEF h, t
<1>4. \A i \in DOMAIN s : s[i] = h \/ \E j \in DOMAIN t : t[j] = s[i]
  BY <1>1, <1>3
<1>5. \A u : h.user # u /\ Silent(t, u) => Silent(s, u)
  BY <1>4 DEF Silent
<1>6. ASSUME NEW u, NEW v, LastSays(s, u, v)
      PROVE  LastSays(t, u, v)
  <2>. SUFFICES ASSUME NEW i \in DOMAIN t, t[i].user = u, \A j \in DOMAIN t : i < j => t[j].user # u
                PROVE  Says(t[i]) = v
    BY DEF LastSays
  <2>1. i + 1 \in DOMAIN s /\ s[i + 1] = t[i]
    BY <1>2
  <2>2. ASSUME NEW j \in DOMAIN s, i + 1 < j
        PROVE  s[j].user # u
    <3>1. j - 1 \in DOMAIN t /\ t[j - 1] = s[j] /\ i < j - 1
      BY <1>1, <1>2, <1>3, <2>2
    <3>. QED  BY <3>1
  <2>. QED  BY <1>6, <2>1, <2>2 DEF LastSays
<1>7. ASSUME NEW u, NEW v, LastSays(s, u, v), Silent(t, u), h.user = u
      PROVE  Says(h) = v
  <2>1. \A j \in DOMAIN s : 1 < j => s[j].user # u
    BY <1>1, <1>3, <1>7 DEF Silent
  <2>. QED  BY <1>1, <1>7, <2>1 DEF LastSays
<1>. QED  BY <1>1, <1>4, <1>5, <1>6, <1>7 DEF h, t

LEMMA AskFresh ==
    ASSUME NEW a \in Requests, NEW f \in BOOLEAN
    PROVE  LET b == [a EXCEPT !.fresh = f] IN
           /\ b \in Requests /\ b.fresh = f
           /\ b.kind = a.kind /\ b.user = a.user /\ b.role = a.role /\ b.what = a.what
           /\ b.served = a.served /\ b.answer = a.answer
BY DEF Requests

LEMMA StaleHas ==
    ASSUME NEW s \in Seq(Requests)
    PROVE  /\ Stale(s) \in Seq(Requests) /\ DOMAIN Stale(s) = DOMAIN s
           /\ \A i \in DOMAIN s :
                  /\ s[i] \in Requests /\ Stale(s)[i] = [s[i] EXCEPT !.fresh = FALSE]
                  /\ Stale(s)[i].kind = s[i].kind /\ Stale(s)[i].user = s[i].user
                  /\ Stale(s)[i].served = s[i].served /\ Stale(s)[i].answer = s[i].answer
                  /\ ~Stale(s)[i].fresh
<1>1. Len(s) \in Nat /\ DOMAIN s = 1 .. Len(s) /\ \A i \in DOMAIN s : s[i] \in Requests
  BY LenProperties, ElementOfSeq
<1>2. DOMAIN Stale(s) = DOMAIN s /\ \A i \in DOMAIN s : Stale(s)[i] = [s[i] EXCEPT !.fresh = FALSE]
  BY DEF Stale
<1>3. \A i \in DOMAIN s : Stale(s)[i] \in Requests
  BY <1>1, <1>2, AskFresh
<1>4. Stale(s) = [i \in 1 .. Len(s) |-> Stale(s)[i]]
  BY <1>1, <1>2 DEF Stale
<1>5. Stale(s) \in Seq(Requests)
  BY <1>1, <1>3, <1>4, SeqDef
<1>6. ASSUME NEW i \in DOMAIN s
      PROVE  /\ Stale(s)[i].kind = s[i].kind /\ Stale(s)[i].user = s[i].user
             /\ Stale(s)[i].served = s[i].served /\ Stale(s)[i].answer = s[i].answer
             /\ ~Stale(s)[i].fresh
  <2>1. s[i] \in Requests /\ FALSE \in BOOLEAN /\ Stale(s)[i] = [s[i] EXCEPT !.fresh = FALSE]
    BY <1>1, <1>2
  <2>. QED  BY <2>1, AskFresh
<1>. QED  BY <1>1, <1>2, <1>5, <1>6

-----------------------------------------------------------------------------
(* The page at rest *)

LEMMA TypeHas ==
    ASSUME SharingType
    PROVE  /\ team.members \in Memberships /\ team.board \in Boards /\ team.shared \in Sharings /\ team.tokens \in Nat
           /\ team.relinked \in BOOLEAN /\ known.least \in Minima
           /\ known.board \in Boards \cup {NoBoard} /\ known.members \in Memberships
           /\ known.users \in SUBSET People /\ known.mine \in Roles
           /\ dialog.sharing \in Sharings /\ dialog.options \in SUBSET People
           /\ dialog.adding \in Topics /\ dialog.role \in Roles /\ dialog.person \in Topics
           /\ underWay \in Seq(Requests) /\ \A i \in DOMAIN underWay : underWay[i] \in Requests
           /\ pushed \in Seq(News) /\ \A i \in DOMAIN pushed : pushed[i] \in News
BY ElementOfSeq, LenProperties DEF SharingType, Dialogs

LEMMA Constants ==
    /\ Nobody \notin People /\ Me \in People
    /\ FirstRoles \in Memberships /\ Me \in DOMAIN FirstRoles /\ AdminsOf(FirstRoles) # {}
    /\ Rules \in Boards /\ NoBoard \notin Boards
<1>1. /\ Nobody \notin People /\ Me \in People
      /\ Me \in DOMAIN FirstRoles /\ AdminsOf(FirstRoles) # {}
  BY SharingAssumption
<1>2. FirstRoles \in Memberships
  BY SharingAssumption, Levels DEF Memberships
<1>3. Rules \in Boards
  BY SharingAssumption, Levels DEF Boards
<1>4. NoBoard \notin Boards
  BY DEF NoBoard, Boards
<1>. QED  BY <1>1, <1>2, <1>3, <1>4

\* When nothing is on its way the page knows what the server has.
LEMMA RestAgrees ==
    ASSUME SharingInv, AtRest, mishaps \cap {"away", "late"} = {}
    PROVE  /\ known.members = team.members /\ known.board = team.board
           /\ Me \in DOMAIN team.members /\ known.mine = team.members[Me]
           /\ DOMAIN team.members \subseteq known.users
           /\ Rows = DOMAIN team.members
           /\ \A u \in People : known.least[u] \in {"none", team.board.minimum}
<1>1. SharingType /\ PageInv
  BY DEF SharingInv
<1>2. DOMAIN pushed = {} /\ DOMAIN underWay = {}
  BY DEF AtRest
<1>3. \A u : Silent(pushed, u)
  BY <1>2 DEF Silent
<1>4. Undisturbed
  BY <1>2 DEF Undisturbed, Leaving
<1>5. Me \in DOMAIN team.members /\ NewsTrue /\ MineTrue /\ Loaded /\ LeastTrue
  BY <1>1, <1>4 DEF PageInv
<1>6. \A u \in Topics : Shows(u) = Has(team, u)
  BY <1>3, <1>5 DEF NewsTrue
<1>7. \A u \in People : RoleIn(known.members, u) = RoleIn(team.members, u)
  <2>. SUFFICES ASSUME NEW u \in People PROVE RoleIn(known.members, u) = RoleIn(team.members, u)
    OBVIOUS
  <2>1. u \in Topics /\ u # Nobody
    BY Constants DEF Topics
  <2>. QED  BY <1>6, <2>1 DEF Shows, Has
<1>8. known.board = team.board
  BY <1>6 DEF Topics, Shows, Has
<1>9. known.members = team.members
  BY <1>1, <1>7, TypeHas, SameMembers
<1>10. known.mine = team.members[Me]
  BY <1>1, <1>3, <1>5, TypeHas, RoleHas DEF MineTrue
<1>11. DOMAIN team.members \subseteq known.users
  BY <1>2, <1>3, <1>5 DEF Loaded
<1>12. \A u \in People : known.least[u] \in {"none", team.board.minimum}
  BY <1>2, <1>3, <1>5 DEF LeastTrue
<1>. QED  BY <1>5, <1>8, <1>9, <1>10, <1>11, <1>12 DEF Rows

\* Then it grants what the server grants.
LEMMA RestGrants ==
    ASSUME SharingInv, AtRest, mishaps \cap {"away", "late"} = {}, NEW p \in Roles \ {"none"}
    PROVE  useHasPermissions(p) <=> HasPermission(team, Me, p)
<1>1. /\ known.board = team.board /\ known.mine = team.members[Me] /\ Me \in DOMAIN team.members
      /\ team.board \in Boards /\ team.members \in Memberships
  BY RestAgrees, TypeHas DEF SharingInv
<1>2. known.board # NoBoard /\ known.board.minimum \in Roles \ {"admin"}
  BY <1>1, Constants DEF Boards
<1>3. known.mine \in Roles \ {"none"}
  BY <1>1, RoleHas
<1>4. p = "admin" => ~(Level[known.board.minimum] >= Level[p])
  BY <1>2, Levels DEF Roles
<1>. QED  BY <1>1, <1>2, <1>3, <1>4 DEF useHasPermissions, HasPermission

-----------------------------------------------------------------------------
(* Requests that are sent *)

\* Only the dialog changes, and not its sharing.
LEMMA DialogKeeps ==
    ASSUME SharingInv, dialog' \in Dialogs, dialog'.sharing = dialog.sharing,
           UNCHANGED <<team, known, underWay, pushed, mishaps>>
    PROVE  SharingInv'
<1>1. SharingType' /\ HasAdmin' /\ NeverRefused' /\ HomeInv'
  BY DEF SharingInv, SharingType, HasAdmin, NeverRefused, HomeInv
<1>2. PageInv'
  BY DEF SharingInv, PageInv, Undisturbed, Leaving, NewsTrue, MineTrue, Loaded, FetchTrue, LeastTrue, Shows
<1>3. AskedRight'
  BY DEF SharingInv, AskedRight, Allowed, HasPermission, LastAdmin
<1>4. ShareInv'
  BY DEF SharingInv, ShareInv, OneShare, ShareTrue
<1>. QED  BY <1>1, <1>2, <1>3, <1>4 DEF SharingInv

\* A request is added that will be allowed if it is fresh.
LEMMA SendKeeps ==
    ASSUME SharingInv, NEW a \in Requests, SendAsk(a), ~a.served, a.kind # "getBoard",
           UNCHANGED <<team, known, pushed>>, dialog' \in Dialogs,
           mishaps \subseteq mishaps', mishaps' \subseteq mishaps \cup {"late"},
           mishaps' = {} /\ a.fresh /\ a.kind \notin Reads => Allowed(a),
           a.kind # "share" => dialog'.sharing = dialog.sharing,
           a.kind = "share" /\ "late" \notin mishaps' => \A i \in DOMAIN underWay : underWay[i].kind # "share"
    PROVE  SharingInv'
<1>. DEFINE l == Len(underWay) + 1
<1>1. /\ SharingType /\ HasAdmin /\ NeverRefused /\ AskedRight /\ HomeInv /\ ShareInv /\ PageInv
  BY DEF SharingInv
<1>2. underWay' = Append(underWay, a) /\ underWay \in Seq(Requests)
  BY <1>1, TypeHas DEF SendAsk
<1>3. /\ underWay' \in Seq(Requests) /\ DOMAIN underWay' = DOMAIN underWay \cup {l}
      /\ \A i \in DOMAIN underWay : underWay'[i] = underWay[i] /\ i # l
      /\ underWay'[l] = a
  <2>1. underWay' \in Seq(Requests)
    BY <1>2, AppendElements
  <2>2. DOMAIN underWay' = DOMAIN underWay \cup {l}
    BY <1>2, AppendElements
  <2>3. Len(underWay) \in Nat /\ \A i \in DOMAIN underWay : underWay'[i] = underWay[i] /\ i < l
    BY <1>2, AppendElements
  <2>4. \A i \in DOMAIN underWay : i # l
    BY <1>2, <2>3, LenProperties
  <2>5. underWay'[l] = a
    BY <1>2, AppendElements
  <2>. QED  BY <2>1, <2>2, <2>3, <2>4, <2>5
<1>4. SharingType'
  BY <1>1, <1>3 DEF SharingType
<1>5. HasAdmin' /\ NeverRefused'
  BY <1>1 DEF HasAdmin, NeverRefused
<1>6. HomeInv'
  BY <1>1, <1>3 DEF HomeInv
<1>7. AskedRight'
  <2>. SUFFICES ASSUME mishaps' = {}, NEW i \in DOMAIN underWay', underWay'[i].fresh, ~underWay'[i].served,
                       underWay'[i].kind \notin Reads
                PROVE  Allowed(underWay[i])'
    BY DEF AskedRight
  <2>1. mishaps = {}
    OBVIOUS
  <2>2. Allowed(underWay[i])' <=> Allowed(underWay'[i])
    BY DEF Allowed, HasPermission, LastAdmin
  <2>3. Allowed(underWay'[i])
    BY <1>1, <1>3, <2>1 DEF AskedRight
  <2>. QED  BY <2>2, <2>3
<1>8. ShareInv'
  <2>. SUFFICES ASSUME "late" \notin mishaps' PROVE OneShare' /\ (~team'.relinked => ShareTrue')
    BY DEF ShareInv
  <2>1. OneShare /\ (~team.relinked => ShareTrue) /\ team' = team
    BY <1>1 DEF ShareInv
  <2>2. OneShare'
    BY <1>3, <2>1 DEF OneShare
  <2>3. ASSUME ShareTrue PROVE ShareTrue'
    <3>1. CASE a.kind = "share"
      BY <1>3, <2>1, <2>3, <3>1 DEF ShareTrue
    <3>2. CASE a.kind # "share"
      BY <1>3, <2>1, <2>3, <3>2 DEF ShareTrue
    <3>. QED  BY <3>1, <3>2
  <2>. QED  BY <2>1, <2>2, <2>3
<1>9. PageInv'
  <2>. SUFFICES ASSUME Undisturbed' PROVE (Me \in DOMAIN team.members /\ NewsTrue /\ MineTrue /\ Loaded /\ FetchTrue /\ LeastTrue)'
    BY DEF PageInv
  <2>1. Undisturbed
    BY DEF Undisturbed, Leaving
  <2>2. Me \in DOMAIN team.members /\ NewsTrue /\ MineTrue /\ Loaded /\ FetchTrue /\ LeastTrue
    BY <1>1, <2>1 DEF PageInv
  <2>3. NewsTrue' /\ MineTrue'
    BY <2>2 DEF NewsTrue, MineTrue, Shows
  <2>4. Loaded'
    BY <1>3, <2>2 DEF Loaded
  <2>5. FetchTrue'
    BY <1>3, <2>2 DEF FetchTrue
  <2>6. LeastTrue'
    BY <1>3, <2>2 DEF LeastTrue
  <2>. QED  BY <2>2, <2>3, <2>4, <2>5, <2>6
<1>. QED  BY <1>4, <1>5, <1>6, <1>7, <1>8, <1>9 DEF SharingInv

LEMMA AskHas ==
    ASSUME NEW kind \in Ones \cup {"patch", "share", "fetchMembers"}, NEW u \in Topics, NEW r \in Roles,
           NEW what \in {<<>>} \cup Sharings \cup Changes,
           kind \in Ones => u \in People, kind = "patch" => what \in Changes, kind = "share" => what \in Sharings,
           kind = "getBoard" => u = Me, kind = "fetchMembers" => r # "admin"
    PROVE  LET a == Ask(kind, u, r, what) IN
           /\ a \in Requests /\ a.kind = kind /\ a.user = u /\ a.role = r /\ a.what = what
           /\ ~a.served /\ (a.fresh => AtRest)
BY DEF Ask, Requests, Answers, AtRest

\* The roles of a request.
LEMMA RolesAsked ==
    ASSUME SharingType, NEW u
    PROVE  /\ LeastRole \in Roles /\ OfferedRoles(u) \subseteq Roles \ {"none"}
<1>1. known.board.minimum \in Roles
  <2>1. CASE known.board \in Boards
    BY <2>1 DEF Boards
  <2>2. CASE known.board = NoBoard
    <3>1. NoBoard.minimum = "none"
      BY DEF NoBoard
    <3>. QED  BY <2>2, <3>1 DEF Roles
  <2>. QED  BY <2>1, <2>2, TypeHas
<1>. QED  BY <1>1 DEF LeastRole, OfferedRoles, Roles

\* While nothing else is on its way, the dialog's rule is the server's.
LEMMA ChangeAllowed ==
    ASSUME SharingInv, AtRest, mishaps = {}, useHasPermissions("admin"), NEW u \in Rows, NEW r \in Roles,
           ~(u = Me /\ isLastAdmin(known.members))
    PROVE  HasPermission(team, Me, "admin") /\ u \in DOMAIN team.members /\ ~LastAdmin(team, u, r)
<1>1. /\ known.members = team.members /\ Rows = DOMAIN team.members /\ Me \in DOMAIN team.members
      /\ known.mine = team.members[Me] /\ team.members \in Memberships
  BY RestAgrees, TypeHas DEF SharingInv
<1>2. HasPermission(team, Me, "admin")
  BY RestGrants DEF Roles
<1>3. known.mine = "admin"
  <2>1. Level[known.mine] >= 4 /\ known.mine \in Roles
    BY Levels, TypeHas DEF useHasPermissions, SharingInv
  <2>. QED  BY <2>1, Levels DEF Roles
<1>4. Me \in AdminsOf(team.members)
  BY <1>1, <1>3 DEF AdminsOf
<1>5. u = Me => ~(AdminsOf(team.members) \subseteq {Me})
  <2>. SUFFICES ASSUME AdminsOf(team.members) \subseteq {Me}, u = Me PROVE FALSE
    OBVIOUS
  <2>1. AdminsOf(team.members) = {Me}
    BY <1>4
  <2>2. Cardinality({Me}) = 1
    BY FS_Singleton
  <2>. QED  BY <1>1, <2>1, <2>2 DEF isLastAdmin
<1>6. ~LastAdmin(team, u, r)
  BY <1>4, <1>5 DEF LastAdmin
<1>. QED  BY <1>1, <1>2, <1>6

LEMMA AddKeeps == ASSUME SharingInv, NEW u \in People, addUser(u) PROVE SharingInv'
<1>. DEFINE a == Ask("add", u, LeastRole, <<>>)
<1>1. SharingType /\ u \in Topics
  BY DEF SharingInv, Topics
<1>2. a \in Requests /\ a.kind = "add" /\ ~a.served /\ (a.fresh => AtRest)
  BY <1>1, RolesAsked, AskHas DEF Ones
<1>3. useHasPermissions("admin") /\ SendAsk(a) /\ UNCHANGED <<team, known, pushed, dialog, mishaps>>
  BY DEF addUser, IManage
<1>. HIDE DEF a
<1>4. mishaps = {} /\ a.fresh => Allowed(a)
  BY <1>2, <1>3, RestGrants DEF Allowed, Roles
<1>5. dialog' \in Dialogs
  BY <1>1, <1>3 DEF SharingType
<1>. QED  BY <1>2, <1>3, <1>4, <1>5, SendKeeps

LEMMA ChangeKeeps ==
    ASSUME SharingInv, NEW u \in People,
           onDeleteBoardMember(u) \/ \E role \in DOMAIN Level : onUpdateBoardMember(u, role)
    PROVE  SharingInv'
<1>1. SharingType /\ u \in Topics
  BY DEF SharingInv, Topics
<1>2. PICK kind \in {"update", "remove"}, r \in Roles :
          /\ useHasPermissions("admin") /\ u \in Rows /\ ~(u = Me /\ isLastAdmin(known.members))
          /\ SendAsk(Ask(kind, u, r, <<>>)) /\ UNCHANGED <<team, known, pushed, dialog, mishaps>>
  BY Levels DEF onDeleteBoardMember, onUpdateBoardMember, IManage, Roles
<1>. DEFINE a == Ask(kind, u, r, <<>>)
<1>3. a \in Requests /\ a.kind = kind /\ a.user = u /\ a.role = r /\ ~a.served /\ (a.fresh => AtRest)
  BY <1>1, AskHas DEF Ones
<1>4. SendAsk(a)
  BY <1>2
<1>. HIDE DEF a
<1>5. mishaps = {} /\ a.fresh => Allowed(a)
  BY <1>2, <1>3, ChangeAllowed DEF Allowed
<1>6. dialog' \in Dialogs
  BY <1>1, <1>2 DEF SharingType
<1>. QED  BY <1>2, <1>3, <1>4, <1>5, <1>6, SendKeeps

LEMMA BoardKeeps ==
    ASSUME SharingInv,
           \/ \E minimum \in {"editor", "commenter", "viewer"} : updateBoardType("open", minimum)
           \/ updateBoardType("private", "none") \/ onLinkBoard("channel") \/ onUnlinkBoard
    PROVE  SharingInv'
<1>1. SharingType /\ Nobody \in Topics /\ "none" \in Roles
  BY DEF SharingInv, Topics, Roles
<1>2. useHasPermissions("admin") /\ known.board \in Boards /\ UNCHANGED <<team, known, pushed>>
  BY <1>1, TypeHas DEF updateBoardType, onLinkBoard, onUnlinkBoard, IManage, useHasPermissions
<1>3. PICK new \in Boards : Change(new)
  <2>1. ASSUME NEW minimum \in {"editor", "commenter", "viewer"}
        PROVE  [known.board EXCEPT !.type = "open", !.minimum = minimum] \in Boards
    BY <1>2 DEF Boards, Roles
  <2>2. [known.board EXCEPT !.type = "private", !.minimum = "none"] \in Boards
    BY <1>2 DEF Boards, Roles
  <2>3. [known.board EXCEPT !.channel = "channel"] \in Boards /\ [known.board EXCEPT !.channel = ""] \in Boards
    BY <1>2 DEF Boards
  <2>. QED  BY <2>1, <2>2, <2>3 DEF updateBoardType, onLinkBoard, onUnlinkBoard
<1>. DEFINE D == {f \in DOMAIN new : new[f] # known.board[f]}
            what == [f \in D |-> new[f]]
            a == Ask("patch", Nobody, "none", what)
<1>4. what \in Changes
  <2>1. DOMAIN new = {"type", "minimum", "channel"}
    BY DEF Boards
  <2>2. D \in SUBSET {"type", "minimum", "channel"}
    BY <2>1
  <2>. HIDE DEF D
  <2>. QED  BY <2>2 DEF Changes
<1>5. SendAsk(a) /\ UNCHANGED <<dialog, mishaps>>
  BY <1>3 DEF Change
<1>. HIDE DEF what
<1>6. a \in Requests /\ a.kind = "patch" /\ ~a.served /\ (a.fresh => AtRest)
  BY <1>1, <1>4, AskHas DEF Ones
<1>. HIDE DEF a
<1>7. mishaps = {} /\ a.fresh => Allowed(a)
  BY <1>2, <1>6, RestGrants DEF Allowed, Roles
<1>8. dialog' \in Dialogs
  BY <1>1, <1>5 DEF SharingType
<1>. QED  BY <1>2, <1>5, <1>6, <1>7, <1>8, SendKeeps

LEMMA TokenHas == ASSUME SharingType PROVE NewToken \in Nat
<1>1. IsFiniteSet({team.shared.token, dialog.sharing.token})
  <2>1. IsFiniteSet({team.shared.token}) /\ IsFiniteSet({dialog.sharing.token})
    BY FS_Singleton
  <2>2. IsFiniteSet({team.shared.token} \cup {dialog.sharing.token})
    BY <2>1, FS_Union
  <2>3. {team.shared.token} \cup {dialog.sharing.token} = {team.shared.token, dialog.sharing.token}
    OBVIOUS
  <2>. QED  BY <2>2, <2>3
<1>2. Cardinality({team.shared.token, dialog.sharing.token}) \in Nat /\ team.tokens \in Nat
  BY <1>1, FS_CardinalityType, TypeHas
<1>. QED  BY <1>2 DEF NewToken

LEMMA ShareKeeps ==
    ASSUME SharingInv, onRegenerateToken \/ \E on \in BOOLEAN : onShareChanged(on)
    PROVE  SharingInv'
<1>1. SharingType /\ Nobody \in Topics /\ "none" \in Roles /\ dialog \in Dialogs /\ dialog.sharing \in Sharings
  BY TypeHas DEF SharingInv, Topics, Roles, SharingType
<1>2. NewToken \in Nat
  BY <1>1, TokenHas
<1>3. PICK new \in Sharings : Shares(new)
  <2>1. CASE onRegenerateToken
    <3>1. [dialog.sharing EXCEPT !.token = NewToken] \in Sharings
      BY <1>1, <1>2 DEF Sharings
    <3>. QED  BY <2>1, <3>1 DEF onRegenerateToken
  <2>2. ASSUME NEW on \in BOOLEAN, onShareChanged(on)
        PROVE  \E new \in Sharings : Shares(new)
    <3>. DEFINE now == IF dialog.sharing = NoSharing THEN [on |-> TRUE, token |-> NewToken] ELSE dialog.sharing
    <3>1. now \in Sharings
      BY <1>1, <1>2 DEF Sharings
    <3>2. [now EXCEPT !.on = on] \in Sharings
      BY <3>1 DEF Sharings
    <3>. QED  BY <2>2, <3>2 DEF onShareChanged
  <2>. QED  BY <2>1, <2>2
<1>. DEFINE a == Ask("share", Nobody, "none", new)
<1>4. /\ useHasPermissions("admin") /\ SendAsk(a) /\ UNCHANGED <<team, known, pushed>>
      /\ dialog' = [dialog EXCEPT !.sharing = IF @ = NoSharing THEN @ ELSE new]
      /\ mishaps' = mishaps \cup {"late" : i \in {j \in DOMAIN underWay : underWay[j].kind = "share"}}
  BY <1>3 DEF Shares, IManage
<1>5. a \in Requests /\ a.kind = "share" /\ ~a.served /\ (a.fresh => AtRest)
  BY <1>1, AskHas DEF Ones
<1>. HIDE DEF a
<1>6. mishaps = {} /\ a.fresh => Allowed(a)
  BY <1>4, <1>5, RestGrants DEF Allowed, Roles
<1>7. dialog' \in Dialogs
  BY <1>1, <1>4 DEF Dialogs
<1>8. mishaps \subseteq mishaps' /\ mishaps' \subseteq mishaps \cup {"late"}
  BY <1>4
<1>9. "late" \notin mishaps' => \A i \in DOMAIN underWay : underWay[i].kind # "share"
  BY <1>4
<1>. QED  BY <1>4, <1>5, <1>6, <1>7, <1>8, <1>9, SendKeeps

LEMMA PersonKeeps ==
    ASSUME SharingInv, addPerson \/ loadOptions \/ (\E u \in People : onChangePerson(u)) \/ \E role \in DOMAIN Level : chooseRole(role)
    PROVE  SharingInv'
<1>1. SharingType /\ dialog \in Dialogs /\ Nobody \in Topics /\ "none" \in Roles
  BY DEF SharingInv, SharingType, Topics, Roles
<1>2. CASE loadOptions
  <2>1. dialog' = [dialog EXCEPT !.options = known.users] /\ known.users \in SUBSET People
    BY <1>1, <1>2, TypeHas DEF loadOptions
  <2>. QED  BY <1>1, <1>2, <2>1, DialogKeeps DEF loadOptions, Dialogs
<1>3. ASSUME NEW u \in People, onChangePerson(u)
      PROVE  SharingInv'
  <2>1. LeastRole \in Roles /\ u \in Topics
    BY <1>1, RolesAsked DEF Topics
  <2>2. dialog' \in Dialogs /\ dialog'.sharing = dialog.sharing
    BY <1>1, <1>3, <2>1 DEF onChangePerson, Dialogs
  <2>. QED  BY <1>3, <2>2, DialogKeeps DEF onChangePerson
<1>4. ASSUME NEW role \in DOMAIN Level, chooseRole(role)
      PROVE  SharingInv'
  <2>1. dialog' \in Dialogs /\ dialog'.sharing = dialog.sharing
    BY <1>1, <1>4, Levels DEF chooseRole, Dialogs
  <2>. QED  BY <1>4, <2>1, DialogKeeps DEF chooseRole
<1>5. CASE addPerson
  <2>. DEFINE b == Ask("addPerson", dialog.adding, dialog.role, <<>>)
              f == b.fresh /\ allowAddUsers /\ useHasPermissions("editor")
              a == [b EXCEPT !.fresh = f]
  <2>1. dialog.adding \in People /\ dialog.adding \in Topics /\ dialog.role \in Roles
    BY <1>1, <1>5, TypeHas DEF addPerson, Topics
  <2>2. b \in Requests /\ b.kind = "addPerson" /\ ~b.served /\ (b.fresh => AtRest)
    BY <2>1, AskHas DEF Ones
  <2>3. SendAsk(a) /\ UNCHANGED <<team, known, pushed, mishaps>>
    BY <1>5 DEF addPerson
  <2>. HIDE DEF b
  <2>4. f \in BOOLEAN
    OBVIOUS
  <2>. HIDE DEF f
  <2>5. a \in Requests /\ a.kind = "addPerson" /\ ~a.served /\ a.fresh = f
    BY <2>2, <2>4, AskFresh
  <2>6. f => AtRest /\ allowAddUsers /\ useHasPermissions("editor")
    BY <2>2 DEF f
  <2>. HIDE DEF a
  <2>7. mishaps = {} /\ a.fresh => Allowed(a)
    <3>. SUFFICES ASSUME mishaps = {}, a.fresh
                  PROVE  HasPermission(team, Me, "admin") \/ (team.board.type = "open" /\ HasPermission(team, Me, "editor"))
      BY <2>5 DEF Allowed
    <3>1. AtRest /\ allowAddUsers /\ useHasPermissions("editor")
      BY <2>5, <2>6
    <3>2. known.board = team.board
      BY <3>1, RestAgrees
    <3>. QED  BY <3>1, <3>2, RestGrants DEF allowAddUsers, Roles
  <2>8. dialog' \in Dialogs /\ dialog'.sharing = dialog.sharing
    BY <1>1, <1>5 DEF addPerson, Dialogs
  <2>. QED  BY <2>3, <2>5, <2>7, <2>8, SendKeeps
<1>. QED  BY <1>2, <1>3, <1>4, <1>5

-----------------------------------------------------------------------------
(* Requests that are served *)

\* The server changes a member or the board and tells it to whom it should.
LEMMA TeamChanges ==
    ASSUME SharingType, SharingType', PageInv, NEW n \in News, Says(n) = Has(team', n.user),
           \A v \in Topics \ {n.user} : Has(team', v) = Has(team, v),
           pushed' = pushed \o Told(team', n), known' = known, mishaps \subseteq mishaps',
           DOMAIN underWay' = DOMAIN underWay,
           \A i \in DOMAIN underWay :
               underWay'[i].kind = underWay[i].kind /\ underWay'[i].user = underWay[i].user,
           \A i \in DOMAIN underWay' :
               underWay'[i].kind = "fetchMembers" /\ underWay'[i].served => ~underWay'[i].fresh
    PROVE  PageInv'
<1>. SUFFICES ASSUME Undisturbed' PROVE (Me \in DOMAIN team.members /\ NewsTrue /\ MineTrue /\ Loaded /\ FetchTrue /\ LeastTrue)'
  BY DEF PageInv
<1>1. Me \in Topics /\ Me # Nobody /\ People \subseteq Topics /\ Nobody \notin People /\ Me \in People
  BY Constants DEF Topics
<1>2. team.members \in Memberships /\ team'.members \in Memberships /\ pushed \in Seq(News)
  BY DEF SharingType
<1>3. /\ n.user \in Topics /\ (n.user # Nobody => n.kind = "member" /\ Says(n) = n.role)
  BY DEF News, Says, Topics
<1>4. \A u \in People \ {n.user} : RoleIn(team'.members, u) = RoleIn(team.members, u)
  BY <1>1 DEF Has
<1>5. CASE Me \in DOMAIN team'.members \/ n.user = Me
  <2>1. pushed' = pushed \o <<n>>
    BY <1>1, <1>3, <1>5 DEF Told
  <2>2. /\ ~Silent(pushed', n.user) /\ LastSays(pushed', n.user, Says(n))
        /\ \A u : u # n.user => /\ Silent(pushed', u) <=> Silent(pushed, u)
                                /\ \A v : LastSays(pushed, u, v) => LastSays(pushed', u, v)
        /\ \A i \in DOMAIN pushed : \E j \in DOMAIN pushed' : pushed'[j] = pushed[i]
        /\ \E j \in DOMAIN pushed' : pushed'[j] = n
    <3>. DEFINE t == pushed \o <<n>>
    <3>1. /\ ~Silent(t, n.user) /\ LastSays(t, n.user, Says(n))
          /\ \A u : u # n.user => /\ Silent(t, u) <=> Silent(pushed, u)
                                  /\ \A v : LastSays(pushed, u, v) => LastSays(t, u, v)
          /\ \A i \in DOMAIN pushed : \E j \in DOMAIN t : t[j] = pushed[i]
          /\ \E j \in DOMAIN t : t[j] = n
      BY <1>2, SaysMore
    <3>2. pushed' = t
      BY <2>1
    <3>. HIDE DEF t
    <3>. QED  BY <3>1, <3>2
  <2>3. Undisturbed /\ ~(n.user = Me /\ n.role = "none")
    BY <2>2 DEF Undisturbed, Leaving
  <2>4. Me \in DOMAIN team.members /\ NewsTrue /\ MineTrue /\ Loaded /\ LeastTrue
    BY <2>3 DEF PageInv
  <2>5. Me \in DOMAIN team'.members
    BY <1>1, <1>2, <1>3, <1>5, <2>3, RoleHas DEF Has
  <2>6. NewsTrue'
    <3>. SUFFICES ASSUME NEW u \in Topics
                  PROVE  LastSays(pushed', u, Has(team', u)) /\ (Silent(pushed', u) => Shows(u)' = Has(team', u))
      BY DEF NewsTrue
    <3>1. CASE u = n.user
      BY <2>2, <3>1
    <3>2. CASE u # n.user
      BY <2>2, <2>4, <3>2 DEF NewsTrue, Shows
    <3>. QED  BY <3>1, <3>2
  <2>7. MineTrue'
    BY <1>1, <1>4, <2>2, <2>4 DEF MineTrue
  <2>8. Loaded'
    <3>. SUFFICES ASSUME NEW u \in DOMAIN team'.members, Silent(pushed', u)
                  PROVE  u \in known'.users \/ \E i \in DOMAIN underWay' : underWay'[i].kind = "getUser" /\ underWay'[i].user = u
      BY DEF Loaded
    <3>1. u # n.user /\ Silent(pushed, u) /\ u \in People
      BY <1>2, <2>2, RoleHas
    <3>2. u \in DOMAIN team.members
      BY <1>2, <1>4, <3>1, RoleHas
    <3>. QED  BY <2>4, <3>1, <3>2 DEF Loaded
  <2>9. FetchTrue'
    BY DEF FetchTrue
  <2>10. LeastTrue'
    <3>1. CASE n.user = Nobody
      BY <2>2, <3>1 DEF LeastTrue
    <3>2. CASE n.user # Nobody
      <4>1. team'.board = team.board /\ (Silent(pushed', Nobody) <=> Silent(pushed, Nobody))
        BY <2>2, <3>2 DEF Has, Topics
      <4>. QED  BY <2>4, <4>1 DEF LeastTrue
    <3>. QED  BY <3>1, <3>2
  <2>. QED  BY <2>5, <2>6, <2>7, <2>8, <2>9, <2>10
<1>6. CASE Me \notin DOMAIN team'.members /\ n.user # Me
  <2>1. pushed' = pushed \o <<>>
    BY <1>6 DEF Told
  <2>2. pushed' = pushed
    BY <1>2, <2>1, ConcatEmptySeq
  <2>3. Undisturbed
    BY <2>2 DEF Undisturbed, Leaving
  <2>4. Me \in DOMAIN team.members
    BY <2>3 DEF PageInv
  <2>5. Me \in DOMAIN team'.members
    BY <1>1, <1>2, <1>4, <1>6, <2>4, RoleHas
  <2>. QED  BY <1>6, <2>5
<1>. QED  BY <1>5, <1>6

\* The requests for the sharing stay what they are.
LEMMA SharesKept ==
    ASSUME ShareInv, team'.shared = team.shared, team'.relinked = team.relinked, dialog'.sharing = dialog.sharing, mishaps \subseteq mishaps',
           \A i \in DOMAIN underWay' : underWay'[i].kind = "share" =>
               /\ i \in DOMAIN underWay /\ underWay[i].kind = "share"
               /\ underWay'[i].served = underWay[i].served /\ underWay'[i].answer = underWay[i].answer,
           \A i \in DOMAIN underWay : underWay[i].kind = "share" => i \in DOMAIN underWay' /\ underWay'[i].kind = "share"
    PROVE  ShareInv'
<1>. SUFFICES ASSUME "late" \notin mishaps' PROVE OneShare' /\ (~team'.relinked => ShareTrue')
  BY DEF ShareInv
<1>1. OneShare /\ (~team.relinked => ShareTrue)
  BY DEF ShareInv
<1>2. OneShare'
  BY <1>1 DEF OneShare
<1>3. ShareTrue => ShareTrue'
  BY DEF ShareTrue
<1>. QED  BY <1>1, <1>2, <1>3

LEMMA MemberHas ==
    ASSUME NEW u \in People, NEW r \in Roles
    PROVE  LET n == Member(u, r) IN n \in News /\ n.kind = "member" /\ n.user = u /\ Says(n) = r
BY DEF Member, News, Says, Topics

LEMMA BoardHas ==
    ASSUME NEW b \in Boards
    PROVE  LET n == Board(b) IN n \in News /\ n.user = Nobody /\ Says(n) = b
BY DEF Board, Member, News, Says, Topics, Roles

LEMMA AdminKeeps ==
    ASSUME SharingInv, NEW u \in People, NEW role \in DOMAIN Level, AnotherAdmin(u, role)
    PROVE  SharingInv'
<1>. DEFINE n == Member(u, role)
<1>1. SharingType /\ HasAdmin /\ NeverRefused /\ AskedRight /\ HomeInv /\ ShareInv /\ PageInv /\ role \in Roles
  BY Levels DEF SharingInv
<1>2. /\ team' = [team EXCEPT !.members = With(@, u, role)] /\ pushed' = pushed \o Told(team', n)
      /\ underWay' = Stale(underWay) /\ UNCHANGED <<known, dialog, mishaps>> /\ ~LastAdmin(team, u, role)
  BY DEF AnotherAdmin
<1>3. /\ team.members \in Memberships /\ underWay \in Seq(Requests) /\ pushed \in Seq(News)
      /\ team \in [members : Memberships, board : Boards, shared : Sharings, tokens : Nat, relinked : BOOLEAN]
  BY <1>1, TypeHas DEF SharingType
<1>4. /\ team'.members = With(team.members, u, role) /\ team'.members \in Memberships
      /\ team'.board = team.board /\ team'.shared = team.shared /\ team'.relinked = team.relinked
      /\ team' \in [members : Memberships, board : Boards, shared : Sharings, tokens : Nat, relinked : BOOLEAN]
  BY <1>1, <1>2, <1>3, WithHas
<1>5. /\ underWay' \in Seq(Requests) /\ DOMAIN underWay' = DOMAIN underWay
      /\ \A i \in DOMAIN underWay :
             /\ underWay'[i].kind = underWay[i].kind /\ underWay'[i].user = underWay[i].user
             /\ underWay'[i].served = underWay[i].served /\ underWay'[i].answer = underWay[i].answer
             /\ ~underWay'[i].fresh
  BY <1>2, <1>3, StaleHas
<1>6. n \in News /\ n.user = u /\ Says(n) = role
  BY <1>1, MemberHas
<1>. HIDE DEF n
<1>7. SharingType'
  <2>1. pushed' \in Seq(News)
    BY <1>2, <1>3, <1>6, ConcatProperties, EmptySeq, SaysMore DEF Told
  <2>. QED  BY <1>1, <1>2, <1>4, <1>5, <2>1 DEF SharingType
<1>8. HasAdmin'
  BY <1>1, <1>2, <1>3, <1>4, AdminStays DEF HasAdmin
<1>9. NeverRefused' /\ AskedRight' /\ HomeInv' /\ ShareInv'
  <2>1. NeverRefused' /\ AskedRight' /\ HomeInv'
    BY <1>1, <1>2, <1>5 DEF NeverRefused, AskedRight, HomeInv
  <2>. QED  BY <1>1, <1>2, <1>4, <1>5, <2>1, SharesKept
<1>10. PageInv'
  <2>1. Says(n) = Has(team', n.user)
    BY <1>1, <1>3, <1>4, <1>6, WithHas, Constants DEF Has
  <2>2. \A v \in Topics \ {n.user} : Has(team', v) = Has(team, v)
    BY <1>1, <1>3, <1>4, <1>6, WithHas DEF Has
  <2>. QED  BY <1>1, <1>2, <1>5, <1>6, <1>7, <2>1, <2>2, TeamChanges
<1>. QED  BY <1>7, <1>8, <1>9, <1>10 DEF SharingInv

LEMMA AnotherChangesKeeps ==
    ASSUME SharingInv, NEW new \in BoardsOf(team.board), AnotherChanges(new)
    PROVE  SharingInv'
<1>. DEFINE n == Board(new)
<1>1. /\ SharingType /\ HasAdmin /\ NeverRefused /\ AskedRight /\ HomeInv /\ ShareInv /\ PageInv
      /\ team.board \in Boards /\ underWay \in Seq(Requests) /\ pushed \in Seq(News)
      /\ team \in [members : Memberships, board : Boards, shared : Sharings, tokens : Nat, relinked : BOOLEAN]
  BY TypeHas DEF SharingInv, SharingType
<1>2. /\ team' = [team EXCEPT !.board = new] /\ pushed' = pushed \o Told(team, n)
      /\ underWay' = Stale(underWay) /\ UNCHANGED <<known, dialog, mishaps>>
  BY DEF AnotherChanges
<1>3. new \in Boards
  <2>1. ASSUME NEW minimum \in {"editor", "commenter", "viewer"}
        PROVE  [team.board EXCEPT !.type = "open", !.minimum = minimum] \in Boards
    BY <1>1 DEF Boards, Roles
  <2>2. [team.board EXCEPT !.type = "private", !.minimum = "none"] \in Boards
    BY <1>1 DEF Boards, Roles
  <2>3. [team.board EXCEPT !.channel = ""] \in Boards
    BY <1>1 DEF Boards
  <2>. QED  BY <2>1, <2>2, <2>3 DEF BoardsOf
<1>4. /\ team'.members = team.members /\ team'.board = new
      /\ team'.shared = team.shared /\ team'.relinked = team.relinked
      /\ team' \in [members : Memberships, board : Boards, shared : Sharings, tokens : Nat, relinked : BOOLEAN]
  BY <1>1, <1>2, <1>3
<1>5. /\ underWay' \in Seq(Requests) /\ DOMAIN underWay' = DOMAIN underWay
      /\ \A i \in DOMAIN underWay :
             /\ underWay'[i].kind = underWay[i].kind /\ underWay'[i].user = underWay[i].user
             /\ underWay'[i].served = underWay[i].served /\ underWay'[i].answer = underWay[i].answer
             /\ ~underWay'[i].fresh
  BY <1>1, <1>2, StaleHas
<1>6. n \in News /\ n.user = Nobody /\ Says(n) = new
  BY <1>3, BoardHas
<1>. HIDE DEF n
<1>7. pushed' = pushed \o Told(team', n)
  BY <1>2, <1>4 DEF Told
<1>8. SharingType'
  <2>1. pushed' \in Seq(News)
    BY <1>1, <1>6, <1>7, ConcatProperties, EmptySeq, SaysMore DEF Told
  <2>. QED  BY <1>1, <1>2, <1>4, <1>5, <2>1 DEF SharingType
<1>9. HasAdmin' /\ NeverRefused' /\ AskedRight' /\ HomeInv' /\ ShareInv'
  <2>1. HasAdmin' /\ NeverRefused' /\ AskedRight' /\ HomeInv'
    BY <1>1, <1>2, <1>4, <1>5 DEF HasAdmin, NeverRefused, AskedRight, HomeInv
  <2>. QED  BY <1>1, <1>2, <1>4, <1>5, <2>1, SharesKept
<1>10. PageInv'
  <2>1. Says(n) = Has(team', n.user) /\ \A v \in Topics \ {n.user} : Has(team', v) = Has(team, v)
    BY <1>4, <1>6 DEF Has
  <2>. QED  BY <1>1, <1>2, <1>5, <1>6, <1>7, <1>8, <2>1, TeamChanges
<1>. QED  BY <1>8, <1>9, <1>10 DEF SharingInv

\* Another administrator changes the sharing, and the page is told nothing.
LEMMA AnotherSharesKeeps ==
    ASSUME SharingInv, NEW new \in {[team.shared EXCEPT !.on = FALSE], [on |-> TRUE, token |-> NewToken]}, AnotherShares(new)
    PROVE  SharingInv'
<1>1. /\ SharingType /\ HasAdmin /\ NeverRefused /\ AskedRight /\ HomeInv /\ ShareInv /\ PageInv
      /\ team.shared \in Sharings /\ team.tokens \in Nat /\ underWay \in Seq(Requests)
      /\ team \in [members : Memberships, board : Boards, shared : Sharings, tokens : Nat, relinked : BOOLEAN]
  BY TypeHas DEF SharingInv, SharingType
<1>2. /\ team' = [team EXCEPT !.shared = new, !.tokens = @ + 1, !.relinked = TRUE]
      /\ underWay' = Stale(underWay) /\ UNCHANGED <<known, dialog, pushed, mishaps>>
  BY DEF AnotherShares
<1>3. new \in Sharings
  <2>1. NewToken \in Nat
    BY <1>1, TokenHas
  <2>2. [team.shared EXCEPT !.on = FALSE] \in Sharings /\ [on |-> TRUE, token |-> NewToken] \in Sharings
    BY <1>1, <2>1 DEF Sharings
  <2>. QED  BY <2>2
<1>4. /\ team'.members = team.members /\ team'.board = team.board /\ team'.relinked
      /\ team' \in [members : Memberships, board : Boards, shared : Sharings, tokens : Nat, relinked : BOOLEAN]
  <2>1. team.tokens + 1 \in Nat
    BY <1>1
  <2>2. team' = [members |-> team.members, board |-> team.board, shared |-> new, tokens |-> team.tokens + 1, relinked |-> TRUE]
    BY <1>1, <1>2
  <2>. QED  BY <1>1, <1>3, <2>1, <2>2
<1>5. /\ underWay' \in Seq(Requests) /\ DOMAIN underWay' = DOMAIN underWay
      /\ \A i \in DOMAIN underWay :
             /\ underWay'[i].kind = underWay[i].kind /\ underWay'[i].user = underWay[i].user
             /\ ~underWay'[i].fresh
  BY <1>1, <1>2, StaleHas
<1>6. SharingType'
  BY <1>1, <1>2, <1>4, <1>5 DEF SharingType
<1>7. HasAdmin' /\ NeverRefused' /\ AskedRight' /\ HomeInv' /\ ShareInv'
  BY <1>1, <1>2, <1>4, <1>5 DEF HasAdmin, NeverRefused, AskedRight, HomeInv, ShareInv, OneShare
<1>8. PageInv'
  <2>. SUFFICES ASSUME Undisturbed' PROVE (Me \in DOMAIN team.members /\ NewsTrue /\ MineTrue /\ Loaded /\ FetchTrue /\ LeastTrue)'
    BY DEF PageInv
  <2>1. Me \in DOMAIN team.members /\ NewsTrue /\ MineTrue /\ Loaded /\ LeastTrue
    BY <1>1, <1>2 DEF PageInv, Undisturbed, Leaving
  <2>2. NewsTrue' /\ MineTrue'
    BY <1>2, <1>4, <2>1 DEF NewsTrue, MineTrue, Shows, Has
  <2>3. Loaded' /\ FetchTrue' /\ LeastTrue'
    BY <1>2, <1>4, <1>5, <2>1 DEF Loaded, FetchTrue, LeastTrue
  <2>. QED  BY <1>4, <2>1, <2>2, <2>3
<1>. QED  BY <1>6, <1>7, <1>8 DEF SharingInv

LEMMA PatchedBoard ==
    ASSUME NEW b \in Boards, NEW what \in Changes
    PROVE  [f \in DOMAIN b |-> IF f \in DOMAIN what THEN what[f] ELSE b[f]] \in Boards
<1>1. PICK D \in SUBSET {"type", "minimum", "channel"}, c \in Boards : what = [f \in D |-> c[f]]
  BY DEF Changes
<1>. DEFINE new == [f \in DOMAIN b |-> IF f \in DOMAIN what THEN what[f] ELSE b[f]]
<1>2. DOMAIN b = {"type", "minimum", "channel"} /\ DOMAIN what = D
  BY <1>1 DEF Boards
<1>3. new = [type |-> IF "type" \in D THEN c.type ELSE b.type,
             minimum |-> IF "minimum" \in D THEN c.minimum ELSE b.minimum,
             channel |-> IF "channel" \in D THEN c.channel ELSE b.channel]
  BY <1>1, <1>2
<1>. HIDE DEF new
<1>4. /\ b.type \in {"open", "private"} /\ b.minimum \in Roles \ {"admin"} /\ b.channel \in {"", "channel"}
      /\ c.type \in {"open", "private"} /\ c.minimum \in Roles \ {"admin"} /\ c.channel \in {"", "channel"}
  BY DEF Boards
<1>5. new \in Boards
  BY <1>3, <1>4 DEF Boards
<1>. QED  BY <1>5 DEF new

\* What the server makes of a request: it leaves all as it is, or changes the membership
\* of one user, the board, or the sharing.
LEMMA ServedHas ==
    ASSUME SharingType, NEW a \in Requests
    PROVE  LET t == Served(a) IN
           /\ t.members \in Memberships /\ t.board \in Boards /\ t.shared \in Sharings
           /\ t \in [members : Memberships, board : Boards, shared : Sharings, tokens : Nat, relinked : BOOLEAN]
           /\ \/ t = team
              \/ /\ a.kind \in {"add", "addPerson", "update", "remove"} /\ a.user \in People
                 /\ t.members = With(team.members, a.user, a.role) /\ t.board = team.board
                 /\ t.shared = team.shared /\ t.relinked = team.relinked
                 /\ ~LastAdmin(team, a.user, a.role) \/ a.user \notin DOMAIN team.members
              \/ a.kind = "patch" /\ t.members = team.members /\ t.shared = team.shared /\ t.relinked = team.relinked
              \/ a.kind = "share" /\ t.members = team.members /\ t.board = team.board
<1>. DEFINE Teams == [members : Memberships, board : Boards, shared : Sharings, tokens : Nat, relinked : BOOLEAN]
            t == Served(a)
<1>1. /\ team \in Teams /\ team.members \in Memberships /\ team.board \in Boards
      /\ team.shared \in Sharings /\ team.tokens \in Nat
  BY TypeHas DEF SharingType
<1>2. CASE t = team
  BY <1>1, <1>2
<1>3. CASE t # team /\ a.kind \in {"add", "addPerson", "update", "remove"}
  <2>1. a.user \in People /\ a.role \in Roles
    BY <1>3 DEF Requests, Ones
  <2>2. With(team.members, a.user, a.role) \in Memberships
    BY <1>1, <2>1, WithHas
  <2>3. Allowed(a) /\ t = [team EXCEPT !.members = With(@, a.user, a.role)]
    BY <1>3 DEF Served
  <2>4. a.kind \in {"add", "addPerson"} => a.user \notin DOMAIN team.members
    BY <1>3 DEF Served
  <2>5. ~LastAdmin(team, a.user, a.role) \/ a.user \notin DOMAIN team.members
    BY <1>3, <2>3, <2>4 DEF Allowed
  <2>. HIDE DEF t
  <2>6. /\ t.members = With(team.members, a.user, a.role) /\ t.board = team.board
        /\ t.shared = team.shared /\ t.relinked = team.relinked /\ t \in Teams
    BY <1>1, <2>2, <2>3
  <2>. QED  BY <1>1, <1>3, <2>1, <2>2, <2>5, <2>6 DEF t
<1>4. CASE t # team /\ a.kind = "patch"
  <2>. DEFINE b == team.board
              new == [f \in DOMAIN b |-> IF f \in DOMAIN a.what THEN a.what[f] ELSE b[f]]
  <2>1. a.what \in Changes
    BY <1>4 DEF Requests
  <2>2. new \in Boards
    BY <1>1, <2>1, PatchedBoard
  <2>3. t = [team EXCEPT !.board = new]
    BY <1>4 DEF Served
  <2>. HIDE DEF t, new
  <2>4. /\ t.members = team.members /\ t.board = new /\ t.shared = team.shared /\ t.relinked = team.relinked /\ t \in Teams
    BY <1>1, <2>2, <2>3
  <2>. QED  BY <1>1, <1>4, <2>2, <2>4 DEF t
<1>5. CASE t # team /\ a.kind = "share"
  <2>. DEFINE w == a.what
  <2>1. w \in Sharings
    BY <1>5 DEF Requests
  <2>2. t = [team EXCEPT !.shared = w, !.tokens = @ + 1, !.relinked = FALSE]
    BY <1>5 DEF Served
  <2>. HIDE DEF t, w
  <2>3. team.tokens + 1 \in Nat
    BY <1>1
  <2>4. /\ t.members = team.members /\ t.board = team.board /\ t.shared = w
    BY <1>1, <2>1, <2>2
  <2>5. t = [members |-> team.members, board |-> team.board, shared |-> w, tokens |-> team.tokens + 1, relinked |-> FALSE]
    BY <1>1, <2>1, <2>2
  <2>6. t \in Teams
    BY <1>1, <2>1, <2>3, <2>5
  <2>. QED  BY <1>1, <1>5, <2>1, <2>4, <2>6 DEF t
<1>6. t # team => a.kind \in {"add", "addPerson", "update", "remove", "patch", "share"}
  BY DEF Served
<1>. QED  BY <1>2, <1>3, <1>4, <1>5, <1>6

\* The request has its answer; others are no longer fresh once the server has changed.
LEMMA ServeHas ==
    ASSUME SharingType, NEW i \in DOMAIN underWay, ServeAsk(i)
    PROVE  LET a == underWay[i] IN
           /\ a \in Requests /\ ~a.served /\ team' = Served(a) /\ UNCHANGED <<known, dialog>>
           /\ underWay' \in Seq(Requests) /\ DOMAIN underWay' = DOMAIN underWay
           /\ \A j \in DOMAIN underWay :
                  /\ underWay'[j].kind = underWay[j].kind /\ underWay'[j].user = underWay[j].user
                  /\ j # i => /\ underWay'[j].served = underWay[j].served
                              /\ underWay'[j].answer = underWay[j].answer
                              /\ team' # team => ~underWay'[j].fresh
                              /\ team' = team => underWay'[j] = underWay[j]
           /\ underWay'[i].served
           /\ a.kind = "share" => underWay'[i].answer \in {NoSharing, team'.shared}
           /\ a.kind = "fetchMembers" /\ Allowed(a) =>
                  underWay'[i].answer = team'.members /\ underWay'[i].role = team'.board.minimum
<1>. DEFINE a == underWay[i]
            t == Served(a)
            others == IF t = team THEN underWay ELSE Stale(underWay)
            answer == CASE a.kind = "share" -> (IF HasPermission(t, Me, "admin") THEN t.shared ELSE NoSharing)
                        [] a.kind = "fetchMembers" -> (IF Allowed(a) THEN t.members ELSE <<>>)
                        [] OTHER -> t.board
            role == IF a.kind = "fetchMembers" THEN t.board.minimum ELSE a.role
            b == [a EXCEPT !.served = TRUE, !.answer = answer, !.role = role]
<1>1. /\ ~a.served /\ team' = t /\ UNCHANGED <<known, dialog>> /\ underWay' = [others EXCEPT ![i] = b]
  BY DEF ServeAsk
<1>2. underWay \in Seq(Requests) /\ a \in Requests /\ Len(underWay) \in Nat /\ DOMAIN underWay = 1 .. Len(underWay)
  BY TypeHas, LenProperties
<1>3. t.members \in Memberships /\ t.board \in Boards /\ t.shared \in Sharings
  BY <1>2, ServedHas
<1>. HIDE DEF t, a
<1>4. /\ answer \in Answers
      /\ a.kind = "share" => answer \in Sharings /\ answer \in {NoSharing, t.shared}
      /\ a.kind = "fetchMembers" => answer \in Memberships \cup {<<>>} /\ (Allowed(a) => answer = t.members)
      /\ a.kind \notin {"share", "fetchMembers"} => answer \in Boards
  <2>1. CASE a.kind = "share"
    BY <1>3, <2>1 DEF Answers, Sharings, NoSharing
  <2>2. CASE a.kind = "fetchMembers"
    BY <1>3, <2>2 DEF Answers
  <2>3. CASE a.kind \notin {"share", "fetchMembers"}
    BY <1>3, <2>3 DEF Answers
  <2>. QED  BY <2>1, <2>2, <2>3
<1>. HIDE DEF answer
<1>11. role \in Roles /\ (a.kind = "fetchMembers" => role = t.board.minimum /\ role # "admin")
  BY <1>2, <1>3 DEF Boards, Requests
<1>. HIDE DEF role
<1>5. b \in Requests /\ b.served /\ b.answer = answer /\ b.role = role /\ b.kind = a.kind /\ b.user = a.user
  BY <1>2, <1>4, <1>11 DEF Requests
<1>. HIDE DEF b
<1>6. /\ others \in Seq(Requests) /\ DOMAIN others = DOMAIN underWay
      /\ \A j \in DOMAIN underWay :
             /\ others[j].kind = underWay[j].kind /\ others[j].user = underWay[j].user
             /\ others[j].served = underWay[j].served /\ others[j].answer = underWay[j].answer
             /\ t # team => ~others[j].fresh
             /\ t = team => others[j] = underWay[j]
  BY <1>2, StaleHas
<1>. HIDE DEF others
<1>7. underWay' \in Seq(Requests) /\ DOMAIN underWay' = DOMAIN underWay
  <2>1. Len(others) = Len(underWay) /\ i \in 1 .. Len(others)
    BY <1>2, <1>6, LenProperties DEF a
  <2>. QED  BY <1>1, <1>5, <1>6, <2>1, ExceptSeq
<1>8. underWay'[i] = b /\ \A j \in DOMAIN underWay : j # i => underWay'[j] = others[j]
  BY <1>1, <1>6
<1>9. ASSUME NEW j \in DOMAIN underWay
      PROVE  /\ underWay'[j].kind = underWay[j].kind /\ underWay'[j].user = underWay[j].user
             /\ j # i => /\ underWay'[j].served = underWay[j].served
                         /\ underWay'[j].answer = underWay[j].answer
                         /\ team' # team => ~underWay'[j].fresh
                         /\ team' = team => underWay'[j] = underWay[j]
  BY <1>1, <1>5, <1>6, <1>8 DEF a
<1>10. /\ underWay'[i].served
       /\ a.kind = "share" => underWay'[i].answer \in {NoSharing, team'.shared}
       /\ a.kind = "fetchMembers" /\ Allowed(a) =>
              underWay'[i].answer = team'.members /\ underWay'[i].role = team'.board.minimum
  BY <1>1, <1>4, <1>5, <1>8, <1>11
<1>. QED  BY <1>1, <1>2, <1>7, <1>9, <1>10 DEF a, t

LEMMA ServeKeepsPage ==
    ASSUME SharingInv, NEW i \in DOMAIN underWay, ServeAsk(i)
    PROVE  pushed' \in Seq(News) /\ (SharingType' => PageInv')
<1>. DEFINE a == underWay[i]
            n == Member(a.user, a.role)
            m == Board(team'.board)
<1>1. SharingType /\ PageInv /\ a \in Requests /\ pushed \in Seq(News) /\ team.members \in Memberships
  BY TypeHas DEF SharingInv
<1>2. /\ team' = Served(a) /\ UNCHANGED <<known, dialog>>
      /\ DOMAIN underWay' = DOMAIN underWay
      /\ \A j \in DOMAIN underWay :
             /\ underWay'[j].kind = underWay[j].kind /\ underWay'[j].user = underWay[j].user
             /\ j # i => /\ underWay'[j].served = underWay[j].served
                         /\ underWay'[j].answer = underWay[j].answer
                         /\ team' # team => ~underWay'[j].fresh
                         /\ team' = team => underWay'[j] = underWay[j]
      /\ a.kind = "fetchMembers" /\ Allowed(a) =>
             underWay'[i].answer = team'.members /\ underWay'[i].role = team'.board.minimum
  BY <1>1, ServeHas
<1>3. /\ team'.board \in Boards
      /\ \/ team' = team
         \/ /\ a.kind \in {"add", "addPerson", "update", "remove"} /\ a.user \in People
            /\ team'.members = With(team.members, a.user, a.role) /\ team'.board = team.board /\ team'.shared = team.shared
         \/ a.kind = "patch" /\ team'.members = team.members /\ team'.shared = team.shared
         \/ a.kind = "share" /\ team'.members = team.members /\ team'.board = team.board
  BY <1>1, <1>2, ServedHas
<1>4. /\ mishaps \subseteq mishaps'
      /\ pushed' = pushed \o (CASE team'.members # team.members -> Told(team', n)
                                [] team'.board # team.board -> Told(team', m)
                                [] OTHER -> <<>>)
  BY <1>2 DEF ServeAsk
<1>. HIDE DEF a
<1>5. a.role \in Roles /\ ("board" # "member")
  BY <1>1 DEF Requests
<1>6. m \in News /\ m.user = Nobody /\ Says(m) = team'.board
  BY <1>3, BoardHas
<1>. HIDE DEF m
<1>7. CASE team'.members # team.members
  <2>1. /\ a.kind \in {"add", "addPerson", "update", "remove"} /\ a.user \in People
        /\ team'.members = With(team.members, a.user, a.role) /\ team'.board = team.board
    BY <1>3, <1>7
  <2>2. n \in News /\ n.user = a.user /\ Says(n) = a.role
    BY <1>5, <2>1, MemberHas
  <2>. HIDE DEF n
  <2>3. pushed' = pushed \o Told(team', n)
    BY <1>4, <1>7, <2>1
  <2>4. pushed' \in Seq(News)
    BY <1>1, <2>2, <2>3, ConcatProperties, EmptySeq, SaysMore DEF Told
  <2>5. Says(n) = Has(team', n.user)
    BY <1>1, <1>5, <2>1, <2>2, WithHas, Constants DEF Has
  <2>6. \A v \in Topics \ {n.user} : Has(team', v) = Has(team, v)
    BY <1>1, <1>5, <2>1, <2>2, WithHas DEF Has
  <2>7. \A j \in DOMAIN underWay' :
            underWay'[j].kind = "fetchMembers" /\ underWay'[j].served => ~underWay'[j].fresh
    BY <1>2, <1>7, <2>1 DEF a
  <2>. QED  BY <1>1, <1>2, <1>4, <2>2, <2>3, <2>4, <2>5, <2>6, <2>7, TeamChanges
<1>8. CASE team'.members = team.members /\ team'.board # team.board
  <2>1. pushed' = pushed \o Told(team', m)
    BY <1>4, <1>8
  <2>2. pushed' \in Seq(News)
    BY <1>1, <1>6, <2>1, ConcatProperties, EmptySeq, SaysMore DEF Told
  <2>3. Says(m) = Has(team', m.user) /\ \A v \in Topics \ {m.user} : Has(team', v) = Has(team, v)
    BY <1>6, <1>8 DEF Has
  <2>4. \A j \in DOMAIN underWay' :
            underWay'[j].kind = "fetchMembers" /\ underWay'[j].served => ~underWay'[j].fresh
    BY <1>2, <1>3, <1>8 DEF a
  <2>. QED  BY <1>1, <1>2, <1>4, <1>6, <2>1, <2>2, <2>3, <2>4, TeamChanges
<1>9. CASE team'.members = team.members /\ team'.board = team.board
  <2>1. pushed' = pushed
    BY <1>1, <1>4, <1>9, ConcatEmptySeq
  <2>2. ASSUME Undisturbed'
        PROVE  (Me \in DOMAIN team.members /\ NewsTrue /\ MineTrue /\ Loaded /\ FetchTrue /\ LeastTrue)'
    <3>1. Undisturbed
      BY <1>4, <2>1, <2>2 DEF Undisturbed, Leaving
    <3>2. Me \in DOMAIN team.members /\ NewsTrue /\ MineTrue /\ Loaded /\ FetchTrue /\ LeastTrue
      BY <1>1, <3>1 DEF PageInv
    <3>3. NewsTrue' /\ MineTrue'
      BY <1>2, <1>9, <2>1, <3>2 DEF NewsTrue, MineTrue, Shows, Has
    <3>4. Loaded'
      BY <1>2, <1>9, <2>1, <3>2 DEF Loaded
    <3>5. FetchTrue'
      <4>. SUFFICES ASSUME NEW j \in DOMAIN underWay', underWay'[j].kind = "fetchMembers", underWay'[j].served, underWay'[j].fresh
                    PROVE  underWay'[j].answer = team'.members /\ underWay'[j].role = team'.board.minimum
        BY DEF FetchTrue
      <4>1. CASE j = i
        BY <1>2, <3>2, <4>1 DEF Allowed, a
      <4>2. CASE j # i
        BY <1>2, <1>9, <3>2, <4>2 DEF FetchTrue
      <4>. QED  BY <4>1, <4>2
    <3>6. LeastTrue'
      BY <1>2, <1>9, <2>1, <3>2 DEF LeastTrue
    <3>. QED  BY <1>9, <3>2, <3>3, <3>4, <3>5, <3>6
  <2>. QED  BY <1>1, <2>1, <2>2 DEF PageInv
<1>. QED  BY <1>7, <1>8, <1>9

LEMMA ServeKeeps ==
    ASSUME SharingInv, NEW i \in DOMAIN underWay, ServeAsk(i)
    PROVE  SharingInv'
<1>. DEFINE a == underWay[i]
<1>1. /\ SharingType /\ HasAdmin /\ NeverRefused /\ AskedRight /\ HomeInv /\ ShareInv /\ a \in Requests
      /\ team.members \in Memberships
  BY TypeHas DEF SharingInv
<1>2. /\ ~a.served /\ team' = Served(a) /\ UNCHANGED <<known, dialog>>
      /\ underWay' \in Seq(Requests) /\ DOMAIN underWay' = DOMAIN underWay
      /\ \A j \in DOMAIN underWay :
             /\ underWay'[j].kind = underWay[j].kind
             /\ j # i => /\ underWay'[j].served = underWay[j].served
                         /\ underWay'[j].answer = underWay[j].answer
                         /\ team' # team => ~underWay'[j].fresh
                         /\ team' = team => underWay'[j] = underWay[j]
      /\ underWay'[i].served
      /\ a.kind = "share" => underWay'[i].answer \in {NoSharing, team'.shared}
  BY <1>1, ServeHas
<1>3. /\ team' \in [members : Memberships, board : Boards, shared : Sharings, tokens : Nat, relinked : BOOLEAN]
      /\ \/ team' = team
         \/ /\ a.kind \in {"add", "addPerson", "update", "remove"} /\ a.user \in People
            /\ team'.members = With(team.members, a.user, a.role)
            /\ team'.shared = team.shared /\ team'.relinked = team.relinked
            /\ ~LastAdmin(team, a.user, a.role) \/ a.user \notin DOMAIN team.members
         \/ /\ a.kind = "patch" /\ team'.members = team.members
            /\ team'.shared = team.shared /\ team'.relinked = team.relinked
         \/ a.kind = "share" /\ team'.members = team.members
  BY <1>1, <1>2, ServedHas
<1>4. mishaps' = mishaps \cup (IF Allowed(a) THEN {} ELSE IF a.fresh /\ mishaps = {} /\ a.kind \notin Reads THEN {"refused"} ELSE {"raced"})
  BY DEF ServeAsk
<1>5. a.role \in Roles
  BY <1>1 DEF Requests
<1>. HIDE DEF a
<1>6. SharingType'
  BY <1>1, <1>2, <1>3, <1>4, ServeKeepsPage DEF SharingType
<1>7. HasAdmin'
  <2>1. CASE team'.members = team.members
    BY <1>1, <2>1 DEF HasAdmin
  <2>2. CASE team'.members = With(team.members, a.user, a.role) /\ a.user \in People
             /\ (~LastAdmin(team, a.user, a.role) \/ a.user \notin DOMAIN team.members)
    BY <1>1, <1>5, <2>2, AdminStays DEF HasAdmin
  <2>. QED  BY <1>3, <2>1, <2>2
<1>8. NeverRefused'
  BY <1>1, <1>2, <1>4 DEF NeverRefused, AskedRight, a
<1>9. AskedRight'
  <2>. SUFFICES ASSUME mishaps' = {}, NEW j \in DOMAIN underWay', underWay'[j].fresh, ~underWay'[j].served,
                       underWay'[j].kind \notin Reads
                PROVE  Allowed(underWay[j])'
    BY DEF AskedRight
  <2>1. mishaps = {} /\ j # i /\ team' = team /\ underWay'[j] = underWay[j]
    BY <1>2, <1>4
  <2>2. Allowed(underWay[j])
    BY <1>1, <1>2, <2>1 DEF AskedRight
  <2>3. Allowed(underWay[j])' <=> Allowed(underWay'[j])
    BY <2>1 DEF Allowed, HasPermission, LastAdmin
  <2>. QED  BY <2>1, <2>2, <2>3
<1>10. HomeInv'
  BY <1>1, <1>2, <1>4 DEF HomeInv
<1>11. ShareInv'
  <2>. SUFFICES ASSUME "late" \notin mishaps' PROVE OneShare' /\ (~team'.relinked => ShareTrue')
    BY DEF ShareInv
  <2>1. OneShare /\ (~team.relinked => ShareTrue)
    BY <1>1, <1>4 DEF ShareInv
  <2>2. OneShare'
    BY <1>2, <2>1 DEF OneShare
  <2>3. CASE a.kind = "share"
    <3>1. \A j \in DOMAIN underWay' : underWay'[j].kind = "share" => j = i
      BY <1>2, <2>1, <2>3 DEF OneShare, a
    <3>. QED  BY <1>2, <2>2, <2>3, <3>1 DEF ShareTrue, a
  <2>4. CASE a.kind # "share"
    <3>1. team'.shared = team.shared /\ team'.relinked = team.relinked
      BY <1>3, <2>4
    <3>. QED  BY <1>2, <2>1, <2>2, <2>4, <3>1 DEF ShareTrue, a
  <2>. QED  BY <2>3, <2>4
<1>. QED  BY <1>6, <1>7, <1>8, <1>9, <1>10, <1>11, ServeKeepsPage DEF SharingInv

-----------------------------------------------------------------------------
(* Broadcasts that arrive *)

LEMMA ConcatElements ==
    ASSUME NEW S, NEW s \in Seq(S), NEW t \in Seq(S)
    PROVE  LET r == s \o t IN
           /\ r \in Seq(S)
           /\ \A i \in DOMAIN s : i \in DOMAIN r /\ r[i] = s[i]
           /\ \A j \in DOMAIN t : \E i \in DOMAIN r : r[i] = t[j]
           /\ \A i \in DOMAIN r : i \in DOMAIN s \/ \E j \in DOMAIN t : r[i] = t[j]
<1>. DEFINE r == s \o t
<1>1. /\ Len(s) \in Nat /\ DOMAIN s = 1 .. Len(s) /\ Len(t) \in Nat /\ DOMAIN t = 1 .. Len(t)
      /\ r \in Seq(S) /\ Len(r) = Len(s) + Len(t)
      /\ \A i \in 1 .. Len(s) + Len(t) : r[i] = IF i <= Len(s) THEN s[i] ELSE t[i - Len(s)]
  BY LenProperties, ConcatProperties
<1>2. DOMAIN r = 1 .. Len(s) + Len(t)
  BY <1>1, LenProperties
<1>. HIDE DEF r
<1>3. \A i \in DOMAIN s : i \in DOMAIN r /\ r[i] = s[i]
  BY <1>1, <1>2
<1>4. ASSUME NEW j \in DOMAIN t
      PROVE  \E i \in DOMAIN r : r[i] = t[j]
  <2>1. j + Len(s) \in DOMAIN r /\ r[j + Len(s)] = t[j]
    BY <1>1, <1>2
  <2>. QED  BY <2>1
<1>5. ASSUME NEW i \in DOMAIN r, i \notin DOMAIN s
      PROVE  \E j \in DOMAIN t : r[i] = t[j]
  <2>1. i - Len(s) \in DOMAIN t /\ r[i] = t[i - Len(s)]
    BY <1>1, <1>2, <1>5
  <2>. QED  BY <2>1
<1>. QED  BY <1>1, <1>3, <1>4, <1>5 DEF r

\* A user who is not in the store is asked for.
LooksFor(t, u) == t \in Seq(Requests) /\ \A j \in DOMAIN t : t[j].kind = "getUser" /\ t[j].user = u

LEMMA UsersAskedHas ==
    ASSUME NEW k, NEW u \in People, NEW r \in Roles
    PROVE  /\ LooksFor(UsersAsked(k, u, r), u)
           /\ r # "none" /\ u \notin k.users => DOMAIN UsersAsked(k, u, r) # {}
<1>. DEFINE a == Ask("getUser", u, r, <<>>)
<1>1. a \in Requests /\ a.kind = "getUser" /\ a.user = u
  BY AskHas DEF Ones, Topics
<1>. HIDE DEF a
<1>2. <<>> \in Seq(Requests) /\ <<a>> \in Seq(Requests) /\ DOMAIN <<>> = {} /\ DOMAIN <<a>> = {1} /\ <<a>>[1] = a
  BY <1>1, EmptySeq
<1>3. UsersAsked(k, u, r) = IF r = "none" \/ u \in k.users THEN <<>> ELSE <<a>>
  BY DEF UsersAsked, a
<1>4. LooksFor(<<>>, u) /\ LooksFor(<<a>>, u)
  BY <1>1, <1>2 DEF LooksFor
<1>. QED  BY <1>2, <1>3, <1>4

LEMMA ReceiveMemberKeeps == ASSUME SharingInv, ReceiveMember PROVE SharingInv'
<1>. DEFINE n == Head(pushed)
            u == n.user
            r == n.role
            k == IF u = Me THEN [known EXCEPT !.mine = r] ELSE known
            dropped == IF u = Me /\ r = "none" THEN [k EXCEPT !.board = NoBoard] ELSE k
            waits == u = Me /\ r # "none" /\ known.board = NoBoard
            getBoard == [Ask("getBoard", Me, r, <<>>) EXCEPT !.fresh = TRUE]
            t == IF waits THEN <<getBoard>> ELSE UsersAsked(k, u, r)
<1>1. /\ SharingType /\ HasAdmin /\ NeverRefused /\ HomeInv /\ ShareInv /\ PageInv
  BY DEF SharingInv
<1>2. /\ pushed # <<>> /\ n.kind = "member" /\ pushed' = Tail(pushed)
      /\ known' = IF waits THEN k ELSE Ensure(dropped, u, r)
      /\ underWay' = Stale(underWay) \o t
      /\ mishaps' = IF u = Me /\ r = "none" THEN mishaps \cup {"away"} ELSE mishaps
      /\ UNCHANGED <<team, dialog>>
  BY DEF ReceiveMember
<1>3. /\ n \in News /\ pushed' \in Seq(News)
      /\ \A v, w : LastSays(pushed, v, w) => /\ LastSays(pushed', v, w)
                                             /\ Silent(pushed', v) /\ u = v => Says(n) = w
      /\ \A v : u # v /\ Silent(pushed', v) => Silent(pushed, v)
      /\ \A i \in DOMAIN pushed : pushed[i] = n \/ \E j \in DOMAIN pushed' : pushed'[j] = pushed[i]
  <2>1. pushed \in Seq(News) /\ pushed # <<>> /\ pushed' = Tail(pushed)
    BY <1>1, <1>2, TypeHas
  <2>. QED  BY <2>1, SaysLess
<1>. HIDE DEF n
<1>4. u \in People /\ r \in Roles /\ Says(n) = r /\ Me \in People /\ Nobody \notin People
  BY <1>2, <1>3, Constants DEF News, Says
<1>. HIDE DEF u, r
<1>5. /\ known.board \in Boards \cup {NoBoard} /\ known.members \in Memberships
      /\ known.users \in SUBSET People /\ known.mine \in Roles
      /\ known \in [board : Boards \cup {NoBoard}, members : Memberships, least : Minima, users : SUBSET People, mine : Roles]
      /\ team.members \in Memberships /\ underWay \in Seq(Requests)
  BY <1>1, TypeHas DEF SharingType
<1>6. /\ k \in [board : Boards \cup {NoBoard}, members : Memberships, least : Minima, users : SUBSET People, mine : Roles]
      /\ k.board = known.board /\ k.members = known.members /\ k.least = known.least /\ k.users = known.users
      /\ k.mine = IF u = Me THEN r ELSE known.mine
  BY <1>4, <1>5
<1>. HIDE DEF k
<1>7. /\ dropped \in [board : Boards \cup {NoBoard}, members : Memberships, least : Minima, users : SUBSET People, mine : Roles]
      /\ dropped.members = known.members /\ dropped.least = known.least /\ dropped.users = known.users /\ dropped.mine = k.mine
      /\ ~(u = Me /\ r = "none") => dropped.board = known.board
  BY <1>6
<1>. HIDE DEF dropped
<1>8. With(known.members, u, r) \in Memberships /\ [known.least EXCEPT ![u] = "none"] \in Minima
  <2>1. known.least \in Minima
    BY <1>1, TypeHas
  <2>2. [known.least EXCEPT ![u] = "none"] \in Minima
    BY <2>1 DEF Minima, Roles
  <2>. QED  BY <1>4, <1>5, <2>2, WithHas
<1>9. /\ known' \in [board : Boards \cup {NoBoard}, members : Memberships, least : Minima, users : SUBSET People, mine : Roles]
      /\ known'.mine = k.mine
      /\ ~waits => /\ known'.board = dropped.board /\ known'.members = With(known.members, u, r)
                   /\ known'.least = [known.least EXCEPT ![u] = "none"]
                   /\ known'.users = IF r = "none" THEN known.users \ {u} ELSE known.users
  BY <1>2, <1>6, <1>7, <1>8 DEF Ensure, updateMembers
<1>10. /\ t \in Seq(Requests) /\ \A j \in DOMAIN t : t[j].kind \in {"getUser", "getBoard"}
       /\ ~waits => /\ \A j \in DOMAIN t : t[j].kind = "getUser"
                    /\ r # "none" /\ u \notin known.users => \E j \in DOMAIN t : t[j].kind = "getUser" /\ t[j].user = u
  <2>1. CASE waits
    <3>1. getBoard \in Requests /\ getBoard.kind = "getBoard"
      <4>. DEFINE b == Ask("getBoard", Me, r, <<>>)
      <4>1. b \in Requests /\ b.kind = "getBoard"
        BY <1>4, AskHas DEF Ones, Topics
      <4>. HIDE DEF b
      <4>2. [b EXCEPT !.fresh = TRUE] \in Requests /\ [b EXCEPT !.fresh = TRUE].kind = "getBoard"
        BY <4>1, AskFresh
      <4>. QED  BY <4>2 DEF b
    <3>. HIDE DEF getBoard
    <3>2. t = <<getBoard>> /\ DOMAIN <<getBoard>> = {1} /\ <<getBoard>>[1] = getBoard /\ <<getBoard>> \in Seq(Requests)
      BY <2>1, <3>1
    <3>. QED  BY <2>1, <3>1, <3>2
  <2>2. CASE ~waits
    <3>. DEFINE s == UsersAsked(k, u, r)
    <3>1. LooksFor(s, u) /\ (r # "none" /\ u \notin k.users => DOMAIN s # {})
      BY <1>4, UsersAskedHas
    <3>2. t = s
      BY <2>2
    <3>. HIDE DEF s
    <3>3. /\ s \in Seq(Requests) /\ \A j \in DOMAIN s : s[j].kind = "getUser" /\ s[j].user = u
          /\ r # "none" /\ u \notin k.users => \E j \in DOMAIN s : s[j].kind = "getUser" /\ s[j].user = u
      BY <3>1 DEF LooksFor
    <3>. QED  BY <1>6, <2>2, <3>2, <3>3
  <2>. QED  BY <2>1, <2>2
<1>. HIDE DEF t
<1>11. /\ underWay' \in Seq(Requests)
       /\ \A i \in DOMAIN underWay :
              /\ i \in DOMAIN underWay'
              /\ underWay'[i].kind = underWay[i].kind /\ underWay'[i].user = underWay[i].user
              /\ underWay'[i].served = underWay[i].served /\ underWay'[i].answer = underWay[i].answer
              /\ ~underWay'[i].fresh
       /\ \A j \in DOMAIN t : \E i \in DOMAIN underWay' : underWay'[i] = t[j]
       /\ \A i \in DOMAIN underWay' : i \in DOMAIN underWay \/ \E j \in DOMAIN t : underWay'[i] = t[j]
  <2>. DEFINE s == Stale(underWay)
  <2>1. /\ s \in Seq(Requests) /\ DOMAIN s = DOMAIN underWay
        /\ \A i \in DOMAIN underWay :
               /\ s[i].kind = underWay[i].kind /\ s[i].user = underWay[i].user
               /\ s[i].served = underWay[i].served /\ s[i].answer = underWay[i].answer
               /\ ~s[i].fresh
    BY <1>5, StaleHas
  <2>2. underWay' = s \o t
    BY <1>2
  <2>. HIDE DEF s
  <2>. DEFINE q == s \o t
  <2>3. /\ q \in Seq(Requests)
        /\ \A i \in DOMAIN s : i \in DOMAIN q /\ q[i] = s[i]
        /\ \A j \in DOMAIN t : \E i \in DOMAIN q : q[i] = t[j]
        /\ \A i \in DOMAIN q : i \in DOMAIN s \/ \E j \in DOMAIN t : q[i] = t[j]
    BY <1>10, <2>1, ConcatElements
  <2>4. underWay' = q
    BY <2>2
  <2>. HIDE DEF q
  <2>. QED  BY <2>1, <2>3, <2>4
<1>12. SharingType'
  BY <1>1, <1>2, <1>3, <1>9, <1>11 DEF SharingType
<1>13. HasAdmin' /\ NeverRefused'
  BY <1>1, <1>2 DEF HasAdmin, NeverRefused
<1>14. AskedRight'
  BY <1>10, <1>11 DEF AskedRight, Reads
<1>15. "away" \notin mishaps' => "away" \notin mishaps /\ ~(u = Me /\ r = "none") /\ known.board # NoBoard /\ ~waits
  BY <1>1, <1>2 DEF HomeInv
<1>16. HomeInv'
  BY <1>1, <1>7, <1>9, <1>10, <1>11, <1>15 DEF HomeInv
<1>17. ShareInv'
  <2>1. /\ team'.shared = team.shared /\ team'.relinked = team.relinked /\ dialog'.sharing = dialog.sharing /\ mishaps \subseteq mishaps'
    BY <1>2
  <2>2. \A i \in DOMAIN underWay' : underWay'[i].kind = "share" =>
            /\ i \in DOMAIN underWay /\ underWay[i].kind = "share"
            /\ underWay'[i].served = underWay[i].served /\ underWay'[i].answer = underWay[i].answer
    BY <1>10, <1>11
  <2>3. \A i \in DOMAIN underWay : underWay[i].kind = "share" => i \in DOMAIN underWay' /\ underWay'[i].kind = "share"
    BY <1>11
  <2>. QED  BY <1>1, <2>1, <2>2, <2>3, SharesKept
<1>18. PageInv'
  <2>. SUFFICES ASSUME Undisturbed' PROVE (Me \in DOMAIN team.members /\ NewsTrue /\ MineTrue /\ Loaded /\ FetchTrue /\ LeastTrue)'
    BY DEF PageInv
  <2>1. ~(u = Me /\ r = "none") /\ ~waits
    BY <1>15 DEF Undisturbed
  <2>2. Undisturbed
    BY <1>2, <1>3, <2>1 DEF Undisturbed, Leaving, u, r
  <2>3. Me \in DOMAIN team.members /\ NewsTrue /\ MineTrue /\ Loaded /\ LeastTrue
    BY <1>1, <2>2 DEF PageInv
  <2>4. /\ known'.board = known.board /\ known'.members = With(known.members, u, r)
        /\ known'.users = IF r = "none" THEN known.users \ {u} ELSE known.users
        /\ known'.mine = IF u = Me THEN r ELSE known.mine
    BY <1>6, <1>7, <1>9, <2>1
  <2>5. u \in Topics /\ u # Nobody /\ Has(team, u) = RoleIn(team.members, u) /\ LastSays(pushed, u, Has(team, u))
    BY <1>4, <2>3 DEF Topics, Has, NewsTrue
  <2>6. Silent(pushed', u) => r = RoleIn(team.members, u)
    BY <1>3, <1>4, <2>5
  <2>7. NewsTrue'
    <3>. SUFFICES ASSUME NEW v \in Topics
                  PROVE  LastSays(pushed', v, Has(team, v)) /\ (Silent(pushed', v) => Shows(v)' = Has(team, v))
      BY <1>2 DEF NewsTrue
    <3>1. LastSays(pushed', v, Has(team, v))
      BY <1>3, <2>3 DEF NewsTrue
    <3>2. CASE v = u
      BY <1>4, <1>5, <2>4, <2>5, <2>6, <3>1, <3>2, WithHas DEF Shows
    <3>3. CASE v # u
      BY <1>3, <1>4, <1>5, <2>3, <2>4, <3>1, <3>3, WithHas DEF Shows, NewsTrue
    <3>. QED  BY <3>2, <3>3
  <2>8. MineTrue'
    BY <1>2, <1>3, <2>3, <2>4, <2>6 DEF MineTrue
  <2>9. Loaded'
    <3>. SUFFICES ASSUME NEW v \in DOMAIN team.members, Silent(pushed', v)
                  PROVE  v \in known'.users \/ \E i \in DOMAIN underWay' : underWay'[i].kind = "getUser" /\ underWay'[i].user = v
      BY <1>2 DEF Loaded
    <3>1. CASE v = u
      <4>1. r # "none"
        BY <1>5, <2>6, <3>1, RoleHas
      <4>. QED  BY <1>10, <1>11, <2>1, <2>4, <3>1, <4>1
    <3>2. CASE v # u
      <4>1. Silent(pushed, v)
        BY <1>3, <3>2
      <4>. QED  BY <1>11, <2>3, <2>4, <3>2, <4>1 DEF Loaded
    <3>. QED  BY <3>1, <3>2
  <2>10. FetchTrue'
    BY <1>10, <1>11 DEF FetchTrue
  <2>11. LeastTrue'
    <3>1. Silent(pushed', Nobody) => Silent(pushed, Nobody)
      BY <1>3, <1>4
    <3>2. \A v \in People : known'.least[v] = IF v = u THEN "none" ELSE known.least[v]
      BY <1>1, <1>9, <2>1, TypeHas DEF Minima
    <3>. QED  BY <1>2, <1>11, <2>3, <3>1, <3>2 DEF LeastTrue
  <2>. QED  BY <1>2, <2>3, <2>7, <2>8, <2>9, <2>10, <2>11
<1>. QED  BY <1>12, <1>13, <1>14, <1>16, <1>17, <1>18 DEF SharingInv

LEMMA ReceiveBoardKeeps == ASSUME SharingInv, ReceiveBoard PROVE SharingInv'
<1>. DEFINE n == Head(pushed)
            b == Ask("fetchMembers", Nobody, "none", <<>>)
            a == [b EXCEPT !.fresh = TRUE]
            l == Len(underWay) + 1
<1>1. /\ SharingType /\ HasAdmin /\ NeverRefused /\ AskedRight /\ HomeInv /\ ShareInv /\ PageInv
      /\ underWay \in Seq(Requests) /\ pushed \in Seq(News)
  BY TypeHas DEF SharingInv
<1>2. /\ pushed # <<>> /\ n.kind = "board" /\ pushed' = Tail(pushed)
      /\ known' = [known EXCEPT !.board = n.board] /\ underWay' = Append(underWay, a)
      /\ UNCHANGED <<team, dialog, mishaps>>
  BY DEF ReceiveBoard, SendAsk
<1>3. /\ n \in News /\ pushed' \in Seq(News)
      /\ \A v, w : LastSays(pushed, v, w) => /\ LastSays(pushed', v, w)
                                             /\ Silent(pushed', v) /\ n.user = v => Says(n) = w
      /\ \A v : n.user # v /\ Silent(pushed', v) => Silent(pushed, v)
      /\ \A i \in DOMAIN pushed : pushed[i] = n \/ \E j \in DOMAIN pushed' : pushed'[j] = pushed[i]
  BY <1>1, <1>2, SaysLess
<1>. HIDE DEF n
<1>4. n.user = Nobody /\ n.board \in Boards /\ Says(n) = n.board /\ Me # Nobody /\ Nobody \notin People
  BY <1>2, <1>3, Constants DEF News, Says
<1>5. a \in Requests /\ a.kind = "fetchMembers" /\ ~a.served
  <2>1. b \in Requests /\ b.kind = "fetchMembers" /\ ~b.served
    BY AskHas DEF Ones, Topics, Roles
  <2>. HIDE DEF b
  <2>. QED  BY <2>1, AskFresh
<1>. HIDE DEF a
<1>6. /\ underWay' \in Seq(Requests) /\ DOMAIN underWay' = DOMAIN underWay \cup {l}
      /\ \A i \in DOMAIN underWay : underWay'[i] = underWay[i]
      /\ underWay'[l] = a
  <2>1. underWay' \in Seq(Requests) /\ DOMAIN underWay' = DOMAIN underWay \cup {l} /\ underWay'[l] = a
    BY <1>1, <1>2, <1>5, AppendElements
  <2>2. \A i \in DOMAIN underWay : underWay'[i] = underWay[i]
    BY <1>1, <1>2, <1>5, AppendElements
  <2>. QED  BY <2>1, <2>2
<1>. HIDE DEF l
<1>7. /\ known \in [board : Boards \cup {NoBoard}, members : Memberships, least : Minima, users : SUBSET People, mine : Roles]
      /\ known'.board = n.board /\ known'.members = known.members /\ known'.users = known.users /\ known'.mine = known.mine
      /\ known' \in [board : Boards \cup {NoBoard}, members : Memberships, least : Minima, users : SUBSET People, mine : Roles]
  <2>1. known \in [board : Boards \cup {NoBoard}, members : Memberships, least : Minima, users : SUBSET People, mine : Roles]
    BY <1>1 DEF SharingType
  <2>. QED  BY <1>2, <1>4, <2>1
<1>8. SharingType'
  BY <1>1, <1>2, <1>3, <1>6, <1>7 DEF SharingType
<1>9. HasAdmin' /\ NeverRefused'
  BY <1>1, <1>2 DEF HasAdmin, NeverRefused
<1>10. HomeInv'
  BY <1>1, <1>2, <1>4, <1>5, <1>6, <1>7, Constants DEF HomeInv
<1>11. AskedRight'
  <2>. SUFFICES ASSUME mishaps' = {}, NEW i \in DOMAIN underWay', underWay'[i].fresh, ~underWay'[i].served,
                       underWay'[i].kind \notin Reads
                PROVE  Allowed(underWay[i])'
    BY DEF AskedRight
  <2>1. i \in DOMAIN underWay /\ underWay'[i] = underWay[i]
    BY <1>5, <1>6 DEF Reads
  <2>2. Allowed(underWay[i])
    BY <1>1, <1>2, <2>1 DEF AskedRight
  <2>3. Allowed(underWay[i])' <=> Allowed(underWay'[i])
    BY <1>2 DEF Allowed, HasPermission, LastAdmin
  <2>. QED  BY <2>1, <2>2, <2>3
<1>12. ShareInv'
  <2>1. team'.shared = team.shared /\ team'.relinked = team.relinked /\ dialog'.sharing = dialog.sharing /\ mishaps \subseteq mishaps'
    BY <1>2
  <2>2. \A i \in DOMAIN underWay' : underWay'[i].kind = "share" =>
            /\ i \in DOMAIN underWay /\ underWay[i].kind = "share"
            /\ underWay'[i].served = underWay[i].served /\ underWay'[i].answer = underWay[i].answer
    BY <1>5, <1>6
  <2>3. \A i \in DOMAIN underWay : underWay[i].kind = "share" => i \in DOMAIN underWay' /\ underWay'[i].kind = "share"
    BY <1>6
  <2>. QED  BY <1>1, <2>1, <2>2, <2>3, SharesKept
<1>13. PageInv'
  <2>. SUFFICES ASSUME Undisturbed' PROVE (Me \in DOMAIN team.members /\ NewsTrue /\ MineTrue /\ Loaded /\ FetchTrue /\ LeastTrue)'
    BY DEF PageInv
  <2>1. Undisturbed
    BY <1>2, <1>3, <1>4 DEF Undisturbed, Leaving
  <2>2. Me \in DOMAIN team.members /\ NewsTrue /\ MineTrue /\ Loaded /\ FetchTrue /\ LeastTrue
    BY <1>1, <2>1 DEF PageInv
  <2>3. NewsTrue'
    <3>. SUFFICES ASSUME NEW v \in Topics
                  PROVE  LastSays(pushed', v, Has(team, v)) /\ (Silent(pushed', v) => Shows(v)' = Has(team, v))
      BY <1>2 DEF NewsTrue
    <3>1. LastSays(pushed, v, Has(team, v)) /\ LastSays(pushed', v, Has(team, v))
      BY <1>3, <2>2 DEF NewsTrue
    <3>2. CASE v = Nobody
      BY <1>3, <1>4, <1>7, <3>1, <3>2 DEF Shows
    <3>3. CASE v # Nobody
      BY <1>3, <1>4, <1>7, <2>2, <3>1, <3>3 DEF Shows, NewsTrue
    <3>. QED  BY <3>2, <3>3
  <2>4. MineTrue'
    BY <1>2, <1>3, <1>4, <1>7, <2>2 DEF MineTrue
  <2>5. Loaded'
    <3>. SUFFICES ASSUME NEW v \in DOMAIN team.members, Silent(pushed', v)
                  PROVE  v \in known'.users \/ \E i \in DOMAIN underWay' : underWay'[i].kind = "getUser" /\ underWay'[i].user = v
      BY <1>2 DEF Loaded
    <3>1. v \in People
      BY <1>1, TypeHas, RoleHas
    <3>2. Silent(pushed, v)
      BY <1>3, <1>4, <3>1
    <3>. QED  BY <1>6, <1>7, <2>2, <3>2 DEF Loaded
  <2>6. FetchTrue'
    BY <1>2, <1>5, <1>6, <2>2 DEF FetchTrue
  <2>7. LeastTrue'
    BY <1>5, <1>6 DEF LeastTrue
  <2>. QED  BY <1>2, <2>2, <2>3, <2>4, <2>5, <2>6, <2>7
<1>. QED  BY <1>8, <1>9, <1>10, <1>11, <1>12, <1>13 DEF SharingInv

-----------------------------------------------------------------------------
(* Answers *)

\* One request is removed, and others are added after the rest.
Replaced(s, i, t, r) ==
    /\ r \in Seq(Requests)
    /\ \A k \in DOMAIN r : (\E j \in DOMAIN s \ {i} : r[k] = s[j]) \/ \E j \in DOMAIN t : r[k] = t[j]
    /\ \A j \in DOMAIN s \ {i} : \E k \in DOMAIN r : r[k] = s[j]
    /\ \A k, l \in DOMAIN r : k # l =>
           \/ \E j, m \in DOMAIN s \ {i} : j # m /\ r[k] = s[j] /\ r[l] = s[m]
           \/ \E j \in DOMAIN t : r[k] = t[j] \/ r[l] = t[j]

LEMMA RequestReplaced ==
    ASSUME NEW s \in Seq(Requests), NEW i \in DOMAIN s, NEW t \in Seq(Requests)
    PROVE  Replaced(s, i, t, RemoveAt(s, i) \o t)
<1>. DEFINE r == RemoveAt(s, i) \o t
            From(k) == IF k < i THEN k ELSE k + 1
<1>1. /\ r \in Seq(Requests) /\ Len(s) \in Nat /\ Len(t) \in Nat /\ DOMAIN s = 1 .. Len(s) /\ DOMAIN t = 1 .. Len(t)
      /\ DOMAIN r = 1 .. (Len(s) - 1 + Len(t))
      /\ \A k \in DOMAIN r :
             r[k] = IF k < i THEN s[k] ELSE IF k < Len(s) THEN s[k + 1] ELSE t[k - Len(s) + 1]
  BY RemovedThen
<1>. HIDE DEF r
<1>2. ASSUME NEW k \in DOMAIN r, k < Len(s)
      PROVE  From(k) \in DOMAIN s \ {i} /\ r[k] = s[From(k)]
  BY <1>1, <1>2
<1>3. ASSUME NEW k \in DOMAIN r, ~(k < Len(s))
      PROVE  k - Len(s) + 1 \in DOMAIN t /\ r[k] = t[k - Len(s) + 1]
  BY <1>1, <1>3
<1>4. ASSUME NEW j \in DOMAIN s \ {i}
      PROVE  \E k \in DOMAIN r : r[k] = s[j]
  <2>1. CASE j < i
    <3>1. j \in DOMAIN r /\ r[j] = s[j]
      BY <1>1, <2>1
    <3>. QED  BY <3>1
  <2>2. CASE j > i
    <3>1. j - 1 \in DOMAIN r /\ ~(j - 1 < i) /\ j - 1 < Len(s) /\ (j - 1) + 1 = j
      BY <1>1, <2>2
    <3>2. r[j - 1] = s[j]
      BY <1>1, <3>1
    <3>. QED  BY <3>1, <3>2
  <2>. QED  BY <1>1, <2>1, <2>2
<1>5. ASSUME NEW k \in DOMAIN r, NEW l \in DOMAIN r, k # l
      PROVE  \/ \E j, m \in DOMAIN s \ {i} : j # m /\ r[k] = s[j] /\ r[l] = s[m]
             \/ \E j \in DOMAIN t : r[k] = t[j] \/ r[l] = t[j]
  <2>1. From(k) # From(l)
    BY <1>1, <1>5
  <2>. HIDE DEF From
  <2>2. CASE k < Len(s) /\ l < Len(s)
    BY <1>2, <2>1, <2>2
  <2>3. CASE ~(k < Len(s))
    BY <1>3, <2>3
  <2>4. CASE ~(l < Len(s))
    BY <1>3, <2>4
  <2>. QED  BY <2>2, <2>3, <2>4
<1>6. \A k \in DOMAIN r : (\E j \in DOMAIN s \ {i} : r[k] = s[j]) \/ \E j \in DOMAIN t : r[k] = t[j]
  <2>. HIDE DEF From
  <2>. QED  BY <1>2, <1>3
<1>7. Replaced(s, i, t, r)
  BY <1>1, <1>4, <1>5, <1>6 DEF Replaced
<1>. QED  BY <1>7 DEF r

LEMMA AnsweredKeeps ==
    ASSUME SharingInv, NEW i \in DOMAIN underWay, Answered(i)
    PROVE  SharingInv'
<1>. DEFINE a == underWay[i]
            t == IF a.kind = "getBoard" THEN UsersAsked(known, Me, a.role) ELSE <<>>
            Knowns == [board : Boards \cup {NoBoard}, members : Memberships, least : Minima, users : SUBSET People, mine : Roles]
            late == CASE a.kind = "remove" -> a.user \in DOMAIN team.members
                      [] a.kind = "getUser" -> a.user \notin DOMAIN known.members
                      [] a.kind \in {"fetchMembers", "getBoard"} -> ~a.fresh
                      [] OTHER -> FALSE
<1>1. /\ SharingType /\ HasAdmin /\ NeverRefused /\ AskedRight /\ HomeInv /\ ShareInv /\ PageInv
      /\ a \in Requests /\ underWay \in Seq(Requests) /\ dialog \in Dialogs /\ known \in Knowns
      /\ known.members \in Memberships /\ known.users \in SUBSET People /\ team.members \in Memberships
  BY TypeHas DEF SharingInv, SharingType
<1>2. /\ a.served /\ UNCHANGED <<team, pushed>> /\ underWay' = RemoveAt(underWay, i) \o t
      /\ known' = CASE a.kind = "remove" -> [known EXCEPT !.users = @ \ {a.user}]
                    [] a.kind = "getUser" -> [known EXCEPT !.users = @ \cup {a.user}]
                    [] a.kind = "getBoard" -> updateMembers([known EXCEPT !.board = a.answer], Me, a.role)
                    [] a.kind = "fetchMembers" /\ a.answer = <<>> -> [known EXCEPT !.users = {}]
                    [] a.kind = "fetchMembers" /\ a.answer # <<>> ->
                           [known EXCEPT !.users = DOMAIN a.answer, !.members = a.answer, !.least = [v \in People |-> a.role]]
                    [] OTHER -> known
      /\ dialog' = CASE a.kind = "share" -> [dialog EXCEPT !.sharing = a.answer]
                     [] a.kind = "addPerson" -> [dialog EXCEPT !.person = a.user]
                     [] OTHER -> dialog
      /\ mishaps' = IF late THEN mishaps \cup {"late"} ELSE mishaps
  BY DEF Answered
<1>. HIDE DEF a
<1>3. /\ a.role \in Roles /\ a.user \in Topics
      /\ a.kind \in Ones => a.user \in People
      /\ a.kind = "share" => a.answer \in Sharings
      /\ a.kind = "getBoard" => a.answer \in Boards
      /\ a.kind = "fetchMembers" => a.answer \in Memberships \cup {<<>>} /\ a.role # "admin"
  BY <1>1, <1>2 DEF Requests
<1>4. t \in Seq(Requests) /\ (a.kind # "getBoard" => t = <<>>) /\ \A j \in DOMAIN t : t[j].kind = "getUser"
  <2>1. CASE a.kind = "getBoard"
    <3>1. t = UsersAsked(known, Me, a.role) /\ Me \in People /\ a.role \in Roles
      BY <1>3, <2>1, Constants
    <3>2. LooksFor(t, Me)
      BY <3>1, UsersAskedHas
    <3>. QED  BY <2>1, <3>2 DEF LooksFor
  <2>2. CASE a.kind # "getBoard"
    BY <2>2, EmptySeq
  <2>. QED  BY <2>1, <2>2
<1>. HIDE DEF t
<1>5. /\ underWay' \in Seq(Requests)
      /\ \A k \in DOMAIN underWay' : (\E j \in DOMAIN underWay \ {i} : underWay'[k] = underWay[j]) \/ \E j \in DOMAIN t : underWay'[k] = t[j]
      /\ \A j \in DOMAIN underWay \ {i} : \E k \in DOMAIN underWay' : underWay'[k] = underWay[j]
      /\ \A k, l \in DOMAIN underWay' : k # l =>
             \/ \E j, m \in DOMAIN underWay \ {i} : j # m /\ underWay'[k] = underWay[j] /\ underWay'[l] = underWay[m]
             \/ \E j \in DOMAIN t : underWay'[k] = t[j] \/ underWay'[l] = t[j]
  <2>1. Replaced(underWay, i, t, underWay')
    BY <1>1, <1>2, <1>4, RequestReplaced
  <2>. QED  BY <2>1 DEF Replaced
<1>6. DOMAIN <<>> = {}
  OBVIOUS
<1>7. known' \in Knowns
  <2>1. CASE a.kind = "remove"
    BY <1>1, <1>2, <2>1
  <2>2. CASE a.kind = "getUser"
    BY <1>1, <1>2, <1>3, <2>2 DEF Ones
  <2>3. CASE a.kind = "getBoard"
    <3>1. With(known.members, Me, a.role) \in Memberships
      BY <1>1, <1>3, Constants, WithHas
    <3>. DEFINE m == With(known.members, Me, a.role)
                f == [known.least EXCEPT ![Me] = "none"]
    <3>2. f \in Minima
      BY <1>1 DEF Minima, Roles
    <3>3. known' = [known EXCEPT !.board = a.answer, !.members = m, !.least = f]
      BY <1>1, <1>2, <2>3 DEF updateMembers
    <3>. HIDE DEF m, f
    <3>4. m \in Memberships
      BY <3>1 DEF m
    <3>. QED  BY <1>1, <1>3, <2>3, <3>2, <3>3, <3>4
  <2>4. CASE a.kind = "fetchMembers" /\ a.answer = <<>>
    BY <1>1, <1>2, <2>4
  <2>6. CASE a.kind = "fetchMembers" /\ a.answer # <<>>
    <3>. DEFINE D == DOMAIN a.answer
                m == a.answer
                f == [v \in People |-> a.role]
    <3>1. D \in SUBSET People
      BY <1>3, <2>6, RoleHas
    <3>2. m \in Memberships /\ f \in Minima
      BY <1>3, <2>6 DEF Minima
    <3>3. known' = [known EXCEPT !.users = D, !.members = m, !.least = f]
      BY <1>1, <1>2, <2>6
    <3>. HIDE DEF D, m, f
    <3>. QED  BY <1>1, <3>1, <3>2, <3>3
  <2>5. CASE a.kind \notin {"remove", "getUser", "getBoard", "fetchMembers"}
    BY <1>1, <1>2, <2>5
  <2>. QED  BY <2>1, <2>2, <2>3, <2>4, <2>5, <2>6
<1>8. SharingType'
  <2>1. dialog' \in Dialogs
    BY <1>1, <1>2, <1>3 DEF Dialogs
  <2>. QED  BY <1>1, <1>2, <1>5, <1>7, <2>1 DEF SharingType
<1>9. HasAdmin' /\ NeverRefused'
  BY <1>1, <1>2 DEF HasAdmin, NeverRefused
<1>10. "away" \notin mishaps' => a.kind # "getBoard" /\ t = <<>> /\ known'.board = known.board /\ known.board # NoBoard
  <2>. SUFFICES ASSUME "away" \notin mishaps'
                PROVE  a.kind # "getBoard" /\ t = <<>> /\ known'.board = known.board /\ known.board # NoBoard
    OBVIOUS
  <2>1. a.kind # "getBoard" /\ t = <<>> /\ known.board # NoBoard
    BY <1>1, <1>2, <1>4 DEF HomeInv, a
  <2>. QED  BY <1>1, <1>2, <2>1
<1>11. HomeInv'
  BY <1>1, <1>2, <1>5, <1>6, <1>10 DEF HomeInv
<1>12. AskedRight'
  <2>. SUFFICES ASSUME mishaps' = {}, NEW k \in DOMAIN underWay', underWay'[k].fresh, ~underWay'[k].served,
                       underWay'[k].kind \notin Reads
                PROVE  Allowed(underWay[k])'
    BY DEF AskedRight
  <2>1. PICK j \in DOMAIN underWay : underWay'[k] = underWay[j]
    BY <1>4, <1>5 DEF Reads
  <2>2. Allowed(underWay[j])
    BY <1>1, <1>2, <2>1 DEF AskedRight
  <2>3. Allowed(underWay[k])' <=> Allowed(underWay'[k])
    BY <1>2 DEF Allowed, HasPermission, LastAdmin
  <2>. QED  BY <2>1, <2>2, <2>3
<1>13. ShareInv'
  <2>. SUFFICES ASSUME "late" \notin mishaps' PROVE OneShare' /\ (~team'.relinked => ShareTrue')
    BY DEF ShareInv
  <2>1. OneShare /\ (~team.relinked => ShareTrue)
    BY <1>1, <1>2 DEF ShareInv
  <2>2. \A k \in DOMAIN underWay' : underWay'[k].kind = "share" => \E j \in DOMAIN underWay \ {i} : underWay'[k] = underWay[j]
    BY <1>4, <1>5
  <2>3. OneShare'
    <3>. SUFFICES ASSUME NEW k \in DOMAIN underWay', NEW l \in DOMAIN underWay', k # l,
                         underWay'[k].kind = "share", underWay'[l].kind = "share"
                  PROVE  FALSE
      BY DEF OneShare
    <3>1. ~ \E j \in DOMAIN t : underWay'[k] = t[j] \/ underWay'[l] = t[j]
      BY <1>4
    <3>. QED  BY <1>5, <2>1, <3>1 DEF OneShare
  <2>4. ASSUME ShareTrue PROVE ShareTrue'
    <3>1. \A k \in DOMAIN underWay' :
              underWay'[k].kind = "share" /\ underWay'[k].served => underWay'[k].answer \in {NoSharing, team'.shared}
      BY <1>2, <2>2, <2>4 DEF ShareTrue
    <3>2. CASE a.kind = "share"
      <4>1. dialog'.sharing = a.answer
        BY <1>1, <1>2, <3>2 DEF Dialogs
      <4>. QED  BY <1>2, <2>4, <3>1, <3>2, <4>1 DEF ShareTrue, a
    <3>3. CASE a.kind # "share"
      <4>1. dialog'.sharing = dialog.sharing
        BY <1>1, <1>2, <3>3 DEF Dialogs
      <4>2. (\A k \in DOMAIN underWay' : underWay'[k].kind # "share") => \A j \in DOMAIN underWay : underWay[j].kind # "share"
        BY <1>5, <3>3 DEF a
      <4>. QED  BY <1>2, <2>4, <3>1, <4>1, <4>2 DEF ShareTrue
    <3>. QED  BY <3>2, <3>3
  <2>. QED  BY <1>2, <2>1, <2>3, <2>4
<1>14. PageInv'
  <2>. SUFFICES ASSUME Undisturbed' PROVE (Me \in DOMAIN team.members /\ NewsTrue /\ MineTrue /\ Loaded /\ FetchTrue /\ LeastTrue)'
    BY DEF PageInv
  <2>1. "away" \notin mishaps' /\ ~late /\ Undisturbed
    BY <1>2 DEF Undisturbed, Leaving
  <2>2. Me \in DOMAIN team.members /\ NewsTrue /\ MineTrue /\ Loaded /\ FetchTrue /\ LeastTrue
    BY <1>1, <2>1 DEF PageInv
  <2>3. a.kind # "getBoard" /\ known'.board = known.board
    BY <1>10, <2>1
  <2>4. a.kind = "fetchMembers" => a.answer = team.members /\ a.answer # <<>> /\ a.role = team.board.minimum
    <3>. SUFFICES ASSUME a.kind = "fetchMembers"
                  PROVE  a.answer = team.members /\ a.answer # <<>> /\ a.role = team.board.minimum
      OBVIOUS
    <3>1. a.fresh
      BY <2>1
    <3>2. a.answer = team.members /\ a.role = team.board.minimum
      BY <1>2, <2>2, <3>1 DEF FetchTrue, a
    <3>. QED  BY <1>6, <2>2, <3>2
  <2>5. known'.mine = known.mine
    BY <1>1, <1>2, <2>3
  <2>6. known'.members = IF a.kind = "fetchMembers" THEN team.members ELSE known.members
    BY <1>1, <1>2, <2>3, <2>4
  <2>7. NewsTrue' /\ MineTrue'
    BY <1>2, <2>2, <2>3, <2>5, <2>6 DEF NewsTrue, MineTrue, Shows, Has
  <2>8. Loaded'
    <3>. SUFFICES ASSUME NEW v \in DOMAIN team.members, Silent(pushed, v)
                  PROVE  v \in known'.users \/ \E k \in DOMAIN underWay' : underWay'[k].kind = "getUser" /\ underWay'[k].user = v
      BY <1>2 DEF Loaded
    <3>1. v \in known.users \/ \E j \in DOMAIN underWay : underWay[j].kind = "getUser" /\ underWay[j].user = v
      BY <2>2 DEF Loaded
    <3>2. CASE a.kind = "remove"
      <4>1. v # a.user
        BY <2>1, <3>2
      <4>2. known'.users = known.users \ {a.user}
        BY <1>1, <1>2, <3>2
      <4>. QED  BY <1>5, <3>1, <3>2, <4>1, <4>2 DEF a
    <3>3. CASE a.kind = "getUser"
      <4>1. known'.users = known.users \cup {a.user}
        BY <1>1, <1>2, <3>3
      <4>. QED  BY <1>5, <3>1, <4>1 DEF a
    <3>4. CASE a.kind = "fetchMembers"
      BY <1>1, <1>2, <2>4, <3>4
    <3>5. CASE a.kind \notin {"remove", "getUser", "fetchMembers"}
      <4>1. known'.users = known.users
        BY <1>1, <1>2, <2>3, <3>5
      <4>. QED  BY <1>5, <3>1, <3>5, <4>1 DEF a
    <3>. QED  BY <3>2, <3>3, <3>4, <3>5
  <2>9. FetchTrue'
    BY <1>2, <1>5, <1>6, <1>10, <2>1, <2>2 DEF FetchTrue
  <2>10. LeastTrue'
    <3>1. CASE a.kind = "fetchMembers"
      <4>1. known'.least = [v \in People |-> team.board.minimum]
        BY <1>1, <1>2, <2>4, <3>1
      <4>. QED  BY <1>2, <4>1 DEF LeastTrue
    <3>2. CASE a.kind # "fetchMembers"
      <4>1. known'.least = known.least
        BY <1>1, <1>2, <2>3, <3>2
      <4>2. \A j \in DOMAIN underWay : underWay[j].kind = "fetchMembers" => \E k \in DOMAIN underWay' : underWay'[k].kind = "fetchMembers"
        BY <1>5, <3>2 DEF a
      <4>. QED  BY <1>2, <2>2, <4>1, <4>2 DEF LeastTrue
    <3>. QED  BY <3>1, <3>2
  <2>. QED  BY <1>2, <2>2, <2>7, <2>8, <2>9, <2>10
<1>. QED  BY <1>8, <1>9, <1>11, <1>12, <1>13, <1>14 DEF SharingInv

-----------------------------------------------------------------------------
(* The theorem *)

LEMMA SharingStart == SharingInit => SharingInv
<1>. SUFFICES ASSUME SharingInit PROVE SharingInv
  OBVIOUS
<1>1. /\ team = [members |-> FirstRoles, board |-> Rules, shared |-> NoSharing, tokens |-> 0, relinked |-> FALSE]
      /\ known = [board |-> Rules, members |-> FirstRoles, least |-> [u \in People |-> Rules.minimum], users |-> DOMAIN FirstRoles, mine |-> FirstRoles[Me]]
      /\ dialog = [sharing |-> NoSharing, options |-> {}, adding |-> Nobody, role |-> "none", person |-> Nobody]
      /\ underWay = <<>> /\ pushed = <<>> /\ mishaps = {}
  BY DEF SharingInit
<1>2. /\ FirstRoles \in Memberships /\ Rules \in Boards /\ Me \in DOMAIN FirstRoles /\ AdminsOf(FirstRoles) # {}
      /\ Rules # NoBoard /\ Me # Nobody
  BY Constants
<1>3. /\ NoSharing \in Sharings /\ DOMAIN FirstRoles \in SUBSET People /\ FirstRoles[Me] \in Roles
      /\ \A u \in DOMAIN FirstRoles : u \in DOMAIN FirstRoles
      /\ RoleIn(FirstRoles, Me) = FirstRoles[Me]
  BY <1>2, RoleHas DEF Sharings, NoSharing
<1>4. DOMAIN underWay = {} /\ DOMAIN pushed = {}
  BY <1>1
<1>5. SharingType
  <2>1. Rules.minimum \in Roles \ {"admin"}
    BY <1>2 DEF Boards
  <2>2. [u \in People |-> Rules.minimum] \in Minima
    BY <2>1 DEF Minima
  <2>. QED  BY <1>1, <1>2, <1>3, <2>2, EmptySeq DEF SharingType, Dialogs, Topics, Roles
<1>6. HasAdmin /\ NeverRefused /\ AskedRight /\ HomeInv /\ ShareInv
  BY <1>1, <1>2, <1>4 DEF HasAdmin, NeverRefused, AskedRight, HomeInv, ShareInv, OneShare, ShareTrue
<1>7. PageInv
  BY <1>1, <1>2, <1>3, <1>4 DEF PageInv, NewsTrue, LastSays, MineTrue, Loaded, FetchTrue, LeastTrue, Shows, Has
<1>. QED  BY <1>5, <1>6, <1>7 DEF SharingInv

LEMMA SharingStep == SharingInv /\ [SharingNext]_sharingVars => SharingInv'
<1>. SUFFICES ASSUME SharingInv, [SharingNext]_sharingVars PROVE SharingInv'
  OBVIOUS
<1>1. CASE UNCHANGED sharingVars
  <2>1. dialog' \in Dialogs
    BY <1>1 DEF SharingInv, SharingType, sharingVars
  <2>. QED  BY <1>1, <2>1, DialogKeeps DEF sharingVars
<1>2. ASSUME NEW u \in People,
             addUser(u) \/ onDeleteBoardMember(u) \/ onChangePerson(u)
                 \/ \E role \in DOMAIN Level : onUpdateBoardMember(u, role) \/ AnotherAdmin(u, role)
      PROVE  SharingInv'
  BY <1>2, AddKeeps, ChangeKeeps, PersonKeeps, AdminKeeps
<1>3. CASE \/ \E minimum \in {"editor", "commenter", "viewer"} : updateBoardType("open", minimum)
           \/ updateBoardType("private", "none") \/ onLinkBoard("channel") \/ onUnlinkBoard
  BY <1>3, BoardKeeps
<1>4. CASE onRegenerateToken \/ \E on \in BOOLEAN : onShareChanged(on)
  BY <1>4, ShareKeeps
<1>5. CASE loadOptions \/ addPerson \/ \E role \in DOMAIN Level : chooseRole(role)
  BY <1>5, PersonKeeps
<1>6. ASSUME NEW i \in DOMAIN underWay, ServeAsk(i) \/ Answered(i)
      PROVE  SharingInv'
  BY <1>6, ServeKeeps, AnsweredKeeps
<1>7. CASE ReceiveMember \/ ReceiveBoard
  BY <1>7, ReceiveMemberKeeps, ReceiveBoardKeeps
<1>8. CASE \/ \E new \in BoardsOf(team.board) : AnotherChanges(new)
           \/ \E new \in {[team.shared EXCEPT !.on = FALSE], [on |-> TRUE, token |-> NewToken]} : AnotherShares(new)
  BY <1>8, AnotherChangesKeeps, AnotherSharesKeeps
<1>. QED  BY <1>1, <1>2, <1>3, <1>4, <1>5, <1>6, <1>7, <1>8 DEF SharingNext

LEMMA SharingInvariant == SharingSpec => []SharingInv
<1>. QED  BY SharingStart, SharingStep, PTL DEF SharingSpec

\* Whatever I, other administrators and the server do, in whatever order answers and broadcasts
\* come: nothing that the page offers is refused unless something changed meanwhile, a page at
\* rest grants and lists what the server has, and the board keeps an administrator.
THEOREM SharingCorrect == SharingSpec => []SharingKept
<1>1. ASSUME SharingInv PROVE SharingKept
  <2>1. NeverRefused /\ HasAdmin /\ SharingType /\ ShareInv
    BY <1>1 DEF SharingInv
  <2>2. ASSUME AtRest, mishaps \subseteq {"refused", "raced"}
        PROVE  /\ \A p \in DOMAIN Level \ {"none"} : useHasPermissions(p) <=> HasPermission(team, Me, p)
               /\ known.members = team.members /\ Rows = DOMAIN team.members
               /\ known.board = team.board
               /\ \A u \in Rows : DisplayRole(u) = IF known.least[u] = "none" THEN team.members[u]
                                                   ELSE Raised(team.members[u], team.board.minimum)
               /\ currentRoleName = "none" <=> team.board.type # "open"
               /\ HasPermission(team, Me, "admin") /\ ~team.relinked => PublicLink \in {0, team.shared.token} /\ (PublicLink # 0 => team.shared.on)
    <3>1. mishaps \cap {"away", "late"} = {}
      BY <2>2
    <3>2. known.members = team.members /\ Rows = DOMAIN team.members /\ known.board = team.board
      BY <1>1, <2>2, <3>1, RestAgrees
    <3>3. \A p \in DOMAIN Level \ {"none"} : useHasPermissions(p) <=> HasPermission(team, Me, p)
      BY <1>1, <2>2, <3>1, RestGrants, Levels
    <3>4. team.board.minimum \in Roles \ {"admin"} /\ team.members \in Memberships
      BY <2>1, TypeHas DEF Boards
    <3>5. ASSUME NEW u \in Rows
          PROVE  DisplayRole(u) = IF known.least[u] = "none" THEN team.members[u]
                                  ELSE Raised(team.members[u], team.board.minimum)
      <4>1. known.members[u] = team.members[u] /\ team.members[u] \in Roles /\ u \in People
        BY <3>2, <3>4, RoleHas
      <4>2. known.least[u] \in {"none", team.board.minimum}
        BY <1>1, <2>2, <3>1, <4>1, RestAgrees
      <4>3. Raised(team.members[u], "none") = team.members[u]
        BY <4>1, Levels DEF Raised, Roles
      <4>. QED  BY <4>1, <4>2, <4>3 DEF DisplayRole
    <3>6. currentRoleName = "none" <=> team.board.type # "open"
      BY <3>2 DEF currentRoleName
    <3>7. ~team.relinked => PublicLink \in {0, team.shared.token} /\ (PublicLink # 0 => team.shared.on)
      <4>. SUFFICES ASSUME ~team.relinked
                    PROVE  PublicLink \in {0, team.shared.token} /\ (PublicLink # 0 => team.shared.on)
        OBVIOUS
      <4>1. dialog.sharing \in {NoSharing, team.shared}
        BY <2>1, <2>2 DEF AtRest, ShareInv, ShareTrue
      <4>. QED  BY <4>1 DEF PublicLink, NoSharing
    <3>. QED  BY <3>2, <3>3, <3>5, <3>6, <3>7
  <2>. QED  BY <2>1, <2>2 DEF SharingKept, Agrees
<1>. QED  BY <1>1, SharingInvariant, PTL
=============================================================================
