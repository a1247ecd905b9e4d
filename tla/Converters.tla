----------------------------- MODULE Converters -----------------------------
(***************************************************************************)
(* What the importers make of the files of other programs: src/import and  *)
(* webapp/src/import.  A text is a value, "" is none; an id is made of     *)
(* what it stands for, as createGuid never gives an id twice.              *)
(***************************************************************************)
EXTENDS Integers, Sequences, SequencesExt, FiniteSets, TLC

Nothing == ""
NoOption == <<>>
Empty == [x \in {} |-> x]

-----------------------------------------------------------------------------
\* Boards and blocks
Option(property, key, value) == [id |-> <<property, key>>, value |-> value]
Property(name, type, options) == [id |-> name, type |-> type, options |-> options]
Block(type, id, parent, title) ==
    [type |-> type, id |-> <<type, id>>, parentId |-> parent, title |-> title,
     properties |-> Empty, contentOrder |-> <<>>, createdBy |-> Nothing]
BoardId(title) == <<"board", title>>
ImportedBoard(title, cardProperties) == [id |-> BoardId(title), title |-> title, cardProperties |-> cardProperties]
createBoardView(board) == Block("view", board, board, "Board View")
outCard(board, key, title, properties) ==
    [Block("card", key, board, title) EXCEPT !.properties = properties]
Texts(card, text) == IF text = Nothing THEN <<>> ELSE <<Block("text", card.id, card.id, text)>>
WithContents(card, contents) == [card EXCEPT !.contentOrder = [i \in DOMAIN contents |-> contents[i].id]]
Output(boards, blocks) == [boards |-> boards, blocks |-> blocks]
NoOutput == Output(<<>>, <<>>)

\* The values of a card that are set: <<property, value>> pairs, those without a value dropped.
Given(given) == [k \in {p[1] : p \in given} |-> (CHOOSE p \in given : p[1] = k)[2]]
Options(pairs) == Given({p \in ToSet(pairs) : p[2] # NoOption})
Values(pairs) == Given({p \in ToSet(pairs) : p[2] # Nothing})

\* Map.get of an option by the key of what it was made of
OptionFor(property, key) ==
    IF \E o \in ToSet(property.options) : o.id = <<property.id, key>> THEN <<property.id, key>> ELSE NoOption
Distinct(seq) == FoldLeft(LAMBDA s, x : IF x \in ToSet(s) THEN s ELSE Append(s, x), <<>>, seq)

-----------------------------------------------------------------------------
\* import/asana: tasks with projects and memberships <<project, section>>
getProjects(tasks) == Distinct(FlattenSeq([i \in DOMAIN tasks |-> tasks[i].projects]))
Membership(task, project) ==
    LET i == SelectInSeq(task.memberships, LAMBDA m : m[1] = project)
    IN  IF i = 0 THEN Nothing ELSE task.memberships[i][2]
getSections(tasks, project) ==
    SelectSeq(Distinct([i \in DOMAIN tasks |-> Membership(tasks[i], project)]), LAMBDA s : s # Nothing)

\* Only the first project is made a board, and the cards of all of them are put into it.
convertAsana(tasks) ==
    LET project == getProjects(tasks)[1]
        sections == getSections(tasks, project)
        section == Property("Section", "select", [i \in DOMAIN sections |-> Option("Section", sections[i], sections[i])])
        board == ImportedBoard(project, <<section>>)
        Blocks(i) ==
            LET card == outCard(board.id, i, tasks[i].name,
                                Options(<<<<"Section", OptionFor(section, Membership(tasks[i], project))>>>>))
                texts == Texts(card, tasks[i].notes)
            IN  <<WithContents(card, texts)>> \o texts
    IN  IF getProjects(tasks) = <<>> THEN NoOutput
        ELSE Output(<<board>>, <<createBoardView(board.id)>> \o FlattenSeq([i \in DOMAIN tasks |-> Blocks(i)]))

-----------------------------------------------------------------------------
\* import/todoist: one board for each project but the inbox.  The section for cards that
\* have none is kept from one project to the next, and undefined at first.
defaultSections == <<[id |-> "default", name |-> "No Status"], [id |-> "next", name |-> "Next Up"]>>
getProjectColumns(input, project, noStatus) ==
    LET sections == <<[id |-> noStatus, name |-> "No Section"]>>
                    \o SelectSeq(input.sections, LAMBDA s : s.project = project)
    IN  IF Len(sections) > 1 THEN sections ELSE defaultSections
noStatusSectionID(columns, before) ==
    FoldLeft(LAMBDA id, c : IF c.name = "No Status" THEN c.id ELSE id, before, columns)
getCardDescription(input, item) ==
    LET notes == SelectSeq(input.notes, LAMBDA n : n.item = item.id)
    IN  IF notes = <<>> THEN Nothing ELSE notes[1].content

convertProject(input, project, before) ==
    LET columns == getProjectColumns(input, project, before)
        noStatus == noStatusSectionID(columns, before)
        list == Property("List", "select", [i \in DOMAIN columns |-> Option("List", columns[i].id, columns[i].name)])
        board == ImportedBoard(project, <<list>>)
        items == SelectSeq(input.items, LAMBDA c : c.project = project)
        Section(item) == IF item.section = Nothing THEN noStatus ELSE item.section
        Blocks(item) ==
            LET card == outCard(board.id, item.id, item.content, Options(<<<<"List", OptionFor(list, Section(item))>>>>))
                texts == <<Block("text", card.id, card.id, getCardDescription(input, item))>>
            IN  <<WithContents(card, texts)>> \o texts
    IN  [noStatus |-> noStatus,
         output |-> Output(<<board>>, <<createBoardView(board.id)>> \o FlattenSeq([i \in DOMAIN items |-> Blocks(items[i])]))]
convertTodoist(input) ==
    FoldLeft(LAMBDA all, project :
        IF project = "Inbox" THEN all
        ELSE LET one == convertProject(input, project, all.noStatus)
             IN  [noStatus |-> one.noStatus,
                  output |-> Output(all.output.boards \o one.output.boards, all.output.blocks \o one.output.blocks)],
        [noStatus |-> "undefined", output |-> NoOutput], input.projects).output

-----------------------------------------------------------------------------
\* import/nextcloud-deck: stacks of cards with labels, a due date and comments.  The
\* comments of a card are fetched when it says that it has some.
convertDeck(input) ==
    LET stack == Property("List", "select", [i \in DOMAIN input.stacks |->
                     Option("List", input.stacks[i].id, input.stacks[i].title)])
        label == Property("Label", "multiSelect", [i \in DOMAIN input.labels |-> Option("Label", input.labels[i], input.labels[i])])
        board == ImportedBoard(input.title, <<stack, label, Property("Due Date", "date", <<>>)>>)
        Labels(card) == SelectSeq([i \in DOMAIN card.labels |-> OptionFor(label, card.labels[i])], LAMBDA o : o # NoOption)
        Blocks(card) ==
            LET out == outCard(board.id, card.id, card.title,
                           Options(<<<<"List", OptionFor(stack, card.stackId)>>>>) @@ ("Label" :> Labels(card))
                           @@ Values(<<<<"Due Date", card.duedate>>>>))
                texts == Texts(out, card.description)
                Comment(i) == Block("comment", <<card.id, i>>, out.id, card.comments[i])
            IN  <<WithContents(out, texts)>> \o texts \o [i \in DOMAIN card.comments |-> Comment(i)]
        cards == FlattenSeq([i \in DOMAIN input.stacks |-> input.stacks[i].cards])
    IN  Output(<<board>>, <<createBoardView(board.id)>> \o FlattenSeq([i \in DOMAIN cards |-> Blocks(cards[i])]))

-----------------------------------------------------------------------------
\* Mutant: the duplicates stay.
buildCardPropertyWithDuplicates(name, values) ==
    LET given == SelectSeq(values, LAMBDA v : v # Nothing)
    IN  Property(name, "select", [k \in DOMAIN given |-> Option(name, given[k], given[k])])

\* import/jira: items with the values of some fields.  A value stays when its place among
\* the values that are not empty is the place where it is first found among all.
buildCardPropertyFromValues(name, values) ==
    LET given == SelectSeq(values, LAMBDA v : v # Nothing)
        kept == {i \in DOMAIN given : SelectInSeq(values, LAMBDA v : v = given[i]) = i}
        places == SelectSeq([i \in DOMAIN given |-> i], LAMBDA i : i \in kept)
    IN  Property(name, "select", [k \in DOMAIN places |-> Option(name, given[places[k]], given[places[k]])])

convertJira(items, fields) ==
    LET properties == [k \in DOMAIN fields |->
            buildCardPropertyFromValues(fields[k], [i \in DOMAIN items |-> items[i].fields[fields[k]]])]
        board == ImportedBoard("Jira import", properties \o <<Property("Original URL", "url", <<>>),
                                                              Property("Created Date", "date", <<>>)>>)
        Blocks(i) ==
            LET item == items[i]
                values == Options([k \in DOMAIN fields |-> <<fields[k], OptionFor(properties[k], item.fields[fields[k]])>>])
                          @@ Values(<<<<"Original URL", item.link>>, <<"Created Date", item.created>>>>)
                card == outCard(board.id, i, item.summary, values)
                texts == Texts(card, item.description)
            IN  texts \o <<WithContents(card, texts)>>
    IN  Output(<<board>>, <<createBoardView(board.id)>> \o FlattenSeq([i \in DOMAIN items |-> Blocks(i)]))

-----------------------------------------------------------------------------
\* import/notion: rows of a table, the first column is the title; the notes of a card are
\* in the first file that has its title.
convertNotion(title, columns, rows, markdown) ==
    LET ValuesIn(column) == SelectSeq(Distinct([i \in DOMAIN rows |-> rows[i].values[column]]), LAMBDA v : v # Nothing)
        properties == [k \in DOMAIN columns |-> Property(columns[k], "select",
            [i \in DOMAIN ValuesIn(columns[k]) |-> Option(columns[k], ValuesIn(columns[k])[i], ValuesIn(columns[k])[i])])]
        board == ImportedBoard(title, properties)
        Blocks(i) ==
            LET values == Options([k \in DOMAIN columns |->
                              <<columns[k], OptionFor(properties[k], rows[i].values[columns[k]])>>])
                card == outCard(board.id, i, rows[i].title, values)
                texts == Texts(card, IF rows[i].title \in DOMAIN markdown THEN markdown[rows[i].title] ELSE Nothing)
            IN  <<WithContents(card, texts)>> \o texts
    IN  Output(<<board>>, <<createBoardView(board.id)>> \o FlattenSeq([i \in DOMAIN rows |-> Blocks(i)]))

-----------------------------------------------------------------------------
\* Trello.  The columns are the lists that are not closed.
ListProperty(name, lists) ==
    LET there == SelectSeq(lists, LAMBDA l : ~l.closed)
    IN  Property(name, "select", [i \in DOMAIN there |-> Option(name, there[i].id, there[i].name)])
Checklists(input, card, parent) ==
    LET Items(id) ==
            LET i == SelectInSeq(input.checklists, LAMBDA l : l.id = id)
            IN  IF i = 0 THEN <<>> ELSE input.checklists[i].checkItems
    IN  FlattenSeq([k \in DOMAIN card.idChecklists |->
            [j \in DOMAIN Items(card.idChecklists[k]) |->
                Block("checkbox", <<card.id, k, j>>, parent, Items(card.idChecklists[k])[j])]])
OpenCards(input) == SelectSeq(input.cards, LAMBDA c : ~c.closed)
TrelloContents(input, card, out) == Texts(out, card.desc) \o Checklists(input, card, out.id)

\* import/trello: a card whose list is closed is imported without a column.
convertTrelloFile(input) ==
    LET list == ListProperty("List", input.lists)
        board == ImportedBoard(input.name, <<list>>)
        Blocks(card) ==
            LET out == outCard(board.id, card.id, card.name, Options(<<<<"List", OptionFor(list, card.idList)>>>>))
                contents == TrelloContents(input, card, out)
            IN  <<WithContents(out, contents)>> \o contents
    IN  Output(<<board>>, <<createBoardView(board.id)>>
                          \o FlattenSeq([i \in DOMAIN OpenCards(input) |-> Blocks(OpenCards(input)[i])]))

\* webapp/src/import: with labels, members, a due date, own fields, comments, and who made
\* a card; a card whose list is closed is not imported, though its comments are.
TrelloProperties(input) ==
    <<ListProperty("Column", input.lists),
      Property("Label", "multiSelect", [i \in DOMAIN input.labels |-> Option("Label", input.labels[i].id, input.labels[i].name)]),
      Property("Member", "multiPerson", <<>>), Property("Deadline", "date", <<>>)>>
    \o [i \in DOMAIN input.customFields |-> Property(input.customFields[i], "text", <<>>)]
    \o <<Property("Created at", "createdTime", <<>>), Property("Creator", "createdBy", <<>>),
         Property("Trello URL", "url", <<>>)>>
MemberId(memberIds, member) == IF member \in DOMAIN memberIds THEN memberIds[member] ELSE Nothing
Listed(property, values) == IF values = <<>> THEN Empty ELSE property :> values
TrelloValues(input, card, properties, memberIds) ==
    LET labels == SelectSeq([i \in DOMAIN card.labels |-> OptionFor(properties[2], card.labels[i])], LAMBDA o : o # NoOption)
        members == SelectSeq([i \in DOMAIN card.idMembers |-> MemberId(memberIds, card.idMembers[i])], LAMBDA m : m # Nothing)
        fields == SelectSeq(card.customFieldItems, LAMBDA f : f[1] \in ToSet(input.customFields))
    IN  Listed("Label", labels) @@ Listed("Member", members)
        @@ Options(<<<<"Column", OptionFor(properties[1], card.idList)>>>>)
        @@ Values(<<<<"Deadline", card.due>>, <<"Trello URL", card.shortUrl>>>>) @@ Given(ToSet(fields))
CreatorOf(input, card, memberIds) ==
    LET made == SelectSeq(input.actions, LAMBDA a : a.type = "createCard" /\ a.card = card.id)
    IN  IF made = <<>> THEN Nothing ELSE MemberId(memberIds, made[Len(made)].idMemberCreator)
TrelloComments(input, memberIds) ==
    LET there == SelectSeq(input.actions, LAMBDA a : /\ a.type = "commentCard" /\ a.text # Nothing
                                                     /\ \E c \in ToSet(OpenCards(input)) : c.id = a.card
                                                     /\ MemberId(memberIds, a.idMemberCreator) # Nothing)
    IN  [i \in DOMAIN there |-> [Block("comment", i, <<"card", there[i].card>>, there[i].text)
                                 EXCEPT !.createdBy = MemberId(memberIds, there[i].idMemberCreator)]]
convertTrello(input, memberIds) ==
    LET properties == TrelloProperties(input)
        board == ImportedBoard(input.name, properties)
        cards == SelectSeq(OpenCards(input), LAMBDA c : OptionFor(properties[1], c.idList) # NoOption)
        Blocks(card) ==
            LET out == [outCard(board.id, card.id, card.name, TrelloValues(input, card, properties, memberIds))
                        EXCEPT !.createdBy = CreatorOf(input, card, memberIds)]
                contents == TrelloContents(input, card, out)
            IN  <<WithContents(out, contents)>> \o contents
    IN  Output(<<board>>, <<createBoardView(board.id)>> \o FlattenSeq([i \in DOMAIN cards |-> Blocks(cards[i])])
                          \o TrelloComments(input, memberIds))

-----------------------------------------------------------------------------
\* ArchiveUtils: the lines of an archive after its header
buildBlockArchive(output) ==
    [i \in DOMAIN output.boards |-> [type |-> "board", data |-> output.boards[i]]]
    \o [i \in DOMAIN output.blocks |-> [type |-> "block", data |-> output.blocks[i]]]
LinesOf(archive, type) ==
    LET lines == SelectSeq(archive, LAMBDA l : l.type = type) IN [i \in DOMAIN lines |-> lines[i].data]
parseBlockArchive(archive) == LinesOf(archive, "block")
=============================================================================
