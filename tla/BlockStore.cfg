CONSTANTS
    bd = bd
    card1 = card1
    card2 = card2
    text = text
    Board <- MCBoard
    Block <- MCBlock
    BoardOf <- MCBoardOf
    Parents <- MCParents
    Title = {t1, t2}
    Channel = {NoChannel, town}
    Process = {p1}
    NoParent = NoParent
    NoChannel = NoChannel
    Absent = Absent
    Keep = Keep
SPECIFICATION Spec
INVARIANTS
    TablesAgree
    BlockHasBoard
PROPERTIES
    UndeleteRestores
