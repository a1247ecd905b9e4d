CONSTANTS
    bd = bd
    card1 = card1
    card2 = card2
    text = text
    Board <- MCBoard
    Block <- MCBlock
    BoardOf <- MCBoardOf
    Parents <- MCParents
    Title = {t1}
    Channel = {NoChannel}
    Process = {p1, p2}
    NoParent = NoParent
    NoChannel = NoChannel
    Absent = Absent
    Keep = Keep
SPECIFICATION Spec
INVARIANTS
    DeletedCanBeUndeleted
