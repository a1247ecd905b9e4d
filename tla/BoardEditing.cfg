CONSTANTS
    Command = {}
    Group = {0, 1, 2, 3}
    NoGroup = 0
    Start <- StartBoards
    Pool <- FreshIds
    Busy = {"haste"}
    MaxSteps = 2
    MaxOthers = 1
    MaxFaults = 1
    Title = {"x"}
    Person = {"u", "w"}
SPECIFICATION Spec
INVARIANTS
    TypeOK
    NoHalfGroup
    UndoRestores
    ValuesFitType
    ColumnsApart
PROPERTIES
    PrimitivesKept
    UndoesWholeGroups
CHECK_DEADLOCK FALSE
