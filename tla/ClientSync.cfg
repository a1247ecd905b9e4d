SPECIFICATION Spec
CONSTANTS
  Block <- MCBlock
  Board = {"a", "b"}
  Team = {"t", "u"}
  KindOf <- MCKind
  ParentOf <- MCParent
  BoardOf <- MCBoardOf
  TeamOf <- MCTeamOf
  First = {"card"}
  NoTeam = "none"
  MaxRetries = 1
  MaxEdits = 2
  MaxLoads = 2
  MaxFrames = 2
INVARIANTS
  CaughtUp
  ListensToItsTeam
PROPERTIES
  OutageIsReported
CHECK_DEADLOCK FALSE
