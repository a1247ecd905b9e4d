CONSTANTS
    card = card
    text = text
    Session = {s1, s2}
    User = {u1}
    Team = {team}
    Block = {}
    BoardTeam = team
    Parent <- MCParent
    NoUser = NoUser
    NoBlock = NoBlock
    Free = Free
SPECIFICATION Spec
CHECK_DEADLOCK FALSE
PROPERTIES
    BroadcastEnds
    DeadSessionsLeave
