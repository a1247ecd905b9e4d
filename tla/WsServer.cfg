CONSTANTS
    card = card
    text = text
    Session = {s1, s2}
    User = {u1, u2}
    Team = {team}
    Block = {card, text}
    BoardTeam = team
    Parent <- MCParent
    NoUser = NoUser
    NoBlock = NoBlock
    Free = Free
SYMMETRY Symmetry
SPECIFICATION Spec
CONSTRAINT Few
CHECK_DEADLOCK FALSE
INVARIANTS
    MapsAgree
    MeantForThem
PROPERTIES
    StayersServed
