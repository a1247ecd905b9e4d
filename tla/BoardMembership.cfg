CONSTANTS
    User = {u1, u2, u3}
    Creator = u1
    Process = {p1, p2}
SYMMETRY Symmetry
SPECIFICATION Spec
INVARIANTS
    TypeOK
    AdminRemains
    HistoryAgrees
