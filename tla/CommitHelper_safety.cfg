SPECIFICATION Spec
CONSTANTS
    Users = {alice, bob, carol}
    NoUser = NoUser
    Commits = {k1, k2}
SYMMETRY HelperSymmetry
INVARIANTS
    TypeOK
    LearnedIsOwn
PROPERTIES
    PositionsKept
    PreparedMessage
CONSTRAINT OneKindOfDisturbance
CHECK_DEADLOCK FALSE
