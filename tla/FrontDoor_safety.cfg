SPECIFICATION Spec
CONSTANTS
    Conns = {l1, l2, t1}
    Lan = {l1, l2}
    Names = {n1, n2}
    NoName = NoName
    Console = Console
VIEW SafetyView
SYMMETRY ConnSymmetry
INVARIANTS
    TypeOK
    UniqueUsernames
    ResolveNeverBlocks
    NoOrphanRequest
    ActiveMeansServed
    OwnerSlot
    OwnerGoneMeansEnding
CHECK_DEADLOCK FALSE
PROPERTY ImplementsAdmission
