SPECIFICATION FairSpec
CONSTANTS
    Conns = {l1, t1}
    Lan = {l1}
    Names = {n1}
    NoName = NoName
    Console = Console
PROPERTY KickedSessionEnds
CHECK_DEADLOCK FALSE
