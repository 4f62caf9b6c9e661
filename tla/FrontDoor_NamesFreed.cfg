SPECIFICATION Spec
CONSTANTS
    Conns = {l1, t1}
    Lan = {l1}
    Names = {n1}
    NoName = NoName
    Console = Console
INVARIANT NamesFreed
CHECK_DEADLOCK FALSE
