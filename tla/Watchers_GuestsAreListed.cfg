SPECIFICATION FairSpec
CONSTANTS
    Conns = {g1}
    Names = {n1}
    NoName = NoName
    Console = Console
    WritesMayFail = FALSE
PROPERTIES
    GuestsAreListed
CHECK_DEADLOCK FALSE
