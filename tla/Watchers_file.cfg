SPECIFICATION FairSpec
CONSTANTS
    Conns = {g1, g2}
    Names = {n1, n2}
    NoName = NoName
    Console = Console
    WritesMayFail = TRUE
INVARIANTS
    TypeOK
    StaleFileMeansWakeUp
    NoWriteAfterRemoval
PROPERTY WriterKeepsUp
CHECK_DEADLOCK FALSE
