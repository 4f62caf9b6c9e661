SPECIFICATION FairSpec
CONSTANTS
    Guests = {g1, g2}
    NoName = NoName
INVARIANTS
    TypeOK
    CursorOnRow
    RowsAreDistinct
    OneWait
PROPERTIES
    BellTellsOfNewRequests
    KeysDecideWhatIsShown
    RequestsAreShown
    QuitEndsSession
CHECK_DEADLOCK FALSE
