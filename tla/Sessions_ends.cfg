SPECIFICATION FairSessionsSpec
CONSTANTS
    MayWedge = {"control"}
    Conns = {c1}
    Nobody = Nobody
INVARIANTS
    TypeOK
    SessionsTypeOK
    NothingLeftBehind
    RunsOverItsDependencies
    BridgedWithWholeTarget
PROPERTIES
    CancelLeadsToExit
    BridgeEndsWithConnection
    BridgeEndsWithSandbox
    HelpersEndWithRun
    InputIsTaken
    OwnerLeavingEndsProcess
CHECK_DEADLOCK FALSE
