SPECIFICATION Spec
CONSTANTS
    Users = {alice, bob}
    NoUser = NoUser
    Commits = {k1}
INVARIANT PrepareAndRecordAgree
CHECK_DEADLOCK FALSE
