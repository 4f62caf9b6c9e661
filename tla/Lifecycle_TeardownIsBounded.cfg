SPECIFICATION FairSpec
CONSTANT MayWedge = {"control", "tunnel"}
PROPERTY TeardownIsBounded
CHECK_DEADLOCK FALSE
