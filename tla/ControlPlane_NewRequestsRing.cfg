SPECIFICATION Spec
CONSTANTS
    Guests = {g1, g2}
    NoName = NoName
PROPERTY NewRequestsRing
CHECK_DEADLOCK FALSE
