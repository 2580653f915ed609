SPECIFICATION Spec
CONSTANTS
    Events <- ShortEvents
    Lengths = {0, 3}
INVARIANT HandedOutAsWritten
CHECK_DEADLOCK FALSE
