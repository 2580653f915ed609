SPECIFICATION FairSpec
CONSTANTS
    Events <- MCEvents
    Lengths = {0, 3}
INVARIANT TypeOK
INVARIANT HeadsRead
INVARIANT HandedOutAsWritten
INVARIANT WholeBodyRead
INVARIANT HandOutIsSafe
INVARIANT TextsTell
PROPERTY Ends
CHECK_DEADLOCK FALSE
