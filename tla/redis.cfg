SPECIFICATION FairSpec
CONSTANTS
    p1 = p1
    p2 = p2
    NoPos = nopos
    Positions <- MCPositions
    NeedsPassword = TRUE
    Tries = 3
INVARIANT TypeOK
INVARIANT LeftoverServesOneTry
PROPERTY ImplementsStore
PROPERTY Returns
CHECK_DEADLOCK FALSE
