SPECIFICATION Spec
CONSTANTS
    p1 = p1
    p2 = p2
    NoPos = nopos
    Positions <- MCPositions
    NeedsPassword = TRUE
    Tries = 3
INVARIANT ZeroMeansExecuted
CHECK_DEADLOCK FALSE
