SPECIFICATION Spec
CONSTANTS
    t1 = t1
    t2 = t2
    NoTable = none
    Tids <- MCTids
    Tables <- MCTables
    TableOf <- MCTableOf
    Matched <- MCMatched
    Txns <- LongStatement
    Crcs = {TRUE}
    GeneratedCrc = TRUE
    Faults = {"eof"}
    RetryLimit = 3
    MaxFiles = 1
    MaxLen = 4
    MaxCuts = 1
INVARIANT NoOrphans
CHECK_DEADLOCK FALSE
