SPECIFICATION FairSpec
CONSTANTS
    t1 = t1
    t2 = t2
    NoTable = none
    Tids <- MCTids
    Tables <- MCTables
    TableOf <- MCTableOf
    Matched <- MCMatched
    Txns <- OneTable
    Crcs = {TRUE}
    GeneratedCrc = TRUE
    Faults = {"tcp"}
    RetryLimit = 3
    MaxFiles = 1
    MaxLen = 3
    MaxCuts = 1
PROPERTY Settles
CHECK_DEADLOCK FALSE
