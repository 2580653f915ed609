SPECIFICATION Spec
CONSTANTS
    t1 = t1
    t2 = t2
    NoTable = none
    Tids <- MCTids
    Tables <- MCTables
    TableOf <- MCTableOf
    Matched <- MCMatched
    Txns <- OneTable
    Crcs = {TRUE}
    GeneratedCrc = TRUE
    Faults = {"eof"}
    RetryLimit = 3
    MaxFiles = 1
    MaxLen = 3
    MaxCuts = 5
PROPERTY ReconnectResumes
CHECK_DEADLOCK FALSE
