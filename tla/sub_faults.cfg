SPECIFICATION Spec
CONSTANTS
    t1 = t1
    t2 = t2
    NoTable = none
    Tids <- MCTids
    Tables <- MCTables
    TableOf <- MCTableOf
    Matched <- MCMatched
    Txns <- LongStatement
    Crcs = {TRUE, FALSE}
    GeneratedCrc = TRUE
    Faults = {"eof", "tcp", "redis", "query", "send", "crash"}
    RetryLimit = 1
    MaxFiles = 2
    MaxLen = 4
    MaxCuts = 1
INVARIANT NothingLost
INVARIANT CrcAgreement
INVARIANT MetaAgreement
INVARIANT SavedServable
PROPERTY OrphanOnlyMidStatement
CHECK_DEADLOCK FALSE
