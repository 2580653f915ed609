SPECIFICATION Spec
CONSTANTS
    t1 = t1
    t2 = t2
    NoTable = none
    Tids <- MCTids
    Tables <- MCTables
    TableOf <- MCTableOf
    Matched <- MCMatched
    Txns <- LongTransaction
    Crcs = {TRUE, FALSE}
    GeneratedCrc = TRUE
    Faults = {"eof", "crash", "purge", "connect", "hangup"}
    RetryLimit = 1
    MaxFiles = 2
    MaxLen = 4
    MaxCuts = 2
INVARIANT TypeOK
INVARIANT NothingLost
INVARIANT CrcAgreement
INVARIANT MetaAgreement
INVARIANT SavedServable
PROPERTY DeliversForward
PROPERTY SavedMonotone
PROPERTY OrphanOnlyMidStatement
CHECK_DEADLOCK FALSE
