CONSTANTS
    Keys = {1, 2}
    Values = {2}
    InitValue = 1
    Replaces = FALSE
    Readers = {r1, r2}
    TxSize = 2
    MaxTx = 1
    MaxWrites = 2
SPECIFICATION FairSpec
INVARIANTS LocksExclude ReadsAtomic
PROPERTIES WriterGetsLock
CHECK_DEADLOCK FALSE
