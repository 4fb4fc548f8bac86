CONSTANTS
    VERSIONS = 2
    MaxTxID = 3
    Values = {1, 2}
    Keys = {1, 2}
    Loaded = {1}
    InitValue = 1
    Readers = {r1}
    TxSize = 2
    MaxWrites = 2
SPECIFICATION FairSpec
INVARIANTS LastSnapshotComplete
PROPERTIES ImplementsTxStore CommitsInsertedValue OnlyBlockedReadersStopCommit
CHECK_DEADLOCK FALSE
