CONSTANTS
    VERSIONS = 2
    MaxTxID = 2
    Values = {1, 2}
    Keys = {1}
    Loaded = {1}
    InitValue = 1
    Readers = {r1}
    TxSize = 1
    MaxWrites = 1
SPECIFICATION Spec
INVARIANT SnapshotIsolation
CHECK_DEADLOCK FALSE
