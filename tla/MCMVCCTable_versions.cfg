CONSTANTS
    VERSIONS = 2
    MaxTxID = 4
    Values = {1, 2}
    Keys = {1}
    Loaded = {1}
    InitValue = 1
    Readers = {r1, r2}
    TxSize = 1
    MaxWrites = 2
SYMMETRY Symm
SPECIFICATION Spec
INVARIANTS TypeOK VersionsWellFormed VisibleVersionsRight OnlyFirstReadStale
PROPERTIES TimestampsAdvance
CHECK_DEADLOCK FALSE
