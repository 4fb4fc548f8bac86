CONSTANTS
    Keys = {1, 2}
    Values = {2}
    Loaded = {1}
    InitValue = 1
    Replaces = TRUE
    Readers = {r1}
    TxSize = 1
    NumSlots = 4
    MaxTS = 15
    MaxWrites = 1
    MaxAborts = 1
SPECIFICATION Spec
INVARIANTS ReadsSerializable WriteSetsKept
CHECK_DEADLOCK FALSE
