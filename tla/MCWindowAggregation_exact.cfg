CONSTANTS
    UIntRange = 16
    Undefined = Undefined
    Configs <- MCConfigs
    Values = {1, 2}
    MaxTime = 2
    WinSize = 2
    Interval = 2
    MaxTuples = 4
    MaxForwarded = 1
SPECIFICATION FairSpec
CHECK_DEADLOCK FALSE
INVARIANTS WindowExact AggregationsExact
PROPERTIES EvictionHappens UndefinedOnlyWhenEmpty
