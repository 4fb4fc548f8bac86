CONSTANTS
    Partitions = {p1, p2}
    Ids = {p1, p2, p3}
    Sink = sink
    PTypes = {"WindowExpired"}
    MaxItems = 2
    MaxSpurious = 1
SPECIFICATION FairSpec
CHECK_DEADLOCK FALSE
INVARIANTS TypeOK MergedInOrder NoCallIntoDestroyed
PROPERTIES AllDelivered OnlySleepersOutliveStop
