CONSTANTS
  SlotIDRange = 64
  NumPartitions = {2}
  Extractors = {{"key", "ts", "tx"}}
  Types = {"string", "tuple", "buf", "batch"}
  MaxOps = 12
  MaxCalls = 5
  Programs <- MCPrograms
  Streams = {s1}
  MaxMessages = 2
  MaxStarts = 2
  MaxErrors = 1
  MaxCrashes = 1
SPECIFICATION FairSpec
CHECK_DEADLOCK FALSE
INVARIANTS NetworkSound LifeInOrder SourcesAccounted
PROPERTIES WaitReturns
