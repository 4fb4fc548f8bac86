CONSTANTS
  Syms = {"a", "b", "c"}
  Vals <- MCVals
  Patterns <- MCPatterns
  Engines = {"First", "Next"}
  NumOfLoop = 2
  NoState = NoState
  Jobs = {j1, j2, j3}
  Workers = {w1, w2}
  MaxEvents = 6
SPECIFICATION FairSpec
INVARIANTS MatchesExact
PROPERTIES PoolEnds
CHECK_DEADLOCK FALSE
