CONSTANTS
  JoinKinds = {"none", "SHJoin", "ScaleJoin"}
  LeftElements <- MCLeft
  RightElements <- MCRight
  Threads = 2
  KeyWidth = 3
  IntWidth = 2
  MaxFeed = 5
  TuplifierModes = {"none", "ORDERED", "WINDOW", "COMPLETED"}
  Triples <- MCTriples
  Predicates = {"p1", "p2"}
  MaxTriples = 4
  NoSubject = NoSubject
  Chains <- MCChains
  Sinks = {"ConsoleWriter", "FileWriter", "ZMQSink"}
  Values = {0, 1, 2}
  BatchSize = 2
  MaxElements = 4
  Files <- MCFiles
  NumAttributes = 3
  maxTuples = 3
  Null = Null
  BarrierPlans <- MCBarrierPlans
  MaxCounter = 3
  MaxSets = 3
  MatrixKinds = {"none", "dense", "sparse", "replica"}
  Cells <- MCCells
  Sources <- MCSources
  numParts = 2
  CellValues = {0, 1}
  Writers = {w1, w2}
  MaxWrites = 3
SPECIFICATION FairSpec
INVARIANTS JoinsExact OperatorsExact
PROPERTIES WaitersReleased
CHECK_DEADLOCK FALSE
