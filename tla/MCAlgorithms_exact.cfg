SPECIFICATION Spec
CONSTANTS
  Dim = 3
  Weights = {1, 3}
  Undefined = Undefined
  Objects = {o1, o2}
  Pointers = {p1, p2, p3}
  Null = Null
  Ints <- MCInts
  Strings <- MCStrings
  ShortMax = 1
  Garbage <- MCGarbage
  Values = {1, 2, 4, 8, 16}
  Items = {1, 2, 3}
  MaxLen = 4
  End = End
  CodecInputs <- MCCodecInputs
  TextInputs <- MCTextInputs
  Vehicles = {1, 2}
  Places <- MCPlaces
  SpeedAt <- MCSpeedAt
  slidingWindowSize = 210
  TollCars = 0
  LastTime = 210
  MaxMoves = 2
  MetadataTriples <- MCMetadataTriples
  Properties <- MCProperties
  Offered <- MCOffered
  EmptyLiteral = EmptyLiteral
  OutOfBounds <- MCOutOfBounds
  trans_num = 2
  trans_prob <- MCTransProb
  max_cluster_iterations = 10
  windowSize = 5
  threadAmount = 2
  MaxGroups = 5
INVARIANTS HandlesCounted AlgorithmsExact UseCasesExact
PROPERTIES GraphsKept
CHECK_DEADLOCK FALSE
