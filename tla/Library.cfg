SPECIFICATION LibrarySpec
CONSTANTS
  MaxMembers = 4
  Universe <- TwoTopics
  RingCapacity = 2
  RingPushes = 7
  BqProducers = {q1, q2}
  BqConsumers = {r1, r2}
  BqCapacity = 2
  BqBatch = 2
  BqPushes = 4
  Recorders = {h1, h2}
  HistValues <- Edges
  HistWeights = {1, 16}
  MaxTrackable = 100
  Digits = 1
  HistCalls = 3
  FirstSize = 2
  ReadChunk = 1
  DefaultCapacity = 2
  MaxRetained = 4
  MaxPooled = 2
  LargestWrite = 3
  MostBytes = 5
  TextLengths = {0, 3}
  ItemCounts = {0, 1, 2}
  IdCounts = {0, 1}
  TailSizes = {0, 5}
CHECK_DEADLOCK FALSE
INVARIANTS SharedFairly LoopsAgree WakeupsReach  BufferKeepsBytes 
PROPERTY RingInOrder
