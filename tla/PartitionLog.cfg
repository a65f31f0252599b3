SPECIFICATION Spec
CONSTANTS
  SizeOf <- MixedSizes
  TimeOf <- MixedTimes
  SegmentBytes = 3
  Preallocate = TRUE
  IndexInterval = 2
  RecoveryChunk = 2
  MaxIds = 3
  MaxBatch = 2
  MaxFaults = 2
  FetchFaults = 1
  MayFail = {"write", "index", "sync", "disk"}
  MayKill = TRUE
  MayLosePower = TRUE
  MayAge = FALSE
  RetentionBytes = 2
  RetentionMs = 1
  Clock = {4}
  Fetches <- ConsumerAndFollower
CHECK_DEADLOCK FALSE
INVARIANTS  FlushSound ReadsSound 
