SPECIFICATION FairSpec
CONSTANTS
  b1 = b1
  b2 = b2
  b3 = b3
  Leader = b1
  Followers <- TwoFollowers
  Modes = {"quorum"}
  MayCrash <- Everyone
  MayLosePower <- NoBroker
  Retention = FALSE
  MaxRecords = 1
  MaxBatch = 1
  MaxFaults = 1
CHECK_DEADLOCK FALSE
PROPERTIES
  WaitersAnswered
  Converges
  DeadFollowerEvicted
