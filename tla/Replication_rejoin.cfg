SPECIFICATION LiveSpec
CONSTANTS
  b1 = b1
  b2 = b2
  b3 = b3
  Leader = b1
  Followers <- OneFollower
  Modes = {"quorum"}
  MayCrash <- NoBroker
  MayLosePower <- NoBroker
  Retention = FALSE
  MaxRecords = 1
  MaxBatch = 1
  MaxFaults = 1
CHECK_DEADLOCK FALSE
PROPERTY EveryoneRejoins
