SPECIFICATION Spec
CONSTANTS
  b1 = b1
  b2 = b2
  b3 = b3
  Leader = b1
  Followers <- OneFollower
  Modes = {"leader", "quorum"}
  MayCrash <- OneFollowerBrokers
  MayLosePower <- NoBroker
  Retention = TRUE
  MaxRecords = 2
  MaxBatch = 2
  MaxFaults = 2
CHECK_DEADLOCK FALSE
INVARIANTS
  ReplicasAgree
  CreditIsEarned
  AckedNotLost
PROPERTIES
  HwmAdvanceReplicated
