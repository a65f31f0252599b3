SPECIFICATION Spec
CONSTANTS
  b1 = b1
  b2 = b2
  b3 = b3
  Leader = b1
  Followers <- TwoFollowers
  Modes = {"quorum"}
  MayCrash <- NoBroker
  MayLosePower <- TwoFollowers
  Retention = FALSE
  MaxRecords = 1
  MaxBatch = 1
  MaxFaults = 2
CHECK_DEADLOCK FALSE
SYMMETRY Symmetric
INVARIANTS
  QuorumAckDurable
PROPERTY KeepsPromise
