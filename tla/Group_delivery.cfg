SPECIFICATION Spec
CONSTANTS
  c1 = c1
  c2 = c2
  Clients <- TwoClients
  Partitions <- OnePartition
  TopicsAtStart <- NoTopic
  Strategy = "range"
  StartFromEarliest = TRUE
  SyncOnCommit = TRUE
  MayLose <- AnyCall
  MayRestart = TRUE
  MayLosePower = TRUE
  EndAtStart = 1
  Records = 2
  MaxCommits = 2
  MaxFaults = 2
CHECK_DEADLOCK FALSE
SYMMETRY Symmetric

  
PROPERTY AtLeastOnce
