SPECIFICATION FairSpec
CONSTANTS
  c1 = c1
  c2 = c2
  Clients <- TwoClients
  Partitions <- TwoPartitions
  TopicsAtStart <- FirstTopic
  Strategy = "round-robin"
  StartFromEarliest = TRUE
  SyncOnCommit = FALSE
  MayLose <- AnyCall
  MayRestart = FALSE
  MayLosePower = FALSE
  EndAtStart = 0
  Records = 0
  MaxCommits = 1
  MaxFaults = 2
CHECK_DEADLOCK FALSE
INVARIANT ExclusiveOwnership
PROPERTY GroupSettles
