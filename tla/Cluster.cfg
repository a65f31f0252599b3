SPECIFICATION Spec
CONSTANTS
  t1 = "t1"
  Brokers = {1, 2}
  TopicHash <- Hash
  Topics <- OneTopic
  WorkerCount = 2
  DefaultCount = 2
  DefaultFactor = 1
  MaxPartitions = 2
  Clients <- BothClients
  MayKill = {1, 2}
  Topic = "t1"
  KeyHash <- Keys
  BatchRecords = 2
  Large = {4}
  MaxAttempts = 2
  MayExpire = TRUE
  AdminCalls <- Deletes
  Budgets <- Mixed
CHECK_DEADLOCK FALSE
INVARIANTS PlacementAgrees    Accounted 
