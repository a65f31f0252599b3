SPECIFICATION FairSpec
CONSTANTS
  c1 = c1
  c2 = c2
  Conns <- TwoClients
  Requests = {1, 2}
  ConnOf <- AllOnFirst
  MaxConnections = 2
  TaskCapacity = 1
  WorkerCapacity = 1
  MayStop = TRUE
  Leaving <- OneClient
CHECK_DEADLOCK FALSE
INVARIANTS
  
  ExecutedInOrder
PROPERTIES
  RequestsSettle
  StopReturns
