SPECIFICATION Spec
CONSTANTS
  Producers = {p1, p2}
  Consumers = {c1, c2}
  Values = {a, b}
  None = None
  Capacity = 2
  MaxTickets = 4
CHECK_DEADLOCK FALSE
INVARIANTS
  ExclusiveCell
  ObjectLifetimes
PROPERTY
  QueueInOrder
