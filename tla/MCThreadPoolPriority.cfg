SPECIFICATION FairSpec
CONSTANTS
  Workers = {w1}
  Tasks = {1, 2, 3}
  NULL = NULL
  Priority <- MCPriority
  Owner <- MCOwner
  init_threads = 1
  thd_max = 1
  IdleMaxes = {1}
  IdleWaits = {FALSE}
  Thresholds = {0}
  Clients = {c1}
CHECK_DEADLOCK FALSE
PROPERTIES PriorityOrder
