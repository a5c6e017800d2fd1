SPECIFICATION FairSpec
CONSTANTS
  Workers = {w1, w2}
  Tasks = {1, 2}
  NULL = NULL
  Priority <- MCPriority
  Owner <- MCOwner
  init_threads = 1
  thd_max = 2
  IdleMaxes = {1}
  IdleWaits = {TRUE, FALSE}
  Thresholds = {0}
  Clients = {c1}
CHECK_DEADLOCK FALSE
INVARIANTS TypeOK IndexNotDangling TaskInOnePlace
PROPERTIES CancelComplete TasksRun DestroyReturns
