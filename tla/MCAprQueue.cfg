SPECIFICATION FairSpec
CONSTANTS
  Threads = {t1, t2, t3}
  Item = {a, b}
  NULL = NULL
  Bound = 2
INVARIANTS WaitersCounted NoLostWakeup
PROPERTIES RefinesBoundedFifo TermReleases
