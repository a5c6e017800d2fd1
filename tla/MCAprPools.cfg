SPECIFICATION Spec
CONSTANTS
  Threads = {t1, t2}
  Pools = {root, p1, p2}
  Root = root
  NULL = NULL
  Nodes = {n1, n2, n3, n4}
  MAX_INDEX = 3
  BOUNDARY = 4
  NODE_SIZE = 1
  POOL_SIZE = 3
  Word = 16
  Requests = {8, 16}
  Cleanups = {k1, k2}
  MaxFrees = {5}
SYMMETRY PoolSymmetry
CHECK_DEADLOCK FALSE
INVARIANTS BinsRight KeptWithinLimit NodesAccounted RingSorted TreeLinked CleanupOnce
