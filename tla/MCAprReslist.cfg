SPECIFICATION Spec
CONSTANTS
  Threads = {t1, t2, t3, t4}
  Res = {r1, r2, r3}
  None = None
  min = 1
  smax = 1
  hmax = 2
CHECK_DEADLOCK FALSE
INVARIANTS Accounted NoLostWakeup
