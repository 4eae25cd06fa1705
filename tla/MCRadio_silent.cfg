SPECIFICATION Spec
CONSTANTS
  t1 = t1
  t2 = t2
  Threads = {t1}
  WIFLY_MEM_SIZE = 3
  Last = 2
  Unbuffered = 1
  wifly_tp = t1
  Before = 2
  After = 1
INVARIANT CutInside
