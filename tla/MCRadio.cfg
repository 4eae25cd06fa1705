SPECIFICATION FairSpec
CONSTANTS
  t1 = t1
  t2 = t2
  Threads = {t1, t2}
  WIFLY_MEM_SIZE = 6
  Last = 2
  Unbuffered = 1
  wifly_tp = t1
  Before = 2
  After = 1
INVARIANTS BufferInOnePlace
PROPERTY CallsReturn
