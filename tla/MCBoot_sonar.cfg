SPECIFICATION Spec
CONSTANTS
  Main = Main
  Wifly = Wifly
  Threads = {Main, Wifly}
  None = None
  Depth = 4
  Distances = {1, 2}
INVARIANT NoLockInInterrupt
