SPECIFICATION FairSpec
CONSTANTS
  low = low
  mid = mid
  mate = mate
  pal = pal
  high = high
  Idle = Idle
  None = None
  Threads = {Idle, low, mid, mate, pal, high}
  Mutexes = {1, 2}
  RealPrio <- Priorities
INVARIANTS ThreadInOnePlace HighestRuns PriorityExact
PROPERTIES StarvedByHigherOnly
