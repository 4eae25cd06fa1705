SPECIFICATION FairSpec
CONSTANTS
  v1 = v1
  v2 = v2
  v3 = v3
  Timers = {v1, v2, v3}
  Header = Header
  MaxTime = 3
INVARIANTS ListOK WindowWraps
PROPERTIES FiresOnTime NoTimerForgotten
