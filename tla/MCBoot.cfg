SPECIFICATION FairSpec
CONSTANTS
  Main = Main
  Wifly = Wifly
  Threads = {Main, Wifly}
  None = None
  Depth = 2
  Distances = {1}
INVARIANTS UsesInitialised TimerOnLiveStack ReadyIsUsable CommandLoopKept
INVARIANTS GroupBehindInterrupts SonarAsAsked
PROPERTIES TransfersEnd ThreadsGoOn DistancesCome
