SPECIFICATION FairSpec
CONSTANTS
  t1 = t1
  t2 = t2
  Threads = {t1, t2}
  Seconds = {0, 1}
  PerSecond = 2
  Word = 4
  SpeedArgs = {24, 100}
INVARIANTS SemConsistent NeverBothDriven StopPending OneOwner
PROPERTIES NoChangeWhileDriven TimersKept MotorsStop CommandsReturn
