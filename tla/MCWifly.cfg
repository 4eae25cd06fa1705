SPECIFICATION FairSpec
CONSTANTS
  s1 = s1
  s2 = s2
  None = None
  Main = Main
  Senders = {s1, s2}
  Scenarios <- Sessions
  IdSize = 4
  ArgsSize = 3
  ReadSize = 3
  OutSize = 1
  MsgLen = 2
INVARIANTS IndexBounds NoLostWakeup SendCompletes WholeMessages AnswersInOrder
PROPERTIES EveryLineAnswered CallersReturn
