SPECIFICATION FairSpec
CONSTANTS
  s1 = s1
  s2 = s2
  None = None
  Main = Main
  Senders = {}
  Scenarios <- OneLine
  IdSize = 4
  ArgsSize = 3
  ReadSize = 3
  OutSize = 1
  MsgLen = 2
PROPERTY EveryLineAnswered
