SPECIFICATION FairSpec
CONSTANTS
  a = a
  b = b
  Bytes = {a, b}
  Size = 3
INVARIANTS WriterWoken
PROPERTIES IsFifo WriterGoesOn
