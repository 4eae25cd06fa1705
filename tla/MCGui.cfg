SPECIFICATION FairSpec
CONSTANTS
  MaxLines = 7
  MaxDown = 2
INVARIANTS SessionInStep OfflineIsClosed
PROPERTY SendsReturn
CHECK_DEADLOCK FALSE
