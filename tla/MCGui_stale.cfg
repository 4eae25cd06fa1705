SPECIFICATION Spec
CONSTANTS
  MaxLines = 6
  MaxDown = 0
INVARIANT AnswersOwnLine
CHECK_DEADLOCK FALSE
