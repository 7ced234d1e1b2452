SPECIFICATION Spec
CONSTANTS
  Digit = {0, 1}
  MaxOutput = 6
  FullMax = 6
  FullKeep = 4
  TailKeep = 3
  Preamble = 1
  ErrorMax = 4
INVARIANTS
  ProgressTypeOK
  ReportsIgnoreThePieces
  NeverPanics
  MessageHasTheBottom
CHECK_DEADLOCK FALSE
