SPECIFICATION Spec
CONSTANTS
  Tok <- MCTok
  TestCmd <- MCTestCmd
  DetectCmd <- MCDetectCmd
  Scripts <- MCScripts
  RingCap = 3
  LineMax = 3
  MaxPolls = 2
  MaxLines = 2
INVARIANTS
  LinesExact
PROPERTIES
  AbortEndsTest
CHECK_DEADLOCK FALSE
