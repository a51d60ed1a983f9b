SPECIFICATION Spec
CONSTANTS
  BreakInput = TRUE
  ClockFail = FALSE
  VbusOverCnt = 2
PROPERTIES
  NoSelfRearm
