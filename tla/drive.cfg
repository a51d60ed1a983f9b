SPECIFICATION FairSpec
CONSTANTS
  BreakInput = TRUE
  ClockFail = FALSE
  VbusOverCnt = 2
INVARIANTS
  CountersOwned
  FocSupervised
  LoopLeftIsDark
PROPERTIES
  ClearForgetsNoBreak
  AdmissionRespected
  VfStopsOnFault
