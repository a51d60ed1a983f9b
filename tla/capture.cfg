SPECIFICATION CaptureSpec
CONSTANTS
  BreakInput = TRUE
  ClockFail = FALSE
  VbusOverCnt = 2
  RingCapacity = 3
  Pulses = 3
  TimeoutPeriods = 3
  MaxSessions = 2
INVARIANTS
  RingHoldsTheRest
  CompleteIsExact
PROPERTIES
  FaultedIsLatched
  SessionEndsDark
