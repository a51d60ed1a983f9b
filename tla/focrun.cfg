SPECIFICATION FairSpec
CONSTANTS
  Requests <- Wanted
  Measured <- Shown
  ZERO_RPM = 1
  ZERO_CYCLES = 2
  BAD_CYCLES = 3
  STARTUP_CYCLES = 4
  REQUIRED = 2
  MAX_STARTUP = 5
  MAX_HANDOFF = 3
  ZERO_FRAMES = 1
  RAMP = 2
  MaxCalls = 2
INVARIANTS
  PendingAsksZero
  BlindRunEnds
  RampLeadsToSpeed
PROPERTIES
  ReversalWaits
  RunIsEarned
  StartupEnds
