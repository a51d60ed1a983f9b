SPECIFICATION EncSpec
CONSTANTS
  ENC_TIMEOUT_MS = 2
  MaxFrames = 4
  MaxTicks = 6
INVARIANTS
  LossIsReported
PROPERTIES
  LiveIsNotLost
  SpeedSkipsBadCaptures
CHECK_DEADLOCK FALSE
