------------------------------ MODULE Encoder ------------------------------
(***************************************************************************)
(* encoder.c: the capture interrupt TIM2 (priority 0), the watchdog        *)
(* ENC_Update, called by TIM6 (priority 2) every millisecond, and          *)
(* the calibration loop of the main program.  TIM2 preempts both at any    *)
(* instruction and is one step here.                                       *)
(*                                                                         *)
(* A capture is named by its number, and the speed by the captures its     *)
(* last increment was computed from: what the properties tell apart is     *)
(* which captures a value comes from.                                      *)
(***************************************************************************)
EXTENDS Integers

CONSTANTS
  ENC_TIMEOUT_MS,
  MaxFrames,    \* bound: captures
  MaxTicks      \* bound: calls of ENC_Update

ASSUME EncoderAssumption == {ENC_TIMEOUT_MS, MaxFrames, MaxTicks} \subseteq Nat \ {0}

NoSpeed == [from |-> 0, to |-> 0]

VARIABLES
  enc_capture_count, enc_error, enc_bad_count,
  pair,             \* enc_period_us and enc_pulse_us: the capture each is of
  enc_speed,        \* enc_speed_rpm with its accumulator
  prev, first_capture,
  t6, bad_reg,          \* the place of TIM6 in ENC_Update, and the value it has loaded
  last_count, stale_ms,
  cal, calCount, calPair,   \* the place of ENC_Calibrate and what it has read
  frames, ticks,    \* captures and calls so far
  quiet,            \* calls since the last good capture
  lossAt,           \* the last capture before the last timeout was declared
  declared          \* errors published

filter == <<enc_speed, prev, first_capture>>
watchdog == <<t6, bad_reg, last_count, stale_ms, ticks>>
calVars == <<cal, calCount, calPair>>
encVars == <<enc_capture_count, enc_error, enc_bad_count, pair, filter, watchdog, calVars,
          frames, quiet, lossAt, declared>>

EncInit ==
  /\ enc_capture_count = 0 /\ enc_error = "timeout" /\ enc_bad_count = 0
  /\ pair = [period |-> 0, pulse |-> 0]
  /\ enc_speed = NoSpeed /\ prev = 0 /\ first_capture = TRUE
  /\ t6 = "idle" /\ bad_reg = 0 /\ last_count = -1 /\ stale_ms = 0
  /\ cal = "idle" /\ calCount = 0 /\ calPair = pair
  /\ frames = 0 /\ ticks = 0 /\ quiet = 0 /\ lossAt = 0 /\ declared = 0

-----------------------------------------------------------------------------
(* TIM2_IRQHandler.                                                        *)

Capture ==
  /\ frames < MaxFrames
  /\ frames' = frames + 1
  /\ UNCHANGED <<watchdog, calVars, lossAt>>

\* Mutant: the angle before a bad frame is kept.
BadCaptureKeepsAngle ==
  /\ enc_error' = "bad"
  /\ declared' = declared + 1
  /\ enc_speed' = NoSpeed
  /\ UNCHANGED <<enc_capture_count, pair, prev, first_capture, quiet>>

BadCapture ==
  /\ enc_error' = "bad"
  /\ declared' = declared + 1
  /\ enc_speed' = NoSpeed /\ first_capture' = TRUE
  /\ UNCHANGED <<enc_capture_count, pair, prev, quiet>>

\* A second capture before the first was served.
Overcapture == Capture /\ BadCapture /\ UNCHANGED enc_bad_count

\* A period or a pulse out of range.
BadPeriod == Capture /\ BadCapture /\ enc_bad_count' = enc_bad_count + 1

Counts == enc_capture_count' = enc_capture_count + 1

GoodCapture ==
  /\ Capture
  /\ pair' = [period |-> frames', pulse |-> frames']
  /\ Counts
  /\ enc_error' = "none"
  /\ first_capture' = FALSE /\ prev' = frames'
  /\ enc_speed' = IF first_capture THEN enc_speed ELSE [from |-> prev, to |-> frames']
  /\ quiet' = 0
  /\ UNCHANGED <<enc_bad_count, declared>>

-----------------------------------------------------------------------------
(* ENC_Update.                                                             *)

UpdateKeeps == UNCHANGED <<enc_capture_count, pair, calVars, frames>>

Restarts == last_count' = enc_capture_count /\ stale_ms' = 0

\* Mutant: the timeout comes one call late.
SilentLate == stale_ms' > ENC_TIMEOUT_MS

Silent == stale_ms' >= ENC_TIMEOUT_MS

Tick ==
  /\ t6 = "idle" /\ ticks < MaxTicks
  /\ ticks' = ticks + 1 /\ quiet' = quiet + 1
  /\ IF enc_capture_count # last_count
     THEN Restarts /\ UNCHANGED t6
     ELSE /\ stale_ms' = stale_ms + 1
          /\ t6' = IF Silent THEN "recheck" ELSE "idle"
          /\ UNCHANGED last_count
  /\ UpdateKeeps
  /\ UNCHANGED <<enc_error, enc_bad_count, filter, bad_reg, lossAt, declared>>

\* Mutant: the count is not read again.
RecheckBlind ==
  /\ t6 = "recheck"
  /\ t6' = "error"
  /\ UpdateKeeps
  /\ UNCHANGED <<enc_error, enc_bad_count, filter, bad_reg, last_count, stale_ms, ticks, quiet,
                 lossAt, declared>>

Recheck ==
  /\ t6 = "recheck"
  /\ IF enc_capture_count = last_count
     THEN t6' = "error" /\ UNCHANGED <<last_count, stale_ms>>
     ELSE t6' = "idle" /\ Restarts
  /\ UpdateKeeps
  /\ UNCHANGED <<enc_error, enc_bad_count, filter, bad_reg, ticks, quiet, lossAt, declared>>

PublishTimeout ==
  /\ t6 = "error"
  /\ enc_error' = "timeout" /\ declared' = declared + 1
  /\ lossAt' = frames
  /\ t6' = "load"
  /\ UpdateKeeps
  /\ UNCHANGED <<enc_bad_count, filter, bad_reg, last_count, stale_ms, ticks, quiet>>

LoadBadCount ==
  /\ t6 = "load"
  /\ bad_reg' = enc_bad_count
  /\ t6' = "store"
  /\ UpdateKeeps
  /\ UNCHANGED <<enc_error, enc_bad_count, filter, last_count, stale_ms, ticks, quiet, lossAt, declared>>

StoreBadCount ==
  /\ t6 = "store"
  /\ enc_bad_count' = bad_reg + 1
  /\ t6' = "speed"
  /\ UpdateKeeps
  /\ UNCHANGED <<enc_error, filter, bad_reg, last_count, stale_ms, ticks, quiet, lossAt, declared>>

ClearSpeed ==
  /\ t6 = "speed"
  /\ enc_speed' = NoSpeed
  /\ t6' = "first"
  /\ UpdateKeeps
  /\ UNCHANGED <<enc_error, enc_bad_count, prev, first_capture, bad_reg, last_count, stale_ms, ticks,
                 quiet, lossAt, declared>>

Rearm ==
  /\ t6 = "first"
  /\ first_capture' = TRUE
  /\ t6' = "idle"
  /\ UpdateKeeps
  /\ UNCHANGED <<enc_error, enc_bad_count, enc_speed, prev, bad_reg, last_count, stale_ms, ticks,
                 quiet, lossAt, declared>>

ENC_Update ==
  \/ Tick \/ Recheck \/ PublishTimeout
  \/ LoadBadCount \/ StoreBadCount \/ ClearSpeed \/ Rearm

-----------------------------------------------------------------------------
(* The loop of ENC_Calibrate, which runs while TIM6 does not.              *)

CalKeeps ==
  /\ t6 = "idle"
  /\ UNCHANGED <<enc_capture_count, enc_error, enc_bad_count, pair, filter, watchdog, frames,
                 quiet, lossAt, declared>>

CalSeesCapture ==
  /\ cal \in {"idle", "accepted"} /\ enc_capture_count # calCount
  /\ calCount' = enc_capture_count
  /\ cal' = "period"
  /\ CalKeeps /\ UNCHANGED calPair

CalReadsPeriod ==
  /\ cal = "period"
  /\ calPair' = [calPair EXCEPT !.period = pair.period]
  /\ cal' = "pulse"
  /\ CalKeeps /\ UNCHANGED calCount

CalReadsPulse ==
  /\ cal = "pulse"
  /\ calPair' = [calPair EXCEPT !.pulse = pair.pulse]
  /\ cal' = "check"
  /\ CalKeeps /\ UNCHANGED calCount

CalChecks ==
  /\ cal = "check"
  /\ cal' = IF enc_capture_count = calCount THEN "accepted" ELSE "idle"
  /\ CalKeeps /\ UNCHANGED <<calCount, calPair>>

ENC_Calibrate == CalSeesCapture \/ CalReadsPeriod \/ CalReadsPulse \/ CalChecks

-----------------------------------------------------------------------------
EncNext ==
  \/ GoodCapture \/ BadPeriod \/ Overcapture
  \/ ENC_Update \/ ENC_Calibrate

EncSpec == EncInit /\ [][EncNext]_encVars
=============================================================================
