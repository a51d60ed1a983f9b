---------------------------- MODULE EncoderProps ----------------------------
(***************************************************************************)
(* What the encoder driver promises the speed loops.                       *)
(***************************************************************************)
EXTENDS Encoder

EncTypeOK ==
  /\ enc_capture_count \in 0..frames /\ enc_error \in {"none", "timeout", "bad"}
  /\ enc_bad_count \in 0..(MaxFrames + MaxTicks)
  /\ {pair, calPair} \subseteq [period : 0..MaxFrames, pulse : 0..MaxFrames]
  /\ enc_speed \in [from : 0..MaxFrames, to : 0..MaxFrames]
  /\ prev \in 0..MaxFrames /\ first_capture \in BOOLEAN
  /\ t6 \in {"idle", "recheck", "error", "load", "store", "speed", "first"}
  /\ last_count \in -1..MaxFrames /\ stale_ms \in 0..MaxTicks
  /\ cal \in {"idle", "period", "pulse", "check", "accepted"}

\* Between two calls of the watchdog a signal that has been silent for longer
\* than the timeout is reported: no speed loop runs on an old speed.
LossIsReported == t6 = "idle" /\ quiet > ENC_TIMEOUT_MS => enc_error # "none"

\* A signal that keeps coming is never reported lost, wherever its captures fall
\* in the watchdog: a timeout is decided only after ENC_TIMEOUT_MS silent calls.
LiveIsNotLost ==
  [][t6 = "recheck" /\ t6' = "error" => quiet >= ENC_TIMEOUT_MS]_encVars

\* A speed is computed from two captures with no bad one between them.
SpeedSkipsBadCaptures ==
  [][enc_speed' # enc_speed /\ enc_speed' # NoSpeed => enc_error # "bad"]_encVars

\* The pair the calibration accepts is of one capture.
CalibrationPairWhole == cal = "accepted" => calPair.period = calPair.pulse

-----------------------------------------------------------------------------
(* What comments of the code say and the code does not keep.               *)

\* The count is read again before a timeout is published, or else a live signal
\* could be reported lost (encoder.c:287): an error of the watchdog is not
\* published after a capture has come.
TimeoutMeansSilence ==
  [][enc_error' = "timeout" /\ enc_error # "timeout" => enc_capture_count = last_count]_encVars

\* The angle is taken anew when the signal comes back (encoder.c:297): between
\* two calls no speed spans a declared loss.
NoSpeedAcrossLoss ==
  t6 = "idle" /\ enc_error = "none" /\ enc_speed # NoSpeed =>
    ~(enc_speed.from <= lossAt /\ lossAt < enc_speed.to /\ lossAt > 0)

\* The counter counts bad frames and timeouts (encoder.c:63).
ErrorsAreCounted == t6 = "idle" => enc_bad_count = declared
=============================================================================
