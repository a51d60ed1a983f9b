----------------------------- MODULE FocRunProps -----------------------------
(***************************************************************************)
(* What the start, the run and the reversal of FOC must keep.              *)
(***************************************************************************)
EXTENDS FocRun

\* The fields have their types, and no counter passes the limit that is to
\* act on it (the counters of the code are as narrow as eight bits).
FocTypeOK ==
  /\ foc_running \in BOOLEAN /\ foc_state \in {"STARTUP", "RUN"}
  /\ speed_ref \in Requests \cup {0}
  /\ policy \in [bad : 0..(BAD_CYCLES - 1), seen : BOOLEAN, standing : 0..(STARTUP_CYCLES - 1),
                 zero : 0..(ZERO_CYCLES - 1), pending : BOOLEAN, reverse : Requests \cup {0}]
  /\ gate \in [startup_cycles : 0..(MAX_STARTUP + 1), handoff_cycles : 0..(MAX_HANDOFF + 1),
               consecutive_good : 0..REQUIRED, latched_ready : BOOLEAN, latched_timeout : BOOLEAN]
  /\ vf.target \in Requests \cup {0} /\ vf.tick \in 0..(RAMP + 1) /\ vf.complete \in BOOLEAN
  /\ Abs(vf.current) <= Abs(vf.target) \/ ~vf.complete
  /\ zero_frames \in 0..ZERO_FRAMES

\* A frame releases a queued reversal only when ZERO_CYCLES frames in a row,
\* all since the last request, have shown the shaft at rest.
Reverses == foc_running /\ policy.pending /\ ~policy'.pending /\ foc_running' /\ main' = main
ReversalWaits == [][Reverses => hist'.slow >= ZERO_CYCLES]_vars

\* The shaft-speed evidence of a reversal is stable: the encoder that showed
\* the shaft at rest was not in error.
ReversalSeesShaft == [][Reverses => hist'.sure >= ZERO_CYCLES]_vars

\* While a reversal is queued FOC asks for standstill, whatever interleaving
\* of requests, stops, starts and frames has led here.
PendingAsksZero == foc_running /\ policy.pending => speed_ref = 0

\* RUN never goes on with an encoder in error for BAD_CYCLES frames in a row,
\* whether or not the drive is asked to move.
BlindRunEnds == foc_running => hist.blind < BAD_CYCLES

\* RUN is entered from STARTUP only after REQUIRED frames in a row that were
\* fit for it on the ramp of the present target.  A new target starts the count
\* again although the gate is reset after it and in pieces; only a frame that
\* comes between the two may still count what the old ramp has shown.
HandsOver == foc_running /\ foc_running' /\ foc_state = "STARTUP" /\ foc_state' = "RUN"
ResetUnderWay == main.at = "gate" /\ GateFields[main.field] \in
                   {"startup_cycles", "handoff_cycles", "consecutive_good"}
RunIsEarned == [][HandsOver /\ ~ResetUnderWay => hist'.good >= REQUIRED]_vars

\* Outside a call of FOC_SetSpeed the ramp of a start leads to the speed that
\* RUN will be given, so that RUN is entered in the direction of the ramp.
RampLeadsToSpeed ==
  foc_running /\ foc_state = "STARTUP" /\ main = Idle => vf.target = speed_ref

\* In RUN a target against the one in force goes through zero: FOC_SetSpeed
\* stages it, or the policy released it.
NotUnstaged == [][foc_running /\ foc_state = "RUN" => ~Opposite(speed_ref, speed_ref')]_vars

\* A start that is left alone ends, in RUN or stopped by one of its watchdogs.
StartupEnds ==
  foc_running /\ foc_state = "STARTUP" ~> ~foc_running \/ foc_state = "RUN"
=============================================================================
