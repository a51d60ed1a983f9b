-------------------------- MODULE DriveSafetyProps --------------------------
(***************************************************************************)
(* What must hold of the composed drive.                                   *)
(***************************************************************************)
EXTENDS DriveSafety

\* The main loop is between two commands (or has left its loop), and no
\* handler of a lower priority than the break is under way.
Idle == pc \in {"idle", "exited"} /\ t6 = "idle"

\* A latched fault and an armed injected group meet only inside a start
\* sequence that is going to refuse: protect_latch disarms (protect.c:39-50),
\* a start that armed before it read the latch disarms again in its cleanup.
LatchedMeansDisarmed ==
  fault /\ armed => pc \in {"readContext", "readFault", "refused",
                            "alMask", "alRead", "alStop"}

\* Between two commands a counting timer has an owner that would stop it:
\* FOC, V/f or the align session.  No failed, raced or aborted start leaves
\* the counters (and with them the outputs) running for nobody.
CountersOwned == Idle /\ cen # {} => focRunning \/ vfcRunning \/ (alignActive /\ armed)

\* FOC and V/f never both believe that they drive the stage (foc.c:581,
\* vf_control.c VFC_Start).
OneLoopAtATime == ~(focRunning /\ vfcRunning)

\* A running FOC whose outputs are live, with no fault latched, is supervised:
\* its frames arrive, with the ADC interrupt on, and are checked as control
\* frames.  (An autotune command has turned the interrupt off for the moment
\* it takes to stop FOC.)
FocSupervised ==
  focRunning /\ Live # {} /\ ~fault /\ pc # "atSafety" =>
      armed /\ adcIrqOn /\ admitted

\* The latch is cleared only with both bridges dark, no control mode on and the
\* injected group stopped, and no break is forgotten with it.  A line may fall
\* between the last look at it (protect.c:218-220) and the store (:230); its
\* break is then pending, and the 'f' command goes on to its calibration only
\* after the break interrupt has latched again (protect.c:212-214,
\* tests/sd_latch_test.c:86-94).
ClearForgetsNoBreak ==
  [][/\ fault /\ ~fault' => /\ Live = {} /\ cen = {} /\ ~armed
                            /\ ~focRunning /\ ~vfcRunning
                            /\ bif' = bif
                            /\ BreakInput => sdLow \subseteq bif
     /\ pc = "clrCalibrate" /\ pc' # pc =>
          fault \/ (bif = {} /\ (BreakInput => sdLow = {}))]_vars

\* An admission is pending from the moment a start has read the latch as
\* clear until its last store.
Admitting == pc \in {"readAdc", "readInterlock"} \cup Stores \cup {"alStore"}

Abstract == INSTANCE AdmissionLatch
            WITH latched <- fault, granted <- Admitting, on <- (Live # {})

\* Every energisation is covered by an admission granted under a clear latch.
AdmissionRespected == Abstract!Spec

\* V/f does not outlive a latched fault: TIM6 stops it, at the latest when
\* the break interrupts are through.
VfStopsOnFault == (fault /\ vfcRunning) ~> (~vfcRunning \/ bif # {})

\* A refused 'vf=' makes main() leave its loop, vfc.running possibly still
\* set, and no later command can stop anything while TIM6 keeps feeding the
\* watchdog: the counters must be off by then, and stay off (cli.c:471-475).
LoopLeftIsDark == pc = "exited" => cen = {} /\ ~focRunning

-----------------------------------------------------------------------------
(* What comments of the code say and the code does not keep.               *)

\* "neither interlock nor PWM can self-rearm" (protect.c:44): while the fault
\* is latched no bridge becomes live.
NoSelfRearm == [][fault => Live' \subseteq Live]_vars

\* "Keep software control ... state terminally consistent with the already
\* asynchronous hardware MOE shutdown" (main.c:147-148): after a latched stop
\* FOC does not report that it runs.
FocStoppedByFault == Idle /\ bif = {} /\ fault => ~focRunning

\* foc_running is set "only after ADC arm + CEN/MOE/EN succeeded"
\* (foc.c:713): between commands, without a fault or a low SD line, a running
\* FOC has its counters running.
RunningMeansOutputs == Idle /\ bif = {} /\ ~fault /\ focRunning => cen = Timers

\* "regular group - refresh adc_data for PROTECT_Check" (main.c:238): the
\* V/f tick latches an overcurrent that is present when it checks.
VfTickSeesOvercurrent ==
  [][t6 = "updated" /\ t6' = "checked" /\ vfcRunning /\ load = "overCurrent" => fault']_vars

\* "the break ISR latches this fault" (protect.c:43): break evidence does not
\* disappear without a latch.
BreakEvidenceLatched == [][bif # {} /\ bif' = {} => fault']_vars
=============================================================================
