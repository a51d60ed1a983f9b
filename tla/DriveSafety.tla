---------------------------- MODULE DriveSafety ----------------------------
(***************************************************************************)
(* Who may energise the stage, and who must stop it.  The modules below    *)
(* are composed here with their callers, in the contexts the NVIC gives    *)
(* them:                                                                   *)
(*   - the command line in the main loop (cli.c, FOC_Start, VFC_Start,     *)
(*     the autotune session, the align aperture, PROTECT_RequestClear);    *)
(*   - TIM6 at 1 kHz, priority 2 (main.c, VFC_Update), above the main loop;*)
(*   - the ADC and the two break interrupts, priority 0, which preempt     *)
(*     both and never each other.                                          *)
(* The main loop and TIM6 are broken where an interrupt can change what    *)
(* they read or undo what they wrote; an interrupt handler of priority 0   *)
(* is one step.                                                            *)
(***************************************************************************)
EXTENDS Protect

VARIABLES
  focRunning,   \* foc_running
  vfcRunning,   \* vfc.running
  alignActive,  \* pwm_align_aperture_active
  adcIrqOn,     \* NVIC enable bit of ADC1_2
  pc,           \* where the main loop is
  op,           \* the start sequence it executes
  masked,       \* PRIMASK, set by the main loop
  t6            \* where the TIM6 handler is

modeVars == <<focRunning, vfcRunning, alignActive>>
mainVars == <<pc, op, masked>>
vars == <<stageVars, pinVars, permVars, protVars, load, modeVars, adcIrqOn,
          mainVars, t6>>

Ops == {"none", "FOC", "VF", "AT", "AL"}

\* The reads of pwm_common_arm_preconditions.
Reads == {"readContext", "readFault", "readAdc", "readInterlock"}

Places ==
  {"idle", "exited", "check", "vector", "arm", "refused", "commit",
   "atSafety", "atBegin", "atCalibrate", "atPublish", "measure", "atEnd",
   "alCheck", "alArm", "alMask", "alRead", "alStore", "alRecheck", "alStop",
   "clrSample", "clrMask", "clrCommit", "clrStore", "clrCalibrate"}
  \cup Reads \cup Stores

ModeTypeOK ==
  /\ focRunning \in BOOLEAN /\ vfcRunning \in BOOLEAN /\ alignActive \in BOOLEAN
  /\ adcIrqOn \in BOOLEAN /\ masked \in BOOLEAN

PlaceTypeOK ==
  /\ pc \in Places
  /\ op \in Ops
  /\ t6 \in {"idle", "sampled", "updated", "checked"}

TypeOK == StageTypeOK /\ ProtectTypeOK /\ ModeTypeOK /\ PlaceTypeOK

Init ==
  /\ StageInit
  /\ ProtectInit
  /\ focRunning = FALSE /\ vfcRunning = FALSE /\ alignActive = FALSE
  /\ adcIrqOn = TRUE
  /\ pc = "idle" /\ op = "none" /\ masked = FALSE
  /\ t6 = "idle"

-----------------------------------------------------------------------------
(* Priorities.  A pending break preempts the main loop and TIM6 unless the *)
(* main loop has masked the interrupts; the main loop waits for TIM6.      *)

MainRuns == t6 = "idle" /\ (masked \/ bif = {})
Tim6Runs == ~masked /\ bif = {}

Goto(p) == pc' = p /\ UNCHANGED <<op, masked>>
Finish  == pc' = "idle" /\ op' = "none" /\ UNCHANGED masked

\* CLI_EXIT_LOOP: a refused vf= command makes main() leave its loop.
ExitLoop == pc' = "exited" /\ op' = "none" /\ UNCHANGED masked

-----------------------------------------------------------------------------
(* The stops, as state changes of the stage and of the mode flags.         *)

FOC_Stop ==
  /\ PWM_Disable
  /\ focRunning' = FALSE
  /\ UNCHANGED <<vfcRunning, alignActive>>

\* Mutant: vfc.running survives the stop.
VFC_StopKeepsFlag ==
  /\ PWM_Disable
  /\ admitted' = FALSE
  /\ UNCHANGED <<modeVars, offsetsValid>>

VFC_Stop ==
  /\ PWM_Disable
  /\ admitted' = FALSE
  /\ vfcRunning' = FALSE
  /\ UNCHANGED <<focRunning, alignActive, offsetsValid>>

-----------------------------------------------------------------------------
(* The break and ADC interrupts.                                           *)

\* TIM1_BRK / TIM8_BRK: clear the evidence, latch, stop.  BIF may stay set
\* for as long as its line is low.
BreakStops(t) ==
  /\ t \in bif /\ ~masked
  /\ \/ bif' = bif \ {t}
     \/ t \in sdLow /\ bif' = bif
  /\ fault' = TRUE
  /\ FOC_Stop
  /\ UNCHANGED <<sdLow, vbusOver, load, adcIrqOn, mainVars, t6>>

\* Without a capture session the handler has nothing else to end.
BreakIsr(t) == BreakStops(t) /\ UNCHANGED permVars

\* The injected sequence completes.  Only a running FOC is given the frame.
FrameReady ==
  /\ armed /\ "TIM1" \in cen
  /\ adcIrqOn /\ ~masked

\* ADC1_2 without a running FOC: the frame is published.
AdcPublish(usable) ==
  /\ FrameReady
  /\ ~focRunning
  /\ frame' = ADC_FrameStatus(usable)
  /\ UNCHANGED <<ccer, moe, cen, ctxValid, armed, pinVars, permVars, protVars,
                 load, modeVars, adcIrqOn, mainVars, t6>>

\* PROTECT_CheckFrame latches: a frame that is not VALID, or its values.
AdcTrip(usable) ==
  /\ FrameReady
  /\ focRunning
  /\ ADC_FrameStatus(usable) # "VALID" \/ OutOfRange
  /\ fault' = TRUE
  /\ IF fault \/ ADC_FrameStatus(usable) # "VALID" THEN UNCHANGED vbusOver ELSE CountVbus
  /\ FOC_Stop
  /\ UNCHANGED <<pinVars, permVars, load, adcIrqOn, mainVars, t6>>

FramePasses ==
  /\ FrameReady
  /\ focRunning
  /\ ADC_FrameStatus(TRUE) = "VALID" /\ ~OutOfRange
  /\ ~fault

\* FOC_RunFrame with a frame that passed: it publishes the next vector and
\* context or holds through a zero frame, or (AdcGivesUp) stops.
AdcRunFrame ==
  /\ FramePasses
  /\ CountVbus
  /\ frame' = "VALID"
  /\ UNCHANGED <<ccer, moe, cen, ctxValid, armed, modeVars, pinVars, permVars, fault,
                 load, adcIrqOn, mainVars, t6>>

AdcGivesUp ==
  /\ FramePasses
  /\ CountVbus
  /\ FOC_Stop
  /\ UNCHANGED <<pinVars, permVars, fault, load, adcIrqOn, mainVars, t6>>

-----------------------------------------------------------------------------
(* TIM6_DAC_IRQHandler while V/f runs.                                     *)

Tim6Sample ==
  /\ Tim6Runs /\ t6 = "idle" /\ vfcRunning
  /\ ADC_StartConversion
  /\ t6' = "sampled"
  /\ UNCHANGED <<pinVars, permVars, protVars, load, modeVars, adcIrqOn, mainVars>>

\* VFC_Update stops: on a fault, or because the motor has not turned.
Tim6Stops ==
  /\ Tim6Runs /\ t6 = "sampled"
  /\ t6' = "updated"
  /\ VFC_Stop
  /\ UNCHANGED <<pinVars, protVars, load, adcIrqOn, mainVars>>

\* VFC_Update: the next vector with its context, or the last one held when
\* the geometry names no sector.
Tim6Update ==
  /\ Tim6Runs /\ t6 = "sampled"
  /\ ~fault
  /\ t6' = "updated"
  /\ ctxValid' \in {ctxValid, TRUE}
  /\ UNCHANGED <<ccer, moe, cen, armed, frame, permVars, modeVars, pinVars, protVars,
                 load, adcIrqOn, mainVars>>

Tim6Check ==
  /\ Tim6Runs /\ t6 = "updated"
  /\ PROTECT_Check
  /\ t6' = "checked"
  /\ UNCHANGED <<pinVars, permVars, load, modeVars, adcIrqOn, mainVars>>

Tim6Gate ==
  /\ Tim6Runs /\ t6 = "checked"
  /\ t6' = "idle"
  /\ IF fault THEN VFC_Stop ELSE UNCHANGED <<stageVars, permVars, modeVars>>
  /\ UNCHANGED <<pinVars, protVars, load, adcIrqOn, mainVars>>

Tim6 == Tim6Sample \/ Tim6Stops \/ Tim6Update \/ Tim6Check \/ Tim6Gate

-----------------------------------------------------------------------------
(* The command line: one command at a time.                                *)

Command == MainRuns /\ pc = "idle"

Begin(o, p) == pc' = p /\ op' = o /\ UNCHANGED masked

\* '1': V/f is stopped, then FOC_Start is called.
CmdFocStart ==
  /\ Command /\ ~fault
  /\ VFC_Stop
  /\ Begin("FOC", "check")
  /\ UNCHANGED <<pinVars, protVars, load, adcIrqOn, t6>>

\* '0'
CmdFocStop ==
  /\ Command
  /\ FOC_Stop
  /\ UNCHANGED <<pinVars, permVars, protVars, load, adcIrqOn, mainVars, t6>>

\* Mutant: VFC_Start is called with the outputs as they are.
CmdVfStartOverFoc ==
  /\ Command /\ ~fault
  /\ Begin("VF", "check")
  /\ UNCHANGED <<stageVars, pinVars, permVars, protVars, load, modeVars, adcIrqOn, t6>>

\* 'vf=N': FOC is stopped, then VFC_Start is called.
CmdVfStart ==
  /\ Command /\ ~fault
  /\ FOC_Stop
  /\ Begin("VF", "check")
  /\ UNCHANGED <<pinVars, permVars, protVars, load, adcIrqOn, t6>>

\* 'vf=0'
CmdVfStop ==
  /\ Command
  /\ VFC_Stop
  /\ UNCHANGED <<pinVars, protVars, load, adcIrqOn, mainVars, t6>>

\* run_at: the ADC interrupt is disabled around the whole test.
CmdAutotune ==
  /\ Command
  /\ adcIrqOn' = FALSE
  /\ Begin("AT", "atSafety")
  /\ UNCHANGED <<stageVars, pinVars, permVars, protVars, load, modeVars, t6>>

\* 'al': any previous align session is stopped first.
CmdAlign ==
  /\ Command /\ ~focRunning /\ ~vfcRunning
  /\ PWM_AlignApertureStop
  /\ alignActive' = FALSE
  /\ Begin("AL", "alCheck")
  /\ UNCHANGED <<pinVars, offsetsValid, protVars, load, focRunning, vfcRunning,
                 adcIrqOn, t6>>

\* 'al off'
CmdAlignOff ==
  /\ Command /\ ~focRunning /\ ~vfcRunning
  /\ PWM_AlignApertureStop
  /\ alignActive' = FALSE
  /\ UNCHANGED <<pinVars, offsetsValid, protVars, load, focRunning, vfcRunning,
                 adcIrqOn, mainVars, t6>>

\* 'f' up to PROTECT_RequestClear's sample; the refusals change nothing.
CmdClear ==
  /\ Command /\ ~focRunning /\ ~vfcRunning
  /\ fault /\ ~armed /\ sdLow = {}
  /\ Goto("clrSample")
  /\ UNCHANGED <<stageVars, pinVars, permVars, protVars, load, modeVars, adcIrqOn, t6>>

\* 'c': recalibrate the offsets with the outputs off.
CmdCalibrate ==
  /\ Command /\ ~PWM_IsEnabled /\ ~armed
  /\ ADC_CalibrateOffsets
  /\ UNCHANGED <<pinVars, protVars, load, modeVars, adcIrqOn, mainVars, t6>>

\* 'a' and the ADC stream.
CmdSample ==
  /\ Command /\ ~armed
  /\ ADC_StartConversion
  /\ UNCHANGED <<pinVars, permVars, protVars, load, modeVars, adcIrqOn, mainVars, t6>>

-----------------------------------------------------------------------------
(* FOC_Start and VFC_Start up to PWM_Enable.                               *)

StartAt(o, p) == MainRuns /\ pc = p /\ op = o

\* FOC_Start returns before it has touched anything: it is running already,
\* or a mode, fault, parameter or map gate refuses.
FocReturns ==
  /\ StartAt("FOC", "check")
  /\ Finish
  /\ UNCHANGED <<stageVars, pinVars, permVars, protVars, load, modeVars, adcIrqOn, t6>>

FocPasses ==
  /\ StartAt("FOC", "check")
  /\ ~focRunning /\ ~vfcRunning /\ ~ClockFail /\ ~fault
  /\ Goto("vector")
  /\ UNCHANGED <<stageVars, pinVars, permVars, protVars, load, modeVars, adcIrqOn, t6>>

\* VFC_Start refuses (already running, FOC active, fault) or its sector
\* selector finds no context; every refusal leaves main's loop.
VfRefused ==
  /\ StartAt("VF", "check")
  /\ \/ /\ vfcRunning \/ focRunning \/ fault
        /\ UNCHANGED <<stageVars, permVars, modeVars>>
     \/ /\ ~(vfcRunning \/ focRunning \/ fault)
        /\ VFC_Stop
  /\ ExitLoop
  /\ UNCHANGED <<pinVars, protVars, load, adcIrqOn, t6>>

VfPasses ==
  /\ StartAt("VF", "check")
  /\ ~vfcRunning /\ ~focRunning /\ ~fault
  /\ Goto("vector")
  /\ UNCHANGED <<stageVars, pinVars, permVars, protVars, load, modeVars, adcIrqOn, t6>>

\* PWM_SetControlVector with a selected context.
SetControlVector ==
  /\ MainRuns /\ pc = "vector"
  /\ ctxValid' = TRUE
  /\ Goto("arm")
  /\ UNCHANGED <<ccer, moe, cen, armed, frame, pinVars, permVars, protVars, load,
                 modeVars, adcIrqOn, t6>>

\* FOC_Start: invalid offsets are calibrated first; if that fails the start
\* is refused with the context still published.
FocCalibrationFails ==
  /\ StartAt("FOC", "arm")
  /\ ~offsetsValid
  /\ frame' = "INVALID"
  /\ Finish
  /\ UNCHANGED <<ccer, moe, cen, ctxValid, armed, pinVars, permVars, protVars,
                 load, modeVars, adcIrqOn, t6>>

\* Mutant: the control admission is forgotten.
FocArmsWithoutAdmission ==
  /\ StartAt("FOC", "arm")
  /\ offsetsValid' = TRUE
  /\ adcIrqOn' = TRUE
  /\ armed' = TRUE
  /\ Goto("readContext")
  /\ UNCHANGED <<ccer, moe, cen, ctxValid, frame, admitted, pinVars, protVars, load,
                 modeVars, t6>>

FocArms ==
  /\ StartAt("FOC", "arm")
  /\ offsetsValid' = TRUE
  /\ adcIrqOn' = TRUE
  /\ admitted' = TRUE
  /\ armed' = TRUE
  /\ Goto("readContext")
  /\ UNCHANGED <<ccer, moe, cen, ctxValid, frame, pinVars, protVars, load, modeVars, t6>>

\* VFC_Start does not calibrate: ADC_InjectedStart refuses invalid offsets.
VfArms ==
  /\ StartAt("VF", "arm")
  /\ admitted' = TRUE
  /\ armed' = offsetsValid
  /\ Goto(IF offsetsValid THEN "readContext" ELSE "refused")
  /\ UNCHANGED <<ccer, moe, cen, ctxValid, frame, offsetsValid, pinVars, protVars,
                 load, modeVars, adcIrqOn, t6>>

-----------------------------------------------------------------------------
(* pwm_common_arm_preconditions and pwm_start_timers_direct.  Nothing is   *)
(* masked: an interrupt may run between any two of these steps.            *)

\* Mutant: the latch is not among the preconditions.
PassesNoFault(p) ==
  CASE p = "readContext"   -> ~PWM_IsEnabled /\ ctxValid
    [] p = "readFault"     -> ~ClockFail
    [] p = "readAdc"       -> armed
    [] p = "readInterlock" -> PWM_HardwareInterlockHealthy

Passes(p) ==
  CASE p = "readContext"   -> ~PWM_IsEnabled /\ ctxValid
    [] p = "readFault"     -> ~fault /\ ~ClockFail
    [] p = "readAdc"       -> armed
    [] p = "readInterlock" -> PWM_HardwareInterlockHealthy

\* PWM_EnableAutotune does not require the injected group.
AfterRead(p) ==
  CASE p = "readContext"   -> "readFault"
    [] p = "readFault"     -> IF op = "AT" THEN "readInterlock" ELSE "readAdc"
    [] p = "readAdc"       -> "readInterlock"
    [] p = "readInterlock" -> "ccer1"

ReadPrecondition(p) ==
  /\ MainRuns /\ pc = p
  /\ Goto(IF Passes(p) THEN AfterRead(p) ELSE "refused")
  /\ UNCHANGED <<stageVars, pinVars, permVars, protVars, load, modeVars, adcIrqOn, t6>>

AfterStore(s) ==
  CASE s = "ccer1" -> "ccer8" [] s = "ccer8" -> "moe1" [] s = "moe1" -> "moe8"
    [] s = "moe8" -> "cen8" [] s = "cen8" -> "cen1" [] s = "cen1" -> "commit"

StartTimer(s) ==
  /\ MainRuns /\ pc = s
  /\ StoreRegister(s)
  /\ Goto(AfterStore(s))
  /\ UNCHANGED <<pinVars, permVars, protVars, load, modeVars, adcIrqOn, t6>>

\* Back in the caller: the mode flag is set whatever happened meanwhile.
CommitRunning ==
  /\ MainRuns /\ pc = "commit"
  /\ focRunning' = (focRunning \/ op = "FOC")
  /\ vfcRunning' = (vfcRunning \/ op = "VF")
  /\ IF op = "AT" THEN Goto("measure") ELSE Finish
  /\ UNCHANGED <<stageVars, pinVars, permVars, protVars, load, alignActive, adcIrqOn, t6>>

\* The caller's cleanup after a refused PWM_Enable.
FocStartRefused ==
  /\ StartAt("FOC", "refused")
  /\ armed' = FALSE /\ frame' = "NOT_ARMED" /\ ctxValid' = FALSE
  /\ admitted' = FALSE
  /\ Finish
  /\ UNCHANGED <<ccer, moe, cen, offsetsValid, pinVars, protVars, load, modeVars,
                 adcIrqOn, t6>>

VfStartRefused ==
  /\ StartAt("VF", "refused")
  /\ VFC_Stop
  /\ ExitLoop
  /\ UNCHANGED <<pinVars, protVars, load, adcIrqOn, t6>>

AtStartRefused ==
  /\ StartAt("AT", "refused")
  /\ Goto("atEnd")
  /\ UNCHANGED <<stageVars, pinVars, permVars, protVars, load, modeVars, adcIrqOn, t6>>

-----------------------------------------------------------------------------
(* An autotune test: FOC is stopped, AT_SafetyCheck, AT_TestBegin,         *)
(* both_enable, the measurement, AT_TestEnd.                               *)

\* FOC is stopped before anything is checked.
AtStopsFoc ==
  /\ StartAt("AT", "atSafety") /\ focRunning
  /\ FOC_Stop
  /\ UNCHANGED <<pinVars, permVars, protVars, load, adcIrqOn, mainVars, t6>>

\* AT_SafetyCheck refuses before it has sampled: a fault, or V/f.
AtRefuses ==
  /\ StartAt("AT", "atSafety") /\ ~focRunning
  /\ fault \/ vfcRunning
  /\ adcIrqOn' = TRUE
  /\ Finish
  /\ UNCHANGED <<stageVars, pinVars, permVars, protVars, load, modeVars, t6>>

\* A sampled value out of its limits.
AtOutOfLimits ==
  /\ StartAt("AT", "atSafety") /\ ~focRunning
  /\ ~fault /\ ~vfcRunning
  /\ ADC_StartConversion
  /\ adcIrqOn' = TRUE
  /\ Finish
  /\ UNCHANGED <<pinVars, permVars, protVars, load, modeVars, t6>>

\* Sample, then calibrate; an align session's armed group refuses both.
AtSafe ==
  /\ StartAt("AT", "atSafety") /\ ~focRunning
  /\ ~fault /\ ~vfcRunning
  /\ offsetsValid' \in IF armed THEN {offsetsValid} ELSE BOOLEAN
  /\ frame' = IF armed THEN frame ELSE IF offsetsValid' THEN "SERVICE_BUSY" ELSE "INVALID"
  /\ Goto("atBegin")
  /\ UNCHANGED <<ccer, moe, cen, ctxValid, armed, admitted, pinVars, protVars, load,
                 modeVars, adcIrqOn, t6>>

AT_TestBegin ==
  /\ StartAt("AT", "atBegin")
  /\ PWM_Disable
  /\ Goto("atCalibrate")
  /\ UNCHANGED <<pinVars, permVars, protVars, load, modeVars, adcIrqOn, t6>>

AtCalibrates ==
  /\ StartAt("AT", "atCalibrate")
  /\ ADC_CalibrateOffsets
  /\ Goto("atPublish")
  /\ UNCHANGED <<pinVars, protVars, load, modeVars, adcIrqOn, t6>>

\* both_enable up to PWM_EnableAutotune: without a map the test is aborted.
AtPublish ==
  /\ StartAt("AT", "atPublish")
  /\ \/ ctxValid' = TRUE /\ Goto("readContext")
     \/ UNCHANGED ctxValid /\ Goto("refused")
  /\ UNCHANGED <<ccer, moe, cen, armed, frame, pinVars, permVars, protVars, load,
                 modeVars, adcIrqOn, t6>>

\* PWM_SetDuty invalidates the context, the current is a regular conversion.
AtMeasure ==
  /\ StartAt("AT", "measure")
  /\ ctxValid' = FALSE
  /\ frame' = IF armed THEN frame ELSE "SERVICE_BUSY"
  /\ Goto("atEnd")
  /\ UNCHANGED <<ccer, moe, cen, armed, pinVars, permVars, protVars, load,
                 modeVars, adcIrqOn, t6>>

\* AT_TestEnd, and run_at turns the ADC interrupt on again.
AT_TestEnd ==
  /\ StartAt("AT", "atEnd")
  /\ PWM_Disable
  /\ adcIrqOn' = TRUE
  /\ Finish
  /\ UNCHANGED <<pinVars, permVars, protVars, load, modeVars, t6>>

-----------------------------------------------------------------------------
(* The align aperture: its sections are masked.                            *)

AlignAdmits ==
  /\ ~PWM_IsEnabled /\ ~armed /\ ~fault /\ ~ClockFail
  /\ PWM_HardwareInterlockHealthy

AlignChecks ==
  /\ StartAt("AL", "alCheck")
  /\ IF AlignAdmits THEN pc' = "alArm" /\ masked' = TRUE /\ UNCHANGED op
                    ELSE Finish
  /\ UNCHANGED <<stageVars, pinVars, permVars, protVars, load, modeVars, adcIrqOn, t6>>

\* The masked section of PWM_AlignApertureStart: everything off, the status
\* registers cleared, the injected group armed, the counters started.
AlignArms ==
  /\ StartAt("AL", "alArm")
  /\ masked' = FALSE
  /\ ccer' = {} /\ moe' = {}
  /\ ctxValid' = FALSE /\ admitted' = FALSE
  /\ bif' \in {kept \in SUBSET bif : kept \subseteq sdLow}
  /\ armed' = offsetsValid
  /\ cen' = IF offsetsValid THEN Timers ELSE {}
  /\ alignActive' = offsetsValid
  /\ IF offsetsValid THEN pc' = "alMask" /\ UNCHANGED op ELSE pc' = "idle" /\ op' = "none"
  /\ UNCHANGED <<frame, sdLow, offsetsValid, protVars, load, focRunning, vfcRunning,
                 adcIrqOn, t6>>

\* PWM_AlignApertureSetVector: the session must still have its counters.
AlignMasks ==
  /\ StartAt("AL", "alMask")
  /\ IF alignActive /\ cen = Timers
     THEN pc' = "alRead" /\ masked' = TRUE
     ELSE pc' = "alStop" /\ UNCHANGED masked
  /\ UNCHANGED <<op, stageVars, pinVars, permVars, protVars, load, modeVars, adcIrqOn, t6>>

AlignReads ==
  /\ StartAt("AL", "alRead")
  /\ IF ~fault /\ PWM_HardwareInterlockHealthy
     THEN pc' = "alStore" /\ UNCHANGED masked /\ ctxValid' = FALSE /\ admitted' = FALSE
     ELSE pc' = "alStop" /\ masked' = FALSE /\ UNCHANGED <<ctxValid, admitted>>
  /\ UNCHANGED <<op, ccer, moe, cen, armed, frame, offsetsValid, pinVars, protVars,
                 load, modeVars, adcIrqOn, t6>>

AlignStores ==
  /\ StartAt("AL", "alStore")
  /\ ccer' = Timers
  /\ moe' = moe \cup {t \in Timers : MoeSettable(t)}
  /\ masked' = FALSE /\ pc' = "alRecheck"
  /\ UNCHANGED <<op, cen, ctxValid, armed, frame, pinVars, permVars, protVars, load,
                 modeVars, adcIrqOn, t6>>

\* The check after the mask is lifted.  On success `al' returns with the
\* vector on the windings.
AlignRechecks ==
  /\ StartAt("AL", "alRecheck")
  /\ IF fault \/ ~PWM_HardwareInterlockHealthy THEN Goto("alStop") ELSE Finish
  /\ UNCHANGED <<stageVars, pinVars, permVars, protVars, load, modeVars, adcIrqOn, t6>>

AlignFails ==
  /\ StartAt("AL", "alStop")
  /\ PWM_AlignApertureStop
  /\ alignActive' = FALSE
  /\ Finish
  /\ UNCHANGED <<pinVars, offsetsValid, protVars, load, focRunning, vfcRunning,
                 adcIrqOn, t6>>

-----------------------------------------------------------------------------
(* PROTECT_RequestClear.                                                   *)

\* The service sample must lie in the recovery window.
ClearSamples ==
  /\ MainRuns /\ pc = "clrSample"
  /\ ADC_StartConversion
  /\ Goto(IF load = "normal" THEN "clrMask" ELSE "idle")
  /\ UNCHANGED <<pinVars, permVars, protVars, load, modeVars, adcIrqOn, t6>>

ClearMasks ==
  /\ MainRuns /\ pc = "clrMask"
  /\ pc' = "clrCommit" /\ masked' = TRUE
  /\ UNCHANGED <<op, stageVars, pinVars, permVars, protVars, load, modeVars, adcIrqOn, t6>>

\* The last look at the lines and flags.  They may still change before the
\* stores: the mask holds off the break interrupt, not the break.
ClearChecks ==
  /\ MainRuns /\ pc = "clrCommit"
  /\ IF ClearRefused THEN pc' = "idle" /\ masked' = FALSE
                     ELSE pc' = "clrStore" /\ UNCHANGED masked
  /\ UNCHANGED <<op, stageVars, pinVars, permVars, protVars, load, modeVars, adcIrqOn, t6>>

ClearCommits ==
  /\ MainRuns /\ pc = "clrStore"
  /\ ClearCommit
  /\ masked' = FALSE
  /\ pc' = "clrCalibrate"
  /\ UNCHANGED <<op, stageVars, pinVars, permVars, load, modeVars, adcIrqOn, t6>>

\* 'f' recalibrates the offsets after a successful clear.
ClearCalibrates ==
  /\ MainRuns /\ pc = "clrCalibrate"
  /\ ADC_CalibrateOffsets
  /\ Finish
  /\ UNCHANGED <<pinVars, protVars, load, modeVars, adcIrqOn, t6>>

-----------------------------------------------------------------------------
FocStartStep == FocReturns \/ FocPasses \/ FocCalibrationFails \/ FocArms \/ FocStartRefused
VfStartStep  == VfRefused \/ VfPasses \/ VfArms \/ VfStartRefused
EnableStep   == \/ SetControlVector
                \/ \E p \in Reads : ReadPrecondition(p)
                \/ \E s \in Stores : StartTimer(s)
                \/ CommitRunning
AutotuneStep == AtStopsFoc \/ AtRefuses \/ AtOutOfLimits \/ AtSafe \/ AT_TestBegin \/ AtCalibrates
                  \/ AtPublish \/ AtStartRefused \/ AtMeasure \/ AT_TestEnd
AlignStep    == AlignChecks \/ AlignArms \/ AlignMasks \/ AlignReads \/ AlignStores
                  \/ AlignRechecks \/ AlignFails
ClearStep    == ClearSamples \/ ClearMasks \/ ClearChecks \/ ClearCommits \/ ClearCalibrates
CommandStep  == CmdFocStart \/ CmdFocStop \/ CmdVfStart \/ CmdVfStop \/ CmdAutotune
                  \/ CmdAlign \/ CmdAlignOff \/ CmdClear \/ CmdCalibrate \/ CmdSample

Main == FocStartStep \/ VfStartStep \/ EnableStep \/ AutotuneStep \/ AlignStep
          \/ ClearStep \/ CommandStep

Adc == AdcRunFrame \/ AdcGivesUp \/ \E usable \in BOOLEAN : AdcPublish(usable) \/ AdcTrip(usable)

Quiet == UNCHANGED <<modeVars, adcIrqOn, mainVars, t6>>

Pins == \/ \E t \in Timers : (SdFall(t) \/ SdRise(t)) /\ UNCHANGED <<protVars, load>> /\ Quiet
        \/ LoadChanges /\ Quiet

Next == Main \/ Tim6 \/ Adc \/ (\E t \in Timers : BreakIsr(t)) \/ Pins

\* The 1 kHz timer keeps interrupting and the break interrupts are served.
\* Nothing is assumed of the main loop, the operator or the load.
Fairness == WF_vars(Tim6) /\ \A t \in Timers : WF_vars(BreakIsr(t))

Spec == Init /\ [][Next]_vars
FairSpec == Spec /\ Fairness
=============================================================================
