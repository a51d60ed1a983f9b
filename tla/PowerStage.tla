----------------------------- MODULE PowerStage -----------------------------
(***************************************************************************)
(* The two three-phase bridges of the open-end-winding drive and the part  *)
(* of pwm.c and adc.c that decides whether they may switch.  TIM1 and TIM8 *)
(* each drive one bridge.  A bridge is electrically live when its channel  *)
(* enables (CCER), its main output enable (MOE) and its counter (CEN) are  *)
(* all set.  SD1/SD2, the shutdown lines of the power modules, are wired   *)
(* straight to the break inputs of the two timers.                         *)
(*                                                                         *)
(* The module declares the registers and the ADC admission flags, and one  *)
(* operator per function; who calls them, and from which context, is in    *)
(* the modules that extend this one.                                       *)
(***************************************************************************)
EXTENDS FiniteSets

CONSTANTS BreakInput,   \* ~OEW_SD_MONITOR_ONLY: SD low trips the timer break
          ClockFail     \* g_clock_fail: PLL or ADC did not come up at boot

ASSUME StageAssumption == BreakInput \in BOOLEAN /\ ClockFail \in BOOLEAN

Timers == {"TIM1", "TIM8"}

\* AdcFrameStatus as far as its readers tell it apart: INVALID stands for the
\* overruns, the desynchronisation, the saturation and the refused windows.
FrameStatuses == {"VALID", "INVALID", "NOT_ARMED", "SERVICE_BUSY"}

VARIABLES
  ccer, moe, cen,     \* the timers whose CCER / MOE / CEN bits are set
  ctxValid,           \* pwm_pending_context.valid, copied to the ADC
  armed,              \* ADC1 JADSTART: the injected group waits for TRGO
  frame,              \* status of latest_frame
  sdLow,              \* the timers whose SD line is low
  bif,                \* the timers with BIF/B2IF set
  admitted,           \* control_admitted
  offsetsValid        \* offsets_valid

stageVars == <<ccer, moe, cen, ctxValid, armed, frame>>
pinVars   == <<sdLow, bif>>
permVars  == <<admitted, offsetsValid>>

Live == ccer \cap moe \cap cen

StageTypeOK ==
  /\ ccer \subseteq Timers /\ moe \subseteq Timers /\ cen \subseteq Timers
  /\ sdLow \subseteq Timers /\ bif \subseteq Timers
  /\ ctxValid \in BOOLEAN /\ armed \in BOOLEAN
  /\ admitted \in BOOLEAN /\ offsetsValid \in BOOLEAN
  /\ frame \in FrameStatuses

StageInit ==
  /\ ccer = {} /\ moe = {} /\ cen = {}
  /\ sdLow = {} /\ bif = {}
  /\ ctxValid = FALSE /\ armed = FALSE /\ admitted = FALSE /\ offsetsValid = FALSE
  /\ frame = "NOT_ARMED"

-----------------------------------------------------------------------------
(* What the code reads.                                                    *)

PWM_BreakFaultActive == bif # {} \/ (BreakInput /\ sdLow # {})

PWM_HardwareInterlockHealthy == sdLow = {} /\ ~PWM_BreakFaultActive

PWM_IsEnabled == cen = Timers /\ moe = Timers /\ PWM_HardwareInterlockHealthy

\* adc_frame_status for samples that are usable or not
ADC_FrameStatus(usable) ==
  IF usable /\ offsetsValid /\ ctxValid /\ admitted THEN "VALID" ELSE "INVALID"

-----------------------------------------------------------------------------
(* What the code writes.                                                   *)

PWM_DisableKeepsCounters ==
  /\ moe' = {} /\ ccer' = {}
  /\ ctxValid' = FALSE
  /\ armed' = FALSE /\ frame' = "NOT_ARMED"
  /\ UNCHANGED cen

\* The central stop: counters, MOE and channels off, the sample context
\* invalid, the injected group stopped (which publishes a NOT_ARMED frame).
PWM_Disable ==
  /\ cen' = {} /\ moe' = {} /\ ccer' = {}
  /\ ctxValid' = FALSE
  /\ armed' = FALSE /\ frame' = "NOT_ARMED"

\* The align session's own stop, under PRIMASK.
PWM_AlignApertureStop == PWM_Disable /\ admitted' = FALSE

\* The stores of pwm_start_timers_direct.  Hardware ignores an MOE store on a
\* timer whose break input is active.
Stores == {"ccer1", "ccer8", "moe1", "moe8", "cen8", "cen1"}

MoeSettable(t) == ~(BreakInput /\ t \in sdLow)

\* The timer that store s is for, among the stores to TIM1 and to TIM8.
Stored(s, to1, to8) == IF s = to1 THEN {"TIM1"} ELSE IF s = to8 THEN {"TIM8"} ELSE {}

StoreRegister(s) ==
  /\ ccer' = ccer \cup Stored(s, "ccer1", "ccer8")
  /\ moe' = moe \cup {t \in Stored(s, "moe1", "moe8") : MoeSettable(t)}
  /\ cen' = cen \cup Stored(s, "cen1", "cen8")
  /\ UNCHANGED <<ctxValid, armed, frame>>

\* A regular conversion of the four inputs; refused while the injected group
\* is armed.
ADC_StartConversion ==
  /\ frame' = IF armed THEN frame ELSE "SERVICE_BUSY"
  /\ UNCHANGED <<ccer, moe, cen, ctxValid, armed>>

\* ADC_CalibrateOffsets, called with the injected group stopped: too few
\* usable samples invalidate the offsets and publish an error frame.
ADC_CalibrateOffsets ==
  /\ offsetsValid' \in BOOLEAN
  /\ frame' = IF offsetsValid' THEN frame ELSE "INVALID"
  /\ UNCHANGED <<ccer, moe, cen, ctxValid, armed, admitted>>

-----------------------------------------------------------------------------
(* The shutdown lines.                                                     *)

\* SD of bridge t falls: the break input removes MOE in hardware and raises
\* BIF.  A monitor-only build has the break input disabled.
SdFall(t) ==
  /\ t \notin sdLow
  /\ sdLow' = sdLow \cup {t}
  /\ IF BreakInput THEN moe' = moe \ {t} /\ bif' = bif \cup {t}
                   ELSE UNCHANGED <<moe, bif>>
  /\ UNCHANGED <<ccer, cen, ctxValid, armed, frame, permVars>>

\* The power module releases its SD line by itself; MOE stays off.
SdRise(t) ==
  /\ t \in sdLow
  /\ sdLow' = sdLow \ {t}
  /\ UNCHANGED <<bif, stageVars, permVars>>
=============================================================================
