------------------------------ MODULE Protect ------------------------------
(***************************************************************************)
(* protect.c: the terminal software fault latch, the value limits that set *)
(* it and the overvoltage debounce.  load is the electrical situation the  *)
(* sensors report; it moves by itself.                                     *)
(***************************************************************************)
EXTENDS PowerStage, Integers

CONSTANT VbusOverCnt    \* PROTECT_VBUS_OVERCNT

ASSUME ProtectAssumption == VbusOverCnt \in Nat \ {0}

Loads == {"normal", "overCurrent", "vbusHigh", "vbusLow"}

VARIABLES
  fault,      \* the latch
  vbusOver,   \* vbus_over_count
  load        \* what a sample taken now would show

protVars == <<fault, vbusOver>>

ProtectTypeOK ==
  /\ fault \in BOOLEAN
  /\ vbusOver \in 0..VbusOverCnt
  /\ load \in Loads

ProtectInit == fault = FALSE /\ vbusOver = 0 /\ load = "normal"

\* protect_check_values decides to latch.
OutOfRange ==
  \/ load \in {"overCurrent", "vbusLow"}
  \/ load = "vbusHigh" /\ vbusOver + 1 >= VbusOverCnt

\* An overcurrent returns before the counter is touched; a bus voltage that
\* is not too high clears it.
CountVbus ==
  vbusOver' = CASE load = "overCurrent" -> vbusOver
                [] load = "vbusHigh"    -> vbusOver + 1
                [] OTHER                -> 0

\* protect_latch: only the first fault stops the stage, the latch is sticky.
Latch ==
  /\ fault' = TRUE
  /\ IF fault THEN UNCHANGED stageVars ELSE PWM_Disable

\* protect_check_values on the values of a fresh sample.
CheckValues ==
  /\ CountVbus
  /\ IF OutOfRange THEN Latch ELSE UNCHANGED <<fault, stageVars>>

\* PROTECT_Check, the service path: the newest frame must be VALID or
\* SERVICE_BUSY, and the bus voltage must come from a regular conversion,
\* which an armed injected group refuses.
PROTECT_CheckReads == frame \in {"VALID", "SERVICE_BUSY"} /\ ~armed

PROTECT_Check ==
  IF PROTECT_CheckReads THEN CheckValues ELSE UNCHANGED <<protVars, stageVars>>

\* Mutant: the commit trusts the SD lines read before the sample.
ClearRefusedByFlags == bif # {}

\* PROTECT_RequestClear's last look, under PRIMASK: the SD lines, then TIM1's
\* and TIM8's break flags.  A flag raised between these reads is as good as one
\* raised after them: nothing clears it while the interrupts are masked.
ClearRefused == sdLow # {} \/ bif # {}

\* The stores that follow the look, still under PRIMASK.
ClearCommit == fault' = FALSE /\ vbusOver' = 0

\* The environment moves the load.
LoadChanges ==
  /\ load' \in Loads \ {load}
  /\ UNCHANGED <<protVars, stageVars, pinVars, permVars>>
=============================================================================
