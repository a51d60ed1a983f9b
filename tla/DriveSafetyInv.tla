--------------------------- MODULE DriveSafetyInv ---------------------------
(***************************************************************************)
(* The inductive invariant behind the safety properties of DriveSafety.    *)
(* Each conjunct says what the main loop, stopped at some place of a       *)
(* sequence, may still rely on although interrupts ran in between.         *)
(***************************************************************************)
EXTENDS DriveSafetyProps

StartPlaces == {"vector", "arm", "refused", "commit"} \cup Reads \cup Stores
TestPlaces  == {"atSafety", "atBegin", "atCalibrate", "atPublish", "measure", "atEnd"}
AlignPlaces == {"alCheck", "alArm", "alMask", "alRead", "alStore", "alRecheck", "alStop"}
ClearPlaces == {"clrSample", "clrMask", "clrCommit", "clrStore", "clrCalibrate"}

\* Which command the main loop executes where.
OpAtPlace ==
  /\ pc \in {"idle", "exited"} \cup ClearPlaces => op = "none"
  /\ pc \in {"check", "vector", "arm", "readAdc"} => op \in {"FOC", "VF"}
  /\ pc \in StartPlaces => op \in {"FOC", "VF", "AT"}
  /\ pc \in TestPlaces => op = "AT"
  /\ pc \in AlignPlaces => op = "AL"

MaskAtPlace ==
  /\ masked <=> pc \in {"alArm", "alRead", "alStore", "clrCommit", "clrStore"}
  /\ t6 # "idle" => ~masked

\* The mode flags while a command is executed.
ModesAtPlace ==
  /\ ~(focRunning /\ vfcRunning)
  /\ pc \in StartPlaces \cup AlignPlaces \cup ClearPlaces \cup (TestPlaces \ {"atSafety"})
        => ~focRunning /\ ~vfcRunning
  /\ pc = "check" /\ op = "FOC" => ~vfcRunning
  /\ pc = "check" /\ op = "VF" => ~focRunning
  /\ pc = "exited" => ~focRunning
  /\ t6 = "sampled" => vfcRunning

\* No counter runs before the counter stores, nor after the loop was left.
DarkBeforeStart ==
  pc \in {"exited", "check", "vector", "arm", "refused", "atCalibrate", "atPublish"} \cup Reads
           \cup (Stores \ {"cen1"}) => cen = {}

\* A running counter has an owner, or a start sequence that will have one.
CountersCovered ==
  cen # {} => \/ focRunning \/ vfcRunning
              \/ alignActive /\ armed
              \/ pc \in {"cen1", "commit", "measure", "atEnd"}

\* Neither the clear nor an autotune test runs with the injected group armed.
DisarmedAtPlace ==
  /\ pc \in ClearPlaces => ~armed
  /\ op = "AT" /\ pc \notin {"atSafety", "atBegin"} => ~armed

\* Only an autotune test has the ADC interrupt off.
InterruptOff == ~adcIrqOn => op = "AT"

\* A line that has fallen since the clear's last look at it has its break
\* pending, until the break interrupt has latched again.
ClearKeepsBreak ==
  BreakInput /\ (pc = "clrStore" \/ (pc = "clrCalibrate" /\ ~fault)) => sdLow \subseteq bif

\* Without a fault nothing has undone what a FOC start set up.
FocSetUp ==
  ~fault /\ pc \in {"commit"} \cup Reads \cup Stores /\ op = "FOC" => armed /\ admitted

FocCovered ==
  focRunning /\ cen # {} /\ ~fault => armed /\ admitted

\* A fault found by TIM6's own stop leaves no frame to check.
CheckedFrame == t6 = "updated" /\ ~armed /\ fault => frame = "NOT_ARMED"

Debounce == ~fault => vbusOver < VbusOverCnt

ControlInv ==
  /\ OpAtPlace /\ MaskAtPlace /\ ModesAtPlace
  /\ DarkBeforeStart /\ CountersCovered /\ DisarmedAtPlace
  /\ LatchedMeansDisarmed /\ ClearKeepsBreak

SupervisionInv == InterruptOff /\ FocSetUp /\ FocCovered

TypeInv == TypeOK /\ CheckedFrame /\ Debounce

Inv == TypeInv /\ ControlInv /\ SupervisionInv
=============================================================================
