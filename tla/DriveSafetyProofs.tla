-------------------------- MODULE DriveSafetyProofs --------------------------
(***************************************************************************)
(* The theorems about DriveSafety: its invariant and what follows from it, *)
(* that it implements AdmissionLatch, and then those about the capture     *)
(* session that MapCapture composes with it (CaptureSpec).                 *)
(***************************************************************************)
EXTENDS DriveSafetyInv, CaptureProps, TLAPS

USE DEF stageVars, pinVars, permVars, protVars, modeVars, mainVars

LEMMA CountInRange ==
  ASSUME ProtectTypeOK, Debounce, ~fault, CountVbus
  PROVE  /\ vbusOver' \in 0..VbusOverCnt
         /\ ~OutOfRange => vbusOver' < VbusOverCnt
<1> USE ProtectAssumption DEF ProtectTypeOK, Debounce, CountVbus, OutOfRange
<1>1. CASE load = "overCurrent" BY <1>1
<1>2. CASE load = "vbusHigh" BY <1>2
<1>3. CASE load \notin {"overCurrent", "vbusHigh"} BY <1>3
<1> QED BY <1>1, <1>2, <1>3

\* FOC_Start outside PWM_Enable preserves the invariant.
LEMMA FocStartPreserves == ASSUME Inv, FocStartStep PROVE Inv'
<1> USE DEF Inv, TypeInv, TypeOK, ControlInv, SupervisionInv, FocStartStep, FocReturns,
    MainRuns, StartAt, Finish, FocPasses, Goto, FocCalibrationFails, FocArms,
    FocStartRefused
<1>1. PlaceTypeOK' BY DEF Places, Ops, Reads, Stores, PlaceTypeOK
<1>2. ModeTypeOK' BY DEF ModeTypeOK
<1>3. StageTypeOK' BY DEF StageTypeOK, FrameStatuses, Timers
<1>4. ProtectTypeOK' BY DEF ProtectTypeOK
<1>5. Debounce' BY DEF ProtectTypeOK, Debounce
<1>6. CheckedFrame' BY DEF StageTypeOK, ProtectTypeOK, CheckedFrame, MaskAtPlace
<1>7. OpAtPlace'
  BY DEF OpAtPlace, StartPlaces, TestPlaces, AlignPlaces, ClearPlaces, Places, Ops,
      Reads, Stores, PlaceTypeOK
<1>8. MaskAtPlace' BY DEF MaskAtPlace, ModeTypeOK, Places, Ops, Reads, Stores, PlaceTypeOK
<1>9. ModesAtPlace'
  BY DEF ModesAtPlace, OpAtPlace, ModeTypeOK, StartPlaces, TestPlaces, AlignPlaces,
      ClearPlaces, Places, Ops, Reads, Stores, PlaceTypeOK
<1>10. DarkBeforeStart'
  BY DEF DarkBeforeStart, ModesAtPlace, OpAtPlace, StageTypeOK, Timers, StartPlaces,
      TestPlaces, AlignPlaces, ClearPlaces, Places, Ops, Reads, Stores, PlaceTypeOK
<1>11. CountersCovered'
  BY DEF CountersCovered, DarkBeforeStart, ModesAtPlace, OpAtPlace, StageTypeOK,
      ModeTypeOK, Timers, StartPlaces, TestPlaces, AlignPlaces, ClearPlaces, Places,
      Ops, Reads, Stores, PlaceTypeOK
<1>12. DisarmedAtPlace'
  BY DEF DisarmedAtPlace, ModesAtPlace, OpAtPlace, StageTypeOK, StartPlaces, TestPlaces,
      AlignPlaces, ClearPlaces, Places, Ops, Reads, Stores, PlaceTypeOK
<1>13. LatchedMeansDisarmed'
  BY DEF LatchedMeansDisarmed, DisarmedAtPlace, OpAtPlace, ModesAtPlace, MaskAtPlace,
      StageTypeOK, ProtectTypeOK, StartPlaces, TestPlaces, AlignPlaces, ClearPlaces,
      Places, Ops, Reads, Stores, PlaceTypeOK
<1>14. InterruptOff'
  BY DEF InterruptOff, OpAtPlace, ModeTypeOK, StartPlaces, TestPlaces, AlignPlaces,
      ClearPlaces, Places, Ops, Reads, Stores, PlaceTypeOK
<1>15. FocSetUp'
  BY DEF FocSetUp, ModesAtPlace, OpAtPlace, StageTypeOK, ProtectTypeOK, StartPlaces,
      TestPlaces, AlignPlaces, ClearPlaces, Places, Ops, Reads, Stores, PlaceTypeOK
<1>16. FocCovered'
  BY DEF FocCovered, FocSetUp, DarkBeforeStart, ModesAtPlace, OpAtPlace, StageTypeOK,
      ModeTypeOK, ProtectTypeOK, Timers, StartPlaces, TestPlaces, AlignPlaces,
      ClearPlaces, Places, Ops, Reads, Stores, PlaceTypeOK
<1>17. ClearKeepsBreak'
  BY DEF ClearKeepsBreak, OpAtPlace, MaskAtPlace, ProtectTypeOK, StartPlaces, TestPlaces,
      AlignPlaces, ClearPlaces, Places, Ops, Reads, Stores, PlaceTypeOK
<1> QED BY <1>1, <1>2, <1>3, <1>4, <1>5, <1>6, <1>7, <1>8, <1>9, <1>10, <1>11, <1>12, <1>13, <1>14, <1>15, <1>16, <1>17

\* VFC_Start outside PWM_Enable preserves the invariant.
LEMMA VfStartPreserves == ASSUME Inv, VfStartStep PROVE Inv'
<1> USE DEF Inv, TypeInv, TypeOK, ControlInv, SupervisionInv, VfStartStep, VfRefused,
    MainRuns, StartAt, ExitLoop, VFC_Stop, PWM_Disable, VfPasses, Goto, VfArms,
    VfStartRefused
<1>1. PlaceTypeOK' BY DEF Places, Ops, Reads, Stores, PlaceTypeOK
<1>2. ModeTypeOK' BY DEF ModeTypeOK
<1>3. StageTypeOK' BY DEF StageTypeOK, FrameStatuses, Timers
<1>4. ProtectTypeOK' BY DEF ProtectTypeOK
<1>5. Debounce' BY DEF ProtectTypeOK, Debounce
<1>6. CheckedFrame' BY DEF StageTypeOK, ProtectTypeOK, CheckedFrame, MaskAtPlace
<1>7. OpAtPlace'
  BY DEF OpAtPlace, StartPlaces, TestPlaces, AlignPlaces, ClearPlaces, Places, Ops,
      Reads, Stores, PlaceTypeOK
<1>8. MaskAtPlace' BY DEF MaskAtPlace, ModeTypeOK, Places, Ops, Reads, Stores, PlaceTypeOK
<1>9. ModesAtPlace'
  BY DEF ModesAtPlace, OpAtPlace, ModeTypeOK, StartPlaces, TestPlaces, AlignPlaces,
      ClearPlaces, Places, Ops, Reads, Stores, PlaceTypeOK
<1>10. DarkBeforeStart'
  BY DEF DarkBeforeStart, ModesAtPlace, OpAtPlace, StageTypeOK, Timers, StartPlaces,
      TestPlaces, AlignPlaces, ClearPlaces, Places, Ops, Reads, Stores, PlaceTypeOK
<1>11. CountersCovered'
  BY DEF CountersCovered, DarkBeforeStart, ModesAtPlace, OpAtPlace, StageTypeOK,
      ModeTypeOK, Timers, StartPlaces, TestPlaces, AlignPlaces, ClearPlaces, Places,
      Ops, Reads, Stores, PlaceTypeOK
<1>12. DisarmedAtPlace'
  BY DEF DisarmedAtPlace, ModesAtPlace, OpAtPlace, StageTypeOK, StartPlaces, TestPlaces,
      AlignPlaces, ClearPlaces, Places, Ops, Reads, Stores, PlaceTypeOK
<1>13. LatchedMeansDisarmed'
  BY DEF LatchedMeansDisarmed, DisarmedAtPlace, OpAtPlace, ModesAtPlace, MaskAtPlace,
      StageTypeOK, ProtectTypeOK, StartPlaces, TestPlaces, AlignPlaces, ClearPlaces,
      Places, Ops, Reads, Stores, PlaceTypeOK
<1>14. InterruptOff'
  BY DEF InterruptOff, OpAtPlace, ModeTypeOK, StartPlaces, TestPlaces, AlignPlaces,
      ClearPlaces, Places, Ops, Reads, Stores, PlaceTypeOK
<1>15. FocSetUp'
  BY DEF FocSetUp, ModesAtPlace, OpAtPlace, StageTypeOK, ProtectTypeOK, StartPlaces,
      TestPlaces, AlignPlaces, ClearPlaces, Places, Ops, Reads, Stores, PlaceTypeOK
<1>16. FocCovered'
  BY DEF FocCovered, FocSetUp, DarkBeforeStart, ModesAtPlace, OpAtPlace, StageTypeOK,
      ModeTypeOK, ProtectTypeOK, Timers, StartPlaces, TestPlaces, AlignPlaces,
      ClearPlaces, Places, Ops, Reads, Stores, PlaceTypeOK
<1>17. ClearKeepsBreak'
  BY DEF ClearKeepsBreak, OpAtPlace, MaskAtPlace, ProtectTypeOK, StartPlaces, TestPlaces,
      AlignPlaces, ClearPlaces, Places, Ops, Reads, Stores, PlaceTypeOK
<1> QED BY <1>1, <1>2, <1>3, <1>4, <1>5, <1>6, <1>7, <1>8, <1>9, <1>10, <1>11, <1>12, <1>13, <1>14, <1>15, <1>16, <1>17

LEMMA EnableKeepsModes == ASSUME ModeTypeOK, EnableStep PROVE ModeTypeOK'
<1> USE DEF MainRuns, Goto, Finish
<1>1. CASE CommitRunning
  <2>1. focRunning' \in BOOLEAN /\ vfcRunning' \in BOOLEAN
    BY Zenon, <1>1 DEF CommitRunning
  <2>2. UNCHANGED <<alignActive, adcIrqOn, masked>>
    BY <1>1 DEF CommitRunning
  <2> QED BY <2>1, <2>2, Zenon DEF ModeTypeOK
<1>2. CASE UNCHANGED <<modeVars, adcIrqOn, masked>>
  BY <1>2 DEF ModeTypeOK
<1>3. CASE SetControlVector BY <1>2, <1>3 DEF SetControlVector
<1>4. ASSUME NEW p \in Reads, ReadPrecondition(p) PROVE ModeTypeOK'
  BY <1>2, <1>4 DEF ReadPrecondition
<1>5. ASSUME NEW r \in Stores, StartTimer(r) PROVE ModeTypeOK'
  BY <1>2, <1>5 DEF StartTimer
<1> QED BY <1>1, <1>3, <1>4, <1>5 DEF EnableStep

LEMMA EnableKeepsStage == ASSUME StageTypeOK, EnableStep PROVE StageTypeOK'
<1> USE DEF MainRuns
<1>1. CASE UNCHANGED <<stageVars, pinVars, permVars>>
  BY <1>1 DEF StageTypeOK
<1>2. CASE CommitRunning BY <1>1, <1>2 DEF CommitRunning
<1>3. CASE SetControlVector
  <2>1. ctxValid' = TRUE /\ UNCHANGED <<ccer, moe, cen, armed, frame, pinVars, permVars>>
    BY <1>3 DEF SetControlVector
  <2> QED BY <2>1 DEF StageTypeOK
<1>4. ASSUME NEW p \in Reads, ReadPrecondition(p) PROVE StageTypeOK'
  BY <1>1, <1>4 DEF ReadPrecondition
<1>5. ASSUME NEW r \in Stores, StartTimer(r) PROVE StageTypeOK'
  <2>1. StoreRegister(r) /\ UNCHANGED <<pinVars, permVars>>
    BY <1>5 DEF StartTimer
  <2>2. ccer' \subseteq Timers /\ moe' \subseteq Timers /\ cen' \subseteq Timers
    BY <2>1 DEF StageTypeOK, StoreRegister, Stored, Timers
  <2> QED BY <2>1, <2>2 DEF StageTypeOK, StoreRegister
<1> QED BY <1>2, <1>3, <1>4, <1>5 DEF EnableStep

\* PWM_Enable and the commit of the mode flag preserves the invariant.
LEMMA EnablePreserves == ASSUME Inv, EnableStep PROVE Inv'
<1> USE DEF Inv, TypeInv, TypeOK, ControlInv, SupervisionInv, EnableStep,
    SetControlVector, MainRuns, Goto, ReadPrecondition, AfterRead, Passes, StartTimer,
    AfterStore, StoreRegister, Stored, CommitRunning, Finish
<1>1. PlaceTypeOK' BY DEF Places, Ops, Reads, Stores, PlaceTypeOK
<1>2. ModeTypeOK' BY EnableKeepsModes
<1>3. StageTypeOK' BY EnableKeepsStage
<1>4. ProtectTypeOK' BY DEF ProtectTypeOK
<1>5. Debounce' BY DEF ProtectTypeOK, Debounce
<1>6. CheckedFrame' BY DEF StageTypeOK, ProtectTypeOK, CheckedFrame, MaskAtPlace
<1>7. OpAtPlace'
  BY DEF OpAtPlace, StartPlaces, TestPlaces, AlignPlaces, ClearPlaces, Places, Ops,
      Reads, Stores, PlaceTypeOK
<1>8. MaskAtPlace' BY DEF MaskAtPlace, ModeTypeOK, Places, Ops, Reads, Stores, PlaceTypeOK
<1>9. ModesAtPlace'
  BY DEF ModesAtPlace, OpAtPlace, ModeTypeOK, StartPlaces, TestPlaces, AlignPlaces,
      ClearPlaces, Places, Ops, Reads, Stores, PlaceTypeOK
<1>10. DarkBeforeStart'
  BY DEF DarkBeforeStart, ModesAtPlace, OpAtPlace, StageTypeOK, Timers, StartPlaces,
      TestPlaces, AlignPlaces, ClearPlaces, Places, Ops, Reads, Stores, PlaceTypeOK
<1>11. CountersCovered'
  <2> SUFFICES ASSUME cen' # {} PROVE CountersCovered' BY DEF CountersCovered
  <2>1. CASE SetControlVector \/ \E p \in Reads : ReadPrecondition(p)
    <3>1. cen' = cen /\ pc \in {"vector"} \cup Reads BY <2>1 DEF Reads
    <3>2. cen = {} BY <3>1 DEF DarkBeforeStart, Reads, StartPlaces
    <3> QED BY <3>1, <3>2
  <2>2. ASSUME NEW r \in Stores, StartTimer(r) PROVE CountersCovered'
    <3>1. pc = r /\ pc' = AfterStore(r) /\ cen' = cen \cup Stored(r, "cen1", "cen8") BY <2>2
    <3>2. r \in {"cen8", "cen1"}
      BY <3>1 DEF DarkBeforeStart, Stores, StartPlaces
    <3>3. pc' \in {"cen1", "commit"} BY <3>1, <3>2
    <3> QED BY <3>3 DEF CountersCovered
  <2>3. CASE CommitRunning
    <3>1. op \in {"FOC", "VF", "AT"} BY <2>3 DEF OpAtPlace, StartPlaces
    <3>2. pc' = "measure" \/ focRunning' \/ vfcRunning' BY <2>3, <3>1
    <3> QED BY <3>2, Zenon DEF CountersCovered
  <2> QED BY <2>1, <2>2, <2>3 DEF CountersCovered
<1>12. DisarmedAtPlace'
  BY DEF DisarmedAtPlace, ModesAtPlace, OpAtPlace, StageTypeOK, StartPlaces, TestPlaces,
      AlignPlaces, ClearPlaces, Places, Ops, Reads, Stores, PlaceTypeOK
<1>13. LatchedMeansDisarmed'
  BY DEF LatchedMeansDisarmed, DisarmedAtPlace, OpAtPlace, ModesAtPlace, MaskAtPlace,
      StageTypeOK, ProtectTypeOK, StartPlaces, TestPlaces, AlignPlaces, ClearPlaces,
      Places, Ops, Reads, Stores, PlaceTypeOK
<1>14. InterruptOff'
  BY DEF InterruptOff, OpAtPlace, ModeTypeOK, StartPlaces, TestPlaces, AlignPlaces,
      ClearPlaces, Places, Ops, Reads, Stores, PlaceTypeOK
<1>15. FocSetUp'
  BY DEF FocSetUp, ModesAtPlace, OpAtPlace, StageTypeOK, ProtectTypeOK, StartPlaces,
      TestPlaces, AlignPlaces, ClearPlaces, Places, Ops, Reads, Stores, PlaceTypeOK
<1>16. FocCovered'
  BY DEF FocCovered, FocSetUp, DarkBeforeStart, ModesAtPlace, OpAtPlace, StageTypeOK,
      ModeTypeOK, ProtectTypeOK, Timers, StartPlaces, TestPlaces, AlignPlaces,
      ClearPlaces, Places, Ops, Reads, Stores, PlaceTypeOK
<1>17. ClearKeepsBreak'
  BY DEF ClearKeepsBreak, OpAtPlace, MaskAtPlace, ProtectTypeOK, StartPlaces, TestPlaces,
      AlignPlaces, ClearPlaces, Places, Ops, Reads, Stores, PlaceTypeOK
<1> QED BY <1>1, <1>2, <1>3, <1>4, <1>5, <1>6, <1>7, <1>8, <1>9, <1>10, <1>11, <1>12, <1>13, <1>14, <1>15, <1>16, <1>17

\* An autotune test preserves the invariant.
LEMMA AutotunePreserves == ASSUME Inv, AutotuneStep PROVE Inv'
<1> USE DEF Inv, TypeInv, TypeOK, ControlInv, SupervisionInv, AutotuneStep, AtStopsFoc,
    MainRuns, StartAt, FOC_Stop, PWM_Disable, AtRefuses, Finish, AtOutOfLimits,
    ADC_StartConversion, AtSafe, Goto, AT_TestBegin, AtCalibrates, ADC_CalibrateOffsets,
    AtPublish, AtStartRefused, AtMeasure, AT_TestEnd
<1>1. PlaceTypeOK' BY DEF Places, Ops, Reads, Stores, PlaceTypeOK
<1>2. ModeTypeOK' BY DEF ModeTypeOK
<1>3. StageTypeOK' BY DEF StageTypeOK, FrameStatuses, Timers
<1>4. ProtectTypeOK' BY DEF ProtectTypeOK
<1>5. Debounce' BY DEF ProtectTypeOK, Debounce
<1>6. CheckedFrame' BY DEF StageTypeOK, ProtectTypeOK, CheckedFrame, MaskAtPlace
<1>7. OpAtPlace'
  BY DEF OpAtPlace, StartPlaces, TestPlaces, AlignPlaces, ClearPlaces, Places, Ops,
      Reads, Stores, PlaceTypeOK
<1>8. MaskAtPlace' BY DEF MaskAtPlace, ModeTypeOK, Places, Ops, Reads, Stores, PlaceTypeOK
<1>9. ModesAtPlace'
  BY DEF ModesAtPlace, OpAtPlace, ModeTypeOK, StartPlaces, TestPlaces, AlignPlaces,
      ClearPlaces, Places, Ops, Reads, Stores, PlaceTypeOK
<1>10. DarkBeforeStart'
  BY DEF DarkBeforeStart, ModesAtPlace, OpAtPlace, StageTypeOK, Timers, StartPlaces,
      TestPlaces, AlignPlaces, ClearPlaces, Places, Ops, Reads, Stores, PlaceTypeOK
<1>11. CountersCovered'
  BY DEF CountersCovered, DarkBeforeStart, ModesAtPlace, OpAtPlace, StageTypeOK,
      ModeTypeOK, Timers, StartPlaces, TestPlaces, AlignPlaces, ClearPlaces, Places,
      Ops, Reads, Stores, PlaceTypeOK
<1>12. DisarmedAtPlace'
  BY DEF DisarmedAtPlace, ModesAtPlace, OpAtPlace, StageTypeOK, StartPlaces, TestPlaces,
      AlignPlaces, ClearPlaces, Places, Ops, Reads, Stores, PlaceTypeOK
<1>13. LatchedMeansDisarmed'
  BY DEF LatchedMeansDisarmed, DisarmedAtPlace, OpAtPlace, ModesAtPlace, MaskAtPlace,
      StageTypeOK, ProtectTypeOK, StartPlaces, TestPlaces, AlignPlaces, ClearPlaces,
      Places, Ops, Reads, Stores, PlaceTypeOK
<1>14. InterruptOff'
  BY DEF InterruptOff, OpAtPlace, ModeTypeOK, StartPlaces, TestPlaces, AlignPlaces,
      ClearPlaces, Places, Ops, Reads, Stores, PlaceTypeOK
<1>15. FocSetUp'
  BY DEF FocSetUp, ModesAtPlace, OpAtPlace, StageTypeOK, ProtectTypeOK, StartPlaces,
      TestPlaces, AlignPlaces, ClearPlaces, Places, Ops, Reads, Stores, PlaceTypeOK
<1>16. FocCovered'
  BY DEF FocCovered, FocSetUp, DarkBeforeStart, ModesAtPlace, OpAtPlace, StageTypeOK,
      ModeTypeOK, ProtectTypeOK, Timers, StartPlaces, TestPlaces, AlignPlaces,
      ClearPlaces, Places, Ops, Reads, Stores, PlaceTypeOK
<1>17. ClearKeepsBreak'
  BY DEF ClearKeepsBreak, OpAtPlace, MaskAtPlace, ProtectTypeOK, StartPlaces, TestPlaces,
      AlignPlaces, ClearPlaces, Places, Ops, Reads, Stores, PlaceTypeOK
<1> QED BY <1>1, <1>2, <1>3, <1>4, <1>5, <1>6, <1>7, <1>8, <1>9, <1>10, <1>11, <1>12, <1>13, <1>14, <1>15, <1>16, <1>17

\* The align aperture preserves the invariant.
LEMMA AlignPreserves == ASSUME Inv, AlignStep PROVE Inv'
<1> USE DEF Inv, TypeInv, TypeOK, ControlInv, SupervisionInv, AlignStep, AlignChecks,
    MainRuns, StartAt, Finish, AlignArms, AlignMasks, AlignReads, AlignStores,
    AlignRechecks, Goto, AlignFails, PWM_AlignApertureStop, PWM_Disable
<1>1. PlaceTypeOK' BY DEF Places, Ops, Reads, Stores, PlaceTypeOK
<1>2. ModeTypeOK'
  <2>1. (focRunning \in BOOLEAN)' /\ (vfcRunning \in BOOLEAN)' /\ (adcIrqOn \in BOOLEAN)'
    BY DEF ModeTypeOK
  <2>2. (alignActive \in BOOLEAN)' BY DEF ModeTypeOK, StageTypeOK
  <2>3. (masked \in BOOLEAN)' BY DEF ModeTypeOK
  <2> QED BY <2>1, <2>2, <2>3 DEF ModeTypeOK
<1>3. StageTypeOK' BY DEF StageTypeOK, FrameStatuses, Timers
<1>4. ProtectTypeOK' BY DEF ProtectTypeOK
<1>5. Debounce' BY DEF ProtectTypeOK, Debounce
<1>6. CheckedFrame' BY DEF StageTypeOK, ProtectTypeOK, CheckedFrame, MaskAtPlace
<1>7. OpAtPlace'
  BY DEF OpAtPlace, StartPlaces, TestPlaces, AlignPlaces, ClearPlaces, Places, Ops,
      Reads, Stores, PlaceTypeOK
<1>8. MaskAtPlace' BY DEF MaskAtPlace, ModeTypeOK, Places, Ops, Reads, Stores, PlaceTypeOK
<1>9. ModesAtPlace'
  BY DEF ModesAtPlace, OpAtPlace, ModeTypeOK, StartPlaces, TestPlaces, AlignPlaces,
      ClearPlaces, Places, Ops, Reads, Stores, PlaceTypeOK
<1>10. DarkBeforeStart'
  BY DEF DarkBeforeStart, ModesAtPlace, OpAtPlace, StageTypeOK, Timers, StartPlaces,
      TestPlaces, AlignPlaces, ClearPlaces, Places, Ops, Reads, Stores, PlaceTypeOK
<1>11. CountersCovered'
  BY DEF CountersCovered, DarkBeforeStart, ModesAtPlace, OpAtPlace, StageTypeOK,
      ModeTypeOK, Timers, StartPlaces, TestPlaces, AlignPlaces, ClearPlaces, Places,
      Ops, Reads, Stores, PlaceTypeOK
<1>12. DisarmedAtPlace'
  BY DEF DisarmedAtPlace, ModesAtPlace, OpAtPlace, StageTypeOK, StartPlaces, TestPlaces,
      AlignPlaces, ClearPlaces, Places, Ops, Reads, Stores, PlaceTypeOK
<1>13. LatchedMeansDisarmed'
  BY DEF LatchedMeansDisarmed, DisarmedAtPlace, OpAtPlace, ModesAtPlace, MaskAtPlace,
      StageTypeOK, ProtectTypeOK, StartPlaces, TestPlaces, AlignPlaces, ClearPlaces,
      Places, Ops, Reads, Stores, PlaceTypeOK
<1>14. InterruptOff'
  BY DEF InterruptOff, OpAtPlace, ModeTypeOK, StartPlaces, TestPlaces, AlignPlaces,
      ClearPlaces, Places, Ops, Reads, Stores, PlaceTypeOK
<1>15. FocSetUp'
  BY DEF FocSetUp, ModesAtPlace, OpAtPlace, StageTypeOK, ProtectTypeOK, StartPlaces,
      TestPlaces, AlignPlaces, ClearPlaces, Places, Ops, Reads, Stores, PlaceTypeOK
<1>16. FocCovered'
  BY DEF FocCovered, FocSetUp, DarkBeforeStart, ModesAtPlace, OpAtPlace, StageTypeOK,
      ModeTypeOK, ProtectTypeOK, Timers, StartPlaces, TestPlaces, AlignPlaces,
      ClearPlaces, Places, Ops, Reads, Stores, PlaceTypeOK
<1>17. ClearKeepsBreak'
  BY DEF ClearKeepsBreak, OpAtPlace, MaskAtPlace, ProtectTypeOK, StartPlaces, TestPlaces,
      AlignPlaces, ClearPlaces, Places, Ops, Reads, Stores, PlaceTypeOK
<1> QED BY <1>1, <1>2, <1>3, <1>4, <1>5, <1>6, <1>7, <1>8, <1>9, <1>10, <1>11, <1>12, <1>13, <1>14, <1>15, <1>16, <1>17

\* PROTECT_RequestClear preserves the invariant.
LEMMA ClearPreserves == ASSUME Inv, ClearStep PROVE Inv'
<1> USE DEF Inv, TypeInv, TypeOK, ControlInv, SupervisionInv, ClearStep, ClearSamples,
    MainRuns, ADC_StartConversion, Goto, ClearMasks, ClearChecks, ClearRefused, ClearCommits,
    ClearCommit, ClearCalibrates, ADC_CalibrateOffsets, Finish
<1>1. PlaceTypeOK' BY DEF Places, Ops, Reads, Stores, PlaceTypeOK
<1>2. ModeTypeOK' BY DEF ModeTypeOK
<1>3. StageTypeOK' BY DEF StageTypeOK, FrameStatuses, Timers
<1>4. ProtectTypeOK'
  <2>1. fault' \in BOOLEAN /\ load' \in Loads BY DEF ProtectTypeOK
  <2>2. vbusOver' \in {0, vbusOver} OBVIOUS
  <2> QED BY <2>1, <2>2, ProtectAssumption DEF ProtectTypeOK
<1>5. Debounce'
  <2>1. vbusOver' = 0 \/ (vbusOver' = vbusOver /\ fault' = fault) OBVIOUS
  <2> QED BY <2>1, ProtectAssumption DEF ProtectTypeOK, Debounce
<1>6. CheckedFrame' BY DEF StageTypeOK, ProtectTypeOK, CheckedFrame, MaskAtPlace
<1>7. OpAtPlace'
  BY DEF OpAtPlace, StartPlaces, TestPlaces, AlignPlaces, ClearPlaces, Places, Ops,
      Reads, Stores, PlaceTypeOK
<1>8. MaskAtPlace' BY DEF MaskAtPlace, ModeTypeOK, Places, Ops, Reads, Stores, PlaceTypeOK
<1>9. ModesAtPlace'
  BY DEF ModesAtPlace, OpAtPlace, ModeTypeOK, StartPlaces, TestPlaces, AlignPlaces,
      ClearPlaces, Places, Ops, Reads, Stores, PlaceTypeOK
<1>10. DarkBeforeStart'
  BY DEF DarkBeforeStart, ModesAtPlace, OpAtPlace, StageTypeOK, Timers, StartPlaces,
      TestPlaces, AlignPlaces, ClearPlaces, Places, Ops, Reads, Stores, PlaceTypeOK
<1>11. CountersCovered'
  BY DEF CountersCovered, DarkBeforeStart, ModesAtPlace, OpAtPlace, StageTypeOK,
      ModeTypeOK, Timers, StartPlaces, TestPlaces, AlignPlaces, ClearPlaces, Places,
      Ops, Reads, Stores, PlaceTypeOK
<1>12. DisarmedAtPlace'
  BY DEF DisarmedAtPlace, ModesAtPlace, OpAtPlace, StageTypeOK, StartPlaces, TestPlaces,
      AlignPlaces, ClearPlaces, Places, Ops, Reads, Stores, PlaceTypeOK
<1>13. LatchedMeansDisarmed'
  BY DEF LatchedMeansDisarmed, DisarmedAtPlace, OpAtPlace, ModesAtPlace, MaskAtPlace,
      StageTypeOK, ProtectTypeOK, StartPlaces, TestPlaces, AlignPlaces, ClearPlaces,
      Places, Ops, Reads, Stores, PlaceTypeOK
<1>14. InterruptOff'
  BY DEF InterruptOff, OpAtPlace, ModeTypeOK, StartPlaces, TestPlaces, AlignPlaces,
      ClearPlaces, Places, Ops, Reads, Stores, PlaceTypeOK
<1>15. FocSetUp'
  BY DEF FocSetUp, ModesAtPlace, OpAtPlace, StageTypeOK, ProtectTypeOK, StartPlaces,
      TestPlaces, AlignPlaces, ClearPlaces, Places, Ops, Reads, Stores, PlaceTypeOK
<1>16. FocCovered'
  BY DEF FocCovered, FocSetUp, DarkBeforeStart, ModesAtPlace, OpAtPlace, StageTypeOK,
      ModeTypeOK, ProtectTypeOK, Timers, StartPlaces, TestPlaces, AlignPlaces,
      ClearPlaces, Places, Ops, Reads, Stores, PlaceTypeOK
<1>17. ClearKeepsBreak'
  BY DEF ClearKeepsBreak, OpAtPlace, MaskAtPlace, ProtectTypeOK, StartPlaces, TestPlaces,
      AlignPlaces, ClearPlaces, Places, Ops, Reads, Stores, PlaceTypeOK
<1> QED BY <1>1, <1>2, <1>3, <1>4, <1>5, <1>6, <1>7, <1>8, <1>9, <1>10, <1>11, <1>12, <1>13, <1>14, <1>15, <1>16, <1>17

\* The start of a command preserves the invariant.
LEMMA CommandPreserves == ASSUME Inv, CommandStep PROVE Inv'
<1> USE DEF Inv, TypeInv, TypeOK, ControlInv, SupervisionInv, CommandStep, CmdFocStart,
    MainRuns, Command, VFC_Stop, PWM_Disable, Begin, CmdFocStop, FOC_Stop, CmdVfStart,
    CmdVfStop, CmdAutotune, CmdAlign, PWM_AlignApertureStop, CmdAlignOff, CmdClear,
    Goto, CmdCalibrate, ADC_CalibrateOffsets, CmdSample, ADC_StartConversion
<1>1. PlaceTypeOK' BY DEF Places, Ops, Reads, Stores, PlaceTypeOK
<1>2. ModeTypeOK' BY DEF ModeTypeOK
<1>3. StageTypeOK' BY DEF StageTypeOK, FrameStatuses, Timers
<1>4. ProtectTypeOK' BY DEF ProtectTypeOK
<1>5. Debounce' BY DEF ProtectTypeOK, Debounce
<1>6. CheckedFrame' BY DEF StageTypeOK, ProtectTypeOK, CheckedFrame, MaskAtPlace
<1>7. OpAtPlace'
  BY DEF OpAtPlace, StartPlaces, TestPlaces, AlignPlaces, ClearPlaces, Places, Ops,
      Reads, Stores, PlaceTypeOK
<1>8. MaskAtPlace' BY DEF MaskAtPlace, ModeTypeOK, Places, Ops, Reads, Stores, PlaceTypeOK
<1>9. ModesAtPlace'
  BY DEF ModesAtPlace, OpAtPlace, ModeTypeOK, StartPlaces, TestPlaces, AlignPlaces,
      ClearPlaces, Places, Ops, Reads, Stores, PlaceTypeOK
<1>10. DarkBeforeStart'
  BY DEF DarkBeforeStart, ModesAtPlace, OpAtPlace, StageTypeOK, Timers, StartPlaces,
      TestPlaces, AlignPlaces, ClearPlaces, Places, Ops, Reads, Stores, PlaceTypeOK
<1>11. CountersCovered'
  BY DEF CountersCovered, DarkBeforeStart, ModesAtPlace, OpAtPlace, StageTypeOK,
      ModeTypeOK, Timers, StartPlaces, TestPlaces, AlignPlaces, ClearPlaces, Places,
      Ops, Reads, Stores, PlaceTypeOK
<1>12. DisarmedAtPlace'
  BY DEF DisarmedAtPlace, ModesAtPlace, OpAtPlace, StageTypeOK, StartPlaces, TestPlaces,
      AlignPlaces, ClearPlaces, Places, Ops, Reads, Stores, PlaceTypeOK
<1>13. LatchedMeansDisarmed'
  BY DEF LatchedMeansDisarmed, DisarmedAtPlace, OpAtPlace, ModesAtPlace, MaskAtPlace,
      StageTypeOK, ProtectTypeOK, StartPlaces, TestPlaces, AlignPlaces, ClearPlaces,
      Places, Ops, Reads, Stores, PlaceTypeOK
<1>14. InterruptOff'
  BY DEF InterruptOff, OpAtPlace, ModeTypeOK, StartPlaces, TestPlaces, AlignPlaces,
      ClearPlaces, Places, Ops, Reads, Stores, PlaceTypeOK
<1>15. FocSetUp'
  BY DEF FocSetUp, ModesAtPlace, OpAtPlace, StageTypeOK, ProtectTypeOK, StartPlaces,
      TestPlaces, AlignPlaces, ClearPlaces, Places, Ops, Reads, Stores, PlaceTypeOK
<1>16. FocCovered'
  BY DEF FocCovered, FocSetUp, DarkBeforeStart, ModesAtPlace, OpAtPlace, StageTypeOK,
      ModeTypeOK, ProtectTypeOK, Timers, StartPlaces, TestPlaces, AlignPlaces,
      ClearPlaces, Places, Ops, Reads, Stores, PlaceTypeOK
<1>17. ClearKeepsBreak'
  BY DEF ClearKeepsBreak, OpAtPlace, MaskAtPlace, ProtectTypeOK, StartPlaces, TestPlaces,
      AlignPlaces, ClearPlaces, Places, Ops, Reads, Stores, PlaceTypeOK
<1> QED BY <1>1, <1>2, <1>3, <1>4, <1>5, <1>6, <1>7, <1>8, <1>9, <1>10, <1>11, <1>12, <1>13, <1>14, <1>15, <1>16, <1>17

\* The TIM6 handler preserves the invariant.
LEMMA Tim6Preserves == ASSUME Inv, Tim6 PROVE Inv'
<1> USE DEF Inv, TypeInv, TypeOK, ControlInv, SupervisionInv, Tim6, Tim6Sample,
    Tim6Runs, ADC_StartConversion, Tim6Stops, VFC_Stop, PWM_Disable, Tim6Update,
    Tim6Check, PROTECT_Check, PROTECT_CheckReads, CheckValues, Latch, Tim6Gate
<1>1. PlaceTypeOK' BY DEF Places, Ops, Reads, Stores, PlaceTypeOK
<1>2. ModeTypeOK' BY DEF ModeTypeOK
<1>3. StageTypeOK' BY DEF StageTypeOK, FrameStatuses, Timers
<1>4. ProtectTypeOK'
  <2>1. fault' \in BOOLEAN /\ load' \in Loads BY DEF ProtectTypeOK
  <2>2. vbusOver' = vbusOver \/ (~fault /\ CountVbus) BY DEF CheckedFrame, StageTypeOK
  <2> QED BY <2>1, <2>2, CountInRange DEF ProtectTypeOK
<1>5. Debounce'
  <2>1. \/ vbusOver' = vbusOver /\ fault' = fault
        \/ fault'
        \/ ~fault /\ CountVbus /\ ~OutOfRange
    BY DEF CheckedFrame, ProtectTypeOK
  <2> QED BY <2>1, CountInRange DEF Debounce
<1>6. CheckedFrame' BY DEF StageTypeOK, ProtectTypeOK, CheckedFrame, MaskAtPlace
<1>7. OpAtPlace'
  BY DEF OpAtPlace, StartPlaces, TestPlaces, AlignPlaces, ClearPlaces, Places, Ops,
      Reads, Stores, PlaceTypeOK
<1>8. MaskAtPlace'
  <2>1. ~masked /\ UNCHANGED <<masked, pc>> OBVIOUS
  <2> QED BY <2>1 DEF MaskAtPlace
<1>9. ModesAtPlace'
  BY DEF ModesAtPlace, OpAtPlace, ModeTypeOK, StartPlaces, TestPlaces, AlignPlaces,
      ClearPlaces, Places, Ops, Reads, Stores, PlaceTypeOK
<1>10. DarkBeforeStart'
  BY DEF DarkBeforeStart, ModesAtPlace, OpAtPlace, StageTypeOK, Timers, StartPlaces,
      TestPlaces, AlignPlaces, ClearPlaces, Places, Ops, Reads, Stores, PlaceTypeOK
<1>11. CountersCovered'
  BY DEF CountersCovered, DarkBeforeStart, ModesAtPlace, OpAtPlace, StageTypeOK,
      ModeTypeOK, Timers, StartPlaces, TestPlaces, AlignPlaces, ClearPlaces, Places,
      Ops, Reads, Stores, PlaceTypeOK
<1>12. DisarmedAtPlace'
  BY DEF DisarmedAtPlace, ModesAtPlace, OpAtPlace, StageTypeOK, StartPlaces, TestPlaces,
      AlignPlaces, ClearPlaces, Places, Ops, Reads, Stores, PlaceTypeOK
<1>13. LatchedMeansDisarmed'
  BY DEF LatchedMeansDisarmed, DisarmedAtPlace, OpAtPlace, ModesAtPlace, MaskAtPlace,
      StageTypeOK, ProtectTypeOK, StartPlaces, TestPlaces, AlignPlaces, ClearPlaces,
      Places, Ops, Reads, Stores, PlaceTypeOK
<1>14. InterruptOff'
  BY DEF InterruptOff, OpAtPlace, ModeTypeOK, StartPlaces, TestPlaces, AlignPlaces,
      ClearPlaces, Places, Ops, Reads, Stores, PlaceTypeOK
<1>15. FocSetUp'
  <2>1. CASE Tim6Stops BY <2>1 DEF FocSetUp, ModesAtPlace, StartPlaces, Reads, Stores
  <2>2. CASE ~Tim6Stops BY <2>2 DEF FocSetUp, ProtectTypeOK
  <2> QED BY <2>1, <2>2
<1>16. FocCovered'
  BY DEF FocCovered, FocSetUp, DarkBeforeStart, ModesAtPlace, OpAtPlace, StageTypeOK,
      ModeTypeOK, ProtectTypeOK, Timers, StartPlaces, TestPlaces, AlignPlaces,
      ClearPlaces, Places, Ops, Reads, Stores, PlaceTypeOK
<1>17. ClearKeepsBreak'
  BY DEF ClearKeepsBreak, OpAtPlace, MaskAtPlace, ProtectTypeOK, StartPlaces, TestPlaces,
      AlignPlaces, ClearPlaces, Places, Ops, Reads, Stores, PlaceTypeOK
<1> QED BY <1>1, <1>2, <1>3, <1>4, <1>5, <1>6, <1>7, <1>8, <1>9, <1>10, <1>11, <1>12, <1>13, <1>14, <1>15, <1>16, <1>17

\* The ADC interrupt preserves the invariant.
LEMMA AdcPreserves == ASSUME Inv, Adc PROVE Inv'
<1> USE DEF Inv, TypeInv, TypeOK, ControlInv, SupervisionInv, Adc, AdcPublish,
    FrameReady, ADC_FrameStatus, AdcTrip, FOC_Stop, PWM_Disable, AdcRunFrame,
    FramePasses, AdcGivesUp
<1>1. PlaceTypeOK' BY DEF Places, Ops, Reads, Stores, PlaceTypeOK
<1>2. ModeTypeOK' BY DEF ModeTypeOK
<1>3. StageTypeOK' BY DEF StageTypeOK, FrameStatuses, Timers
<1>4. ProtectTypeOK'
  <2>1. fault' \in BOOLEAN /\ load' \in Loads BY DEF ProtectTypeOK
  <2>2. vbusOver' = vbusOver \/ (~fault /\ CountVbus) OBVIOUS
  <2> QED BY <2>1, <2>2, CountInRange DEF ProtectTypeOK
<1>5. Debounce'
  <2>1. \/ vbusOver' = vbusOver /\ fault' = fault
        \/ fault'
        \/ ~fault /\ CountVbus /\ ~OutOfRange
    OBVIOUS
  <2> QED BY <2>1, CountInRange DEF Debounce
<1>6. CheckedFrame' BY DEF StageTypeOK, ProtectTypeOK, CheckedFrame, MaskAtPlace
<1>7. OpAtPlace'
  BY DEF OpAtPlace, StartPlaces, TestPlaces, AlignPlaces, ClearPlaces, Places, Ops,
      Reads, Stores, PlaceTypeOK
<1>8. MaskAtPlace' BY DEF MaskAtPlace, ModeTypeOK, Places, Ops, Reads, Stores, PlaceTypeOK
<1>9. ModesAtPlace'
  BY DEF ModesAtPlace, OpAtPlace, ModeTypeOK, StartPlaces, TestPlaces, AlignPlaces,
      ClearPlaces, Places, Ops, Reads, Stores, PlaceTypeOK
<1>10. DarkBeforeStart'
  BY DEF DarkBeforeStart, ModesAtPlace, OpAtPlace, StageTypeOK, Timers, StartPlaces,
      TestPlaces, AlignPlaces, ClearPlaces, Places, Ops, Reads, Stores, PlaceTypeOK
<1>11. CountersCovered'
  BY DEF CountersCovered, DarkBeforeStart, ModesAtPlace, OpAtPlace, StageTypeOK,
      ModeTypeOK, Timers, StartPlaces, TestPlaces, AlignPlaces, ClearPlaces, Places,
      Ops, Reads, Stores, PlaceTypeOK
<1>12. DisarmedAtPlace'
  BY DEF DisarmedAtPlace, ModesAtPlace, OpAtPlace, StageTypeOK, StartPlaces, TestPlaces,
      AlignPlaces, ClearPlaces, Places, Ops, Reads, Stores, PlaceTypeOK
<1>13. LatchedMeansDisarmed'
  BY DEF LatchedMeansDisarmed, DisarmedAtPlace, OpAtPlace, ModesAtPlace, MaskAtPlace,
      StageTypeOK, ProtectTypeOK, StartPlaces, TestPlaces, AlignPlaces, ClearPlaces,
      Places, Ops, Reads, Stores, PlaceTypeOK
<1>14. InterruptOff'
  BY DEF InterruptOff, OpAtPlace, ModeTypeOK, StartPlaces, TestPlaces, AlignPlaces,
      ClearPlaces, Places, Ops, Reads, Stores, PlaceTypeOK
<1>15. FocSetUp'
  BY DEF FocSetUp, ModesAtPlace, OpAtPlace, StageTypeOK, ProtectTypeOK, StartPlaces,
      TestPlaces, AlignPlaces, ClearPlaces, Places, Ops, Reads, Stores, PlaceTypeOK
<1>16. FocCovered'
  BY DEF FocCovered, FocSetUp, DarkBeforeStart, ModesAtPlace, OpAtPlace, StageTypeOK,
      ModeTypeOK, ProtectTypeOK, Timers, StartPlaces, TestPlaces, AlignPlaces,
      ClearPlaces, Places, Ops, Reads, Stores, PlaceTypeOK
<1>17. ClearKeepsBreak'
  BY DEF ClearKeepsBreak, OpAtPlace, MaskAtPlace, ProtectTypeOK, StartPlaces, TestPlaces,
      AlignPlaces, ClearPlaces, Places, Ops, Reads, Stores, PlaceTypeOK
<1> QED BY <1>1, <1>2, <1>3, <1>4, <1>5, <1>6, <1>7, <1>8, <1>9, <1>10, <1>11, <1>12, <1>13, <1>14, <1>15, <1>16, <1>17

\* The shutdown lines and the load preserves the invariant.
LEMMA PinsPreserves == ASSUME Inv, Pins PROVE Inv'
<1> USE DEF Inv, TypeInv, TypeOK, ControlInv, SupervisionInv, Pins, SdFall, SdRise,
    LoadChanges, Quiet
<1>1. PlaceTypeOK' BY DEF Places, Ops, Reads, Stores, PlaceTypeOK
<1>2. ModeTypeOK' BY DEF ModeTypeOK
<1>3. StageTypeOK' BY DEF StageTypeOK, FrameStatuses, Timers
<1>4. ProtectTypeOK' BY DEF ProtectTypeOK
<1>5. Debounce' BY DEF ProtectTypeOK, Debounce
<1>6. CheckedFrame' BY DEF StageTypeOK, ProtectTypeOK, CheckedFrame, MaskAtPlace
<1>7. OpAtPlace'
  BY DEF OpAtPlace, StartPlaces, TestPlaces, AlignPlaces, ClearPlaces, Places, Ops,
      Reads, Stores, PlaceTypeOK
<1>8. MaskAtPlace' BY DEF MaskAtPlace, ModeTypeOK, Places, Ops, Reads, Stores, PlaceTypeOK
<1>9. ModesAtPlace'
  BY DEF ModesAtPlace, OpAtPlace, ModeTypeOK, StartPlaces, TestPlaces, AlignPlaces,
      ClearPlaces, Places, Ops, Reads, Stores, PlaceTypeOK
<1>10. DarkBeforeStart'
  BY DEF DarkBeforeStart, ModesAtPlace, OpAtPlace, StageTypeOK, Timers, StartPlaces,
      TestPlaces, AlignPlaces, ClearPlaces, Places, Ops, Reads, Stores, PlaceTypeOK
<1>11. CountersCovered'
  BY DEF CountersCovered, DarkBeforeStart, ModesAtPlace, OpAtPlace, StageTypeOK,
      ModeTypeOK, Timers, StartPlaces, TestPlaces, AlignPlaces, ClearPlaces, Places,
      Ops, Reads, Stores, PlaceTypeOK
<1>12. DisarmedAtPlace'
  BY DEF DisarmedAtPlace, ModesAtPlace, OpAtPlace, StageTypeOK, StartPlaces, TestPlaces,
      AlignPlaces, ClearPlaces, Places, Ops, Reads, Stores, PlaceTypeOK
<1>13. LatchedMeansDisarmed'
  BY DEF LatchedMeansDisarmed, DisarmedAtPlace, OpAtPlace, ModesAtPlace, MaskAtPlace,
      StageTypeOK, ProtectTypeOK, StartPlaces, TestPlaces, AlignPlaces, ClearPlaces,
      Places, Ops, Reads, Stores, PlaceTypeOK
<1>14. InterruptOff'
  BY DEF InterruptOff, OpAtPlace, ModeTypeOK, StartPlaces, TestPlaces, AlignPlaces,
      ClearPlaces, Places, Ops, Reads, Stores, PlaceTypeOK
<1>15. FocSetUp'
  BY DEF FocSetUp, ModesAtPlace, OpAtPlace, StageTypeOK, ProtectTypeOK, StartPlaces,
      TestPlaces, AlignPlaces, ClearPlaces, Places, Ops, Reads, Stores, PlaceTypeOK
<1>16. FocCovered'
  BY DEF FocCovered, FocSetUp, DarkBeforeStart, ModesAtPlace, OpAtPlace, StageTypeOK,
      ModeTypeOK, ProtectTypeOK, Timers, StartPlaces, TestPlaces, AlignPlaces,
      ClearPlaces, Places, Ops, Reads, Stores, PlaceTypeOK
<1>17. ClearKeepsBreak'
  BY DEF ClearKeepsBreak, OpAtPlace, MaskAtPlace, ProtectTypeOK, StartPlaces, TestPlaces,
      AlignPlaces, ClearPlaces, Places, Ops, Reads, Stores, PlaceTypeOK
<1> QED BY <1>1, <1>2, <1>3, <1>4, <1>5, <1>6, <1>7, <1>8, <1>9, <1>10, <1>11, <1>12, <1>13, <1>14, <1>15, <1>16, <1>17

\* A break interrupt preserves the invariant.
LEMMA BreakIsrPreserves == ASSUME Inv, NEW t \in Timers, BreakIsr(t) PROVE Inv'
<1> USE DEF Inv, TypeInv, TypeOK, ControlInv, SupervisionInv, BreakIsr, BreakStops, FOC_Stop,
    PWM_Disable
<1>1. PlaceTypeOK' BY DEF Places, Ops, Reads, Stores, PlaceTypeOK
<1>2. ModeTypeOK' BY DEF ModeTypeOK
<1>3. StageTypeOK' BY DEF StageTypeOK, FrameStatuses, Timers
<1>4. ProtectTypeOK' BY DEF ProtectTypeOK
<1>5. Debounce' BY DEF ProtectTypeOK, Debounce
<1>6. CheckedFrame' BY DEF StageTypeOK, ProtectTypeOK, CheckedFrame, MaskAtPlace
<1>7. OpAtPlace'
  BY DEF OpAtPlace, StartPlaces, TestPlaces, AlignPlaces, ClearPlaces, Places, Ops,
      Reads, Stores, PlaceTypeOK
<1>8. MaskAtPlace' BY DEF MaskAtPlace, ModeTypeOK, Places, Ops, Reads, Stores, PlaceTypeOK
<1>9. ModesAtPlace'
  BY DEF ModesAtPlace, OpAtPlace, ModeTypeOK, StartPlaces, TestPlaces, AlignPlaces,
      ClearPlaces, Places, Ops, Reads, Stores, PlaceTypeOK
<1>10. DarkBeforeStart'
  BY DEF DarkBeforeStart, ModesAtPlace, OpAtPlace, StageTypeOK, Timers, StartPlaces,
      TestPlaces, AlignPlaces, ClearPlaces, Places, Ops, Reads, Stores, PlaceTypeOK
<1>11. CountersCovered'
  BY DEF CountersCovered, DarkBeforeStart, ModesAtPlace, OpAtPlace, StageTypeOK,
      ModeTypeOK, Timers, StartPlaces, TestPlaces, AlignPlaces, ClearPlaces, Places,
      Ops, Reads, Stores, PlaceTypeOK
<1>12. DisarmedAtPlace'
  BY DEF DisarmedAtPlace, ModesAtPlace, OpAtPlace, StageTypeOK, StartPlaces, TestPlaces,
      AlignPlaces, ClearPlaces, Places, Ops, Reads, Stores, PlaceTypeOK
<1>13. LatchedMeansDisarmed'
  BY DEF LatchedMeansDisarmed, DisarmedAtPlace, OpAtPlace, ModesAtPlace, MaskAtPlace,
      StageTypeOK, ProtectTypeOK, StartPlaces, TestPlaces, AlignPlaces, ClearPlaces,
      Places, Ops, Reads, Stores, PlaceTypeOK
<1>14. InterruptOff'
  BY DEF InterruptOff, OpAtPlace, ModeTypeOK, StartPlaces, TestPlaces, AlignPlaces,
      ClearPlaces, Places, Ops, Reads, Stores, PlaceTypeOK
<1>15. FocSetUp'
  BY DEF FocSetUp, ModesAtPlace, OpAtPlace, StageTypeOK, ProtectTypeOK, StartPlaces,
      TestPlaces, AlignPlaces, ClearPlaces, Places, Ops, Reads, Stores, PlaceTypeOK
<1>16. FocCovered'
  BY DEF FocCovered, FocSetUp, DarkBeforeStart, ModesAtPlace, OpAtPlace, StageTypeOK,
      ModeTypeOK, ProtectTypeOK, Timers, StartPlaces, TestPlaces, AlignPlaces,
      ClearPlaces, Places, Ops, Reads, Stores, PlaceTypeOK
<1>17. ClearKeepsBreak'
  BY DEF ClearKeepsBreak, OpAtPlace, MaskAtPlace, ProtectTypeOK, StartPlaces, TestPlaces,
      AlignPlaces, ClearPlaces, Places, Ops, Reads, Stores, PlaceTypeOK
<1> QED BY <1>1, <1>2, <1>3, <1>4, <1>5, <1>6, <1>7, <1>8, <1>9, <1>10, <1>11, <1>12, <1>13, <1>14, <1>15, <1>16, <1>17

\* Nothing but the commit of PROTECT_RequestClear ever clears the latch.
LEMMA FaultCleared == ASSUME [Next]_vars, fault, ~fault' PROVE ClearCommits
<1> SUFFICES ASSUME ~ClearCommits PROVE FALSE
  OBVIOUS
<1>1. ~FocStartStep /\ ~VfStartStep
    BY DEF FocStartStep, FocReturns, FocPasses, FocCalibrationFails, FocArms,
     FocStartRefused, VfStartStep, VfRefused, VfPasses, VfArms, VfStartRefused
<1>2. ~EnableStep
  BY DEF EnableStep, SetControlVector, ReadPrecondition, StartTimer, CommitRunning
<1>3. ~AutotuneStep
    BY DEF AutotuneStep, AtStopsFoc, AtRefuses, AtOutOfLimits, AtSafe, AT_TestBegin,
     AtCalibrates, AtPublish, AtStartRefused, AtMeasure, AT_TestEnd
<1>4. ~AlignStep
    BY DEF AlignStep, AlignChecks, AlignArms, AlignMasks, AlignReads, AlignStores,
     AlignRechecks, AlignFails
<1>5. ~ClearStep
  BY DEF ClearStep, ClearSamples, ClearMasks, ClearChecks, ClearCommits, ClearCalibrates
<1>6. ~CommandStep
    BY DEF CommandStep, CmdFocStart, CmdFocStop, CmdVfStart, CmdVfStop, CmdAutotune,
     CmdAlign, CmdAlignOff, CmdClear, CmdCalibrate, CmdSample
<1>7. ~Tim6
    BY DEF Tim6, Tim6Sample, Tim6Stops, Tim6Update, Tim6Check, Tim6Gate, PROTECT_Check,
     CheckValues, Latch
<1>8. ~Adc
  BY DEF Adc, AdcPublish, AdcTrip, AdcRunFrame, AdcGivesUp
<1>9. ~\E t \in Timers : BreakIsr(t)
  BY DEF BreakIsr, BreakStops
<1>10. ~Pins
  BY DEF Pins, SdFall, SdRise, LoadChanges, Quiet
<1>11. ~UNCHANGED vars BY DEF vars
<1> QED BY <1>1, <1>2, <1>3, <1>4, <1>5, <1>6, <1>7, <1>8, <1>9, <1>10, <1>11 DEF Next, Main

\* The initial state satisfies the invariant.
LEMMA InitEstablishes == Init => Inv
<1> SUFFICES ASSUME Init PROVE Inv
  OBVIOUS
<1> USE ProtectAssumption DEF Init
<1>1. TypeOK
  <2>1. StageTypeOK BY DEF StageInit, StageTypeOK, FrameStatuses, Timers
  <2>2. fault \in BOOLEAN /\ load \in Loads BY DEF ProtectInit, Loads
  <2>3. vbusOver \in 0..VbusOverCnt BY DEF ProtectInit
  <2>4. ModeTypeOK BY DEF ModeTypeOK
  <2>5. PlaceTypeOK BY DEF PlaceTypeOK, Places, Ops
  <2> QED BY <2>1, <2>2, <2>3, <2>4, <2>5 DEF TypeOK, ProtectTypeOK
<1>2. CheckedFrame /\ Debounce
  BY DEF ProtectInit, CheckedFrame, Debounce
<1>3. OpAtPlace /\ MaskAtPlace /\ ModesAtPlace
  BY DEF OpAtPlace, MaskAtPlace, ModesAtPlace, StartPlaces, TestPlaces, AlignPlaces,
     ClearPlaces, Reads, Stores
<1>4. /\ DarkBeforeStart /\ CountersCovered /\ DisarmedAtPlace
      /\ LatchedMeansDisarmed /\ ClearKeepsBreak
  BY DEF StageInit, ProtectInit, DarkBeforeStart, CountersCovered, DisarmedAtPlace,
     LatchedMeansDisarmed, ClearKeepsBreak
<1>5. SupervisionInv
  BY DEF StageInit, SupervisionInv, InterruptOff, FocSetUp, FocCovered
<1> QED BY <1>1, <1>2, <1>3, <1>4, <1>5 DEF Inv, TypeInv, ControlInv

\* Every step of the drive preserves it.
LEMMA StepPreserves == Inv /\ [Next]_vars => Inv'
<1> SUFFICES ASSUME Inv, [Next]_vars PROVE Inv'
  OBVIOUS
<1>1. CASE Main
  BY <1>1, FocStartPreserves, VfStartPreserves, EnablePreserves, AutotunePreserves,
     AlignPreserves, ClearPreserves, CommandPreserves DEF Main
<1>2. CASE Tim6 BY <1>2, Tim6Preserves
<1>3. CASE Adc BY <1>3, AdcPreserves
<1>4. CASE \E t \in Timers : BreakIsr(t) BY <1>4, BreakIsrPreserves
<1>5. CASE Pins BY <1>5, PinsPreserves
<1>6. CASE UNCHANGED vars
  BY <1>6 DEF vars, Inv, TypeInv, TypeOK, StageTypeOK, ProtectTypeOK, ModeTypeOK,
     PlaceTypeOK, CheckedFrame, Debounce, ControlInv, OpAtPlace, MaskAtPlace,
     ModesAtPlace, DarkBeforeStart, CountersCovered, DisarmedAtPlace,
     LatchedMeansDisarmed, ClearKeepsBreak, SupervisionInv, InterruptOff, FocSetUp, FocCovered
<1> QED BY <1>1, <1>2, <1>3, <1>4, <1>5, <1>6 DEF Next

\* The inductive invariant holds in every reachable state.
THEOREM Invariance == Spec => []Inv
<1>1. Init => Inv BY InitEstablishes
<1>2. Inv /\ [Next]_vars => Inv' BY StepPreserves
<1> QED BY <1>1, <1>2, PTL DEF Spec

\* Every variable keeps its type; in particular the overvoltage debounce
\* (protect.c:94-100) never counts past its threshold.
THEOREM TypeCorrect == Spec => []TypeOK
<1>1. Inv => TypeOK BY DEF Inv, TypeInv
<1> QED BY <1>1, Invariance, PTL

\* A latched fault leaves the injected group armed only inside a start
\* sequence that is going to refuse (protect_latch, protect.c:39-50).
THEOREM LatchDisarms == Spec => []LatchedMeansDisarmed
<1>1. Inv => LatchedMeansDisarmed BY DEF Inv, ControlInv
<1> QED BY <1>1, Invariance, PTL

\* FOC and V/f never both drive the stage (foc.c:581, vf_control.c:134).
THEOREM OneLoop == Spec => []OneLoopAtATime
<1>1. Inv => OneLoopAtATime BY DEF Inv, ControlInv, ModesAtPlace, OneLoopAtATime
<1> QED BY <1>1, Invariance, PTL

\* Between commands a running counter has an owner that would stop it.
THEOREM CountersAreOwned == Spec => []CountersOwned
<1>1. Inv => CountersOwned
  BY DEF Inv, ControlInv, CountersCovered, CountersOwned, Idle
<1> QED BY <1>1, Invariance, PTL

\* A running FOC with live outputs and no fault has its frames delivered and
\* checked (FOC_Start, foc.c:699-713, against every stop and every interrupt).
THEOREM FocIsSupervised == Spec => []FocSupervised
<1>1. Inv => FocSupervised
  BY DEF Inv, TypeInv, TypeOK, ControlInv, SupervisionInv, FocSupervised, Live, InterruptOff,
     FocCovered, ModesAtPlace, OpAtPlace, StartPlaces, TestPlaces, AlignPlaces, ClearPlaces,
     Reads, Stores, PlaceTypeOK, Places, Ops
<1> QED BY <1>1, Invariance, PTL

\* When main() has left its loop the counters are off and stay off, although
\* vfc.running may still be set and TIM6 goes on (cli.c:471-475).
THEOREM LoopLeft == Spec => []LoopLeftIsDark
<1>1. Inv => LoopLeftIsDark
  BY DEF Inv, ControlInv, ModesAtPlace, DarkBeforeStart, LoopLeftIsDark
<1> QED BY <1>1, Invariance, PTL

\* What leads away from the calibration after the clear is the calibration.
LEMMA CalibrationIsLeft ==
  ASSUME Inv, [Next]_vars, pc = "clrCalibrate", pc' # pc PROVE ClearCalibrates
<1> SUFFICES ASSUME ~ClearCalibrates PROVE FALSE
  OBVIOUS
<1> USE DEF MainRuns, StartAt, Reads, Stores
<1>1. ~FocStartStep /\ ~VfStartStep
  BY DEF FocStartStep, FocReturns, FocPasses, FocCalibrationFails, FocArms,
     FocStartRefused, VfStartStep, VfRefused, VfPasses, VfArms, VfStartRefused
<1>2. ~EnableStep
  BY DEF EnableStep, SetControlVector, ReadPrecondition, StartTimer, CommitRunning
<1>3. ~AutotuneStep
  BY DEF AutotuneStep, AtStopsFoc, AtRefuses, AtOutOfLimits, AtSafe, AT_TestBegin,
     AtCalibrates, AtPublish, AtStartRefused, AtMeasure, AT_TestEnd
<1>4. ~AlignStep
  BY DEF AlignStep, AlignChecks, AlignArms, AlignMasks, AlignReads, AlignStores,
     AlignRechecks, AlignFails
<1>5. ~ClearStep
  BY DEF ClearStep, ClearSamples, ClearMasks, ClearChecks, ClearCommits
<1>6. ~CommandStep
  BY DEF CommandStep, Command, CmdFocStart, CmdFocStop, CmdVfStart, CmdVfStop, CmdAutotune,
     CmdAlign, CmdAlignOff, CmdClear, CmdCalibrate, CmdSample
<1>7. ~Tim6
  BY DEF Tim6, Tim6Sample, Tim6Stops, Tim6Update, Tim6Check, Tim6Gate
<1>8. ~Adc
  BY DEF Adc, AdcPublish, AdcTrip, AdcRunFrame, AdcGivesUp
<1>9. ~\E t \in Timers : BreakIsr(t)
  BY DEF BreakIsr, BreakStops
<1>10. ~Pins
  BY DEF Pins, SdFall, SdRise, LoadChanges, Quiet
<1>11. ~UNCHANGED vars BY DEF vars
<1> QED BY <1>1, <1>2, <1>3, <1>4, <1>5, <1>6, <1>7, <1>8, <1>9, <1>10, <1>11 DEF Next, Main

\* The latch is cleared only while the drive is dark, idle and disarmed, and a
\* break that falls between the last look and the store stays pending and
\* latches again before the 'f' command goes on (PROTECT_RequestClear,
\* protect.c:182-237).
THEOREM ClearKeepsBreaks == Spec => ClearForgetsNoBreak
<1> DEFINE Quietly == /\ Live = {} /\ cen = {} /\ ~armed
                      /\ ~focRunning /\ ~vfcRunning
                      /\ bif' = bif
                      /\ BreakInput => sdLow \subseteq bif
           Heard   == fault \/ (bif = {} /\ (BreakInput => sdLow = {}))
<1>1. Inv /\ [Next]_vars => [/\ fault /\ ~fault' => Quietly
                             /\ pc = "clrCalibrate" /\ pc' # pc => Heard]_vars
  <2> SUFFICES ASSUME Inv, [Next]_vars
               PROVE  /\ fault /\ ~fault' => Quietly
                      /\ pc = "clrCalibrate" /\ pc' # pc => Heard
    OBVIOUS
  <2>1. ASSUME fault, ~fault' PROVE Quietly
    <3>1. ClearCommits BY <2>1, FaultCleared
    <3>2. pc = "clrStore" /\ bif' = bif
      BY <3>1 DEF ClearCommits
    <3>3. ~armed /\ ~focRunning /\ ~vfcRunning
      BY <3>2 DEF Inv, ControlInv, DisarmedAtPlace, ModesAtPlace, ClearPlaces
    <3>4. cen = {}
      BY <3>2, <3>3 DEF Inv, ControlInv, CountersCovered
    <3>5. BreakInput => sdLow \subseteq bif
      BY <3>2 DEF Inv, ControlInv, ClearKeepsBreak
    <3> QED BY <3>2, <3>3, <3>4, <3>5 DEF Live
  <2>2. ASSUME pc = "clrCalibrate", pc' # pc PROVE Heard
    <3>1. ~masked
      BY <2>2 DEF Inv, ControlInv, MaskAtPlace
    <3>2. bif = {}
      BY <2>2, <3>1, CalibrationIsLeft DEF ClearCalibrates, MainRuns
    <3> QED BY <2>2, <3>2 DEF Inv, ControlInv, ClearKeepsBreak
  <2> QED BY <2>1, <2>2
<1> QED BY <1>1, Invariance, PTL DEF Spec, ClearForgetsNoBreak

-----------------------------------------------------------------------------
(* The drive implements AdmissionLatch under the mapping of                *)
(* DriveSafetyProps: latched is the fault latch, an admission is granted   *)
(* between the read of the latch and the last store, and the outputs are   *)
(* on when some bridge is live.                                            *)

\* Steps that the abstract specification sees as nothing, or as Shut.
LEMMA DarkerIsShut ==
  ASSUME fault' = fault, Admitting' <=> Admitting, Live' \subseteq Live
  PROVE  [Abstract!Next]_Abstract!vars
<1>1. CASE Live' = {} /\ Live # {}
  BY <1>1 DEF Abstract!Next, Abstract!Shut
<1>2. CASE Live' = {} /\ Live = {}
  BY <1>2 DEF Abstract!vars
<1>3. CASE Live' # {}
  BY <1>3 DEF Abstract!vars
<1> QED BY <1>1, <1>2, <1>3

\* A stop that latches.
LEMMA LatchingStopIsTrip ==
  ASSUME fault' = TRUE, Admitting' <=> Admitting, Live' = {}
  PROVE  [Abstract!Next]_Abstract!vars
BY DEF Abstract!Next, Abstract!Trip

\* FOC_Start outside PWM_Enable grants and energises nothing.
LEMMA FocStartRefines ==
  ASSUME Inv, FocStartStep PROVE [Abstract!Next]_Abstract!vars
<1> USE DEF FocStartStep, FocReturns, MainRuns, StartAt, Finish, FocPasses, Goto,
    FocCalibrationFails, FocArms, FocStartRefused, Admitting, Reads, Stores
<1>1. fault' = fault OBVIOUS
<1>2. Admitting' <=> Admitting OBVIOUS
<1>3. Live' \subseteq Live BY DEF Live
<1> QED BY <1>1, <1>2, <1>3, DarkerIsShut

\* Nor does VFC_Start.
LEMMA VfStartRefines ==
  ASSUME Inv, VfStartStep PROVE [Abstract!Next]_Abstract!vars
<1> USE DEF VfStartStep, VfRefused, MainRuns, StartAt, ExitLoop, VFC_Stop, PWM_Disable,
    VfPasses, Goto, VfArms, VfStartRefused, Admitting, Reads, Stores
<1>1. fault' = fault OBVIOUS
<1>2. Admitting' <=> Admitting OBVIOUS
<1>3. Live' \subseteq Live BY DEF Live
<1> QED BY <1>1, <1>2, <1>3, DarkerIsShut

\* Nor does an autotune test outside PWM_EnableAutotune.
LEMMA AutotuneRefines ==
  ASSUME Inv, AutotuneStep PROVE [Abstract!Next]_Abstract!vars
<1> USE DEF AutotuneStep, AtStopsFoc, MainRuns, StartAt, FOC_Stop, PWM_Disable,
    AtRefuses, Finish, AtOutOfLimits, ADC_StartConversion, AtSafe, Goto, AT_TestBegin,
    AtCalibrates, ADC_CalibrateOffsets, AtPublish, AtStartRefused, AtMeasure,
    AT_TestEnd, Admitting, Reads, Stores
<1>1. fault' = fault OBVIOUS
<1>2. Admitting' <=> Admitting OBVIOUS
<1>3. Live' \subseteq Live BY DEF Live
<1> QED BY <1>1, <1>2, <1>3, DarkerIsShut

\* A command begins by stopping something, if it does anything.
LEMMA CommandRefines ==
  ASSUME Inv, CommandStep PROVE [Abstract!Next]_Abstract!vars
<1> USE DEF CommandStep, CmdFocStart, MainRuns, Command, VFC_Stop, PWM_Disable, Begin,
    CmdFocStop, FOC_Stop, CmdVfStart, CmdVfStop, CmdAutotune, CmdAlign,
    PWM_AlignApertureStop, CmdAlignOff, CmdClear, Goto, CmdCalibrate,
    ADC_CalibrateOffsets, CmdSample, ADC_StartConversion, Admitting, Reads, Stores
<1>1. fault' = fault OBVIOUS
<1>2. Admitting' <=> Admitting OBVIOUS
<1>3. Live' \subseteq Live BY DEF Live
<1> QED BY <1>1, <1>2, <1>3, DarkerIsShut

\* The clear happens with the outputs off and no admission pending.
LEMMA ClearRefines ==
  ASSUME Inv, ClearStep PROVE [Abstract!Next]_Abstract!vars
<1> USE DEF Admitting, Reads, Stores
<1>1. ASSUME ClearSamples \/ ClearMasks \/ ClearChecks \/ ClearCalibrates
      PROVE  [Abstract!Next]_Abstract!vars
  <2>1. fault' = fault /\ Live' \subseteq Live
    BY <1>1 DEF ClearSamples, ClearMasks, ClearChecks, ClearCalibrates, ADC_StartConversion,
       ADC_CalibrateOffsets, Live
  <2>2. Admitting' <=> Admitting
    BY <1>1 DEF ClearSamples, ClearMasks, ClearChecks, ClearCalibrates, Goto, Finish
  <2> QED BY <2>1, <2>2, DarkerIsShut
<1>2. ASSUME ClearCommits PROVE [Abstract!Next]_Abstract!vars
  <2>1. pc = "clrStore" /\ Live' = Live
    BY <1>2 DEF ClearCommits, Live
  <2>2. Live = {}
    BY <2>1 DEF Live, Inv, TypeInv, ControlInv, DisarmedAtPlace, ModesAtPlace, CountersCovered, ClearPlaces
  <2>3. ~Admitting /\ ~Admitting' /\ fault' = FALSE
    BY <1>2 DEF ClearCommits, ClearCommit
  <2> QED BY <2>1, <2>2, <2>3 DEF Abstract!Next, Abstract!Clear
<1> QED BY <1>1, <1>2 DEF ClearStep

\* The preconditions of PWM_Enable grant under a clear latch, the stores
\* energise under the grant, the last store ends it.
LEMMA EnableRefines ==
  ASSUME Inv, EnableStep PROVE [Abstract!Next]_Abstract!vars
<1> USE DEF Admitting, Reads, Stores, Goto
<1>1. ASSUME SetControlVector \/ CommitRunning PROVE [Abstract!Next]_Abstract!vars
  <2>1. fault' = fault /\ Live' \subseteq Live
    BY <1>1 DEF SetControlVector, CommitRunning, Live
  <2>2. Admitting' <=> Admitting
    BY <1>1 DEF SetControlVector, CommitRunning, Finish
  <2> QED BY <2>1, <2>2, DarkerIsShut
<1>2. ASSUME NEW p \in Reads, ReadPrecondition(p)
      PROVE  [Abstract!Next]_Abstract!vars
  <2>1. fault' = fault /\ Live' = Live
    BY <1>2 DEF ReadPrecondition, Live
  <2>2. Admitting' /\ ~Admitting => ~fault
    BY <1>2 DEF ReadPrecondition, AfterRead, Passes
  <2>3. CASE Admitting' <=> Admitting
    BY <2>1, <2>3, DarkerIsShut
  <2>4. CASE Admitting' /\ ~Admitting
    BY <2>1, <2>2, <2>4 DEF Abstract!Next, Abstract!Grant
  <2>5. CASE ~Admitting' /\ Admitting
    BY <2>1, <2>5 DEF Abstract!Next, Abstract!Revoke
  <2> QED BY <2>3, <2>4, <2>5
<1>3. ASSUME NEW s \in Stores, StartTimer(s)
      PROVE  [Abstract!Next]_Abstract!vars
  <2>1. fault' = fault BY <1>3 DEF StartTimer
  <2>2. Admitting BY <1>3 DEF StartTimer
  <2>3. Live \subseteq Live'
    BY <1>3 DEF StartTimer, StoreRegister, Live
  <2>4. CASE Live' # {}
    BY <2>1, <2>2, <2>4 DEF Abstract!Next, Abstract!Energise
  <2>5. CASE Live' = {} /\ Admitting'
    BY <2>1, <2>2, <2>5, DarkerIsShut
  <2>6. CASE Live' = {} /\ ~Admitting'
    BY <2>1, <2>2, <2>3, <2>6 DEF Abstract!Next, Abstract!Revoke
  <2> QED BY <2>4, <2>5, <2>6
<1> QED BY <1>1, <1>2, <1>3 DEF EnableStep

\* The align vector is granted and stored inside one masked section.
LEMMA AlignRefines ==
  ASSUME Inv, AlignStep PROVE [Abstract!Next]_Abstract!vars
<1> USE DEF Admitting, Reads, Stores, StartAt
<1>1. ASSUME AlignChecks \/ AlignArms \/ AlignMasks \/ AlignRechecks \/ AlignFails
      PROVE  [Abstract!Next]_Abstract!vars
  <2>1. fault' = fault
    BY <1>1 DEF AlignChecks, AlignArms, AlignMasks, AlignRechecks, AlignFails
  <2>2. Live' \subseteq Live
    BY <1>1 DEF AlignChecks, AlignArms, AlignMasks, AlignRechecks, AlignFails,
       PWM_AlignApertureStop, PWM_Disable, Live
  <2>3. Admitting' <=> Admitting
    BY <1>1 DEF AlignChecks, AlignArms, AlignMasks, AlignRechecks, AlignFails, Goto,
       Finish
  <2> QED BY <2>1, <2>2, <2>3, DarkerIsShut
<1>2. ASSUME AlignReads PROVE [Abstract!Next]_Abstract!vars
  <2>1. fault' = fault /\ Live' = Live BY <1>2 DEF AlignReads, Live
  <2>2. ~Admitting /\ (Admitting' => ~fault) BY <1>2 DEF AlignReads
  <2>3. CASE Admitting'
    BY <2>1, <2>2, <2>3 DEF Abstract!Next, Abstract!Grant
  <2>4. CASE ~Admitting'
    BY <2>1, <2>2, <2>4, DarkerIsShut
  <2> QED BY <2>3, <2>4
<1>3. ASSUME AlignStores PROVE [Abstract!Next]_Abstract!vars
  <2>1. fault' = fault /\ Admitting /\ ~Admitting' BY <1>3 DEF AlignStores
  <2>2. Live \subseteq Live'
    BY <1>3 DEF AlignStores, Live, Inv, TypeInv, TypeOK, StageTypeOK
  <2>3. CASE Live' # {}
    BY <2>1, <2>3 DEF Abstract!Next, Abstract!Energise
  <2>4. CASE Live' = {}
    BY <2>1, <2>2, <2>4 DEF Abstract!Next, Abstract!Revoke
  <2> QED BY <2>3, <2>4
<1> QED BY <1>1, <1>2, <1>3 DEF AlignStep

\* TIM6, the ADC interrupt and the break interrupts only stop, or latch and stop.
LEMMA InterruptRefines ==
  ASSUME Inv, Tim6 \/ Adc \/ \E t \in Timers : BreakIsr(t)
  PROVE  [Abstract!Next]_Abstract!vars
<1> USE DEF Tim6, Tim6Sample, Tim6Stops, Tim6Update, Tim6Check, Tim6Gate, VFC_Stop,
    FOC_Stop, PWM_Disable, ADC_StartConversion, PROTECT_Check, CheckValues, Latch,
    Adc, AdcPublish, AdcTrip, AdcRunFrame, AdcGivesUp, FramePasses, BreakIsr, BreakStops
<1>1. Admitting' <=> Admitting BY DEF Admitting
<1>2. (fault' = fault /\ Live' \subseteq Live) \/ (fault' = TRUE /\ Live' = {})
  <2>1. CASE Tim6 BY <2>1 DEF Live
  <2>2. CASE Adc BY <2>2 DEF Live
  <2>3. CASE \E t \in Timers : BreakIsr(t) BY <2>3 DEF Live
  <2> QED BY <2>1, <2>2, <2>3
<1> QED BY <1>1, <1>2, DarkerIsShut, LatchingStopIsTrip

\* A falling shutdown line takes an output away; nothing else here touches one.
LEMMA PinsRefines ==
  ASSUME Pins PROVE [Abstract!Next]_Abstract!vars
<1> USE DEF Pins, SdFall, SdRise, LoadChanges, Quiet
<1>1. fault' = fault OBVIOUS
<1>2. Admitting' <=> Admitting BY DEF Admitting
<1>3. Live' \subseteq Live BY DEF Live
<1> QED BY <1>1, <1>2, <1>3, DarkerIsShut

\* The drive implements the abstract latch: a bridge becomes live only under
\* an admission granted while no fault was latched, and the latch is cleared
\* only with both bridges dark and no admission pending.
THEOREM Implements == Spec => AdmissionRespected
<1>1. Init => Abstract!Init
  BY DEF Init, StageInit, ProtectInit, Abstract!Init, Admitting, Live, Stores
<1>2. Inv /\ [Next]_vars => [Abstract!Next]_Abstract!vars
  <2> SUFFICES ASSUME Inv, [Next]_vars PROVE [Abstract!Next]_Abstract!vars
    OBVIOUS
  <2>1. CASE Main
    BY <2>1, FocStartRefines, VfStartRefines, EnableRefines, AutotuneRefines,
       AlignRefines, ClearRefines, CommandRefines DEF Main
  <2>2. CASE Tim6 \/ Adc \/ \E t \in Timers : BreakIsr(t)
    BY <2>2, InterruptRefines
  <2>3. CASE Pins BY <2>3, PinsRefines
  <2>4. CASE UNCHANGED vars
    BY <2>4 DEF vars, Abstract!vars, Admitting, Live
  <2> QED BY <2>1, <2>2, <2>3, <2>4 DEF Next
<1> QED BY <1>1, <1>2, Invariance, PTL DEF Spec, AdmissionRespected, Abstract!Spec
-----------------------------------------------------------------------------
(* The capture session, for every ring, number of pulses, timeout and      *)
(* number of sessions: the ring holds the records that were not drained, a *)
(* session is COMPLETE with exactly the frames it asked for, and however   *)
(* it ends, it ends dark, and with the latch set when it is FAULTED.       *)

HIDE DEF stageVars, pinVars, permVars, protVars, modeVars, mainVars

\* The types the proof needs.
Typed ==
  /\ capId \in Nat /\ accepted \in Nat /\ dropped \in Nat
  /\ wr \in Slots /\ rd \in Slots
  /\ ring \in [Slots -> [id : Nat, n : Nat]] /\ copied \in [id : Nat, n : Nat]

\* The record the command line has last copied is of no later session, and is
\* one of those accepted when it is of this one.
Reader ==
  /\ FirstUndrained \in 1..(accepted + 1)
  /\ copied.id <= capId
  /\ capId = 0 => accepted = 0

\* A session that may still run has lost nothing and lacks a frame, and it is
\* run only as it was armed.
Quotas ==
  /\ capState = "ARMED" \/ pc \in {"runCheck", "runState"} =>
       capId > 0 /\ accepted = 0 /\ dropped = 0
  /\ capState = "RUNNING" => capId > 0 /\ accepted < Pulses /\ dropped = 0
  /\ pc \in {"armState", "runCheck", "runState"} => capState # "RUNNING"
  /\ CompleteIsExact

Stopping == pc \in {"capStop", "capStatus", "capState"}

\* A status that latches nothing was found with the latch set.  Only the main
\* loop clears it, and no stop is under way then.
FoundLatched ==
  /\ t6 = "faulted" => fault
  /\ Stopping => ending # "OK"
  /\ Stopping /\ ending \in {"PROTECTION_FAULT", "FAULT_LATCHED"} => fault

\* Between the hardware's stop and the state nothing switches on again.
DarkBeforeState ==
  pc \in {"capStatus", "capState"} => ccer = {} /\ moe = {} /\ cen = {} /\ ~armed

CapInv == Typed /\ Reader /\ RingHoldsTheRest /\ Quotas /\ FoundLatched /\ DarkBeforeState

-----------------------------------------------------------------------------
\* What a step of the drive beside the session leaves alone.
LEMMA DriveStaysOut ==
  ASSUME DriveStep
  PROVE  /\ UNCHANGED capVars /\ t6 = "idle" /\ t6' = "idle"
         /\ pc \notin CapturePlaces /\ pc' \notin CapturePlaces
<1> USE DEF MainRuns, CapturePlaces, Goto, Finish
<1>1. UNCHANGED capVars
  BY DEF DriveStep
<1>2. CASE FocStartStep
  BY <1>1, <1>2 DEF FocStartStep, FocReturns, FocPasses, FocCalibrationFails, FocArms, FocStartRefused, StartAt
<1>3. CASE ClearStep
  BY <1>1, <1>3 DEF ClearStep, ClearSamples, ClearMasks, ClearChecks, ClearCommits, ClearCalibrates
<1>4. CASE CmdFocStart \/ CmdFocStop \/ CmdClear \/ CmdCalibrate
  BY <1>1, <1>4 DEF CmdFocStart, CmdFocStop, CmdClear, CmdCalibrate, Command, Begin, mainVars
<1>5. CASE SetControlVector \/ CommitRunning
  BY <1>1, <1>5 DEF SetControlVector, CommitRunning
<1>6. ASSUME NEW p \in Reads, ReadPrecondition(p)
      PROVE  t6 = "idle" /\ t6' = "idle" /\ pc \notin CapturePlaces /\ pc' \notin CapturePlaces
  BY <1>6 DEF Reads, ReadPrecondition, AfterRead
<1>7. ASSUME NEW s \in Stores, StartTimer(s)
      PROVE  t6 = "idle" /\ t6' = "idle" /\ pc \notin CapturePlaces /\ pc' \notin CapturePlaces
  BY <1>7 DEF Stores, StartTimer, AfterStore
<1>8. CASE EnableStep
  BY <1>1, <1>5, <1>6, <1>7, <1>8 DEF EnableStep
<1> QED BY <1>2, <1>3, <1>4, <1>8 DEF DriveStep

LEMMA FrameStaysOut ==
  ASSUME DriveFrame
  PROVE  UNCHANGED capVars /\ UNCHANGED <<pc, t6>>
BY DEF DriveFrame, Adc, AdcRunFrame, AdcGivesUp, AdcPublish, AdcTrip, mainVars

-----------------------------------------------------------------------------
(* The ring.                                                               *)

SlotOf(r, k) == IF r + k < RingCapacity THEN r + k ELSE r + k - RingCapacity

\* Only these steps touch the ring, its counts or what the reader holds.
LEMMA RingIsLeftAlone ==
  ASSUME CaptureNext, ~FrameRecorded, ~ArmCommits, ~DrainCopies, ~DrainFrees
  PROVE  /\ UNCHANGED <<capId, accepted, ring, wr, rd, copied>>
         /\ dropped' \in {dropped, dropped + 1}
         /\ pc = "drainFree" <=> pc' = "drainFree"
<1> USE DEF capVars, sessionVars, countVars, ringVars, readerVars, mainVars, CapAt, Goto, Finish,
            StopWith, Begin, Command
<1>1. CASE CaptureFrame
  BY <1>1 DEF CaptureFrame, FrameIgnored, FrameFaults, FrameOverflows
<1>2. CASE DriveFrame
  BY <1>2, FrameStaysOut
<1>3. CASE Period
  BY <1>3 DEF Period, PeriodCounts, PeriodEnds
<1>4. ASSUME NEW t \in Timers, CaptureBreak(t) \/ CaptureSd(t)
      PROVE  UNCHANGED <<capId, accepted, dropped, ring, wr, rd, copied, pc>>
  BY <1>4 DEF CaptureBreak, BreakStops, CaptureSd, Quiet
<1>5. CASE DriveStep
  BY <1>5, DriveStaysOut DEF CapturePlaces
<1>6. CASE CaptureCommand
  BY <1>6 DEF CaptureCommand, CmdArm, CmdRun, CmdAbort, CmdDrain
<1>7. CASE ArmStartsAdc \/ RunChecks \/ RunCommits
  BY <1>7 DEF ArmStartsAdc, RunChecks, RunCommits
<1>8. ASSUME NEW p \in Reads, ServiceReads(p)
      PROVE  /\ UNCHANGED <<capId, accepted, dropped, ring, wr, rd, copied>>
             /\ pc # "drainFree" /\ pc' # "drainFree"
  BY <1>8 DEF ServiceReads, ReadPrecondition, AfterRead
<1>9. CASE ServiceNotEnabled \/ ServiceReadsInterlock \/ ServicePublishes \/ ServiceRefused
  BY <1>9 DEF ServiceNotEnabled, ServiceReadsInterlock, ServicePublishes, ServiceRefused
<1>10. CASE MainStops \/ MainSetsStatus \/ MainSetsState \/ DrainEnds
  BY <1>10 DEF MainStops, MainSetsStatus, MainSetsState, DrainEnds
<1> QED BY <1>1, <1>2, <1>3, <1>4, <1>5, <1>6, <1>7, <1>8, <1>9, <1>10
        DEF CaptureNext, CaptureStep

\* What is in the ring, for an undrained record u.
Holds(u) ==
  /\ Available = accepted + 1 - u
  /\ \A k \in 0..(Available - 1) : ring[SlotOf(rd, k)] = [id |-> capId, n |-> u + k]

RingPart == Reader /\ RingHoldsTheRest

LEMMA RingPartIs ==
  /\ RingPart <=> /\ Reader /\ Holds(FirstUndrained)
                  /\ pc = "drainFree" => rd # wr /\ copied = ring[rd]
  /\ RingPart' <=> /\ Reader' /\ Holds(FirstUndrained)'
                   /\ pc' = "drainFree" => rd' # wr' /\ copied' = ring'[rd']
BY DEF RingPart, RingHoldsTheRest, Holds, SlotOf

\* The first undrained record is at the reader's index.
LEMMA FirstIsAtReader ==
  ASSUME Typed, Reader, Holds(FirstUndrained), Available > 0
  PROVE  ring[rd] = [id |-> capId, n |-> FirstUndrained]
<1>1. 0 \in 0..(Available - 1) /\ SlotOf(rd, 0) = rd
  BY CaptureAssumption DEF Typed, Slots, Available, SlotOf
<1>2. ring[SlotOf(rd, 0)] = [id |-> capId, n |-> FirstUndrained + 0]
  BY <1>1 DEF Holds
<1>3. FirstUndrained + 0 = FirstUndrained
  BY DEF Reader, Typed
<1> QED BY <1>1, <1>2, <1>3, Zenon

LEMMA RingTypes ==
  ASSUME CapInv, CaptureNext PROVE Typed'
<1> USE CaptureAssumption DEF CapInv, Typed
<1>1. CASE FrameRecorded
  <2>1. accepted + 1 \in Nat /\ [id |-> capId, n |-> accepted + 1] \in [id : Nat, n : Nat]
    OBVIOUS
  <2>2. ring_next(wr) \in Slots
    BY DEF ring_next, Slots
  <2> QED BY <1>1, <2>1, <2>2 DEF FrameRecorded, readerVars
<1>2. CASE ArmCommits
  <2>1. NoRecord \in [id : Nat, n : Nat] /\ 0 \in Slots
    BY DEF NoRecord, Slots
  <2> QED BY <1>2, <2>1 DEF ArmCommits, readerVars
<1>3. CASE DrainCopies
  BY <1>3 DEF DrainCopies, countVars, ringVars
<1>4. CASE DrainFrees
  <2>1. ring_next(rd) \in Slots
    BY DEF ring_next, Slots
  <2> QED BY <1>4, <2>1 DEF DrainFrees, countVars, readerVars
<1> QED BY <1>1, <1>2, <1>3, <1>4, RingIsLeftAlone

\* The interrupt writes the slot after the last one, the reader frees the
\* first.
LEMMA RingStays ==
  ASSUME CapInv, CaptureNext PROVE RingPart'
<1> USE CaptureAssumption DEF CapInv
<1>1. /\ FirstUndrained \in 1..(accepted + 1) /\ Holds(FirstUndrained)
      /\ pc = "drainFree" => rd # wr /\ copied = ring[rd]
      /\ Available \in 0..(RingCapacity - 1)
  <2>1. Available \in 0..(RingCapacity - 1)
    BY DEF Typed, Available, Slots
  <2> QED BY <2>1, RingPartIs DEF RingPart, Reader
<1>2. CASE FrameRecorded
  <2> USE <1>2
  <2>1. /\ ring' = [ring EXCEPT ![wr] = [id |-> capId, n |-> accepted + 1]]
        /\ wr' = ring_next(wr) /\ accepted' = accepted + 1 /\ ring_next(wr) # rd
        /\ capState = "RUNNING" /\ UNCHANGED <<capId, rd, copied, pc>>
    BY DEF FrameRecorded, readerVars, mainVars, RingFull
  <2>2. FirstUndrained' = FirstUndrained
    BY <2>1 DEF FirstUndrained
  <2>3. Reader'
    BY <2>1, <2>2 DEF Reader, Typed, Quotas
  <2>4. /\ Available' = Available + 1 /\ SlotOf(rd, Available) = wr
        /\ \A k \in 0..(Available - 1) : SlotOf(rd, k) # wr /\ SlotOf(rd, k) \in Slots
    BY <2>1 DEF Typed, Slots, Available, ring_next, SlotOf
  <2>5. Holds(FirstUndrained)'
    <3>1. Available' = accepted' + 1 - FirstUndrained'
      BY <1>1, <2>1, <2>2, <2>4 DEF Holds, Typed
    <3>2. ASSUME NEW k \in 0..(Available' - 1)
          PROVE  ring'[SlotOf(rd', k)] = [id |-> capId', n |-> FirstUndrained' + k]
      <4>1. CASE k = Available
        BY <1>1, <2>1, <2>2, <2>4, <4>1 DEF Holds, Typed
      <4>2. CASE k # Available
        BY <1>1, <2>1, <2>2, <2>4, <4>2 DEF Holds, Typed
      <4> QED BY <4>1, <4>2
    <3> QED BY <3>1, <3>2 DEF Holds, SlotOf
  <2>6. pc' = "drainFree" => rd' # wr' /\ copied' = ring'[rd']
    BY <1>1, <2>1 DEF Typed
  <2> QED BY <2>2, <2>3, <2>5, <2>6, RingPartIs
<1>3. CASE ArmCommits
  <2>1. /\ wr' = 0 /\ rd' = 0 /\ capId' = capId + 1 /\ accepted' = 0 /\ copied' = copied
        /\ pc' = "armAdc"
    BY <1>3 DEF ArmCommits, Goto, readerVars
  <2>2. FirstUndrained' = 1 /\ Available' = 0
    BY <2>1 DEF FirstUndrained, Available, Reader, Typed
  <2> QED BY <2>1, <2>2 DEF RingPart, RingHoldsTheRest, Reader, Typed
<1>4. CASE DrainCopies
  <2>1. /\ pc = "drainCopy" /\ pc' = "drainFree" /\ rd # wr /\ copied' = ring[rd]
        /\ UNCHANGED <<capId, accepted, ring, wr, rd>>
    BY <1>4 DEF DrainCopies, CapAt, Goto, countVars, ringVars
  <2>2. Available > 0 /\ Available' = Available /\ SlotOf(rd, 0) = rd
    BY <2>1 DEF Typed, Slots, Available, SlotOf
  <2>3. copied' = [id |-> capId, n |-> FirstUndrained]
    BY <1>1, <2>1, <2>2, FirstIsAtReader
  <2>4. FirstUndrained' = FirstUndrained
    BY <2>1, <2>3 DEF FirstUndrained, Reader, Typed
  <2>5. Reader' /\ Holds(FirstUndrained)'
    BY <1>1, <2>1, <2>2, <2>3, <2>4 DEF Reader, Holds, Typed, SlotOf
  <2> QED BY <2>1, <2>5, RingPartIs
<1>5. CASE DrainFrees
  <2>1. /\ pc = "drainFree" /\ pc' = "drainCopy" /\ rd' = ring_next(rd)
        /\ UNCHANGED <<capId, accepted, ring, wr, copied>>
    BY <1>5 DEF DrainFrees, CapAt, Goto, countVars, readerVars
  <2>2. /\ Available > 0 /\ Available' = Available - 1 /\ SlotOf(rd, 0) = rd
        /\ \A k \in 0..(Available - 2) : SlotOf(rd', k) = SlotOf(rd, k + 1)
    BY <1>1, <2>1 DEF Typed, Slots, Available, ring_next, SlotOf
  <2>3. copied = [id |-> capId, n |-> FirstUndrained]
    BY <1>1, <2>1, <2>2, FirstIsAtReader
  <2>4. capId > 0 /\ accepted > 0
    BY <1>1, <2>2 DEF Holds, Reader, Typed
  <2>5. FirstUndrained' = FirstUndrained + 1
    BY <2>1, <2>3, <2>4 DEF FirstUndrained, Typed
  <2>6. Reader'
    BY <1>1, <2>1, <2>2, <2>4, <2>5 DEF Reader, Holds, Typed
  <2>7. Holds(FirstUndrained)'
    <3>1. Available' = accepted' + 1 - FirstUndrained'
      BY <1>1, <2>1, <2>2, <2>5 DEF Holds, Typed
    <3>2. ASSUME NEW k \in 0..(Available' - 1)
          PROVE  ring'[SlotOf(rd', k)] = [id |-> capId', n |-> FirstUndrained' + k]
      <4>1. k + 1 \in 0..(Available - 1) /\ SlotOf(rd', k) = SlotOf(rd, k + 1)
        BY <1>1, <2>2
      <4>2. ring[SlotOf(rd, k + 1)] = [id |-> capId, n |-> FirstUndrained + (k + 1)]
        BY <1>1, <4>1 DEF Holds
      <4> QED BY <1>1, <2>1, <2>5, <4>1, <4>2
    <3> QED BY <3>1, <3>2 DEF Holds, SlotOf
  <2> QED BY <2>1, <2>6, <2>7, RingPartIs
<1>6. CASE ~FrameRecorded /\ ~ArmCommits /\ ~DrainCopies /\ ~DrainFrees
  BY <1>6, RingIsLeftAlone DEF RingPart, Reader, RingHoldsTheRest, FirstUndrained, Available
<1> QED BY <1>2, <1>3, <1>4, <1>5, <1>6

-----------------------------------------------------------------------------
(* What a session has received.                                            *)

\* A frame counts only in a running session, a stop that the main loop or a
\* break makes never says COMPLETE, and RUNNING follows ARMED.
LEMMA QuotasStay ==
  ASSUME CapInv, CaptureNext PROVE Quotas'
<1> USE CaptureAssumption
    DEF CapInv, Quotas, CompleteIsExact, Typed, capVars, sessionVars, countVars, ringVars,
        readerVars, mainVars, CapAt, Goto, Finish, StopWith, Begin, Command
<1>1. CASE CaptureFrame
  <2>1. CASE FrameRecorded
    <3>1. /\ capState = "RUNNING" /\ accepted' = accepted + 1 /\ UNCHANGED <<capId, dropped, pc>>
          /\ IF accepted + 1 >= Pulses THEN capState' = "COMPLETE" ELSE capState' = capState
      BY <2>1 DEF FrameRecorded, Enough, TerminalStop, Commits, StateOf
    <3> QED BY <3>1
  <2>2. CASE FrameFaults \/ FrameOverflows \/ \E usable \in BOOLEAN : FrameIgnored(usable)
    BY <2>2 DEF FrameIgnored, FrameFaults, FrameOverflows, TerminalStop, Commits, StateOf
  <2> QED BY <1>1, <2>1, <2>2 DEF CaptureFrame
<1>2. CASE DriveFrame
  BY <1>2, FrameStaysOut
<1>3. CASE Period
  BY <1>3 DEF Period, PeriodCounts, PeriodEnds, TerminalStop, Commits, StateOf
<1>4. ASSUME NEW t \in Timers, CaptureBreak(t) \/ CaptureSd(t)
      PROVE  Quotas'
  BY <1>4 DEF CaptureBreak, BreakStops, CaptureSd, Quiet
<1>5. CASE DriveStep
  BY <1>5, DriveStaysOut DEF CapturePlaces
<1>6. CASE CaptureCommand
  BY <1>6 DEF CaptureCommand, CmdArm, CmdRun, CmdAbort, CmdDrain, MapCapture_IsActive
<1>7. CASE ArmCommits
  BY <1>7 DEF ArmCommits
<1>8. CASE ArmStartsAdc \/ RunChecks \/ RunCommits
  BY <1>8 DEF ArmStartsAdc, RunChecks, RunCommits
<1>9. ASSUME NEW p \in Reads, ServiceReads(p) PROVE Quotas'
  BY <1>9 DEF ServiceReads, ReadPrecondition, AfterRead
<1>10. CASE ServiceNotEnabled \/ ServiceReadsInterlock \/ ServicePublishes \/ ServiceRefused
  BY <1>10 DEF ServiceNotEnabled, ServiceReadsInterlock, ServicePublishes, ServiceRefused
<1>11. CASE MainStops \/ MainSetsStatus
  BY <1>11 DEF MainStops, MainSetsStatus
<1>12. CASE MainSetsState
  BY <1>12 DEF MainSetsState, FoundLatched, Stopping, StateOf
<1>13. CASE DrainCopies \/ DrainFrees \/ DrainEnds
  BY <1>13 DEF DrainCopies, DrainFrees, DrainEnds
<1> QED BY <1>1, <1>2, <1>3, <1>4, <1>5, <1>6, <1>7, <1>8, <1>9, <1>10, <1>11, <1>12, <1>13
        DEF CaptureNext, CaptureStep

-----------------------------------------------------------------------------
(* How it ends.                                                            *)

LEMMA FoundLatchedStays ==
  ASSUME CapInv, CaptureNext PROVE FoundLatched'
<1> USE DEF CapInv, FoundLatched, Stopping, capVars, sessionVars, countVars, ringVars, readerVars,
            mainVars, protVars, CapAt, Goto, Finish, StopWith, Begin, Command, DriveKeeps
<1>1. CASE CaptureFrame
  BY <1>1 DEF CaptureFrame, FrameIgnored, FrameFaults, FrameOverflows, FrameRecorded, TerminalStop,
              Commits
<1>2. CASE DriveFrame
  BY <1>2 DEF DriveFrame, Adc, AdcRunFrame, AdcGivesUp, AdcPublish, AdcTrip
<1>3. CASE Period
  BY <1>3 DEF Period, PeriodCounts, PeriodEnds, TerminalStop, Commits
<1>4. ASSUME NEW t \in Timers, CaptureBreak(t) \/ CaptureSd(t)
      PROVE  FoundLatched'
  BY <1>4 DEF CaptureBreak, BreakStops, CaptureSd, Quiet
<1>5. CASE DriveStep
  BY <1>5, DriveStaysOut DEF CapturePlaces
<1>6. CASE CaptureCommand
  BY <1>6 DEF CaptureCommand, CmdArm, CmdRun, CmdAbort, CmdDrain, MainRuns
<1>7. CASE ArmCommits \/ ArmStartsAdc \/ RunChecks \/ RunCommits
  BY <1>7 DEF ArmCommits, ArmStartsAdc, RunChecks, RunCommits
<1>8. ASSUME NEW p \in Reads, ServiceReads(p) PROVE FoundLatched'
  BY <1>8 DEF ServiceReads, ReadPrecondition, AfterRead
<1>9. CASE ServiceNotEnabled \/ ServiceReadsInterlock \/ ServicePublishes \/ ServiceRefused
  BY <1>9 DEF ServiceNotEnabled, ServiceReadsInterlock, ServicePublishes, ServiceRefused
<1>10. CASE MainStops \/ MainSetsStatus
  BY <1>10 DEF MainStops, MainSetsStatus
<1>11. CASE MainSetsState
  BY <1>11 DEF MainSetsState, Latch
<1>12. CASE DrainCopies \/ DrainFrees \/ DrainEnds
  BY <1>12 DEF DrainCopies, DrainFrees, DrainEnds
<1> QED BY <1>1, <1>2, <1>3, <1>4, <1>5, <1>6, <1>7, <1>8, <1>9, <1>10, <1>11, <1>12
        DEF CaptureNext, CaptureStep

LEMMA DarkStays ==
  ASSUME CapInv, CaptureNext PROVE DarkBeforeState'
<1> USE DEF CapInv, DarkBeforeState, capVars, sessionVars, stageVars,
            mainVars, CapAt, Goto, Finish, StopWith, Begin, Command, DriveKeeps
<1>1. CASE CaptureFrame \/ DriveFrame
  BY <1>1 DEF CaptureFrame, FrameIgnored, FrameFaults, FrameOverflows, FrameRecorded, TerminalStop,
              CaptureStops, PWM_Disable, DriveFrame, Adc, AdcRunFrame, AdcGivesUp, AdcPublish,
              AdcTrip, FOC_Stop
<1>2. CASE Period
  BY <1>2 DEF Period, PeriodCounts, PeriodEnds, TerminalStop, CaptureStops, PWM_Disable
<1>3. ASSUME NEW t \in Timers, CaptureBreak(t) PROVE DarkBeforeState'
  BY <1>3 DEF CaptureBreak, BreakStops, FOC_Stop, PWM_Disable
<1>4. ASSUME NEW t \in Timers, CaptureSd(t) PROVE DarkBeforeState'
  BY <1>4 DEF CaptureSd, Quiet, SdFall, SdRise
<1>5. CASE DriveStep
  BY <1>5, DriveStaysOut DEF CapturePlaces
<1>6. CASE CaptureCommand
  BY <1>6 DEF CaptureCommand, CmdArm, CmdRun, CmdAbort, CmdDrain
<1>7. CASE ArmCommits \/ ArmStartsAdc \/ RunChecks \/ RunCommits
  BY <1>7 DEF ArmCommits, ArmStartsAdc, RunChecks, RunCommits
<1>8. ASSUME NEW p \in Reads, ServiceReads(p) PROVE DarkBeforeState'
  BY <1>8 DEF ServiceReads, ReadPrecondition, AfterRead
<1>9. CASE ServiceNotEnabled \/ ServiceReadsInterlock \/ ServicePublishes \/ ServiceRefused
  BY <1>9 DEF ServiceNotEnabled, ServiceReadsInterlock, ServicePublishes, ServiceRefused
<1>10. CASE MainStops
  BY <1>10 DEF MainStops, CaptureStops, PWM_Disable
<1>11. CASE MainSetsStatus \/ MainSetsState
  BY <1>11 DEF MainSetsStatus, MainSetsState
<1>12. CASE DrainCopies \/ DrainFrees \/ DrainEnds
  BY <1>12 DEF DrainCopies, DrainFrees, DrainEnds
<1> QED BY <1>1, <1>2, <1>3, <1>4, <1>5, <1>6, <1>7, <1>8, <1>9, <1>10, <1>11, <1>12
        DEF CaptureNext, CaptureStep

-----------------------------------------------------------------------------
LEMMA CapInitially == ASSUME CaptureInit PROVE CapInv
<1> USE CaptureAssumption DEF CaptureInit, Init, CapInv
<1>1. Typed
  BY DEF Typed, Slots, NoRecord
<1>2. FirstUndrained = 1 /\ Available = 0
  BY DEF FirstUndrained, Available
<1>3. Reader /\ RingHoldsTheRest
  BY <1>2 DEF Reader, RingHoldsTheRest, NoRecord
<1>4. Quotas /\ FoundLatched /\ DarkBeforeState
  BY DEF Quotas, CompleteIsExact, FoundLatched, Stopping, DarkBeforeState
<1> QED BY <1>1, <1>3, <1>4

LEMMA CapStep == CapInv /\ [CaptureNext]_capAllVars => CapInv'
<1> SUFFICES ASSUME CapInv, [CaptureNext]_capAllVars PROVE CapInv'
  OBVIOUS
<1>1. CASE CaptureNext
  BY <1>1, RingTypes, RingStays, QuotasStay, FoundLatchedStays, DarkStays DEF CapInv, RingPart
<1>2. CASE UNCHANGED capAllVars
  BY <1>2 DEF capAllVars, vars, capVars, sessionVars, countVars, ringVars, readerVars, stageVars,
              protVars, mainVars, CapInv, Typed, Reader, RingHoldsTheRest, FirstUndrained,
              Available, Quotas, CompleteIsExact, FoundLatched, Stopping, DarkBeforeState
<1> QED BY <1>1, <1>2

LEMMA CapInvariance == CaptureSpec => []CapInv
BY CapInitially, CapStep, PTL DEF CaptureSpec

\* The interrupt never overwrites a record that was not drained, and the
\* reader drains every record of the session once and in order
\* (map_capture.c, publish_record and MapCapture_ConsumeRecord).
THEOREM RingKeepsItsRecords == CaptureSpec => []RingHoldsTheRest
BY CapInvariance, PTL DEF CapInv

\* COMPLETE means all the frames that were asked for, and none lost
\* (map_capture.c, MapCapture_OnAdcFrame).
THEOREM CompleteMeansAll == CaptureSpec => []CompleteIsExact
<1>1. CapInv => CompleteIsExact
  BY DEF CapInv, Quotas
<1> QED BY <1>1, CapInvariance, PTL

\* A session that becomes FAULTED leaves the latch set: the statuses that do
\* not latch are only given with the latch set (map_capture.c, terminal_stop).
THEOREM FaultIsLatched == CaptureSpec => FaultedIsLatched
<1>1. ASSUME CapInv, CaptureNext, capState # "FAULTED", capState' = "FAULTED" PROVE fault'
  <2> USE <1>1 DEF capVars, sessionVars, CapAt
  <2>1. CASE CaptureFrame
    BY <2>1 DEF CaptureFrame, FrameIgnored, FrameFaults, FrameOverflows, FrameRecorded,
                TerminalStop, Commits, StateOf, Latches
  <2>2. CASE DriveFrame
    BY <2>2, FrameStaysOut
  <2>3. CASE Period
    BY <2>3 DEF Period, PeriodCounts, PeriodEnds, TerminalStop, Commits, StateOf, Latches, CapInv,
                FoundLatched
  <2>4. ASSUME NEW t \in Timers, CaptureBreak(t) \/ CaptureSd(t) PROVE fault'
    BY <2>4 DEF CaptureBreak, BreakStops, CaptureSd
  <2>5. CASE DriveStep
    BY <2>5, DriveStaysOut
  <2>6. CASE CaptureCommand
    BY <2>6 DEF CaptureCommand, CmdArm, CmdRun, CmdAbort, CmdDrain
  <2>7. CASE MainSetsState
    BY <2>7 DEF MainSetsState, StateOf, Latches, Latch, CapInv, FoundLatched, Stopping
  <2>8. ASSUME NEW p \in Reads, ServiceReads(p) PROVE fault'
    BY <2>8 DEF ServiceReads
  <2>9. CASE CaptureStep /\ ~MainSetsState /\ ~\E p \in Reads : ServiceReads(p)
    BY <2>9 DEF CaptureStep, ArmCommits, ArmStartsAdc, RunChecks, RunCommits, ServiceNotEnabled,
                ServiceReadsInterlock, ServicePublishes, ServiceRefused, MainStops, MainSetsStatus,
                DrainCopies, DrainFrees, DrainEnds
  <2> QED BY <2>1, <2>2, <2>3, <2>4, <2>5, <2>6, <2>7, <2>8, <2>9 DEF CaptureNext
<1>2. ASSUME UNCHANGED capAllVars PROVE UNCHANGED capState
  BY <1>2 DEF capAllVars, capVars, sessionVars
<1>3. CapInv /\ [CaptureNext]_capAllVars =>
        [capState # "FAULTED" /\ capState' = "FAULTED" => fault']_capAllVars
  BY <1>1, <1>2
<1> QED BY <1>3, CapInvariance, PTL DEF CaptureSpec, FaultedIsLatched

\* Whoever ends a running session, the stage is off and the injected group
\* disarmed once its state says so: the main loop's stop comes before its
\* state, and nothing switches on again between them (map_capture.c,
\* terminal_stop).
THEOREM SessionLeavesDark == CaptureSpec => SessionEndsDark
<1>1. ASSUME CapInv, CaptureNext, capState = "RUNNING", capState' # "RUNNING"
      PROVE  Live' = {} /\ ~armed'
  <2> USE <1>1 DEF capVars, sessionVars, CapAt, Live
  <2>1. CASE CaptureFrame
    BY <2>1 DEF CaptureFrame, FrameIgnored, FrameFaults, FrameOverflows, FrameRecorded,
                TerminalStop, CaptureStops, PWM_Disable
  <2>2. CASE DriveFrame
    BY <2>2, FrameStaysOut
  <2>3. CASE Period
    BY <2>3 DEF Period, PeriodCounts, PeriodEnds, TerminalStop, CaptureStops, PWM_Disable
  <2>4. ASSUME NEW t \in Timers, CaptureBreak(t) \/ CaptureSd(t) PROVE Live' = {} /\ ~armed'
    BY <2>4 DEF CaptureBreak, BreakStops, FOC_Stop, PWM_Disable, CaptureSd
  <2>5. CASE DriveStep
    BY <2>5, DriveStaysOut
  <2>6. CASE CaptureCommand
    BY <2>6 DEF CaptureCommand, CmdArm, CmdRun, CmdAbort, CmdDrain
  <2>7. CASE MainSetsState
    BY <2>7 DEF MainSetsState, Latch, PWM_Disable, stageVars, CapInv, DarkBeforeState
  <2>8. CASE ArmCommits
    BY <2>8 DEF ArmCommits, CapInv, Quotas
  <2>9. ASSUME NEW p \in Reads, ServiceReads(p) PROVE FALSE
    BY <2>9 DEF ServiceReads
  <2>10. CASE CaptureStep /\ ~MainSetsState /\ ~ArmCommits /\ ~\E p \in Reads : ServiceReads(p)
    BY <2>10 DEF CaptureStep, ArmStartsAdc, RunChecks, RunCommits, ServiceNotEnabled,
                 ServiceReadsInterlock, ServicePublishes, ServiceRefused, MainStops,
                 MainSetsStatus, DrainCopies, DrainFrees, DrainEnds
  <2> QED BY <2>1, <2>2, <2>3, <2>4, <2>5, <2>6, <2>7, <2>8, <2>9, <2>10 DEF CaptureNext
<1>2. ASSUME UNCHANGED capAllVars PROVE UNCHANGED capState
  BY <1>2 DEF capAllVars, capVars, sessionVars
<1>3. CapInv /\ [CaptureNext]_capAllVars =>
        [capState = "RUNNING" /\ capState' # "RUNNING" => Live' = {} /\ ~armed']_capAllVars
  BY <1>1, <1>2
<1> QED BY <1>3, CapInvariance, PTL DEF CaptureSpec, SessionEndsDark
=============================================================================
