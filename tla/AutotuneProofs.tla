---------------------------- MODULE AutotuneProofs ----------------------------
(* For every number of commands, points and curve points: a test that drives    *)
(* the bridges is alone with the ADC, gives the stage back, stores nothing when  *)
(* it fails, and leaves a typed Tr marked as one.                                *)
EXTENDS AutotuneProps, TLAPS

Measures == {"enable", "loop", "rep", "end"}
Driving == {"detecting", "service"} \cup Measures

Places == {"prompt", "start", "safety", "detect", "begin", "evaluate"} \cup Driving

Params == [rs : Values, ls : Values, rr : Origins, lm : Origins, isat : BOOLEAN,
           tr : Origins \cup {"entered", "derived", "overflow"}]

\* AtTypeOK in two parts, the flags and the rest.
Flags ==
    /\ wasOn \in BOOLEAN /\ abort \in BOOLEAN /\ fault \in BOOLEAN /\ busy \in BOOLEAN
    /\ adcIrq \in BOOLEAN /\ bridges \in BOOLEAN /\ preload \in BOOLEAN /\ chan \in BOOLEAN

Shapes ==
    /\ cmd \in RunAt \cup Services \cup {"none"} /\ pc \in Places
    /\ n \in 0 .. Points /\ good \in 0 .. n /\ rc \in {"ok", "error", "aborted"}
    /\ driver \in {"none", "foc", "vf", "capture"}
    /\ par \in Params /\ curve \in 0 .. MaxCurve

\* What a repetition may count on: the loop around it has looked at its bound.
LoopsAreBounded ==
    /\ pc = "rep" /\ cmd = "pairs" => good < n
    /\ pc = "rep" /\ cmd # "pairs" => n < Points

\* What the session has taken at each place of a command, and so what is left to
\* give back.
Session ==
    /\ busy => pc \in Driving
    /\ pc = "prompt" <=> cmd = "none"
    /\ pc \in {"detecting"} \cup Measures => ~adcIrq
    /\ pc = "service" /\ cmd # "svc" => ~adcIrq
    /\ pc \notin Driving /\ driver = "none" => ~bridges
    /\ ~preload => cmd = "oew" /\ pc = "end"
    /\ fault => ~bridges

AtInv == Flags /\ Shapes /\ LoopsAreBounded /\ Session /\ TrIsNotTheTypedOne

USE DEF Driving, Measures, Places, Values, Origins, Sane, Tests, Services, RunAt,
        cmdVars, stage, results, control, vars,
        Measuring, Stay, KeepStage, Leave, Next_, NoCurveNoParams, Return, IrqAfter, Answer

LEMMA AtInitially == AutotuneInit => AtInv
<1> SUFFICES ASSUME AutotuneInit PROVE AtInv
  OBVIOUS
<1> USE DEF AutotuneInit
<1>1. Flags
  BY Zenon DEF Flags
<1>2. Shapes /\ LoopsAreBounded
  BY BoundsAssumption DEF Shapes, Params, LoopsAreBounded
<1>3. Session
  BY DEF Session
<1>4. TrIsNotTheTypedOne
  BY DEF TrIsNotTheTypedOne
<1> QED BY <1>1, <1>2, <1>3, <1>4 DEF AtInv

LEMMA SaneIsValue == Sane \subseteq Values
OBVIOUS

\* What a commit makes of the parameters.
LEMMA CommitOfRsLs ==
  ASSUME par \in Params, NEW r \in Values, NEW l \in Values
  PROVE  /\ [par EXCEPT !.rs = r] \in Params /\ [par EXCEPT !.ls = l] \in Params
         /\ [par EXCEPT !.rs = r, !.ls = l] \in Params
BY DEF Params

LEMMA CommitOfIsat ==
  ASSUME par \in Params, NEW v \in Values, NEW found \in BOOLEAN
  PROVE  /\ [par EXCEPT !.rs = v, !.isat = found] \in Params
         /\ [par EXCEPT !.ls = v, !.isat = found] \in Params
BY DEF Params

LEMMA CommitOfRotor ==
  ASSUME par \in Params, NEW o \in Origins, NEW t \in Origins \cup {"entered", "derived", "overflow"}
  PROVE  /\ [par EXCEPT !.rr = o] \in Params /\ [par EXCEPT !.tr = t] \in Params
         /\ [par EXCEPT !.lm = o, !.tr = t] \in Params
BY DEF Params

\* The flags stay flags.
LEMMA FlagsKeep == ASSUME Flags, AutotuneNext PROVE Flags'
<1> USE DEF Flags
<1>1. CASE DetectBegin \/ DetectEnd \/ ServiceBegin \/ ServiceEnd
  BY ZenonT(40), <1>1 DEF DetectBegin, SafeToDrive, DetectEnd, ServiceBegin, ServiceEnd
<1>2. CASE TestStart \/ AT_SafetyCheck \/ Begin \/ Enable \/ End
  BY ZenonT(40), <1>2 DEF TestStart, FOC_Stop, AT_SafetyCheck, Begin, AT_TestBegin, Enable,
         both_enable, End, AT_TestEnd, PreloadAfterTest
<1>3. CASE IvPoint \/ PairBegin \/ AT_MeasurePair \/ IdleRepetition \/ IdleSweep
  BY ZenonT(40), <1>3 DEF IvPoint, PairBegin, AT_MeasurePair, IdleRepetition, both_enable, IdleSweep
<1>4. CASE OewPoint \/ WaitedPoint \/ TrSample \/ ScopePoint \/ LsposPosition \/ LsposMeasure
  BY ZenonT(40), <1>4 DEF OewPoint, pwm_wait_periods, WithNextPoint, WaitedPoint, TrSample, ScopePoint,
         LsposPosition, both_enable, LsposMeasure
<1>5. CASE Stopped \/ Rejected
  BY ZenonT(40), <1>5 DEF Stopped, Report, Rejected
<1>6. CASE PairsCommit
  BY ZenonT(40), <1>6 DEF PairsCommit
<1>7. CASE IdleCommit
  BY ZenonT(40), <1>7 DEF IdleCommit, Filtered
<1>8. CASE IvCommit
  BY ZenonT(40), <1>8 DEF IvCommit, Report
<1>9. CASE RrCommit
  BY ZenonT(40), <1>9 DEF RrCommit, Report
<1>10. CASE NoloadCommit
  BY ZenonT(40), <1>10 DEF NoloadCommit, Report
<1>11. CASE LsposCommit
  BY ZenonT(40), <1>11 DEF LsposCommit, Report
<1>12. ASSUME NEW points \in Filtered, NEW found \in BOOLEAN, OewCommit(points, found) PROVE Flags'
  BY ZenonT(40), <1>12 DEF OewCommit, Report, Filtered
<1>13. ASSUME NEW k \in RunAt \cup Services, run_at(k) PROVE Flags'
  BY ZenonT(40), <1>13 DEF run_at, Accept
<1>14. ASSUME NEW in \in Typed, EnterParams(in) PROVE Flags'
  BY ZenonT(40), <1>14 DEF EnterParams
<1>15. CASE EnterTr \/ ApplyParams \/ Autotune_CalcPI \/ ApplyPI
  BY ZenonT(40), <1>15 DEF EnterTr, ApplyParams, Autotune_CalcPI, ApplyPI
<1>16. CASE Autotune_Irot
  BY ZenonT(40), <1>16 DEF Autotune_Irot, FOC_Stop
<1>17. CASE StartFoc \/ Stop \/ ClearFault
  BY ZenonT(40), <1>17 DEF StartFoc, Stop, ClearFault
<1>18. ASSUME NEW d \in {"vf", "capture"}, StartOther(d) PROVE Flags'
  BY ZenonT(40), <1>18 DEF StartOther
<1>19. CASE AbortByte \/ BreakIsr \/ OtherEnds
  BY ZenonT(40), <1>19 DEF AbortByte, BreakIsr, OtherEnds
<1> QED
  BY <1>1, <1>2, <1>3, <1>4, <1>5, <1>6, <1>7, <1>8, <1>9, <1>10, <1>11, <1>12, <1>13,
     <1>14, <1>15, <1>16, <1>17, <1>18, <1>19 DEF AutotuneNext, MainLoop, Commands

\* Every step keeps to the ranges of its loop.
LEMMA ShapesKeep == ASSUME Flags, Shapes, LoopsAreBounded, AutotuneNext PROVE Shapes' /\ LoopsAreBounded'
<1> USE BoundsAssumption DEF Shapes, LoopsAreBounded
<1>1. CASE DetectBegin
  BY SMT, <1>1 DEF DetectBegin, SafeToDrive
<1>2. CASE DetectEnd
  BY SMT, <1>2 DEF DetectEnd
<1>3. CASE ServiceBegin
  BY SMT, <1>3 DEF ServiceBegin
<1>4. CASE ServiceEnd
  BY SMT, <1>4 DEF ServiceEnd
<1>5. CASE TestStart
  BY SMT, <1>5 DEF TestStart, FOC_Stop
<1>6. CASE AT_SafetyCheck
  BY SMT, <1>6 DEF AT_SafetyCheck
<1>7. CASE Begin
  BY SMT, <1>7 DEF Begin, AT_TestBegin
<1>8. CASE Enable
  BY SMT, <1>8 DEF Enable, both_enable
<1>9. CASE IvPoint
  BY SMT, <1>9 DEF IvPoint
<1>10. CASE PairBegin
  BY SMT, <1>10 DEF PairBegin
<1>11. CASE AT_MeasurePair
  BY SMT, <1>11 DEF AT_MeasurePair
<1>12. CASE PairsCommit
  <2>1. par' = par \/ \E r, l \in Sane : par' = [par EXCEPT !.rs = r, !.ls = l]
    BY Zenon, <1>12 DEF PairsCommit
  <2>2. par' \in Params
    BY <2>1, CommitOfRsLs
  <2>3. /\ cmd' = cmd /\ n' = n /\ good' = good /\ driver' = driver /\ curve' = curve
        /\ pc' = "end" /\ rc' \in {"ok", "error"}
    BY <1>12 DEF PairsCommit
  <2> QED BY <2>2, <2>3
<1>13. CASE IdleRepetition
  BY SMT, <1>13 DEF IdleRepetition, both_enable
<1>14. CASE IdleSweep
  BY SMT, <1>14 DEF IdleSweep
<1>15. CASE IdleCommit
  <2>1. curve' \in 0 .. curve \/ curve' = curve
    BY Zenon, <1>15 DEF IdleCommit, Filtered
  <2>2. par' = par \/ \E found \in BOOLEAN, r \in Sane : par' = [par EXCEPT !.rs = r, !.isat = found]
    BY Zenon, <1>15 DEF IdleCommit
  <2>3. par' \in Params
    <3>1. CASE par' = par
      BY <3>1
    <3>2. ASSUME NEW found \in BOOLEAN, NEW r \in Sane,
                 par' = [par EXCEPT !.rs = r, !.isat = found]
          PROVE  par' \in Params
      <4>1. [par EXCEPT !.rs = r, !.isat = found] \in Params
        BY SaneIsValue, CommitOfIsat
      <4> QED BY <3>2, <4>1
    <3> QED BY <2>2, <3>1, <3>2
  <2>4. curve' \in 0 .. MaxCurve
    BY <2>1
  <2>5. /\ cmd' = cmd /\ n' = n /\ good' = good /\ driver' = driver
        /\ pc' = "end" /\ rc' \in {"ok", "error"}
    BY <1>15 DEF IdleCommit
  <2> QED BY <2>3, <2>4, <2>5
<1>16. CASE OewPoint
  BY SMT, <1>16 DEF OewPoint, pwm_wait_periods, WithNextPoint
<1>17. CASE WaitedPoint \/ TrSample
  BY SMT, <1>17 DEF WaitedPoint, TrSample, pwm_wait_periods
<1>18. CASE ScopePoint
  BY SMT, <1>18 DEF ScopePoint, pwm_wait_periods
<1>19. CASE LsposPosition
  BY SMT, <1>19 DEF LsposPosition, both_enable
<1>20. CASE LsposMeasure
  BY SMT, <1>20 DEF LsposMeasure
<1>21. CASE End
  BY SMT, <1>21 DEF End, AT_TestEnd, PreloadAfterTest
<1>22. CASE Stopped
  BY SMT, <1>22 DEF Stopped, Report
<1>23. CASE Rejected
  BY SMT, <1>23 DEF Rejected, Report
<1>24. CASE IvCommit
  BY SMT, <1>24 DEF IvCommit, Report, Params
<1>25. CASE RrCommit
  BY SMT, <1>25 DEF RrCommit, Report, Params
<1>26. CASE NoloadCommit
  <2>1. PICK t \in {"measured", "derived"} : par' = [par EXCEPT !.lm = "measured", !.tr = t]
    BY <1>26 DEF NoloadCommit, TrOf
  <2>2. par' \in Params
    BY <2>1, CommitOfRotor
  <2>3. /\ cmd' = "none" /\ n' = 0 /\ good' = 0 /\ driver' = driver /\ curve' = curve
        /\ pc' = "prompt" /\ rc' = "ok"
    BY <1>26 DEF NoloadCommit, Report
  <2> QED BY <2>2, <2>3
<1>27. CASE LsposCommit
  BY SMT, <1>27 DEF LsposCommit, Report, Params
<1>28. ASSUME NEW points \in Filtered, NEW found \in BOOLEAN, OewCommit(points, found)
      PROVE  Shapes' /\ LoopsAreBounded'
  <2>1. par.ls \in Values
    BY DEF Params
  <2>2. par' \in Params
    <3>1. \A l \in Values : [par EXCEPT !.ls = l, !.isat = found] \in Params
      BY CommitOfIsat
    <3>2. \E l \in Values : par' = [par EXCEPT !.ls = l, !.isat = found]
      BY Zenon, <1>28, <2>1, SaneIsValue DEF OewCommit
    <3> QED BY <3>1, <3>2
  <2>3. /\ cmd' = "none" /\ n' = 0 /\ good' = 0 /\ driver' = driver /\ curve' \in 0 .. MaxCurve
        /\ pc' = "prompt" /\ rc' = "ok"
    BY <1>28 DEF OewCommit, Report, Filtered
  <2> QED BY <2>2, <2>3
<1>29. ASSUME NEW k \in RunAt \cup Services, run_at(k)
      PROVE  Shapes' /\ LoopsAreBounded'
  BY SMT, <1>29 DEF run_at, Accept
<1>30. ASSUME NEW in \in Typed, EnterParams(in)
      PROVE  Shapes' /\ LoopsAreBounded'
  <2>1. in \in [rs : 0 .. 3, ls : 0 .. 3, rr : BOOLEAN, tr : BOOLEAN]
    BY TypedAssumption
  <2>2. par' \in Params
    BY <1>30, <2>1 DEF EnterParams, Params
  <2>3. /\ cmd' = cmd /\ n' = n /\ good' = good /\ driver' = driver /\ curve' = curve
        /\ pc' = pc /\ rc' = "ok"
    BY <1>30 DEF EnterParams
  <2> QED BY <2>2, <2>3
<1>31. CASE EnterTr \/ ApplyParams \/ Autotune_CalcPI \/ ApplyPI
  BY SMT, <1>31 DEF EnterTr, ApplyParams, Autotune_CalcPI, ApplyPI, Params
<1>32. CASE Autotune_Irot
  BY SMT, <1>32 DEF Autotune_Irot, FOC_Stop, TrOf, Params
<1>33. CASE StartFoc \/ Stop \/ ClearFault
  <2>1. CASE StartFoc
    <3>1. /\ cmd' = cmd /\ pc' = pc /\ n' = n /\ good' = good /\ rc' = "ok" /\ par' = par
          /\ curve' = curve /\ driver' \in {"foc", "none"}
      BY Zenon, <2>1 DEF StartFoc
    <3> QED BY <3>1
  <2>2. CASE Stop
    BY SMT, <1>33, <2>2 DEF Stop
  <2>3. CASE ClearFault
    BY SMT, <1>33, <2>3 DEF ClearFault
  <2> QED BY <1>33, <2>1, <2>2, <2>3
<1>34. ASSUME NEW d \in {"vf", "capture"}, StartOther(d)
      PROVE  Shapes' /\ LoopsAreBounded'
  BY SMT, <1>34 DEF StartOther
<1>35. CASE AbortByte \/ BreakIsr \/ OtherEnds
  BY SMT, <1>35 DEF AbortByte, BreakIsr, OtherEnds
<1> QED
  BY <1>1, <1>2, <1>3, <1>4, <1>5, <1>6, <1>7, <1>8, <1>9, <1>10, <1>11, <1>12, <1>13,
     <1>14, <1>15, <1>16, <1>17, <1>18, <1>19, <1>20, <1>21, <1>22, <1>23, <1>24, <1>25,
     <1>26, <1>27, <1>28, <1>29, <1>30, <1>31, <1>32, <1>33, <1>34, <1>35 DEF AutotuneNext,
     MainLoop, Commands

\* What a step takes of the stage is what its next place owes.
LEMMA SessionKeeps == ASSUME Flags, Shapes, Session, AutotuneNext PROVE Session'
<1> USE DEF Flags, Shapes, Session
<1>1. CASE DetectBegin
  BY SMT, <1>1 DEF DetectBegin, SafeToDrive
<1>2. CASE DetectEnd
  BY SMT, <1>2 DEF DetectEnd
<1>3. CASE ServiceBegin
  BY SMT, <1>3 DEF ServiceBegin, SafeToDrive
<1>4. CASE ServiceEnd
  BY SMT, <1>4 DEF ServiceEnd
<1>5. CASE TestStart
  BY SMT, <1>5 DEF TestStart, FOC_Stop
<1>6. CASE AT_SafetyCheck
  BY SMT, <1>6 DEF AT_SafetyCheck
<1>7. CASE Begin
  BY SMT, <1>7 DEF Begin, AT_TestBegin
<1>8. CASE Enable
  BY SMT, <1>8 DEF Enable, both_enable
<1>9. CASE IvPoint
  BY SMT, <1>9 DEF IvPoint
<1>10. CASE PairBegin
  BY SMT, <1>10 DEF PairBegin
<1>11. CASE AT_MeasurePair
  BY SMT, <1>11 DEF AT_MeasurePair
<1>12. CASE PairsCommit
  BY SMT, <1>12 DEF PairsCommit
<1>13. CASE IdleRepetition
  BY SMT, <1>13 DEF IdleRepetition, both_enable
<1>14. CASE IdleSweep
  BY SMT, <1>14 DEF IdleSweep
<1>15. CASE IdleCommit
  <2>1. /\ UNCHANGED <<cmd, busy, adcIrq, bridges, driver, preload, fault>>
        /\ pc' = "end" /\ pc = "loop" /\ cmd = "idle"
    BY Zenon, <1>15 DEF IdleCommit
  <2> QED BY <2>1
<1>16. CASE OewPoint
  BY SMT, <1>16 DEF OewPoint, pwm_wait_periods, WithNextPoint
<1>17. CASE WaitedPoint \/ TrSample
  BY SMT, <1>17 DEF WaitedPoint, TrSample, pwm_wait_periods
<1>18. CASE ScopePoint
  BY SMT, <1>18 DEF ScopePoint, pwm_wait_periods
<1>19. CASE LsposPosition
  BY SMT, <1>19 DEF LsposPosition, both_enable
<1>20. CASE LsposMeasure
  BY SMT, <1>20 DEF LsposMeasure
<1>21. CASE End
  <2>1. UNCHANGED <<cmd, driver>> /\ pc = "end" /\ pc' = "evaluate" /\ ~busy' /\ ~bridges'
    BY Zenon, <1>21 DEF End, AT_TestEnd
  <2>2. preload'
    BY Zenon, <1>21 DEF End, PreloadAfterTest
  <2> QED BY <2>1, <2>2
<1>22. CASE Stopped
  BY SMT, <1>22 DEF Stopped, Report
<1>23. CASE Rejected
  BY SMT, <1>23 DEF Rejected, Report
<1>24. CASE IvCommit
  BY SMT, <1>24 DEF IvCommit, Report
<1>25. CASE RrCommit
  BY SMT, <1>25 DEF RrCommit, Report
<1>26. CASE NoloadCommit
  BY SMT, <1>26 DEF NoloadCommit, Report
<1>27. CASE LsposCommit
  BY SMT, <1>27 DEF LsposCommit, Report
<1>28. ASSUME NEW points \in Filtered, NEW found \in BOOLEAN, OewCommit(points, found) PROVE Session'
  BY SMT, <1>28 DEF OewCommit, Report, Filtered
<1>29. ASSUME NEW k \in RunAt \cup Services, run_at(k) PROVE Session'
  BY SMT, <1>29 DEF run_at, Accept
<1>30. ASSUME NEW in \in Typed, EnterParams(in) PROVE Session'
  BY SMT, <1>30, TypedAssumption DEF EnterParams
<1>31. CASE EnterTr \/ ApplyParams \/ Autotune_CalcPI \/ ApplyPI
  BY SMT, <1>31 DEF EnterTr, ApplyParams, Autotune_CalcPI, ApplyPI
<1>32. CASE Autotune_Irot
  BY SMT, <1>32 DEF Autotune_Irot, FOC_Stop
<1>33. CASE StartFoc \/ Stop \/ ClearFault
  <2>1. CASE StartFoc
    <3>1. /\ pc = "prompt" /\ UNCHANGED <<cmd, pc, busy, preload>>
          /\ driver' = "foc" \/ ~bridges'
          /\ ~fault /\ fault' = fault
      BY Zenon, <2>1 DEF StartFoc
    <3> QED BY <3>1
  <2>2. CASE Stop
    BY SMT, <1>33, <2>2 DEF Stop
  <2>3. CASE ClearFault
    BY SMT, <1>33, <2>3 DEF ClearFault
  <2> QED BY <1>33, <2>1, <2>2, <2>3
<1>34. ASSUME NEW d \in {"vf", "capture"}, StartOther(d) PROVE Session'
  BY SMT, <1>34 DEF StartOther
<1>35. CASE AbortByte \/ BreakIsr \/ OtherEnds
  BY SMT, <1>35 DEF AbortByte, BreakIsr, OtherEnds
<1> QED
  BY <1>1, <1>2, <1>3, <1>4, <1>5, <1>6, <1>7, <1>8, <1>9, <1>10, <1>11, <1>12, <1>13,
     <1>14, <1>15, <1>16, <1>17, <1>18, <1>19, <1>20, <1>21, <1>22, <1>23, <1>24, <1>25,
     <1>26, <1>27, <1>28, <1>29, <1>30, <1>31, <1>32, <1>33, <1>34, <1>35 DEF AutotuneNext,
     MainLoop, Commands

\* Only a typed Tr sets the manual bit, and only another Tr takes it away.
LEMMA TrKeeps == ASSUME Shapes, TrIsNotTheTypedOne, AutotuneNext PROVE TrIsNotTheTypedOne'
<1> USE DEF Shapes, Params, TrIsNotTheTypedOne
<1>1. CASE DetectBegin \/ DetectEnd \/ ServiceBegin \/ ServiceEnd
  BY SMT, <1>1 DEF DetectBegin, SafeToDrive, DetectEnd, ServiceBegin, ServiceEnd
<1>2. CASE TestStart \/ AT_SafetyCheck \/ Begin \/ Enable \/ End
  BY SMT, <1>2 DEF TestStart, FOC_Stop, AT_SafetyCheck, Begin, AT_TestBegin, Enable,
         both_enable, End, AT_TestEnd, PreloadAfterTest
<1>3. CASE IvPoint \/ PairBegin \/ AT_MeasurePair \/ IdleRepetition \/ IdleSweep
  BY SMT, <1>3 DEF IvPoint, PairBegin, AT_MeasurePair, IdleRepetition, both_enable, IdleSweep
<1>4. CASE OewPoint \/ WaitedPoint \/ TrSample \/ ScopePoint \/ LsposPosition \/ LsposMeasure
  BY SMT, <1>4 DEF OewPoint, pwm_wait_periods, WithNextPoint, WaitedPoint, TrSample, ScopePoint,
         LsposPosition, both_enable, LsposMeasure
<1>5. CASE Stopped \/ Rejected
  BY SMT, <1>5 DEF Stopped, Report, Rejected
<1>6. CASE PairsCommit
  <2>1. par' = par \/ \E r, l \in Sane : par' = [par EXCEPT !.rs = r, !.ls = l]
    BY Zenon, <1>6 DEF PairsCommit
  <2>2. par'.tr = par.tr
    BY <2>1
  <2>3. mask' = mask \/ mask' = mask \cup {"RS", "LS", "PAIRS"}
    BY Zenon, <1>6 DEF PairsCommit
  <2> QED BY <2>2, <2>3
<1>7. CASE IdleCommit
  <2>1. par' = par \/ \E found \in BOOLEAN, r \in Sane : par' = [par EXCEPT !.rs = r, !.isat = found]
    BY Zenon, <1>7 DEF IdleCommit
  <2>2. par'.tr = par.tr
    BY <2>1
  <2>3. mask' \in {mask, mask \cup {"RS"}, mask \cup {"RS"} \cup {"ISAT"}}
    BY <1>7 DEF IdleCommit
  <2> QED BY <2>2, <2>3
<1>8. CASE IvCommit
  BY SMT, <1>8 DEF IvCommit, Report, Params
<1>9. CASE RrCommit
  BY SMT, <1>9 DEF RrCommit, Report, Params
<1>10. CASE NoloadCommit
  BY SMT, <1>10 DEF NoloadCommit, Report, TrOf
<1>11. CASE LsposCommit
  BY SMT, <1>11 DEF LsposCommit, Report, Params
<1>12. ASSUME NEW points \in Filtered, NEW found \in BOOLEAN, OewCommit(points, found) PROVE TrIsNotTheTypedOne'
  BY SMT, <1>12 DEF OewCommit, Report, Filtered
<1>13. ASSUME NEW k \in RunAt \cup Services, run_at(k) PROVE TrIsNotTheTypedOne'
  BY SMT, <1>13 DEF run_at, Accept
<1>14. ASSUME NEW in \in Typed, EnterParams(in) PROVE TrIsNotTheTypedOne'
  <2>1. in.tr \in BOOLEAN
    BY TypedAssumption
  <2>2. mask' = mask \cup TypedBits(in)
    BY <1>14 DEF EnterParams
  <2>3. ("TR" \in mask' <=> "TR" \in mask) /\ ("TR_MANUAL" \in mask' <=> "TR_MANUAL" \in mask \/ in.tr)
    BY <2>1, <2>2 DEF TypedBits
  <2>4. par'.tr = IF in.tr THEN "typed" ELSE par.tr
    BY <1>14 DEF EnterParams
  <2> QED BY <2>1, <2>3, <2>4
<1>15. CASE EnterTr \/ ApplyParams \/ Autotune_CalcPI \/ ApplyPI
  BY SMT, <1>15 DEF EnterTr, ApplyParams, Autotune_CalcPI, ApplyPI, Params
<1>16. CASE Autotune_Irot
  BY SMT, <1>16 DEF Autotune_Irot, FOC_Stop, TrOf, Params
<1>17. CASE StartFoc \/ Stop \/ ClearFault
  <2>1. UNCHANGED <<par, mask>>
    BY Zenon, <1>17 DEF StartFoc, Stop, ClearFault
  <2> QED BY <2>1
<1>18. ASSUME NEW d \in {"vf", "capture"}, StartOther(d) PROVE TrIsNotTheTypedOne'
  BY SMT, <1>18 DEF StartOther
<1>19. CASE AbortByte \/ BreakIsr \/ OtherEnds
  BY SMT, <1>19 DEF AbortByte, BreakIsr, OtherEnds
<1> QED
  BY <1>1, <1>2, <1>3, <1>4, <1>5, <1>6, <1>7, <1>8, <1>9, <1>10, <1>11, <1>12, <1>13,
     <1>14, <1>15, <1>16, <1>17, <1>18, <1>19 DEF AutotuneNext, MainLoop, Commands

\* A test stores where it has succeeded.
LEMMA StoresKeep == ASSUME Shapes, Session, AutotuneNext PROVE StoredByASuccess
<1> USE DEF Shapes, Session, StoredByASuccess
<1>1. CASE DetectBegin \/ DetectEnd \/ ServiceBegin \/ ServiceEnd
  BY <1>1 DEF DetectBegin, SafeToDrive, DetectEnd, ServiceBegin, ServiceEnd
<1>2. CASE TestStart \/ AT_SafetyCheck \/ Begin \/ Enable \/ End
  BY <1>2 DEF TestStart, FOC_Stop, AT_SafetyCheck, Begin, AT_TestBegin, Enable,
         both_enable, End, AT_TestEnd, PreloadAfterTest
<1>3. CASE IvPoint \/ PairBegin \/ AT_MeasurePair \/ IdleRepetition \/ IdleSweep
  BY <1>3 DEF IvPoint, PairBegin, AT_MeasurePair, IdleRepetition, both_enable, IdleSweep
<1>4. CASE OewPoint \/ WaitedPoint \/ TrSample \/ ScopePoint \/ LsposPosition \/ LsposMeasure
  BY <1>4 DEF OewPoint, pwm_wait_periods, WithNextPoint, WaitedPoint, TrSample, ScopePoint,
         LsposPosition, both_enable, LsposMeasure
<1>5. CASE Stopped \/ Rejected
  BY <1>5 DEF Stopped, Report, Rejected
<1>6. CASE PairsCommit
  BY <1>6 DEF PairsCommit
<1>7. CASE IdleCommit
  BY <1>7 DEF IdleCommit, Filtered
<1>8. CASE IvCommit
  BY <1>8 DEF IvCommit, Report
<1>9. CASE RrCommit
  BY <1>9 DEF RrCommit, Report
<1>10. CASE NoloadCommit
  BY <1>10 DEF NoloadCommit, Report
<1>11. CASE LsposCommit
  BY <1>11 DEF LsposCommit, Report
<1>12. ASSUME NEW points \in Filtered, NEW found \in BOOLEAN, OewCommit(points, found) PROVE StoredByASuccess
  BY <1>12 DEF OewCommit, Report, Filtered
<1>13. ASSUME NEW k \in RunAt \cup Services, run_at(k) PROVE StoredByASuccess
  BY <1>13 DEF run_at, Accept
<1>14. ASSUME NEW in \in Typed, EnterParams(in) PROVE StoredByASuccess
  BY <1>14 DEF EnterParams
<1>15. CASE EnterTr \/ ApplyParams \/ Autotune_CalcPI \/ ApplyPI
  BY <1>15 DEF EnterTr, ApplyParams, Autotune_CalcPI, ApplyPI
<1>16. CASE Autotune_Irot
  BY <1>16 DEF Autotune_Irot, FOC_Stop
<1>17. CASE StartFoc \/ Stop \/ ClearFault
  BY <1>17 DEF StartFoc, Stop, ClearFault
<1>18. ASSUME NEW d \in {"vf", "capture"}, StartOther(d) PROVE StoredByASuccess
  BY <1>18 DEF StartOther
<1>19. CASE AbortByte \/ BreakIsr \/ OtherEnds
  BY <1>19 DEF AbortByte, BreakIsr, OtherEnds
<1> QED
  BY <1>1, <1>2, <1>3, <1>4, <1>5, <1>6, <1>7, <1>8, <1>9, <1>10, <1>11, <1>12, <1>13,
     <1>14, <1>15, <1>16, <1>17, <1>18, <1>19 DEF AutotuneNext, MainLoop, Commands

\* A wait that is cut short leads to a failure, and a failure to no store.
LEMMA CutKeeps == ASSUME Flags, Shapes, Session, AutotuneNext PROVE CutStoresNothing
<1> SUFFICES ASSUME Doomed
             PROVE  UNCHANGED <<par, mask>> /\ (Doomed' \/ (cmd' = "none" /\ rc' # "ok"))
  BY DEF CutStoresNothing
<1> USE DEF Flags, Shapes, Session, Doomed, Waited, Cut
<1>1. CASE OewPoint
  BY SMT, <1>1 DEF OewPoint, pwm_wait_periods
<1>2. CASE WaitedPoint
  BY SMT, <1>2 DEF WaitedPoint, pwm_wait_periods
<1>3. CASE End
  BY SMT, <1>3 DEF End
<1>4. CASE Stopped
  BY SMT, <1>4 DEF Stopped, Report
<1>5. CASE AbortByte \/ BreakIsr \/ OtherEnds
  BY SMT, <1>5 DEF AbortByte, BreakIsr, OtherEnds
<1>6. ~(DetectBegin \/ DetectEnd \/ ServiceBegin \/ ServiceEnd \/ TestStart \/ AT_SafetyCheck
        \/ Begin \/ Enable)
  BY DEF DetectBegin, DetectEnd, ServiceBegin, ServiceEnd, TestStart, AT_SafetyCheck, Begin, Enable
<1>7. ~(IvPoint \/ PairBegin \/ AT_MeasurePair \/ PairsCommit \/ IdleRepetition \/ IdleSweep
        \/ IdleCommit \/ TrSample \/ ScopePoint \/ LsposPosition \/ LsposMeasure)
  BY DEF IvPoint, PairBegin, AT_MeasurePair, PairsCommit, IdleRepetition, IdleSweep, IdleCommit,
         TrSample, ScopePoint, LsposPosition, LsposMeasure
<1>8. ~(Rejected \/ IvCommit \/ RrCommit \/ NoloadCommit \/ LsposCommit
        \/ \E points \in Filtered, found \in BOOLEAN : OewCommit(points, found))
  BY DEF Rejected, IvCommit, RrCommit, NoloadCommit, LsposCommit, OewCommit, Report
<1>9. ~Commands
  BY DEF Commands, run_at, Accept, EnterParams, EnterTr, ApplyParams, Autotune_Irot,
         Autotune_CalcPI, ApplyPI, StartFoc, StartOther, Stop, ClearFault
<1> QED
  BY <1>1, <1>2, <1>3, <1>4, <1>5, <1>6, <1>7, <1>8, <1>9 DEF AutotuneNext, MainLoop

\* Gains are taken of the parameters they are calculated of.
LEMMA GainsKeep == ASSUME Shapes, AutotuneNext PROVE gains' \in {gains, GainsOf(par')}
<1> USE DEF Shapes, Params, GainsOf
<1>1. CASE DetectBegin \/ DetectEnd \/ ServiceBegin \/ ServiceEnd
  BY <1>1 DEF DetectBegin, SafeToDrive, DetectEnd, ServiceBegin, ServiceEnd
<1>2. CASE TestStart \/ AT_SafetyCheck \/ Begin \/ Enable \/ End
  BY <1>2 DEF TestStart, FOC_Stop, AT_SafetyCheck, Begin, AT_TestBegin, Enable,
         both_enable, End, AT_TestEnd, PreloadAfterTest
<1>3. CASE IvPoint \/ PairBegin \/ AT_MeasurePair \/ IdleRepetition \/ IdleSweep
  BY <1>3 DEF IvPoint, PairBegin, AT_MeasurePair, IdleRepetition, both_enable, IdleSweep
<1>4. CASE OewPoint \/ WaitedPoint \/ TrSample \/ ScopePoint \/ LsposPosition \/ LsposMeasure
  BY <1>4 DEF OewPoint, pwm_wait_periods, WithNextPoint, WaitedPoint, TrSample, ScopePoint,
         LsposPosition, both_enable, LsposMeasure
<1>5. CASE Stopped \/ Rejected
  BY <1>5 DEF Stopped, Report, Rejected
<1>6. CASE PairsCommit
  BY <1>6 DEF PairsCommit
<1>7. CASE IdleCommit
  BY <1>7 DEF IdleCommit, Filtered
<1>8. CASE IvCommit
  BY <1>8 DEF IvCommit, Report, Params
<1>9. CASE RrCommit
  BY <1>9 DEF RrCommit, Report, Params
<1>10. CASE NoloadCommit
  BY <1>10 DEF NoloadCommit, Report, TrOf
<1>11. CASE LsposCommit
  BY <1>11 DEF LsposCommit, Report, Params
<1>12. ASSUME NEW points \in Filtered, NEW found \in BOOLEAN, OewCommit(points, found) PROVE gains' \in {gains, GainsOf(par')}
  BY <1>12 DEF OewCommit, Report, Filtered
<1>13. ASSUME NEW k \in RunAt \cup Services, run_at(k) PROVE gains' \in {gains, GainsOf(par')}
  BY <1>13 DEF run_at, Accept
<1>14. ASSUME NEW in \in Typed, EnterParams(in) PROVE gains' \in {gains, GainsOf(par')}
  BY <1>14, TypedAssumption DEF EnterParams
<1>15. CASE EnterTr \/ ApplyParams \/ Autotune_CalcPI \/ ApplyPI
  <2>1. CASE EnterTr \/ Autotune_CalcPI
    BY <2>1 DEF EnterTr, Autotune_CalcPI
  <2>2. CASE ApplyParams
    BY <2>2 DEF ApplyParams
  <2>3. CASE ApplyPI
    <3>1. par' = par /\ (gains' = gains \/ (Autotune_GetLastPI /\ gains' = [rs |-> pi.rs, ls |-> pi.ls]))
      BY <2>3 DEF ApplyPI
    <3> QED BY <3>1 DEF Autotune_GetLastPI
  <2> QED BY <1>15, <2>1, <2>2, <2>3
<1>16. CASE Autotune_Irot
  BY <1>16 DEF Autotune_Irot, FOC_Stop, TrOf, Params
<1>17. CASE StartFoc \/ Stop \/ ClearFault
  BY <1>17 DEF StartFoc, Stop, ClearFault
<1>18. ASSUME NEW d \in {"vf", "capture"}, StartOther(d) PROVE gains' \in {gains, GainsOf(par')}
  BY <1>18 DEF StartOther
<1>19. CASE AbortByte \/ BreakIsr \/ OtherEnds
  BY <1>19 DEF AbortByte, BreakIsr, OtherEnds
<1> QED
  BY <1>1, <1>2, <1>3, <1>4, <1>5, <1>6, <1>7, <1>8, <1>9, <1>10, <1>11, <1>12, <1>13,
     <1>14, <1>15, <1>16, <1>17, <1>18, <1>19 DEF AutotuneNext, MainLoop, Commands

LEMMA AtStep == AtInv /\ [AutotuneNext]_vars => AtInv'
<1> SUFFICES ASSUME AtInv, [AutotuneNext]_vars PROVE AtInv'
  OBVIOUS
<1>1. CASE AutotuneNext
  BY <1>1, FlagsKeep, ShapesKeep, SessionKeeps, TrKeeps DEF AtInv
<1>2. CASE UNCHANGED vars
  <2>1. Flags'
    BY Zenon, <1>2 DEF AtInv, Flags
  <2>2. Shapes' /\ LoopsAreBounded'
    BY <1>2 DEF AtInv, Shapes, LoopsAreBounded
  <2>3. Session'
    BY Zenon, <1>2 DEF AtInv, Session
  <2>4. TrIsNotTheTypedOne'
    BY <1>2 DEF AtInv, TrIsNotTheTypedOne
  <2> QED BY <2>1, <2>2, <2>3, <2>4 DEF AtInv
<1> QED BY <1>1, <1>2

LEMMA AtInvariance == AutotuneSpec => []AtInv
BY AtInitially, AtStep, PTL DEF AutotuneSpec

\* Commands, places, counters and parameters keep to their ranges.
THEOREM AutotuneTypes == AutotuneSpec => []AtTypeOK
<1>1. AtInv => AtTypeOK
  BY ZenonT(40) DEF AtInv, AtTypeOK, Flags, Shapes, Params
<1> QED BY <1>1, AtInvariance, PTL

\* A test that drives the bridges has the conversions to itself (autotune.c,
\* AT_TestBegin and Autotune_DetectChannel).
THEOREM DrivenAlone == AutotuneSpec => []QuietWhileDriven
<1>1. AtInv => QuietWhileDriven
  BY Zenon DEF AtInv, QuietWhileDriven, Session
<1> QED BY <1>1, AtInvariance, PTL

\* Whatever ends a test, the stage is given back (autotune.c, AT_TestEnd).
THEOREM StageGivenBack == AutotuneSpec => []SessionGivenBack
<1>1. AtInv => SessionGivenBack
  BY Zenon DEF AtInv, SessionGivenBack, Session
<1> QED BY <1>1, AtInvariance, PTL

\* Tr measured and Tr typed are told apart, in whatever order the commands come
\* (autotune.h, AT_TrIsFromMeasurement).
THEOREM TrOriginKnown == AutotuneSpec => []TrIsNotTheTypedOne
<1>1. AtInv => TrIsNotTheTypedOne
  BY DEF AtInv
<1> QED BY <1>1, AtInvariance, PTL

\* Only a test that succeeds stores a value, and a wait for periods that is cut
\* short before the last point stores nothing (autotune.c, pwm_wait_periods and the
\* checks before each commit).
THEOREM FailureStoresNothing == AutotuneSpec => FailedTestKeepsResults
<1>1. AtInv /\ [AutotuneNext]_vars => [StoredByASuccess /\ CutStoresNothing]_vars
  BY Zenon, StoresKeep, CutKeeps DEF AtInv
<1> QED BY <1>1, AtInvariance, PTL DEF AutotuneSpec, FailedTestKeepsResults

\* FOC has gains of the parameters of the moment, whatever has changed them since
\* they were calculated (autotune.c, Autotune_GetLastPI).
THEOREM GainsFollowTheMotor == AutotuneSpec => GainsOfThePresentMotor
<1>1. AtInv /\ [AutotuneNext]_vars => [gains' \in {gains, GainsOf(par')}]_vars
  BY Zenon, GainsKeep DEF AtInv
<1> QED BY <1>1, AtInvariance, PTL DEF AutotuneSpec, GainsOfThePresentMotor

=============================================================================
