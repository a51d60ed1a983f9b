---------------------------- MODULE AutotuneTests ----------------------------
(* The nine measurements (autotune.c). Each loops over its points in one of two  *)
(* ways: those that wait for periods of the PWM leave on an abort, a fault or a   *)
(* stopped timer; those that only delay see an abort at the next look, and a      *)
(* fault as a current that is gone (tr waits once, then delays). Then the session *)
(* ends, and the result is judged and stored.                                     *)
EXTENDS Autotune

Measuring(k) == cmd = k /\ pc = "loop"

Stay == UNCHANGED <<cmd, rc, wasOn, sent>>

KeepStage == UNCHANGED <<fault, busy, adcIrq, driver, control>>

\* To the cleanup with this retcode.
Leave(r) == pc' = "end" /\ rc' = r /\ UNCHANGED <<cmd, n, good, wasOn, sent>>

\* The next point, with or without a valid result.
Next_(valid) == n' = n + 1 /\ good' = IF valid THEN good + 1 ELSE good

\* Mutant: only the update flag of the timer ends the wait.
WaitForUpdate(ok) == ok /\ bridges

\* pwm_wait_periods: the periods came, or one of its ways out: the abort, the
\* fault, the stopped timer.
pwm_wait_periods(ok) == IF ok THEN bridges /\ ~abort ELSE abort \/ fault \/ ~bridges

NoCurveNoParams == UNCHANGED <<abort, bridges, preload, results>>

\* iv
IvPoint ==
    /\ Measuring("iv")
    /\ \/ n = Points /\ Leave("ok")
       \/ n < Points /\ abort /\ Leave("aborted")
       \/ n < Points /\ ~abort /\ bridges /\ Leave("error")
       \/ /\ n < Points /\ ~abort
          /\ \E valid \in {FALSE, bridges} : Next_(valid)
          /\ UNCHANGED pc /\ Stay
    /\ NoCurveNoParams /\ KeepStage

\* pairs: a pair that fails is skipped, also when it failed of an abort.
PairBegin ==
    /\ Measuring("pairs") /\ n < Points
    /\ \/ abort /\ Leave("aborted")
       \/ ~abort /\ pc' = "rep" /\ n' = n + 1 /\ UNCHANGED good /\ Stay
    /\ NoCurveNoParams /\ KeepStage

AT_MeasurePair ==
    /\ cmd = "pairs" /\ pc = "rep"
    /\ \E valid \in {FALSE, bridges /\ ~abort} :
           /\ good' = IF valid THEN good + 1 ELSE good
    /\ pc' = "loop" /\ UNCHANGED n /\ Stay
    /\ UNCHANGED <<abort, bridges, preload, chan, par, mask, curve>> /\ KeepStage

PairsCommit ==
    /\ Measuring("pairs") /\ n = Points
    /\ \/ good < EnoughPoints /\ Leave("error") /\ UNCHANGED <<par, mask>>
       \/ /\ good >= EnoughPoints /\ Leave("ok")
          /\ \E r, l \in Sane : par' = [par EXCEPT !.rs = r, !.ls = l]
          /\ mask' = mask \cup {"RS", "LS", "PAIRS"}
    /\ UNCHANGED <<abort, bridges, preload, chan, curve>> /\ KeepStage

\* idle: the bridges are enabled and disabled once a repetition; the first one
\* draws the curve.
IdleRepetition ==
    /\ Measuring("idle") /\ n < Points
    /\ \/ abort /\ Leave("aborted") /\ UNCHANGED <<abort, bridges>>
       \/ /\ ~abort /\ both_enable
          /\ pc' = "rep" /\ UNCHANGED <<n, good>> /\ Stay
    /\ UNCHANGED <<preload, results>> /\ KeepStage

IdleSweep ==
    /\ cmd = "idle" /\ pc = "rep"
    /\ \E c \in (IF n = 0 /\ bridges THEN curve .. MaxCurve ELSE {curve}) : curve' = c
    /\ \/ abort /\ Leave("aborted") /\ UNCHANGED bridges
       \/ ~abort /\ (bridges \/ par.rs > 0) /\ Leave("error") /\ UNCHANGED bridges
       \/ /\ ~abort /\ (bridges \/ par.rs = 0)
          /\ \E valid \in {FALSE, bridges /\ par.rs \in Sane \cup {0}} : Next_(valid)
          /\ bridges' = FALSE /\ pc' = "loop" /\ Stay
    /\ UNCHANGED <<abort, preload, chan, par, mask>> /\ KeepStage

\* AT_MathCurveFilterOutliers keeps some of the points.
Filtered == 0 .. curve

\* stat_compute is called for the repeated Rs alone: the median of Ls is the 0
\* Autotune_Init left, and no Ls is stored.
IdleCommit ==
    /\ Measuring("idle") /\ n = Points
    /\ \/ good = 0 /\ Leave("error") /\ UNCHANGED <<par, mask, curve>>
       \/ /\ good > 0 /\ Leave("ok")
          /\ \E points \in Filtered, found \in BOOLEAN, r \in Sane :
                 /\ par.rs > 0 => r = par.rs
                 /\ found => points >= MinCurve
                 /\ curve' = points
                 /\ par' = [par EXCEPT !.rs = r, !.isat = found]
                 /\ mask' = mask \cup {"RS"} \cup (IF found THEN {"ISAT"} ELSE {})
    /\ UNCHANGED <<abort, bridges, preload, chan>> /\ KeepStage

\* A point goes behind those an earlier test left; a full curve takes none.
WithNextPoint == {curve} \cup ({curve + 1} \cap 0 .. MaxCurve)

\* oew: the preload bits are off from the pulse on; the points go to curve[] as
\* they are measured.
OewPoint ==
    /\ Measuring("oew")
    /\ \/ n = Points /\ Leave("ok") /\ UNCHANGED <<preload, curve>>
       \/ n < Points /\ abort /\ Leave("aborted") /\ preload' \in BOOLEAN /\ UNCHANGED curve
       \/ n < Points /\ ~abort /\ bridges /\ Leave("error") /\ UNCHANGED <<preload, curve>>
       \/ n < Points /\ pwm_wait_periods(FALSE) /\ Leave("error") /\ preload' = FALSE /\ UNCHANGED curve
       \/ /\ n < Points /\ pwm_wait_periods(TRUE)
          /\ curve' \in WithNextPoint
          /\ Next_(TRUE) /\ UNCHANGED <<pc, preload>> /\ Stay
    /\ UNCHANGED <<abort, bridges, chan, par, mask>> /\ KeepStage

\* rr and noload: a point is a wait, and a reading below the limit.
WaitedPoint ==
    /\ \E k \in {"rr", "noload"} : Measuring(k)
    /\ \/ n = Points /\ Leave("ok")
       \/ n < Points /\ pwm_wait_periods(FALSE) /\ Leave("error")
       \/ n < Points /\ ~abort /\ bridges /\ Leave("error")
       \/ n < Points /\ pwm_wait_periods(TRUE) /\ Next_(TRUE) /\ UNCHANGED pc /\ Stay
    /\ NoCurveNoParams /\ KeepStage

\* tr: the first point is the wait and the reading before the step; then the decay
\* is sampled after delays, and an abort, a reading above the limit or a curve
\* without a fit leaves.
TrSample ==
    /\ Measuring("tr")
    /\ \/ n = Points /\ Leave("ok")
       \/ n = 0 /\ pwm_wait_periods(FALSE) /\ Leave("error")
       \/ n > 0 /\ Leave("error")
       \/ /\ n < Points /\ ~abort /\ (n = 0 => pwm_wait_periods(TRUE))
          /\ Next_(TRUE) /\ UNCHANGED pc /\ Stay
    /\ NoCurveNoParams /\ KeepStage

\* scope: an abort ends the loop, and is judged after the session.
ScopePoint ==
    /\ Measuring("scope")
    /\ \/ (n = Points \/ abort) /\ Leave("ok")
       \/ n < Points /\ ~abort /\ pwm_wait_periods(FALSE) /\ Leave("error")
       \/ n < Points /\ ~abort /\ bridges /\ Leave("error")
       \/ n < Points /\ pwm_wait_periods(TRUE) /\ Next_(TRUE) /\ UNCHANGED pc /\ Stay
    /\ NoCurveNoParams /\ KeepStage

\* lspos: three seconds to turn the shaft, then the bridges for one position.
LsposPosition ==
    /\ Measuring("lspos")
    /\ \/ n = Points /\ Leave("ok") /\ UNCHANGED <<abort, bridges>>
       \/ n < Points /\ abort /\ Leave("aborted") /\ UNCHANGED <<abort, bridges>>
       \/ /\ n < Points /\ ~abort /\ both_enable
          /\ pc' = "rep" /\ UNCHANGED <<n, good>> /\ Stay
    /\ UNCHANGED <<preload, results>> /\ KeepStage

LsposMeasure ==
    /\ cmd = "lspos" /\ pc = "rep"
    /\ \/ Leave("error") /\ UNCHANGED bridges
       \/ /\ bridges /\ bridges' = FALSE
          /\ \E valid \in {FALSE, ~abort} : Next_(valid)
          /\ pc' = "loop" /\ Stay
    /\ UNCHANGED <<abort, preload, results>> /\ KeepStage

-----------------------------------------------------------------------------
(* After the loop. *)

\* Mutant: an oew test that was stopped leaves the preload off.
PreloadAsLeft == preload

PreloadAfterTest == preload \/ cmd = "oew"

End ==
    /\ pc = "end" /\ AT_TestEnd /\ pc' = "evaluate"
    /\ preload' = PreloadAfterTest
    /\ UNCHANGED <<cmd, n, good, rc, wasOn, sent, abort, fault, driver, results, control>>

\* A stopped test, or one with nothing to store.
Report(k, r) ==
    /\ cmd = k /\ pc = "evaluate" /\ Return(r) /\ adcIrq' = IrqAfter(k, adcIrq)
    /\ UNCHANGED <<abort, fault, busy, bridges, driver, preload, chan, control>>

Stopped ==
    /\ \E k \in Tests : Report(k, IF k = "scope" /\ abort /\ rc = "ok" THEN "aborted" ELSE rc)
    /\ rc # "ok" \/ cmd \in {"scope", "tr", "pairs", "idle"}
    /\ UNCHANGED <<par, mask, curve>>

\* Too few points, no spread, an insane value, too much noise.
Rejected ==
    /\ rc = "ok" /\ \E k \in {"iv", "rr", "noload", "lspos"} : Report(k, "error")
    /\ UNCHANGED <<par, mask, curve>>

IvCommit ==
    /\ rc = "ok" /\ good >= EnoughPoints /\ Report("iv", "ok")
    /\ \E r \in Sane : par' = [par EXCEPT !.rs = r]
    /\ mask' = mask \cup {"RS"} /\ UNCHANGED curve

\* The median of no point is 0, which is refused; Isat goes all the same.
OewCommit(points, found) ==
    /\ rc = "ok" /\ Report("oew", "ok")
    /\ \E l \in (IF points = 0 THEN {par.ls} ELSE Sane) :
           /\ par' = [par EXCEPT !.ls = l, !.isat = found]
           /\ mask' = mask \cup (IF points = 0 THEN {} ELSE {"LS"}) \cup (IF found THEN {"ISAT"} ELSE {})
    /\ curve' = points

RrCommit ==
    /\ rc = "ok" /\ Report("rr", "ok")
    /\ par' = [par EXCEPT !.rr = "measured"]
    /\ mask' = mask \cup {"RR"} /\ UNCHANGED curve

\* Mutant: Lm is stored before it is compared with Ls.
NoloadStoresFirst ==
    /\ rc = "ok" /\ \E r \in {"ok", "error"} : Report("noload", r)
    /\ par' = [par EXCEPT !.lm = "measured", !.tr = IF rc' = "ok" THEN TrOf([par EXCEPT !.lm = "measured"]) ELSE @]
    /\ mask' = mask \cup {"LM"} /\ UNCHANGED curve

\* The manual bit of an earlier Tr stays.
NoloadCommit ==
    /\ rc = "ok" /\ Report("noload", "ok")
    /\ par' = [par EXCEPT !.lm = "measured", !.tr = TrOf([par EXCEPT !.lm = "measured"])]
    /\ mask' = mask \cup {"LM", "TR"} /\ UNCHANGED curve

\* A median out of range is reported and not stored.
LsposCommit ==
    /\ rc = "ok" /\ good >= EnoughPoints /\ Report("lspos", "ok")
    /\ \/ UNCHANGED <<par, mask>>
       \/ /\ \E l \in Sane : par' = [par EXCEPT !.ls = l]
          /\ mask' = mask \cup {"LS"}
    /\ UNCHANGED curve

-----------------------------------------------------------------------------
MainLoop ==
    \/ DetectBegin \/ DetectEnd \/ ServiceBegin \/ ServiceEnd
    \/ TestStart \/ AT_SafetyCheck \/ Begin \/ Enable
    \/ IvPoint \/ PairBegin \/ AT_MeasurePair \/ PairsCommit \/ IdleRepetition \/ IdleSweep \/ IdleCommit
    \/ OewPoint \/ WaitedPoint \/ TrSample \/ ScopePoint \/ LsposPosition \/ LsposMeasure
    \/ End \/ Stopped \/ Rejected
    \/ IvCommit \/ RrCommit \/ NoloadCommit \/ LsposCommit
    \/ \E points \in Filtered, found \in BOOLEAN : (found => points >= MinCurve) /\ OewCommit(points, found)

Commands ==
    \/ \E k \in RunAt \cup Services : run_at(k)
    \/ \E i \in Typed : EnterParams(i)
    \/ EnterTr \/ ApplyParams \/ Autotune_Irot \/ Autotune_CalcPI \/ ApplyPI
    \/ StartFoc \/ \E d \in {"vf", "capture"} : StartOther(d)
    \/ Stop \/ ClearFault

AutotuneNext == MainLoop \/ Commands \/ AbortByte \/ BreakIsr \/ OtherEnds

\* The main loop always gets on, whatever the handlers do in between.
AutotuneSpec == AutotuneInit /\ [][AutotuneNext]_vars /\ WF_vars(MainLoop)
=============================================================================
