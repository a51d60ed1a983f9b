---------------------------- MODULE AutotuneProps ----------------------------
(* What must hold of the autotune session and of the parameters it leaves.      *)
EXTENDS AutotuneTests

Origins == {"none", "typed", "measured"}

AtTypeOK ==
    /\ cmd \in RunAt \cup Services \cup {"none"}
    /\ pc \in {"prompt", "start", "safety", "detect", "detecting", "begin", "enable",
               "loop", "rep", "end", "evaluate", "service"}
    /\ n \in 0 .. Points /\ good \in 0 .. n /\ rc \in {"ok", "error", "aborted"}
    /\ {wasOn, abort, fault, busy, adcIrq, bridges, preload, chan} \subseteq BOOLEAN
    /\ driver \in {"none", "foc", "vf", "capture"}
    /\ par \in [rs : Values, ls : Values, rr : Origins, lm : Origins, isat : BOOLEAN,
                tr : Origins \cup {"entered", "derived", "overflow"}]
    /\ curve \in 0 .. MaxCurve

\* While a test drives the bridges with regular conversions, no ADC handler runs:
\* also after the nested channel detection, which enables the interrupt on its way
\* out (autotune.c, AT_TestBegin and Autotune_DetectChannel).
QuietWhileDriven == busy /\ bridges /\ cmd # "svc" => ~adcIrq

\* On every way out of every test the session gives back what it took: once the
\* command line is back the compare preload an oew pulse switches off is on, or
\* control would load its vectors in mid period, and the bridges are off unless
\* another control drives them (autotune.c, AT_TestEnd and oew_cleanup).
SessionGivenBack ==
    pc = "prompt" => preload /\ (driver = "none" => ~bridges /\ ~busy)

\* A Tr the slip model may use is never the one mp= typed over it, in whatever
\* order the commands come (autotune.h, AT_TrIsFromMeasurement).
TrIsNotTheTypedOne == "TR" \in mask /\ "TR_MANUAL" \notin mask => par.tr # "typed"

StoredByASuccess == cmd \in Tests /\ par' # par => rc' = "ok"

\* The measurements whose every point waits for periods of the PWM, and what cuts
\* such a wait short.
Waited == {"oew", "rr", "noload"}
Cut == abort \/ fault \/ ~bridges

\* One of them was hit with points still to take, or has left its loop for that or
\* another failure.
Doomed ==
    /\ cmd \in Waited
    /\ \/ pc = "loop" /\ n < Points /\ Cut
       \/ pc \in {"end", "evaluate"} /\ rc # "ok"

CutStoresNothing ==
    Doomed => UNCHANGED <<par, mask>> /\ (Doomed' \/ (cmd' = "none" /\ rc' # "ok"))

\* No test stores a value it reports as failed, and a measurement that waits for
\* periods and is hit by an abort, a fault or a stopped timer before its last point
\* reports a failure and stores neither value nor mask bit, whatever else comes
\* until then (autotune.c, pwm_wait_periods and the checks before each commit). The
\* tests that only delay (iv, pairs, idle, lspos) may store what enough points from
\* before the break gave; curve[] is not covered, see OewIsTransaction.
FailedTestKeepsResults ==
    [][StoredByASuccess /\ CutStoresNothing]_vars

GainsOf(p) == [rs |-> p.rs, ls |-> p.ls]

\* FOC gets gains of the Rs and Ls of the moment only, though they may change between
\* pi= and piapply (autotune.c, Autotune_GetLastPI; cli.c, mp= and mpapply).
GainsOfThePresentMotor ==
    [][gains' \in {gains, GainsOf(par')}]_vars

\* Every command ends: a fault that stops the timers in mid test, an abort or a
\* refused enable leaves no wait without a way out (autotune.c, pwm_wait_periods).
CommandsEnd == cmd # "none" ~> cmd = "none"

-----------------------------------------------------------------------------
(* What the documents say and the code does not do.                              *)

\* Bridges that FOC, V/f or a capture drives are watched by the ADC interrupt: a
\* command that takes it away gives it back (docs/tz/TZ_CLI_MAIN_LOOP_EXTRACTION.md,
\* 4.3). hold= and pv= do not, and vf= does not ask (autotune.c, Autotune_HoldVector).
PoweredIsSupervised == pc = "prompt" /\ driver # "none" /\ bridges => adcIrq

\* AT_VALID_TR is set by the autotune alone, a number the operator types never gives
\* the angle of the field (foc.c, the slip gate). trm= sets it for a typed number.
TrIsNeverEntered == "TR" \in mask /\ "TR_MANUAL" \notin mask => par.tr # "entered"

IdleSucceeds == cmd = "idle" /\ cmd' = "none" /\ rc' = "ok"

\* A successful idle measures Ls too (docs/AUTOTUNE_GUI_GUIDE.md, the table of the
\* commands). Its median is never computed.
IdleMeasuresLs == [][IdleSucceeds => "LS" \in mask']_vars

\* An oew test is a transaction: one that fails leaves the curve (autotune.c, the
\* comment before the commit). Its points are in it by then.
OewIsTransaction == [][cmd = "oew" /\ curve' # curve => cmd' = "none" /\ rc' = "ok"]_vars

\* The mask tells which parameters are measured and not left at zero (autotune.h,
\* AT_VALID). A later idle or oew without a saturation clears Isat and not its bit.
MaskMeansMeasured == "ISAT" \in mask => par.isat
=============================================================================
