------------------------------- MODULE Autotune -------------------------------
(* The session every measurement of the autotune runs in (autotune.c, cli.c):   *)
(* the commands, the safety check, the bridges it switches itself, the ADC      *)
(* interrupt it takes away from the handlers, the nested channel detection, and *)
(* the parameters it leaves behind. A command runs in the main loop, while the  *)
(* UART handler may set the abort flag and a break may latch a fault between    *)
(* any two of its steps. The measurements themselves are in AutotuneTests.      *)
EXTENDS Integers, FiniteSets

CONSTANTS
    MaxCommands,   \* bound on the commands of a behaviour
    Points,        \* points, pairs, repetitions or positions of one measurement
    EnoughPoints,  \* of them, how many a result needs
    MaxCurve,      \* AUTOTUNE_MAX_CURVE_POINTS
    MinCurve,      \* AT_IDLE_MIN_CURVE_POINTS
    Typed          \* the parameter sets an operator enters with mp=

ASSUME BoundsAssumption ==
    /\ MaxCommands \in Nat
    /\ EnoughPoints \in Nat \ {0} /\ Points \in Nat /\ EnoughPoints <= Points
    /\ MinCurve \in Nat \ {0} /\ MaxCurve \in Nat /\ MinCurve <= MaxCurve

ASSUME TypedAssumption ==
    Typed \subseteq [rs : 0 .. 3, ls : 0 .. 3, rr : BOOLEAN, tr : BOOLEAN]

VARIABLES
    cmd, pc, n, good, rc, \* command, its place, loop counter, valid results, retcode
    wasOn,                \* AT_TestSession.irq_was_enabled
    abort, fault,         \* g_autotune_abort, the protection latch
    busy, adcIrq,         \* g_autotune_busy, NVIC enable of ADC1_2
    bridges, driver,      \* outputs on; which other control drives them
    preload,              \* CCMR1 preload bits
    chan, par, mask,      \* g_motor_params: channel known, values, measured_mask
    curve,                \* points of curve[]
    pi, gains,            \* last calculated gains, the gains of FOC
    sent                  \* commands so far

cmdVars == <<cmd, pc, n, good, rc, wasOn, sent>>
stage == <<busy, adcIrq, bridges, driver, preload>>
results == <<chan, par, mask, curve>>
control == <<pi, gains>>
vars == <<cmdVars, abort, fault, stage, results, control>>

Tests == {"iv", "pairs", "idle", "oew", "rr", "noload", "scope", "lspos", "tr"}
Services == {"probe", "hold", "pv", "svc"}
\* Run by cli.c between a disable and an enable of the ADC interrupt.
RunAt == Tests \cup {"ch", "probe"}

\* Rs and Ls: 0 is not measured, 3 is out of the range of AT_SaneRs / AT_SaneLs.
Values == 0 .. 3
Sane == {1, 2}

AutotuneInit ==
    /\ cmd = "none" /\ pc = "prompt" /\ n = 0 /\ good = 0 /\ rc = "ok" /\ sent = 0
    /\ wasOn = FALSE /\ abort = FALSE /\ fault = FALSE
    /\ busy = FALSE /\ adcIrq = TRUE /\ bridges = FALSE /\ driver = "none" /\ preload = TRUE
    /\ chan = FALSE /\ curve = 0 /\ mask = {}
    /\ par = [rs |-> 0, ls |-> 0, rr |-> "none", lm |-> "none", tr |-> "none", isat |-> FALSE]
    /\ pi = [done |-> FALSE, rs |-> 0, ls |-> 0] /\ gains = [rs |-> 0, ls |-> 0]

-----------------------------------------------------------------------------
(* Commands. *)

Accept(k) ==
    /\ pc = "prompt" /\ sent < MaxCommands
    /\ sent' = sent + 1 /\ cmd' = k

\* run_at: the interrupt is off from here to the return; irot, hold, pv and svc
\* are called without it.
run_at(k) ==
    /\ Accept(k) /\ pc' = "start" /\ n' = 0 /\ good' = 0 /\ rc' = "ok"
    /\ adcIrq' = (adcIrq /\ k \notin RunAt)
    /\ abort' = (abort /\ k \in {"ch", "probe", "iv", "pairs"} \cup Services)
    /\ UNCHANGED <<wasOn, fault, busy, bridges, driver, preload, results, control>>

\* The return to the command line.
Return(r) ==
    /\ rc' = r /\ pc' = "prompt" /\ cmd' = "none"
    /\ n' = 0 /\ good' = 0 /\ wasOn' = FALSE
    /\ UNCHANGED sent

IrqAfter(k, before) == before \/ k \in RunAt

\* A command of one step.
Answer(r) == /\ sent < MaxCommands /\ pc = "prompt" /\ sent' = sent + 1 /\ rc' = r
             /\ UNCHANGED <<cmd, pc, n, good, wasOn, abort, fault>>

FOC_Stop == IF driver = "foc" THEN driver' = "none" /\ bridges' = FALSE
                              ELSE UNCHANGED <<driver, bridges>>

\* What AT_SafetyCheck can let through: bus and residual current are the input.
SafeToDrive == ~fault /\ driver # "vf"

\* both_enable: no map, no context or a refused PWM_EnableAutotune is an abort.
both_enable ==
    \/ ~fault /\ ~bridges /\ bridges' = TRUE /\ UNCHANGED abort
    \/ abort' = TRUE /\ UNCHANGED bridges

\* Autotune_DetectChannel, as the command ch or nested in a measurement.
DetectBegin ==
    /\ pc = "detect"
    /\ \/ /\ Return("error") /\ busy' = FALSE /\ adcIrq' = IrqAfter(cmd, adcIrq)
          /\ UNCHANGED <<abort, bridges, driver>>
       \/ /\ SafeToDrive /\ pc' = "detecting"
          /\ busy' = TRUE /\ adcIrq' = FALSE
          /\ driver' = IF driver = "foc" THEN "none" ELSE driver
          /\ \/ bridges' = TRUE /\ UNCHANGED abort
             \/ bridges' = FALSE /\ abort' = TRUE
          /\ UNCHANGED <<cmd, n, good, rc, wasOn, sent>>
    /\ UNCHANGED <<fault, preload, results, control>>

DetectEnd ==
    /\ pc = "detecting"
    /\ bridges' = FALSE /\ adcIrq' = TRUE /\ busy' = FALSE
    /\ \/ Return("error") /\ UNCHANGED <<chan, mask>>
       \/ /\ bridges
          /\ chan' = TRUE /\ mask' = mask \cup {"CH"}
          /\ IF cmd = "ch" THEN Return("ok")
             ELSE pc' = "begin" /\ UNCHANGED <<cmd, n, good, rc, wasOn, sent>>
    /\ UNCHANGED <<abort, fault, driver, preload, par, curve, control>>

\* chu/chv/chw, hold=, pv= and svc=: drive, look, stop; no loop looks at abort.
ServiceBegin ==
    /\ pc = "start" /\ cmd \in Services
    /\ \/ /\ Return("error") /\ adcIrq' = IrqAfter(cmd, adcIrq)
          /\ UNCHANGED <<abort, busy, bridges, driver>>
       \/ /\ SafeToDrive
          /\ driver' = IF driver = "foc" THEN "none" ELSE driver
          /\ adcIrq' = (cmd = "svc")
          /\ \/ /\ bridges' = TRUE /\ abort' = FALSE
                /\ pc' = "service" /\ busy' = TRUE /\ UNCHANGED <<cmd, n, good, rc, wasOn, sent>>
             \/ /\ cmd # "svc" /\ bridges' = FALSE /\ abort' = TRUE
                /\ pc' = "service" /\ busy' = TRUE /\ UNCHANGED <<cmd, n, good, rc, wasOn, sent>>
             \/ /\ cmd = "svc" /\ bridges' = FALSE /\ abort' = FALSE
                /\ Return("error") /\ UNCHANGED busy
    /\ UNCHANGED <<fault, preload, results, control>>

ServiceEnd ==
    /\ pc = "service"
    /\ bridges' = FALSE /\ busy' = FALSE
    /\ adcIrq' = IrqAfter(cmd, adcIrq)
    /\ Return("ok")
    /\ UNCHANGED <<abort, fault, driver, preload, results, control>>

-----------------------------------------------------------------------------
(* The session of a measurement. *)

TestStart ==
    /\ pc = "start" /\ cmd \in Tests \cup {"ch"}
    /\ IF cmd = "ch" THEN pc' = "detect" /\ UNCHANGED <<abort, driver, bridges>>
       ELSE pc' = "safety" /\ abort' = FALSE /\ FOC_Stop
    /\ UNCHANGED <<cmd, n, good, rc, wasOn, sent, fault, busy, adcIrq, preload, results, control>>

AT_SafetyCheck ==
    /\ pc = "safety"
    /\ \/ Return("error") /\ adcIrq' = IrqAfter(cmd, adcIrq)
       \/ /\ SafeToDrive /\ pc' = IF chan THEN "begin" ELSE "detect"
          /\ UNCHANGED <<cmd, n, good, rc, wasOn, sent, adcIrq>>
    /\ UNCHANGED <<abort, fault, busy, bridges, driver, preload, results, control>>

Prerequisites(k) ==
    /\ k \in {"rr", "noload", "tr"} => par.rs > 0 /\ par.ls > 0
    /\ k = "noload" => par.rr # "none"
    /\ k = "lspos" => par.rs \in Sane

\* Mutant: the interrupt is left as it is found.
TestBeginTrusts == /\ busy' = TRUE /\ wasOn' = adcIrq /\ UNCHANGED adcIrq /\ bridges' = FALSE

AT_TestBegin == /\ busy' = TRUE /\ wasOn' = adcIrq /\ adcIrq' = FALSE /\ bridges' = FALSE

\* What a measurement empties before it starts.
Begin ==
    /\ pc = "begin"
    /\ \/ /\ ~Prerequisites(cmd) /\ Return("error")
          /\ adcIrq' = IrqAfter(cmd, adcIrq)
          /\ UNCHANGED <<busy, bridges, curve>>
       \/ /\ Prerequisites(cmd) /\ AT_TestBegin
          /\ curve' = IF cmd = "idle" THEN 0 ELSE curve
          /\ pc' = IF cmd \in {"idle", "lspos"} THEN "loop" ELSE "enable"
          /\ UNCHANGED <<cmd, n, good, rc, sent>>
    /\ UNCHANGED <<abort, fault, driver, preload, chan, par, mask, control>>

Enable ==
    /\ pc = "enable"
    /\ \/ both_enable /\ pc' = "loop" /\ UNCHANGED rc
       \/ cmd = "oew" /\ pc' = "end" /\ rc' = "error" /\ UNCHANGED <<abort, bridges>>
    /\ UNCHANGED <<cmd, n, good, wasOn, sent, fault, busy, adcIrq, driver, preload,
                   results, control>>

\* Mutant: the bridges are left to the next command.
TestEndLeavesOn ==
    /\ busy' = FALSE /\ UNCHANGED bridges /\ adcIrq' = (adcIrq \/ wasOn)

AT_TestEnd == busy' = FALSE /\ bridges' = FALSE /\ adcIrq' = (adcIrq \/ wasOn)

-----------------------------------------------------------------------------
(* The parameters entered and the gains made of them. *)

\* FOC_SetMotorParams
Settable(p) == driver # "foc" /\ p.rs > 0 /\ p.ls > 0

\* Mutant: a typed Tr counts as a measured one.
TypedBitsMeasured(i) == {"RS", "LS"} \cup (IF i.rr THEN {"RR", "LM"} ELSE {}) \cup (IF i.tr THEN {"TR"} ELSE {})

TypedBits(i) ==
    {"RS", "LS"} \cup (IF i.rr THEN {"RR", "LM"} ELSE {})
                 \cup (IF i.tr THEN {"TR_MANUAL"} ELSE {})

\* mp=: the parameters are stored before FOC accepts or refuses them.
EnterParams(i) ==
    /\ Answer("ok")
    /\ par' = [par EXCEPT !.rs = i.rs, !.ls = i.ls,
                          !.rr = IF i.rr THEN "typed" ELSE @,
                          !.lm = IF i.rr THEN "typed" ELSE @,
                          !.tr = IF i.tr THEN "typed" ELSE @]
    /\ mask' = mask \cup TypedBits(i)
    /\ gains' = IF Settable(par') THEN [rs |-> i.rs, ls |-> i.ls] ELSE gains
    /\ UNCHANGED <<stage, chan, curve, pi>>

\* trm=: a rotor time constant measured outside.
EnterTr ==
    /\ Answer("ok")
    /\ par' = [par EXCEPT !.tr = "entered"]
    /\ mask' = (mask \cup {"TR"}) \ {"TR_MANUAL"}
    /\ UNCHANGED <<stage, chan, curve, control>>

\* mpapply
ApplyParams ==
    /\ Settable(par) /\ Answer("ok")
    /\ gains' = [rs |-> par.rs, ls |-> par.ls]
    /\ UNCHANGED <<stage, results, pi>>

\* Tr = Lr / Rr is as good as what it is made of.
TrOf(p) == IF p.rr = "measured" /\ p.lm = "measured" THEN "measured" ELSE "derived"

\* irot: an overflowed Tr is refused after it was stored.
Autotune_Irot ==
    /\ FOC_Stop
    /\ \/ /\ fault \/ par.rr = "none" \/ (par.lm = "none" /\ par.ls = 0)
          /\ Answer("error") /\ UNCHANGED <<par, mask>>
       \/ /\ ~fault /\ par.rr # "none" /\ (par.lm # "none" \/ par.ls > 0)
          /\ \/ /\ Answer("ok") /\ par' = [par EXCEPT !.tr = TrOf(par)]
                /\ mask' = (mask \cup {"TR"}) \ {"TR_MANUAL"}
             \/ Answer("error") /\ par' = [par EXCEPT !.tr = "overflow"] /\ UNCHANGED mask
    /\ UNCHANGED <<busy, adcIrq, preload, chan, curve, control>>

\* pi=: not of insane parameters or out of the bandwidth range.
Autotune_CalcPI ==
    /\ Answer("ok")
    /\ \/ par.rs \in Sane /\ par.ls \in Sane /\ pi' = [done |-> TRUE, rs |-> par.rs, ls |-> par.ls]
       \/ pi' = [pi EXCEPT !.done = FALSE]
    /\ UNCHANGED <<stage, results, gains>>

\* Mutant: the parameters may have changed since.
LastPIOfAnyParams == pi.done

Autotune_GetLastPI == pi.done /\ pi.rs = par.rs /\ pi.ls = par.ls

\* piapply
ApplyPI ==
    /\ Answer("ok")
    /\ pi' = [pi EXCEPT !.done = Autotune_GetLastPI]
    /\ gains' = IF Autotune_GetLastPI /\ driver # "foc" THEN [rs |-> pi.rs, ls |-> pi.ls] ELSE gains
    /\ UNCHANGED <<stage, results>>

-----------------------------------------------------------------------------
(* The rest of the drive. *)

\* 1: FOC enables the ADC interrupt before it arms. Its own refusals are the input.
StartFoc ==
    /\ ~fault /\ driver \in {"none", "vf"} /\ Answer("ok")
    /\ \/ driver' = "foc" /\ bridges' = TRUE /\ adcIrq' = TRUE
       \/ driver' = "none" /\ bridges' = FALSE /\ adcIrq' \in {adcIrq, TRUE}
    /\ UNCHANGED <<busy, preload, results, control>>

\* vf= and mapcap run: neither touches the interrupt.
StartOther(d) ==
    /\ ~fault /\ driver \in (IF d = "vf" THEN {"none", "foc"} ELSE {"none"}) /\ Answer("ok")
    /\ \/ driver' = d /\ bridges' = TRUE
       \/ driver' = "none" /\ bridges' = FALSE
    /\ UNCHANGED <<busy, adcIrq, preload, results, control>>

Stop ==
    /\ driver # "none" /\ Answer("ok") /\ driver' = "none" /\ bridges' = FALSE
    /\ UNCHANGED <<busy, adcIrq, preload, results, control>>

ClearFault ==
    /\ fault /\ pc = "prompt" /\ sent < MaxCommands
    /\ fault' = FALSE /\ sent' = sent + 1
    /\ UNCHANGED <<cmd, pc, n, good, rc, wasOn, abort, stage, results, control>>

\* A byte stream "abort", recognised by the UART handler and by the command line.
AbortByte ==
    /\ abort' = TRUE
    /\ UNCHANGED <<cmdVars, fault, stage, results, control>>

\* A break handler: the latch, and FOC_Stop.
BreakIsr ==
    /\ ~fault /\ fault' = TRUE /\ bridges' = FALSE
    /\ driver' = IF driver = "foc" THEN "none" ELSE driver
    /\ UNCHANGED <<cmdVars, abort, busy, adcIrq, preload, results, control>>

\* TIM6 stops V/f after a fault; a capture ends by itself, on its periods.
OtherEnds ==
    /\ driver = "capture" \/ (driver = "vf" /\ fault)
    /\ driver' = "none" /\ bridges' = FALSE
    /\ UNCHANGED <<cmdVars, abort, fault, busy, adcIrq, preload, results, control>>
=============================================================================
