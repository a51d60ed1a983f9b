------------------------------- MODULE FocRun -------------------------------
(***************************************************************************)
(* How FOC starts, runs and reverses: the open-loop ramp (vf_start.c), the *)
(* gate that hands over to closed-loop RUN (foc_handoff_gate.c), the       *)
(* policy that stages reversals and gives up a lost encoder                *)
(* (foc_run_policy.c), and the parts of foc.c that drive them.             *)
(*                                                                         *)
(* An ADC frame is one step: its handler has the highest priority.  The    *)
(* main loop's FOC_SetSpeed is split wherever a frame fits between two of  *)
(* its statements.  Speeds are signed numbers whose size matters only      *)
(* against ZERO_RPM; currents, EMF, angles and the pole pairs (one here)   *)
(* are left out, and whatever of them decides a handoff is chosen freely.  *)
(***************************************************************************)
EXTENDS Integers, Sequences

CONSTANTS
  Requests,        \* the speeds an operator asks for
  Measured,        \* the speeds the encoder shows
  ZERO_RPM, ZERO_CYCLES, BAD_CYCLES, STARTUP_CYCLES,   \* foc_run_policy.h
  REQUIRED, MAX_STARTUP, MAX_HANDOFF,                  \* handoff_cfg
  ZERO_FRAMES,     \* unreadable frames in a row that are forgiven
  RAMP,            \* frames of a ramp from rest
  MaxCalls         \* bound on the calls of FOC_SetSpeed since the last start

ASSUME FocRunAssumption ==
  /\ Requests \subseteq Int /\ Measured \subseteq Int
  /\ {ZERO_RPM, ZERO_CYCLES, BAD_CYCLES, STARTUP_CYCLES, REQUIRED,
      MAX_STARTUP, MAX_HANDOFF, ZERO_FRAMES, RAMP} \subseteq Nat \ {0}
  /\ MaxCalls \in Nat

VARIABLES
  foc_running, foc_state, speed_ref,
  policy,          \* FocRunPolicy
  gate,            \* FocHandoffGate
  vf,              \* VFStart
  zero_frames,
  main,            \* where FOC_SetSpeed is, and the request it carries
  calls,
  hist             \* history: what the frames have shown, see History below

vars == <<foc_running, foc_state, speed_ref, policy, gate, vf, zero_frames, main, calls, hist>>
drive == <<foc_running, foc_state, speed_ref, policy, gate, vf, zero_frames, hist>>

Abs(x) == IF x < 0 THEN -x ELSE x
Opposite(a, b) == a * b < 0
AtMost(n, limit) == IF n > limit THEN limit ELSE n

FocRunPolicy_Init == [bad |-> 0, seen |-> FALSE, standing |-> 0,
                      zero |-> 0, pending |-> FALSE, reverse |-> 0]
GateFields == <<"startup_cycles", "handoff_cycles", "consecutive_good",
                "latched_ready", "latched_timeout">>
FocHandoffGate_Init == [startup_cycles |-> 0, handoff_cycles |-> 0, consecutive_good |-> 0,
                        latched_ready |-> FALSE, latched_timeout |-> FALSE]
VF_Init(target) == [target |-> target, current |-> 0, tick |-> 0, complete |-> FALSE]
Idle == [at |-> "idle", rpm |-> 0, field |-> 0]

(***************************************************************************)
(* History, read by properties only.  In RUN: slow and sure count the      *)
(* latest frames in a row that showed a standing shaft, and showed it      *)
(* without an encoder error, since the last request; blind those with an   *)
(* encoder error.  In STARTUP: good counts the latest frames in a row      *)
(* that were fit for a handoff on the present ramp.                        *)
(***************************************************************************)
NoHistory == [slow |-> 0, sure |-> 0, blind |-> 0, good |-> 0]
Run(n, holds, limit) == IF holds THEN AtMost(n + 1, limit) ELSE 0
Seen(raw, err) ==
  [slow |-> Run(hist.slow, Abs(raw) <= ZERO_RPM, ZERO_CYCLES),
   sure |-> Run(hist.sure, Abs(raw) <= ZERO_RPM /\ ~err, ZERO_CYCLES),
   blind |-> Run(hist.blind, err, BAD_CYCLES), good |-> 0]

Init ==
  /\ foc_running = FALSE /\ foc_state = "STARTUP" /\ speed_ref = 0
  /\ policy = FocRunPolicy_Init /\ gate = FocHandoffGate_Init /\ vf = VF_Init(0)
  /\ zero_frames = 0 /\ main = Idle /\ calls = 0 /\ hist = NoHistory

-----------------------------------------------------------------------------
(* The open-loop ramp *)

\* One frame of the ramp; tick/RAMP is elapsed_ms/ramp_time_ms.
VF_Update(v) ==
  LET tick == v.tick + 1
  IN  CASE v.complete -> v
        [] ~v.complete /\ tick < RAMP ->
             [v EXCEPT !.tick = tick,
                       !.current = IF v.target < 0 THEN -((-v.target * tick) \div RAMP)
                                                   ELSE (v.target * tick) \div RAMP]
        [] OTHER -> [v EXCEPT !.tick = tick, !.current = v.target, !.complete = TRUE]

\* A new target is joined at the present speed, or at rest when it lies the other way.
Rejoin(v, target) ==
  IF target = 0 \/ Opposite(v.current, target) THEN 0
  ELSE AtMost((Abs(v.current) * RAMP) \div Abs(target), RAMP)
JoinedRamp(v, target) ==
  [target |-> target, current |-> IF target = 0 THEN 0 ELSE v.current,
   tick |-> Rejoin(v, target), complete |-> FALSE]
\* Mutant: a target equal to the present speed looks like no change.
SetTargetStale(v, target) == IF target = v.current THEN v ELSE JoinedRamp(v, target)
VF_SetTarget(v, target) == IF target = v.target THEN v ELSE JoinedRamp(v, target)

-----------------------------------------------------------------------------
(* Stopping and starting *)

Stops ==
  /\ foc_running' = FALSE
  /\ policy' = FocRunPolicy_Init
  /\ vf' = [vf EXCEPT !.complete = FALSE, !.current = 0]
  /\ hist' = NoHistory

\* '0', a break, a frame that the protection refuses.
FOC_Stop ==
  /\ foc_running /\ Stops
  /\ UNCHANGED <<foc_state, speed_ref, gate, zero_frames, main, calls>>

\* direct: a healthy encoder sees the shaft turn and the rotor time constant is measured.
FOC_Start(direct) ==
  /\ ~foc_running /\ main = Idle
  /\ foc_running' = TRUE /\ foc_state' = IF direct THEN "RUN" ELSE "STARTUP"
  /\ policy' = FocRunPolicy_Init /\ gate' = FocHandoffGate_Init /\ vf' = VF_Init(speed_ref)
  /\ zero_frames' = 0 /\ calls' = 0 /\ hist' = NoHistory
  /\ UNCHANGED <<speed_ref, main>>

-----------------------------------------------------------------------------
(* FOC_SetSpeed, in the main loop *)

SetSpeed(rpm) ==
  /\ main = Idle /\ calls < MaxCalls
  /\ calls' = IF foc_running THEN calls + 1 ELSE calls
  /\ main' = [at |-> IF foc_running /\ foc_state = "RUN" THEN "stage" ELSE "store",
              rpm |-> rpm, field |-> 0]
  /\ UNCHANGED drive

\* Mutant: the request takes effect although it is kept for later.
AtOnce(staged, rpm) == rpm
\* What FOC asks for at once.
Allowed(staged, rpm) == IF staged THEN 0 ELSE rpm

\* FocRunPolicy_RequestSpeed, under masked interrupts: a request against the
\* present target or the present motion is kept for a standing shaft.
StageSpeed(measured) ==
  /\ main.at = "stage" /\ main' = Idle
  /\ LET staged == Opposite(speed_ref, main.rpm) \/ Opposite(measured, main.rpm)
     IN  /\ policy' = [policy EXCEPT !.pending = staged, !.zero = 0,
                                     !.reverse = IF staged THEN main.rpm ELSE 0]
         /\ speed_ref' = Allowed(staged, main.rpm)
  /\ hist' = [hist EXCEPT !.slow = 0, !.sure = 0]
  /\ UNCHANGED <<foc_running, foc_state, gate, vf, zero_frames, calls>>

StoreSpeed ==
  /\ main.at = "store" /\ main' = [main EXCEPT !.at = "check"]
  /\ speed_ref' = main.rpm
  /\ UNCHANGED <<foc_running, foc_state, policy, gate, vf, zero_frames, calls, hist>>

CheckStartup ==
  /\ main.at = "check"
  /\ main' = IF foc_running /\ foc_state = "STARTUP" THEN [main EXCEPT !.at = "target"] ELSE Idle
  /\ UNCHANGED <<drive, calls>>

\* The ramp changes under masked interrupts.
SetTarget ==
  /\ main.at = "target" /\ main' = [main EXCEPT !.at = "gate", !.field = 1]
  /\ vf' = VF_SetTarget(vf, speed_ref)
  /\ hist' = [hist EXCEPT !.good = IF vf' = vf THEN @ ELSE 0]
  /\ UNCHANGED <<foc_running, foc_state, speed_ref, policy, gate, zero_frames, calls>>

\* The gate does not: frames fit between the stores of FocHandoffGate_Init.
ResetGate ==
  /\ main.at = "gate"
  /\ LET f == GateFields[main.field]
     IN  gate' = [gate EXCEPT ![f] = FocHandoffGate_Init[f]]
  /\ main' = IF main.field = Len(GateFields) THEN Idle ELSE [main EXCEPT !.field = @ + 1]
  /\ UNCHANGED <<foc_running, foc_state, speed_ref, policy, vf, zero_frames, calls, hist>>

-----------------------------------------------------------------------------
(* FOC_RunFrame, in the ADC handler *)

\* No currents can be reconstructed from the frame.
FrameUnreadable ==
  /\ foc_running
  /\ IF zero_frames < ZERO_FRAMES
     THEN /\ zero_frames' = zero_frames + 1
          /\ UNCHANGED <<foc_running, policy, vf, hist>>
     ELSE Stops /\ UNCHANGED zero_frames
  /\ UNCHANGED <<foc_state, speed_ref, gate, main, calls>>

Frame(state) == foc_running /\ foc_state = state /\ zero_frames' = 0 /\ UNCHANGED <<main, calls>>

\* FocRunPolicy_Update: a shaft that never turned, or an encoder that shows
\* an error or a sudden standstill.
Turned(raw) == policy.seen \/ Abs(raw) >= ZERO_RPM
Standing(raw) == ~Turned(raw) /\ speed_ref # 0
\* Mutant: an error counts only where motion is asked for.
EncoderBadMoving(raw, err) == speed_ref # 0 /\ (err \/ (Turned(raw) /\ raw = 0))
EncoderBad(raw, err) == err \/ (Turned(raw) /\ speed_ref # 0 /\ raw = 0)
EncoderLost(raw, err) ==
  \/ Standing(raw) /\ policy.standing + 1 >= STARTUP_CYCLES
  \/ EncoderBad(raw, err) /\ policy.bad + 1 >= BAD_CYCLES
\* Mutant: a moving shaft does not start the count again.
ZeroSeenEver(raw) == IF Abs(raw) <= ZERO_RPM THEN policy.zero + 1 ELSE policy.zero
ZeroSeen(raw) == IF Abs(raw) <= ZERO_RPM THEN policy.zero + 1 ELSE 0
StablyZero(raw) == ZeroSeen(raw) >= ZERO_CYCLES
Counted(raw, err) ==
  [policy EXCEPT !.seen = Turned(raw),
                 !.standing = IF Standing(raw) THEN @ + 1 ELSE @,
                 !.bad = IF EncoderBad(raw, err) THEN @ + 1 ELSE 0]

RunLosesEncoder(raw, err) ==
  /\ Frame("RUN") /\ EncoderLost(raw, err) /\ Stops
  /\ UNCHANGED <<foc_state, speed_ref, gate>>

RunContinues(raw, err) ==
  /\ Frame("RUN") /\ ~EncoderLost(raw, err)
  /\ ~(policy.pending /\ StablyZero(raw))
  /\ policy' = [Counted(raw, err) EXCEPT !.zero = IF policy.pending THEN ZeroSeen(raw) ELSE @]
  /\ hist' = Seen(raw, err)
  /\ UNCHANGED <<foc_running, foc_state, speed_ref, gate, vf>>

RunReverses(raw, err) ==
  /\ Frame("RUN") /\ ~EncoderLost(raw, err)
  /\ policy.pending /\ StablyZero(raw)
  /\ speed_ref' = policy.reverse
  /\ policy' = [Counted(raw, err) EXCEPT !.zero = 0, !.pending = FALSE, !.reverse = 0]
  /\ hist' = Seen(raw, err)
  /\ UNCHANGED <<foc_running, foc_state, gate, vf>>

\* FocHandoffGate_Update, after the ramp has moved on to v.  steady: EMF,
\* filtered speed, mismatch, jerk and Id are all within their limits.
TimedOut(v) ==
  \/ gate.latched_timeout
  \/ gate.startup_cycles + 1 > MAX_STARTUP
  \/ v.complete /\ gate.handoff_cycles + 1 > MAX_HANDOFF
SampleOk(v, raw, steady) == v.complete /\ v.current * raw > 0 /\ steady
\* Mutant: an unfit frame does not start the count again.
GoodEver(v, raw, steady) ==
  IF SampleOk(v, raw, steady) THEN gate.consecutive_good + 1 ELSE gate.consecutive_good
GoodRun(v, raw, steady) == IF SampleOk(v, raw, steady) THEN gate.consecutive_good + 1 ELSE 0
\* Mutant: the watchdogs count only what goes well.
CountsProgress(v, raw, steady) ==
  [gate EXCEPT !.startup_cycles = IF v.complete THEN @ ELSE @ + 1,
               !.handoff_cycles = IF SampleOk(v, raw, steady) THEN @ + 1 ELSE @,
               !.consecutive_good = GoodRun(v, raw, steady)]
GateCounted(v, raw, steady) ==
  [gate EXCEPT !.startup_cycles = @ + 1,
               !.handoff_cycles = IF v.complete THEN @ + 1 ELSE @,
               !.consecutive_good = GoodRun(v, raw, steady)]

StartupTimesOut ==
  LET v == VF_Update(vf)
  IN  /\ Frame("STARTUP") /\ ~gate.latched_ready /\ TimedOut(v)
      /\ gate' = [gate EXCEPT !.latched_timeout = TRUE,
                              !.startup_cycles = IF gate.latched_timeout THEN @ ELSE @ + 1,
                              !.handoff_cycles = IF gate.latched_timeout \/ gate.startup_cycles + 1 > MAX_STARTUP
                                                 THEN @ ELSE @ + 1]
      /\ foc_running' = FALSE /\ policy' = FocRunPolicy_Init /\ hist' = NoHistory
      /\ vf' = [v EXCEPT !.complete = FALSE, !.current = 0]
      /\ UNCHANGED <<foc_state, speed_ref>>

StartupPends(raw, steady) ==
  LET v == VF_Update(vf)
  IN  /\ Frame("STARTUP") /\ ~gate.latched_ready /\ ~TimedOut(v)
      /\ GoodRun(v, raw, steady) < REQUIRED
      /\ vf' = v /\ gate' = GateCounted(v, raw, steady)
      /\ hist' = [hist EXCEPT !.good = Run(@, SampleOk(v, raw, steady), REQUIRED)]
      /\ UNCHANGED <<foc_running, foc_state, speed_ref, policy>>

StartupHandsOver(raw, steady) ==
  LET v == VF_Update(vf)
  IN  /\ Frame("STARTUP") /\ ~gate.latched_ready /\ ~TimedOut(v)
      /\ GoodRun(v, raw, steady) >= REQUIRED
      /\ vf' = v /\ gate' = [GateCounted(v, raw, steady) EXCEPT !.latched_ready = TRUE]
      /\ foc_state' = "RUN" /\ policy' = FocRunPolicy_Init
      /\ hist' = [NoHistory EXCEPT !.good = Run(hist.good, SampleOk(v, raw, steady), REQUIRED)]
      /\ UNCHANGED <<foc_running, speed_ref>>

\* ENC_GetSpeed_rpm shows no speed together with an error.
Readings == {r \in Measured \X BOOLEAN : r[2] => r[1] = 0}
RunFrame ==
  \E r \in Readings :
    RunLosesEncoder(r[1], r[2]) \/ RunContinues(r[1], r[2]) \/ RunReverses(r[1], r[2])
StartupFrame ==
  \/ StartupTimesOut
  \/ \E raw \in Measured, steady \in BOOLEAN :
       StartupPends(raw, steady) \/ StartupHandsOver(raw, steady)
FOC_RunFrame == FrameUnreadable \/ RunFrame \/ StartupFrame

SetSpeedStep ==
  \/ \E m \in Measured : StageSpeed(m)
  \/ StoreSpeed \/ CheckStartup \/ SetTarget \/ ResetGate

Next ==
  \/ FOC_RunFrame \/ SetSpeedStep \/ FOC_Stop
  \/ \E rpm \in Requests : SetSpeed(rpm)
  \/ \E direct \in BOOLEAN : FOC_Start(direct)

Spec == Init /\ [][Next]_vars

\* The timer triggers a conversion every period while FOC runs, and the main
\* loop comes back to a call it has begun.
Fairness == WF_vars(FOC_RunFrame) /\ WF_vars(SetSpeedStep)
FairSpec == Spec /\ Fairness
=============================================================================
