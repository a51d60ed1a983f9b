---------------------------- MODULE FocRunProofs ----------------------------
(***************************************************************************)
(* For every value of the constants: a queued reversal holds the target at *)
(* zero and waits for a standing shaft, a run with a lost encoder ends, a  *)
(* start is earned on the present ramp, and no counter leaves its range.   *)
(***************************************************************************)
EXTENDS FocRunProps, TLAPS

Places == {"idle", "stage", "store", "check", "target", "gate"}

\* The types the proof needs; the counters are only natural numbers here.
Typed ==
  /\ foc_running \in BOOLEAN /\ foc_state \in {"STARTUP", "RUN"} /\ speed_ref \in Int
  /\ policy \in [bad : Nat, seen : BOOLEAN, standing : Nat, zero : Nat,
                 pending : BOOLEAN, reverse : Int]
  /\ hist \in [slow : Nat, sure : Nat, blind : Nat, good : Nat]
  /\ main \in [at : Places, rpm : Int, field : Int]

\* Nothing is queued before RUN, nor where FOC_SetSpeed has decided outside
\* RUN: its plain store never meets a queued reversal.
NothingQueued ==
  foc_running /\ policy.pending => foc_state = "RUN" /\ main.at # "store"

\* FOC_SetSpeed stages in RUN only: RUN is left for STARTUP by nothing but a
\* stop and a start, and no start begins inside the call.
StagesInRun == foc_running /\ main.at = "stage" => foc_state = "RUN"

\* The debounce of the policy has seen every error of the present run, and
\* has not yet given it up.
ErrorsSeen ==
  foc_running => hist.blind <= policy.bad /\ policy.bad < BAD_CYCLES

RunInv == Typed /\ StagesInRun /\ NothingQueued /\ PendingAsksZero /\ ErrorsSeen

LEMMA Fresh ==
  /\ FocRunPolicy_Init \in [bad : Nat, seen : BOOLEAN, standing : Nat, zero : Nat,
                            pending : BOOLEAN, reverse : Int]
  /\ NoHistory \in [slow : Nat, sure : Nat, blind : Nat, good : Nat]
  /\ FocRunPolicy_Init.bad = 0 /\ FocRunPolicy_Init.pending = FALSE /\ NoHistory.blind = 0
BY DEF FocRunPolicy_Init, NoHistory

LEMMA IdlePlace == Idle \in [at : Places, rpm : Int, field : Int] /\ Idle.at = "idle"
BY DEF Idle, Places

\* A place and a field replaced by others of their types.
LEMMA PlaceSet ==
  ASSUME NEW r \in [at : Places, rpm : Int, field : Int], NEW p \in Places, NEW n \in Int
  PROVE  [r EXCEPT !.at = p, !.field = n] \in [at : Places, rpm : Int, field : Int]
OBVIOUS

\* The policy with its queue emptied.
LEMMA QueueEmptied ==
  ASSUME NEW r \in [bad : Nat, seen : BOOLEAN, standing : Nat, zero : Nat,
                    pending : BOOLEAN, reverse : Int],
         NEW z \in Nat, NEW q \in BOOLEAN, NEW v \in Int
  PROVE  [r EXCEPT !.zero = z, !.pending = q, !.reverse = v]
           \in [bad : Nat, seen : BOOLEAN, standing : Nat, zero : Nat,
                pending : BOOLEAN, reverse : Int]
OBVIOUS

LEMMA StopKeeps == ASSUME RunInv, Stops, UNCHANGED <<foc_state, speed_ref, main>> PROVE RunInv'
<1>1. foc_running' = FALSE /\ policy' = FocRunPolicy_Init /\ hist' = NoHistory
  BY DEF Stops
<1>2. Typed'
  BY <1>1, Fresh DEF RunInv, Typed
<1> QED
  BY <1>1, <1>2 DEF RunInv, StagesInRun, NothingQueued, PendingAsksZero, ErrorsSeen

LEMMA StartKeeps == ASSUME RunInv, NEW d \in BOOLEAN, FOC_Start(d) PROVE RunInv'
<1>1. /\ foc_running' = TRUE /\ foc_state' \in {"STARTUP", "RUN"}
      /\ policy' = FocRunPolicy_Init /\ hist' = NoHistory /\ UNCHANGED <<speed_ref, main>>
      /\ main = Idle
  BY DEF FOC_Start
<1>2. Typed'
  BY <1>1, Fresh DEF RunInv, Typed
<1>3. StagesInRun' /\ NothingQueued' /\ PendingAsksZero'
  BY <1>1, Fresh, IdlePlace DEF StagesInRun, NothingQueued, PendingAsksZero
<1>4. ErrorsSeen'
  <2>1. policy'.bad = 0 /\ hist'.blind = 0
    BY <1>1, Fresh
  <2>2. BAD_CYCLES \in Nat \ {0}
    BY FocRunAssumption
  <2> QED
    BY <2>1, <2>2 DEF ErrorsSeen
<1> QED
  BY <1>2, <1>3, <1>4 DEF RunInv

LEMMA SetSpeedKeeps == ASSUME RunInv, NEW rpm \in Requests, SetSpeed(rpm) PROVE RunInv'
<1>1. rpm \in Int
  BY FocRunAssumption
<1>2. main' \in [at : Places, rpm : Int, field : Int]
  BY <1>1 DEF SetSpeed, Places
<1>3. NothingQueued' /\ StagesInRun'
  BY DEF RunInv, Typed, NothingQueued, StagesInRun, SetSpeed, drive
<1> QED
  BY <1>2, <1>3 DEF RunInv, Typed, PendingAsksZero, ErrorsSeen, SetSpeed, drive

LEMMA StageKeeps == ASSUME RunInv, NEW m \in Measured, StageSpeed(m) PROVE RunInv'
<1> DEFINE staged == Opposite(speed_ref, main.rpm) \/ Opposite(m, main.rpm)
<1>1. /\ policy' = [policy EXCEPT !.pending = staged, !.zero = 0,
                                  !.reverse = IF staged THEN main.rpm ELSE 0]
      /\ speed_ref' = Allowed(staged, main.rpm) /\ main' = Idle
      /\ hist' = [hist EXCEPT !.slow = 0, !.sure = 0]
      /\ UNCHANGED <<foc_running, foc_state>> /\ main.at = "stage"
  BY DEF StageSpeed
<1>2. staged \in BOOLEAN
  BY DEF Opposite
<1> HIDE DEF staged
<1>3. Typed'
  <2> DEFINE reverse == IF staged THEN main.rpm ELSE 0
  <2>1. reverse \in Int /\ speed_ref' \in Int
    BY <1>1 DEF RunInv, Typed, Allowed
  <2>2. policy' = [policy EXCEPT !.pending = staged, !.zero = 0, !.reverse = reverse]
    BY <1>1
  <2> HIDE DEF reverse
  <2>3. policy' \in [bad : Nat, seen : BOOLEAN, standing : Nat, zero : Nat,
                     pending : BOOLEAN, reverse : Int]
    BY <1>2, <2>1, <2>2 DEF RunInv, Typed
  <2>4. hist' \in [slow : Nat, sure : Nat, blind : Nat, good : Nat]
    BY <1>1 DEF RunInv, Typed
  <2> QED
    BY <1>1, <2>1, <2>3, <2>4, IdlePlace DEF RunInv, Typed
<1>4. policy'.pending = staged /\ policy'.bad = policy.bad /\ hist'.blind = hist.blind
  BY <1>1 DEF RunInv, Typed
<1>5. ErrorsSeen'
  BY <1>1, <1>4 DEF RunInv, ErrorsSeen
<1>6. NothingQueued' /\ PendingAsksZero'
  <2>1. CASE staged
    <3>1. speed_ref' = 0 /\ main'.at = "idle"
      BY <1>1, <2>1, IdlePlace DEF Allowed
    <3>2. foc_running' => foc_state' = "RUN"
      BY <1>1 DEF RunInv, NothingQueued, StagesInRun
    <3> QED
      BY <3>1, <3>2 DEF NothingQueued, PendingAsksZero
  <2>2. CASE ~staged
    BY <1>4, <2>2 DEF NothingQueued, PendingAsksZero
  <2> QED
    BY <2>1, <2>2
<1>7. StagesInRun'
  BY <1>1, IdlePlace DEF StagesInRun
<1> QED
  BY <1>3, <1>5, <1>6, <1>7 DEF RunInv

LEMMA StoreKeeps == ASSUME RunInv, StoreSpeed PROVE RunInv'
<1>1. /\ main.at = "store" /\ main' = [main EXCEPT !.at = "check"] /\ speed_ref' = main.rpm
      /\ UNCHANGED <<foc_running, foc_state, policy, hist>>
  BY DEF StoreSpeed
<1>2. Typed'
  BY <1>1 DEF RunInv, Typed, Places
<1>3. ~(foc_running /\ policy.pending)
  BY <1>1 DEF RunInv, NothingQueued
<1> QED
  BY <1>1, <1>2, <1>3 DEF RunInv, StagesInRun, NothingQueued, PendingAsksZero, ErrorsSeen

LEMMA MainKeeps ==
  ASSUME RunInv, UNCHANGED <<foc_running, foc_state, speed_ref, policy>>,
         main' \in [at : Places, rpm : Int, field : Int], main'.at \notin {"store", "stage"},
         hist' \in [slow : Nat, sure : Nat, blind : Nat, good : Nat], hist'.blind = hist.blind
  PROVE  RunInv'
BY DEF RunInv, Typed, StagesInRun, NothingQueued, PendingAsksZero, ErrorsSeen

LEMMA CheckKeeps == ASSUME RunInv, CheckStartup PROVE RunInv'
<1>1. main' \in [at : Places, rpm : Int, field : Int] /\ main'.at \notin {"store", "stage"}
  BY IdlePlace DEF CheckStartup, RunInv, Typed, Places
<1> QED
  BY <1>1, MainKeeps DEF CheckStartup, drive, RunInv, Typed

LEMMA TargetKeeps == ASSUME RunInv, SetTarget PROVE RunInv'
<1>1. main' \in [at : Places, rpm : Int, field : Int] /\ main'.at \notin {"store", "stage"}
  <2>1. main' = [main EXCEPT !.at = "gate", !.field = 1] /\ "gate" \in Places
    BY DEF SetTarget, Places
  <2>2. main \in [at : Places, rpm : Int, field : Int]
    BY DEF RunInv, Typed
  <2>3. main'.at = "gate"
    BY <2>1, <2>2
  <2>4. main' \in [at : Places, rpm : Int, field : Int]
    <3>1. 1 \in Int
      OBVIOUS
    <3>2. [main EXCEPT !.at = "gate", !.field = 1] \in [at : Places, rpm : Int, field : Int]
      BY <2>1, <2>2, <3>1, PlaceSet, Zenon
    <3> QED
      BY <2>1, <3>2, Zenon
  <2> QED
    BY <2>3, <2>4
<1>2. /\ hist' \in [slow : Nat, sure : Nat, blind : Nat, good : Nat] /\ hist'.blind = hist.blind
      /\ UNCHANGED <<foc_running, foc_state, speed_ref, policy>>
  BY DEF SetTarget, RunInv, Typed
<1> QED
  BY <1>1, <1>2, MainKeeps

LEMMA ResetKeeps == ASSUME RunInv, ResetGate PROVE RunInv'
<1>1. /\ main.at = "gate" /\ UNCHANGED <<foc_running, foc_state, speed_ref, policy, hist>>
      /\ main' = Idle \/ main' = [main EXCEPT !.field = main.field + 1]
  BY DEF ResetGate
<1>2. main' \in [at : Places, rpm : Int, field : Int] /\ main'.at \notin {"store", "stage"}
  BY <1>1, IdlePlace DEF RunInv, Typed
<1> QED
  BY <1>1, <1>2, MainKeeps DEF RunInv, Typed

\* The limits are only needed to be natural numbers.
LEMMA Runs == ASSUME NEW n \in Nat, NEW limit \in Nat, NEW h \in BOOLEAN
              PROVE Run(n, h, limit) \in Nat /\ Run(n, h, limit) <= n + 1
                    /\ (~h => Run(n, h, limit) = 0)
<1>1. CASE h
  <2>1. Run(n, h, limit) = AtMost(n + 1, limit)
    BY <1>1 DEF Run
  <2>2. AtMost(n + 1, limit) \in Nat /\ AtMost(n + 1, limit) <= n + 1
    BY DEF AtMost
  <2> QED
    BY <1>1, <2>1, <2>2
<1>2. CASE ~h
  <2>1. Run(n, h, limit) = 0
    BY <1>2 DEF Run
  <2> QED
    BY <2>1
<1> QED
  BY <1>1, <1>2

LEMMA SeenTyped ==
  ASSUME RunInv, NEW raw \in Int, NEW err \in BOOLEAN
  PROVE  /\ Seen(raw, err) \in [slow : Nat, sure : Nat, blind : Nat, good : Nat]
         /\ Seen(raw, err).blind = Run(hist.blind, err, BAD_CYCLES)
<1>1. hist.slow \in Nat /\ hist.sure \in Nat /\ hist.blind \in Nat
  BY DEF RunInv, Typed
<1>2. Abs(raw) \in Int /\ ZERO_RPM \in Nat /\ ZERO_CYCLES \in Nat /\ BAD_CYCLES \in Nat
  BY FocRunAssumption DEF Abs
<1>3. (Abs(raw) <= ZERO_RPM) \in BOOLEAN /\ (Abs(raw) <= ZERO_RPM /\ ~err) \in BOOLEAN
  OBVIOUS
<1>4. /\ Run(hist.slow, Abs(raw) <= ZERO_RPM, ZERO_CYCLES) \in Nat
      /\ Run(hist.sure, Abs(raw) <= ZERO_RPM /\ ~err, ZERO_CYCLES) \in Nat
      /\ Run(hist.blind, err, BAD_CYCLES) \in Nat
  BY <1>1, <1>2, <1>3, Runs
<1> QED
  BY <1>4 DEF Seen

\* A frame of RUN that goes on has counted its error and is below the limit.
LEMMA CountedKeeps ==
  ASSUME RunInv, foc_running, NEW raw \in Int, NEW err \in BOOLEAN, ~EncoderLost(raw, err)
  PROVE  /\ Counted(raw, err) \in [bad : Nat, seen : BOOLEAN, standing : Nat, zero : Nat,
                                    pending : BOOLEAN, reverse : Int]
         /\ Counted(raw, err).pending = policy.pending
         /\ Counted(raw, err).bad < BAD_CYCLES
         /\ Run(hist.blind, err, BAD_CYCLES) <= Counted(raw, err).bad
<1>1. policy.bad \in Nat /\ policy.standing \in Nat /\ hist.blind \in Nat
      /\ policy.seen \in BOOLEAN /\ BAD_CYCLES \in Nat \ {0} /\ ZERO_RPM \in Nat
  BY FocRunAssumption DEF RunInv, Typed
<1>2. Turned(raw) \in BOOLEAN /\ Standing(raw) \in BOOLEAN /\ EncoderBad(raw, err) \in BOOLEAN
  BY <1>1 DEF Turned, Standing, EncoderBad
<1>3. /\ Counted(raw, err).bad = IF EncoderBad(raw, err) THEN policy.bad + 1 ELSE 0
      /\ Counted(raw, err).pending = policy.pending
  BY DEF Counted, RunInv, Typed
<1>4. Counted(raw, err) \in [bad : Nat, seen : BOOLEAN, standing : Nat, zero : Nat,
                             pending : BOOLEAN, reverse : Int]
  <2> DEFINE standing == IF Standing(raw) THEN policy.standing + 1 ELSE policy.standing
  <2> DEFINE bad == IF EncoderBad(raw, err) THEN policy.bad + 1 ELSE 0
  <2>1. standing \in Nat /\ bad \in Nat
    BY <1>1
  <2>2. Counted(raw, err) = [policy EXCEPT !.seen = Turned(raw), !.standing = standing,
                                           !.bad = bad]
    BY DEF Counted
  <2> HIDE DEF standing, bad
  <2> QED
    BY <1>2, <2>1, <2>2 DEF RunInv, Typed
<1>5. EncoderBad(raw, err) => policy.bad + 1 < BAD_CYCLES
  BY <1>1 DEF EncoderLost
<1>6. err => EncoderBad(raw, err)
  BY DEF EncoderBad
<1>7. hist.blind <= policy.bad
  BY DEF RunInv, ErrorsSeen
<1>8. CASE err
  <2>1. EncoderBad(raw, err)
    BY <1>6, <1>8
  <2>2. Run(hist.blind, err, BAD_CYCLES) \in Nat /\ Run(hist.blind, err, BAD_CYCLES) <= hist.blind + 1
    BY <1>1, Runs
  <2>3. Counted(raw, err).bad = policy.bad + 1 /\ policy.bad + 1 < BAD_CYCLES
    BY <1>3, <1>5, <2>1
  <2>4. Run(hist.blind, err, BAD_CYCLES) <= Counted(raw, err).bad
    BY <1>1, <1>7, <2>2, <2>3
  <2> QED
    BY <1>3, <1>4, <2>3, <2>4
<1>9. CASE ~err
  <2>1. Run(hist.blind, err, BAD_CYCLES) = 0
    BY <1>1, <1>9, Runs
  <2>2. Counted(raw, err).bad \in Nat /\ Counted(raw, err).bad < BAD_CYCLES
    BY <1>1, <1>3, <1>5
  <2> QED
    BY <1>3, <1>4, <2>1, <2>2
<1> QED
  BY <1>8, <1>9

LEMMA ContinuesKeeps ==
  ASSUME RunInv, NEW raw \in Int, NEW err \in BOOLEAN, RunContinues(raw, err) PROVE RunInv'
<1>1. /\ foc_running /\ foc_state = "RUN" /\ ~EncoderLost(raw, err) /\ hist' = Seen(raw, err)
      /\ UNCHANGED <<foc_running, foc_state, speed_ref, main>>
  BY DEF RunContinues, Frame
<1>2. ZeroSeen(raw) \in Nat
  BY DEF ZeroSeen, RunInv, Typed
<1>3. /\ policy' \in [bad : Nat, seen : BOOLEAN, standing : Nat, zero : Nat,
                       pending : BOOLEAN, reverse : Int]
      /\ policy'.pending = policy.pending /\ policy'.bad = Counted(raw, err).bad
  <2> DEFINE zero == IF policy.pending THEN ZeroSeen(raw) ELSE Counted(raw, err).zero
  <2>1. policy' = [Counted(raw, err) EXCEPT !.zero = zero]
    BY DEF RunContinues
  <2>2. zero \in Nat
    BY <1>1, <1>2, CountedKeeps
  <2> HIDE DEF zero
  <2> QED
    BY <1>1, <2>1, <2>2, CountedKeeps
<1> QED
  BY <1>1, <1>3, CountedKeeps, SeenTyped
  DEF RunInv, Typed, StagesInRun, NothingQueued, PendingAsksZero, ErrorsSeen

LEMMA ReversesKeeps ==
  ASSUME RunInv, NEW raw \in Int, NEW err \in BOOLEAN, RunReverses(raw, err) PROVE RunInv'
<1>1. /\ foc_running /\ foc_state = "RUN" /\ ~EncoderLost(raw, err) /\ hist' = Seen(raw, err)
      /\ UNCHANGED <<foc_running, foc_state, main>> /\ speed_ref' = policy.reverse
  BY DEF RunReverses, Frame
<1>2. /\ policy' \in [bad : Nat, seen : BOOLEAN, standing : Nat, zero : Nat,
                       pending : BOOLEAN, reverse : Int]
      /\ policy'.pending = FALSE /\ policy'.bad = Counted(raw, err).bad
  <2>1. policy' = [Counted(raw, err) EXCEPT !.zero = 0, !.pending = FALSE, !.reverse = 0]
    BY DEF RunReverses
  <2>2. Counted(raw, err) \in [bad : Nat, seen : BOOLEAN, standing : Nat, zero : Nat,
                               pending : BOOLEAN, reverse : Int]
    BY <1>1, CountedKeeps
  <2>3. policy'.pending = FALSE /\ policy'.bad = Counted(raw, err).bad
    BY <2>1, <2>2
  <2>4. policy' \in [bad : Nat, seen : BOOLEAN, standing : Nat, zero : Nat,
                     pending : BOOLEAN, reverse : Int]
    <3>1. 0 \in Nat /\ 0 \in Int /\ FALSE \in BOOLEAN
      OBVIOUS
    <3>2. [Counted(raw, err) EXCEPT !.zero = 0, !.pending = FALSE, !.reverse = 0]
            \in [bad : Nat, seen : BOOLEAN, standing : Nat, zero : Nat,
                 pending : BOOLEAN, reverse : Int]
      BY <2>2, <3>1, QueueEmptied, Zenon
    <3> QED
      BY <2>1, <3>2, Zenon
  <2> QED
    BY <2>3, <2>4
<1> QED
  BY <1>1, <1>2, CountedKeeps, SeenTyped
  DEF RunInv, Typed, StagesInRun, NothingQueued, PendingAsksZero, ErrorsSeen

LEMMA UnreadableKeeps == ASSUME RunInv, FrameUnreadable PROVE RunInv'
<1>1. CASE zero_frames < ZERO_FRAMES
  BY <1>1 DEF FrameUnreadable, RunInv, Typed, StagesInRun, NothingQueued, PendingAsksZero, ErrorsSeen
<1>2. CASE ~(zero_frames < ZERO_FRAMES)
  BY <1>2, StopKeeps DEF FrameUnreadable
<1> QED
  BY <1>1, <1>2

LEMMA TimesOutKeeps == ASSUME RunInv, StartupTimesOut PROVE RunInv'
<1>1. /\ foc_running' = FALSE /\ policy' = FocRunPolicy_Init /\ hist' = NoHistory
      /\ UNCHANGED <<foc_state, speed_ref, main>>
  BY DEF StartupTimesOut, Frame
<1>2. Typed'
  BY <1>1, Fresh DEF RunInv, Typed
<1> QED
  BY <1>1, <1>2 DEF RunInv, StagesInRun, NothingQueued, PendingAsksZero, ErrorsSeen
LEMMA PendsKeeps ==
  ASSUME RunInv, NEW raw \in Measured, NEW steady \in BOOLEAN, StartupPends(raw, steady)
  PROVE  RunInv'
<1> DEFINE ok == SampleOk(VF_Update(vf), raw, steady)
<1>1. /\ UNCHANGED <<foc_running, foc_state, speed_ref, policy, main>>
      /\ hist' = [hist EXCEPT !.good = Run(hist.good, ok, REQUIRED)]
  BY DEF StartupPends, Frame
<1>2. Run(hist.good, ok, REQUIRED) \in Nat
  <2>1. hist.good \in Nat /\ REQUIRED \in Nat /\ ok \in BOOLEAN
    BY FocRunAssumption DEF RunInv, Typed, SampleOk
  <2> QED
    BY <2>1, Runs
<1> HIDE DEF ok
<1>3. hist' \in [slow : Nat, sure : Nat, blind : Nat, good : Nat] /\ hist'.blind = hist.blind
  BY <1>1, <1>2 DEF RunInv, Typed
<1> QED
  BY <1>1, <1>3 DEF RunInv, Typed, StagesInRun, NothingQueued, PendingAsksZero, ErrorsSeen

LEMMA HandsOverKeeps ==
  ASSUME RunInv, NEW raw \in Measured, NEW steady \in BOOLEAN, StartupHandsOver(raw, steady)
  PROVE  RunInv'
<1> DEFINE ok == SampleOk(VF_Update(vf), raw, steady)
<1>1. /\ UNCHANGED <<foc_running, speed_ref, main>> /\ foc_state' = "RUN"
      /\ policy' = FocRunPolicy_Init
      /\ hist' = [NoHistory EXCEPT !.good = Run(hist.good, ok, REQUIRED)]
  BY DEF StartupHandsOver, Frame
<1>2. Run(hist.good, ok, REQUIRED) \in Nat
  <2>1. hist.good \in Nat /\ REQUIRED \in Nat /\ ok \in BOOLEAN
    BY FocRunAssumption DEF RunInv, Typed, SampleOk
  <2> QED
    BY <2>1, Runs
<1> HIDE DEF ok
<1>3. hist' \in [slow : Nat, sure : Nat, blind : Nat, good : Nat] /\ hist'.blind = 0
  BY <1>1, <1>2, Fresh
<1>4. Typed'
  BY <1>1, <1>3, Fresh DEF RunInv, Typed
<1>5. StagesInRun' /\ NothingQueued' /\ PendingAsksZero'
  BY <1>1, Fresh DEF StagesInRun, NothingQueued, PendingAsksZero
<1>6. ErrorsSeen'
  <2>1. policy'.bad = 0 /\ BAD_CYCLES \in Nat \ {0}
    BY <1>1, Fresh, FocRunAssumption
  <2> QED
    BY <1>3, <2>1 DEF ErrorsSeen
<1> QED
  BY <1>4, <1>5, <1>6 DEF RunInv

LEMMA LosesKeeps ==
  ASSUME RunInv, NEW raw \in Int, NEW err \in BOOLEAN, RunLosesEncoder(raw, err) PROVE RunInv'
BY StopKeeps DEF RunLosesEncoder, Frame

\* The invariant holds at first, and every frame, every statement of the main
\* loop and every stop and start keeps it.
LEMMA RunInvHolds == Spec => []RunInv
<1>1. Init => RunInv
  <2> SUFFICES ASSUME Init PROVE RunInv
    OBVIOUS
  <2>1. Typed
    <3>1. foc_running = FALSE /\ foc_state = "STARTUP" /\ speed_ref = 0
      BY DEF Init
    <3>2. policy = FocRunPolicy_Init /\ hist = NoHistory /\ main = Idle
      BY DEF Init
    <3>3. /\ policy \in [bad : Nat, seen : BOOLEAN, standing : Nat, zero : Nat,
                          pending : BOOLEAN, reverse : Int]
          /\ hist \in [slow : Nat, sure : Nat, blind : Nat, good : Nat]
          /\ main \in [at : Places, rpm : Int, field : Int]
      BY <3>2, Fresh, IdlePlace
    <3>4. foc_running \in BOOLEAN /\ foc_state \in {"STARTUP", "RUN"}
      BY <3>1, Zenon
    <3>5. speed_ref \in Int
      BY <3>1
    <3> QED
      BY <3>3, <3>4, <3>5, Zenon DEF Typed
  <2> QED
    BY <2>1 DEF Init, RunInv, StagesInRun, NothingQueued, PendingAsksZero, ErrorsSeen
<1>2. RunInv /\ [Next]_vars => RunInv'
  <2> SUFFICES ASSUME RunInv, [Next]_vars PROVE RunInv'
    OBVIOUS
  <2>1. CASE RunFrame
    <3>1. PICK r \in Readings : \/ RunLosesEncoder(r[1], r[2]) \/ RunContinues(r[1], r[2])
                               \/ RunReverses(r[1], r[2])
      BY <2>1 DEF RunFrame
    <3>2. r[1] \in Int /\ r[2] \in BOOLEAN
      BY FocRunAssumption DEF Readings
    <3> QED
      BY <3>1, <3>2, LosesKeeps, ContinuesKeeps, ReversesKeeps
  <2>2. CASE StartupFrame
    BY <2>2, TimesOutKeeps, PendsKeeps, HandsOverKeeps DEF StartupFrame
  <2>3. CASE FrameUnreadable
    BY <2>3, UnreadableKeeps
  <2>4. CASE SetSpeedStep
    BY <2>4, StageKeeps, StoreKeeps, CheckKeeps, TargetKeeps, ResetKeeps DEF SetSpeedStep
  <2>5. CASE FOC_Stop
    BY <2>5, StopKeeps DEF FOC_Stop
  <2>6. ASSUME NEW rpm \in Requests, SetSpeed(rpm) PROVE RunInv'
    BY <2>6, SetSpeedKeeps
  <2>7. ASSUME NEW direct \in BOOLEAN, FOC_Start(direct) PROVE RunInv'
    BY <2>7, StartKeeps
  <2>8. CASE UNCHANGED vars
    BY <2>8 DEF vars, RunInv, Typed, StagesInRun, NothingQueued, PendingAsksZero, ErrorsSeen
  <2> QED
    BY <2>1, <2>2, <2>3, <2>4, <2>5, <2>6, <2>7, <2>8 DEF Next, FOC_RunFrame
<1> QED
  BY <1>1, <1>2, PTL DEF Spec

\* For every set of speeds, limits and ramps: while a reversal is queued FOC
\* asks for standstill, although FOC_SetSpeed stores a speed outside the
\* critical section when it found FOC before RUN.
THEOREM ReversalAsksZero == Spec => []PendingAsksZero
<1>1. RunInv => PendingAsksZero
  BY DEF RunInv
<1> QED
  BY <1>1, RunInvHolds, PTL

\* For every limit of the debounce: no RUN outlives an encoder that has been
\* in error for BAD_CYCLES frames in a row, at standstill or moving.
THEOREM BlindRunEndsAlways == Spec => []BlindRunEnds
<1>1. RunInv => BlindRunEnds
  <2> SUFFICES ASSUME RunInv, foc_running PROVE hist.blind < BAD_CYCLES
    BY DEF BlindRunEnds
  <2>1. hist.blind \in Nat /\ policy.bad \in Nat /\ BAD_CYCLES \in Nat
    BY FocRunAssumption DEF RunInv, Typed
  <2>2. hist.blind <= policy.bad /\ policy.bad < BAD_CYCLES
    BY DEF RunInv, ErrorsSeen
  <2> QED
    BY <2>1, <2>2
<1> QED
  BY <1>1, RunInvHolds, PTL

-----------------------------------------------------------------------------
(* The release of a queued reversal. *)

\* The counter of the policy has seen nothing that the history has not, and
\* has not reached its limit while the reversal waits.
StandstillSeen ==
  foc_running /\ policy.pending => policy.zero <= hist.slow /\ policy.zero < ZERO_CYCLES

LEMMA Slow ==
  ASSUME NEW raw \in Int, NEW err \in BOOLEAN
  PROVE  Seen(raw, err).slow = Run(hist.slow, Abs(raw) <= ZERO_RPM, ZERO_CYCLES)
BY DEF Seen

\* One more frame in a row, counted up to a limit and without one.
LEMMA CountsAlike ==
  ASSUME NEW n \in Nat, NEW m \in Nat, NEW limit \in Nat \ {0}, NEW h \in BOOLEAN, n <= m
  PROVE  /\ (IF h THEN n + 1 ELSE 0) >= limit => Run(m, h, limit) >= limit
         /\ (IF h THEN n + 1 ELSE 0) < limit => (IF h THEN n + 1 ELSE 0) <= Run(m, h, limit)
<1>1. CASE h
  <2>1. Run(m, h, limit) = AtMost(m + 1, limit) /\ (IF h THEN n + 1 ELSE 0) = n + 1
    BY <1>1 DEF Run
  <2>2. n + 1 >= limit => AtMost(m + 1, limit) >= limit
    BY DEF AtMost
  <2>3. n + 1 < limit => n + 1 <= AtMost(m + 1, limit)
    BY DEF AtMost
  <2> QED
    BY <2>1, <2>2, <2>3
<1>2. CASE ~h
  <2>1. Run(m, h, limit) = 0 /\ (IF h THEN n + 1 ELSE 0) = 0
    BY <1>2 DEF Run
  <2> QED
    BY <2>1
<1> QED
  BY <1>1, <1>2

\* What a frame of RUN does to the two counters.
LEMMA FrameSees ==
  ASSUME RunInv, StandstillSeen, foc_running, policy.pending,
         NEW raw \in Int, NEW err \in BOOLEAN
  PROVE  /\ StablyZero(raw) => Seen(raw, err).slow >= ZERO_CYCLES
         /\ ~StablyZero(raw) => ZeroSeen(raw) <= Seen(raw, err).slow /\ ZeroSeen(raw) < ZERO_CYCLES
<1> DEFINE still == Abs(raw) <= ZERO_RPM
<1>1. policy.zero \in Nat /\ hist.slow \in Nat /\ ZERO_CYCLES \in Nat \ {0} /\ still \in BOOLEAN
      /\ policy.zero <= hist.slow
  BY FocRunAssumption DEF RunInv, Typed, StandstillSeen
<1>2. /\ Seen(raw, err).slow = Run(hist.slow, still, ZERO_CYCLES)
      /\ ZeroSeen(raw) = IF still THEN policy.zero + 1 ELSE 0
  BY Slow DEF ZeroSeen
<1> HIDE DEF still
<1>3. ZeroSeen(raw) \in Nat
  BY <1>1, <1>2
<1>4. StablyZero(raw) <=> ZeroSeen(raw) >= ZERO_CYCLES
  BY DEF StablyZero
<1>5. /\ ZeroSeen(raw) >= ZERO_CYCLES => Seen(raw, err).slow >= ZERO_CYCLES
      /\ ZeroSeen(raw) < ZERO_CYCLES => ZeroSeen(raw) <= Seen(raw, err).slow
  BY <1>1, <1>2, CountsAlike
<1> QED
  BY <1>1, <1>3, <1>4, <1>5

LEMMA StandstillContinues ==
  ASSUME RunInv, StandstillSeen, NEW raw \in Int, NEW err \in BOOLEAN, RunContinues(raw, err)
  PROVE  StandstillSeen'
<1>1. /\ foc_running /\ ~EncoderLost(raw, err) /\ hist' = Seen(raw, err)
      /\ policy' = [Counted(raw, err) EXCEPT !.zero =
                      IF policy.pending THEN ZeroSeen(raw) ELSE Counted(raw, err).zero]
      /\ ~(policy.pending /\ StablyZero(raw))
  BY DEF RunContinues, Frame
<1>2. policy'.pending = policy.pending /\ (policy.pending => policy'.zero = ZeroSeen(raw))
  BY <1>1, CountedKeeps
<1>3. CASE policy.pending
  BY <1>1, <1>2, <1>3, FrameSees DEF StandstillSeen
<1>4. CASE ~policy.pending
  BY <1>2, <1>4 DEF StandstillSeen
<1> QED
  BY <1>3, <1>4

\* A step that neither counts nor queues.
LEMMA StandstillKept ==
  ASSUME StandstillSeen, foc_running' => foc_running, policy' = policy, hist'.slow = hist.slow
  PROVE  StandstillSeen'
BY DEF StandstillSeen

LEMMA StandstillFresh == ASSUME policy' = FocRunPolicy_Init PROVE StandstillSeen'
BY Fresh DEF StandstillSeen

LEMMA StandstillStages ==
  ASSUME RunInv, NEW m \in Measured, StageSpeed(m) PROVE StandstillSeen'
<1> DEFINE staged == Opposite(speed_ref, main.rpm) \/ Opposite(m, main.rpm)
           back == IF staged THEN main.rpm ELSE 0
<1>1. /\ policy' = [policy EXCEPT !.pending = staged, !.zero = 0, !.reverse = back]
      /\ hist' = [hist EXCEPT !.slow = 0, !.sure = 0]
  BY DEF StageSpeed
<1> HIDE DEF staged, back
<1>2. policy'.zero = 0 /\ hist'.slow = 0
  BY <1>1 DEF RunInv, Typed
<1>3. ZERO_CYCLES \in Nat \ {0}
  BY FocRunAssumption
<1> QED
  BY <1>2, <1>3 DEF StandstillSeen

LEMMA StandstillHolds == Spec => []StandstillSeen
<1>1. Init => StandstillSeen
  BY DEF Init, StandstillSeen
<1>2. RunInv /\ StandstillSeen /\ [Next]_vars => StandstillSeen'
  <2> SUFFICES ASSUME RunInv, StandstillSeen, [Next]_vars PROVE StandstillSeen'
    OBVIOUS
  <2>1. CASE RunFrame
    <3>1. PICK r \in Readings : \/ RunLosesEncoder(r[1], r[2]) \/ RunContinues(r[1], r[2])
                               \/ RunReverses(r[1], r[2])
      BY <2>1 DEF RunFrame
    <3>2. r[1] \in Int /\ r[2] \in BOOLEAN
      BY FocRunAssumption DEF Readings
    <3>3. CASE RunLosesEncoder(r[1], r[2])
      BY <3>3, StandstillFresh DEF RunLosesEncoder, Stops
    <3>4. CASE RunContinues(r[1], r[2])
      BY <3>2, <3>4, StandstillContinues
    <3>5. CASE RunReverses(r[1], r[2])
      <4>1. foc_running /\ ~EncoderLost(r[1], r[2])
        BY <3>5 DEF RunReverses, Frame
      <4>2. policy' = [Counted(r[1], r[2]) EXCEPT !.zero = 0, !.pending = FALSE, !.reverse = 0]
        BY <3>5 DEF RunReverses
      <4>3. policy'.pending = FALSE
        BY <3>2, <4>1, <4>2, CountedKeeps
      <4> QED
        BY <4>3 DEF StandstillSeen
    <3> QED
      BY <3>1, <3>3, <3>4, <3>5
  <2>2. CASE StartupFrame
    <3>1. ASSUME NEW raw \in Measured, NEW steady \in BOOLEAN, StartupPends(raw, steady)
          PROVE  StandstillSeen'
      <4> DEFINE good == Run(hist.good, SampleOk(VF_Update(vf), raw, steady), REQUIRED)
      <4>1. hist' = [hist EXCEPT !.good = good] /\ UNCHANGED <<foc_running, policy>>
        BY <3>1 DEF StartupPends
      <4> HIDE DEF good
      <4>2. hist'.slow = hist.slow
        BY <4>1 DEF RunInv, Typed
      <4> QED
        BY <4>1, <4>2, StandstillKept
    <3> QED
      BY <2>2, <3>1, StandstillFresh DEF StartupFrame, StartupTimesOut, StartupHandsOver
  <2>3. CASE FrameUnreadable
    BY <2>3, StandstillKept, StandstillFresh DEF FrameUnreadable, Stops
  <2>4. CASE SetSpeedStep
    <3>1. CASE SetTarget
      <4>1. hist'.slow = hist.slow /\ UNCHANGED <<foc_running, policy>>
        BY <3>1 DEF SetTarget, RunInv, Typed
      <4> QED
        BY <4>1, StandstillKept
    <3>2. CASE StoreSpeed \/ CheckStartup \/ ResetGate
      BY <3>2, StandstillKept DEF StoreSpeed, CheckStartup, ResetGate, drive
    <3> QED
      BY <2>4, <3>1, <3>2, StandstillStages DEF SetSpeedStep
  <2>5. CASE FOC_Stop
    BY <2>5, StandstillFresh DEF FOC_Stop, Stops
  <2>6. ASSUME NEW rpm \in Requests, SetSpeed(rpm) PROVE StandstillSeen'
    BY <2>6, StandstillKept DEF SetSpeed, drive
  <2>7. ASSUME NEW direct \in BOOLEAN, FOC_Start(direct) PROVE StandstillSeen'
    BY <2>7, StandstillFresh DEF FOC_Start
  <2>8. CASE UNCHANGED vars
    BY <2>8, StandstillKept DEF vars
  <2> QED
    BY <2>1, <2>2, <2>3, <2>4, <2>5, <2>6, <2>7, <2>8 DEF Next, FOC_RunFrame
<1> QED
  BY <1>1, <1>2, RunInvHolds, PTL DEF Spec

\* For every set of speeds and limits: the policy releases a queued reversal
\* only when ZERO_CYCLES frames in a row since the last request have shown the
\* shaft at rest; no stop, start, handoff or plain store releases one in RUN.
THEOREM ReversalWaitsAlways == Spec => ReversalWaits
<1>1. RunInv /\ StandstillSeen /\ [Next]_vars => [Reverses => hist'.slow >= ZERO_CYCLES]_vars
  <2> SUFFICES ASSUME RunInv, StandstillSeen, Next, Reverses PROVE hist'.slow >= ZERO_CYCLES
    OBVIOUS
  <2>1. foc_running /\ policy.pending /\ ~policy'.pending /\ foc_running' /\ main' = main
    BY DEF Reverses
  <2>2. policy' # policy /\ foc_state = "RUN"
    BY <2>1 DEF RunInv, NothingQueued
  <2>3. CASE RunFrame
    <3>1. PICK r \in Readings : \/ RunLosesEncoder(r[1], r[2]) \/ RunContinues(r[1], r[2])
                               \/ RunReverses(r[1], r[2])
      BY <2>3 DEF RunFrame
    <3>2. r[1] \in Int /\ r[2] \in BOOLEAN
      BY FocRunAssumption DEF Readings
    <3>3. ~RunLosesEncoder(r[1], r[2])
      BY <2>1 DEF RunLosesEncoder, Stops
    <3>4. ASSUME RunContinues(r[1], r[2]) PROVE FALSE
      <4>1. ~EncoderLost(r[1], r[2])
            /\ policy' = [Counted(r[1], r[2]) EXCEPT !.zero =
                  IF policy.pending THEN ZeroSeen(r[1]) ELSE Counted(r[1], r[2]).zero]
        BY <3>4 DEF RunContinues
      <4> QED
        BY <2>1, <3>2, <4>1, CountedKeeps
    <3>5. RunReverses(r[1], r[2])
      BY <3>1, <3>3, <3>4
    <3>6. StablyZero(r[1]) /\ hist' = Seen(r[1], r[2])
      BY <3>5 DEF RunReverses
    <3> QED
      BY <2>1, <3>2, <3>6, FrameSees
  <2>4. ~StartupFrame
    BY <2>2 DEF StartupFrame, StartupTimesOut, StartupPends, StartupHandsOver, Frame
  <2>5. ~FrameUnreadable
    BY <2>1, <2>2 DEF FrameUnreadable, Stops
  <2>6. ~SetSpeedStep
    <3>1. \A m \in Measured : ~StageSpeed(m)
      BY <2>1, IdlePlace DEF StageSpeed
    <3> QED
      BY <2>2, <3>1 DEF SetSpeedStep, StoreSpeed, CheckStartup, SetTarget, ResetGate, drive
  <2>7. ~FOC_Stop /\ \A direct \in BOOLEAN : ~FOC_Start(direct)
    BY <2>1 DEF FOC_Stop, Stops, FOC_Start
  <2>8. \A rpm \in Requests : ~SetSpeed(rpm)
    BY <2>2 DEF SetSpeed, drive
  <2> QED
    BY <2>3, <2>4, <2>5, <2>6, <2>7, <2>8 DEF Next, FOC_RunFrame
<1>2. Spec => []RunInv /\ []StandstillSeen
  BY RunInvHolds, StandstillHolds, PTL
<1>3. Spec => [][Next]_vars
  BY PTL DEF Spec
<1> QED
  BY <1>1, <1>2, <1>3, PTL DEF ReversalWaits

-----------------------------------------------------------------------------
(* The ramp of a start, and what it hands over. *)

Ramps == [target : Int, current : Int, tick : Int, complete : BOOLEAN]
Gates == [startup_cycles : Nat, handoff_cycles : Nat, consecutive_good : Nat,
          latched_ready : BOOLEAN, latched_timeout : BOOLEAN]

StartTyped ==
  /\ vf \in Ramps /\ gate \in Gates
  /\ main.at = "gate" => main.field \in 1..5

\* In STARTUP only a call of FOC_SetSpeed that has not yet come to the ramp may
\* have left it behind the speed.
RampFollows ==
  foc_running /\ foc_state = "STARTUP" =>
    main.at \in {"store", "check", "target"} \/ vf.target = speed_ref

\* The gate counts no frame that the present ramp has not shown, but for the
\* ones it counted before a reset that is under way.
CountsThisRamp ==
  foc_running /\ foc_state = "STARTUP" /\ ~ResetUnderWay => gate.consecutive_good <= hist.good

StartInv == StartTyped /\ RampFollows /\ CountsThisRamp

LEMMA RampSet ==
  ASSUME NEW v \in Ramps, NEW c \in Int, NEW t \in Int, NEW b \in BOOLEAN
  PROVE  /\ [v EXCEPT !.tick = t, !.current = c, !.complete = b] \in Ramps
         /\ [v EXCEPT !.tick = t, !.current = c, !.complete = b].target = v.target
         /\ [v EXCEPT !.complete = b, !.current = c] \in Ramps
BY DEF Ramps

LEMMA RampMoved ==
  ASSUME NEW v \in Ramps, NEW c \in Int, NEW t \in Int
  PROVE  /\ [v EXCEPT !.tick = t, !.current = c] \in Ramps
         /\ [v EXCEPT !.tick = t, !.current = c].target = v.target
BY DEF Ramps

LEMMA Quotient == ASSUME NEW a \in Int, NEW n \in Nat \ {0} PROVE a \div n \in Int
OBVIOUS

\* A frame moves the ramp on, and not to another target.
LEMMA UpdateKeepsTarget ==
  ASSUME NEW v \in Ramps
  PROVE  VF_Update(v) \in Ramps /\ VF_Update(v).target = v.target
<1> DEFINE tick == v.tick + 1
           part == IF v.target < 0 THEN -((-v.target * tick) \div RAMP)
                                   ELSE (v.target * tick) \div RAMP
<1>1. tick \in Int /\ v.target \in Int /\ v.complete \in BOOLEAN /\ RAMP \in Nat \ {0}
  BY FocRunAssumption DEF Ramps
<1>2. part \in Int
  <2>1. -v.target * tick \in Int /\ v.target * tick \in Int
    BY <1>1
  <2>2. (-v.target * tick) \div RAMP \in Int /\ (v.target * tick) \div RAMP \in Int
    BY <1>1, <2>1, Quotient
  <2> HIDE DEF tick
  <2> QED BY <2>2
<1>3. VF_Update(v) = CASE v.complete -> v
                       [] ~v.complete /\ tick < RAMP -> [v EXCEPT !.tick = tick, !.current = part]
                       [] OTHER -> [v EXCEPT !.tick = tick, !.current = v.target, !.complete = TRUE]
  BY DEF VF_Update
<1> HIDE DEF tick, part
<1>4. CASE v.complete
  BY <1>3, <1>4
<1>5. CASE ~v.complete /\ tick < RAMP
  <2>1. VF_Update(v) = [v EXCEPT !.tick = tick, !.current = part]
    BY <1>3, <1>5
  <2>2. /\ [v EXCEPT !.tick = tick, !.current = part] \in Ramps
        /\ [v EXCEPT !.tick = tick, !.current = part].target = v.target
    BY ONLY <1>1, <1>2, v \in Ramps, RampMoved
  <2> QED BY <2>1, <2>2, Zenon
<1>6. CASE ~v.complete /\ ~(tick < RAMP)
  <2>1. VF_Update(v) = [v EXCEPT !.tick = tick, !.current = v.target, !.complete = TRUE]
    BY <1>3, <1>6
  <2>2. TRUE \in BOOLEAN
    OBVIOUS
  <2>3. /\ [v EXCEPT !.tick = tick, !.current = v.target, !.complete = TRUE] \in Ramps
        /\ [v EXCEPT !.tick = tick, !.current = v.target, !.complete = TRUE].target = v.target
    BY ONLY <1>1, <2>2, v \in Ramps, RampSet
  <2> QED BY <2>1, <2>3, Zenon
<1> QED BY <1>4, <1>5, <1>6

\* A new target is the ramp's from then on.
LEMMA SetTargetLeads ==
  ASSUME NEW v \in Ramps, NEW target \in Int
  PROVE  VF_SetTarget(v, target) \in Ramps /\ VF_SetTarget(v, target).target = target
<1>1. Rejoin(v, target) \in Int
  <2>1. /\ v.current \in Int /\ Abs(v.current) \in Int /\ Abs(target) \in Nat /\ RAMP \in Nat
        /\ target # 0 => Abs(target) \in Nat \ {0}
    BY FocRunAssumption DEF Ramps, Abs
  <2>2. Abs(v.current) * RAMP \in Int
    BY <2>1
  <2>3. ASSUME target # 0 PROVE AtMost((Abs(v.current) * RAMP) \div Abs(target), RAMP) \in Int
    <3>1. (Abs(v.current) * RAMP) \div Abs(target) \in Int
      BY <2>1, <2>2, <2>3, Quotient
    <3> QED BY <2>1, <3>1 DEF AtMost
  <2> QED BY <2>3 DEF Rejoin
<1>2. JoinedRamp(v, target) \in Ramps /\ JoinedRamp(v, target).target = target
  BY <1>1 DEF JoinedRamp, Ramps
<1> QED BY <1>2 DEF VF_SetTarget

LEMMA FreshStart ==
  /\ FocHandoffGate_Init \in Gates /\ FocHandoffGate_Init.consecutive_good = 0
  /\ \A target \in Int : VF_Init(target) \in Ramps /\ VF_Init(target).target = target
BY DEF FocHandoffGate_Init, Gates, VF_Init, Ramps

\* What a stop leaves of the ramp.
LEMMA StoppedRamp ==
  ASSUME NEW v \in Ramps PROVE [v EXCEPT !.complete = FALSE, !.current = 0] \in Ramps
<1>1. 0 \in Int /\ FALSE \in BOOLEAN
  OBVIOUS
<1> QED BY <1>1, RampSet, Zenon

LEMMA GateSet ==
  ASSUME NEW g \in Gates, NEW n \in Nat, NEW b \in BOOLEAN
  PROVE  /\ [g EXCEPT !["startup_cycles"] = n] \in Gates
         /\ [g EXCEPT !["startup_cycles"] = n].consecutive_good = g.consecutive_good
         /\ [g EXCEPT !["handoff_cycles"] = n] \in Gates
         /\ [g EXCEPT !["handoff_cycles"] = n].consecutive_good = g.consecutive_good
         /\ [g EXCEPT !["consecutive_good"] = n] \in Gates
         /\ [g EXCEPT !["consecutive_good"] = n].consecutive_good = n
         /\ [g EXCEPT !["latched_ready"] = b] \in Gates
         /\ [g EXCEPT !["latched_ready"] = b].consecutive_good = g.consecutive_good
         /\ [g EXCEPT !["latched_timeout"] = b] \in Gates
         /\ [g EXCEPT !["latched_timeout"] = b].consecutive_good = g.consecutive_good
BY DEF Gates

\* FocHandoffGate_Init, one store.
LEMMA GateStore ==
  ASSUME StartTyped, ResetGate
  PROVE  /\ gate' \in Gates
         /\ gate'.consecutive_good = IF main.field = 3 THEN 0 ELSE gate.consecutive_good
<1>1. main.field \in 1..5 /\ gate \in Gates
  BY DEF StartTyped, ResetGate
<1>2. gate' = [gate EXCEPT ![GateFields[main.field]] = FocHandoffGate_Init[GateFields[main.field]]]
  BY DEF ResetGate
<1>3. 0 \in Nat /\ FALSE \in BOOLEAN
  OBVIOUS
<1>4. CASE main.field = 1
  <2>1. GateFields[main.field] = "startup_cycles" /\ FocHandoffGate_Init["startup_cycles"] = 0
    BY <1>4 DEF GateFields, FocHandoffGate_Init
  <2>2. gate' = [gate EXCEPT !["startup_cycles"] = 0]
    BY <1>2, <2>1, Zenon
  <2>3. gate' \in Gates /\ gate'.consecutive_good = gate.consecutive_good
    BY <1>1, <1>3, <2>2, GateSet, Zenon
  <2> QED BY <1>4, <2>3
<1>5. CASE main.field = 2
  <2>1. GateFields[main.field] = "handoff_cycles" /\ FocHandoffGate_Init["handoff_cycles"] = 0
    BY <1>5 DEF GateFields, FocHandoffGate_Init
  <2>2. gate' = [gate EXCEPT !["handoff_cycles"] = 0]
    BY <1>2, <2>1, Zenon
  <2>3. gate' \in Gates /\ gate'.consecutive_good = gate.consecutive_good
    BY <1>1, <1>3, <2>2, GateSet, Zenon
  <2> QED BY <1>5, <2>3
<1>6. CASE main.field = 3
  <2>1. GateFields[main.field] = "consecutive_good" /\ FocHandoffGate_Init["consecutive_good"] = 0
    BY <1>6 DEF GateFields, FocHandoffGate_Init
  <2>2. gate' = [gate EXCEPT !["consecutive_good"] = 0]
    BY <1>2, <2>1, Zenon
  <2>3. gate' \in Gates /\ gate'.consecutive_good = 0
    BY <1>1, <1>3, <2>2, GateSet, Zenon
  <2> QED BY <1>6, <2>3
<1>7. CASE main.field = 4
  <2>1. GateFields[main.field] = "latched_ready" /\ FocHandoffGate_Init["latched_ready"] = FALSE
    BY <1>7 DEF GateFields, FocHandoffGate_Init
  <2>2. gate' = [gate EXCEPT !["latched_ready"] = FALSE]
    BY <1>2, <2>1, Zenon
  <2>3. gate' \in Gates /\ gate'.consecutive_good = gate.consecutive_good
    BY <1>1, <1>3, <2>2, GateSet, Zenon
  <2> QED BY <1>7, <2>3
<1>8. CASE main.field = 5
  <2>1. GateFields[main.field] = "latched_timeout" /\ FocHandoffGate_Init["latched_timeout"] = FALSE
    BY <1>8 DEF GateFields, FocHandoffGate_Init
  <2>2. gate' = [gate EXCEPT !["latched_timeout"] = FALSE]
    BY <1>2, <2>1, Zenon
  <2>3. gate' \in Gates /\ gate'.consecutive_good = gate.consecutive_good
    BY <1>1, <1>3, <2>2, GateSet, Zenon
  <2> QED BY <1>8, <2>3
<1> QED BY <1>1, <1>4, <1>5, <1>6, <1>7, <1>8

\* The first three of the gate's five stores are the ones a frame may precede.
LEMMA ResetIs ==
  /\ main.at # "gate" => ~ResetUnderWay
  /\ main.at = "gate" /\ main.field \in 1..5 => (ResetUnderWay <=> main.field \in 1..3)
BY DEF ResetUnderWay, GateFields

\* A step that touches neither what the ramp leads to nor what the gate counts.
LEMMA StartKept ==
  ASSUME StartInv, UNCHANGED <<foc_running, foc_state, speed_ref, gate>>, vf' = vf,
         hist'.good = hist.good,
         main' = main \/ (main.at # "gate" /\ main'.at \in {"store", "check", "target"})
  PROVE  StartInv'
<1>1. StartTyped' /\ RampFollows'
  BY DEF StartInv, StartTyped, RampFollows
<1>2. ResetUnderWay' => main' = main /\ ResetUnderWay
  BY DEF ResetUnderWay
<1>3. ResetUnderWay => main' = main
  BY DEF ResetUnderWay
<1>4. CountsThisRamp'
  BY <1>2, <1>3 DEF StartInv, CountsThisRamp, ResetUnderWay
<1> QED BY <1>1, <1>4 DEF StartInv

\* In RUN, or stopped, there is only the typing to keep.
LEMMA NoStart ==
  ASSUME StartInv, ~(foc_running' /\ foc_state' = "STARTUP"), vf' \in Ramps, gate' \in Gates,
         main' = main \/ main'.at # "gate"
  PROVE  StartInv'
BY DEF StartInv, StartTyped, RampFollows, CountsThisRamp

LEMMA StopsRamp == ASSUME StartInv, Stops, UNCHANGED <<gate, main>> PROVE StartInv'
BY NoStart, StoppedRamp DEF Stops, StartInv, StartTyped

LEMMA StartOfRamp == ASSUME RunInv, StartInv, NEW d \in BOOLEAN, FOC_Start(d) PROVE StartInv'
<1>1. /\ gate' = FocHandoffGate_Init /\ vf' = VF_Init(speed_ref) /\ hist' = NoHistory
      /\ UNCHANGED <<speed_ref, main>> /\ main = Idle
  BY DEF FOC_Start
<1>2. gate' \in Gates /\ gate'.consecutive_good = 0 /\ vf' \in Ramps /\ vf'.target = speed_ref
  BY <1>1, FreshStart DEF RunInv, Typed
<1>3. hist'.good = 0
  BY <1>1 DEF NoHistory
<1> QED
  BY <1>1, <1>2, <1>3, IdlePlace DEF StartInv, StartTyped, RampFollows, CountsThisRamp

\* The statements of FOC_SetSpeed.
LEMMA SetSpeedStart ==
  ASSUME RunInv, StartInv, NEW rpm \in Requests, SetSpeed(rpm) PROVE StartInv'
<1>1. UNCHANGED <<foc_running, foc_state, speed_ref, gate, vf, hist>> /\ main = Idle
  BY DEF SetSpeed, drive
<1>2. main'.at = IF foc_running /\ foc_state = "RUN" THEN "stage" ELSE "store"
  BY DEF SetSpeed
<1>3. CASE foc_running /\ foc_state = "RUN"
  BY <1>1, <1>2, <1>3, NoStart DEF StartInv, StartTyped
<1>4. CASE ~(foc_running /\ foc_state = "RUN")
  BY <1>1, <1>2, <1>4, StartKept, IdlePlace
<1> QED BY <1>3, <1>4

LEMMA StageStart ==
  ASSUME RunInv, StartInv, NEW m \in Measured, StageSpeed(m) PROVE StartInv'
<1>1. UNCHANGED <<foc_running, foc_state, gate, vf>> /\ main.at = "stage" /\ main' = Idle
  BY DEF StageSpeed
<1>2. ~(foc_running' /\ foc_state' = "STARTUP")
  BY <1>1 DEF RunInv, StagesInRun
<1> QED BY <1>1, <1>2, NoStart, IdlePlace DEF StartInv, StartTyped

LEMMA StoreStart == ASSUME RunInv, StartInv, StoreSpeed PROVE StartInv'
<1>1. /\ main.at = "store" /\ UNCHANGED <<foc_running, foc_state, gate, vf, hist>>
      /\ main'.at = "check"
  BY DEF StoreSpeed, RunInv, Typed
<1>2. ~ResetUnderWay /\ ~ResetUnderWay'
  BY <1>1 DEF ResetUnderWay
<1> QED BY <1>1, <1>2 DEF StartInv, StartTyped, RampFollows, CountsThisRamp

LEMMA CheckStart == ASSUME RunInv, StartInv, CheckStartup PROVE StartInv'
<1>1. /\ main.at = "check" /\ UNCHANGED <<foc_running, foc_state, speed_ref, gate, vf, hist>>
      /\ IF foc_running /\ foc_state = "STARTUP" THEN main'.at = "target" ELSE main' = Idle
  BY DEF CheckStartup, drive, RunInv, Typed
<1>2. CASE foc_running /\ foc_state = "STARTUP"
  BY <1>1, <1>2, StartKept
<1>3. CASE ~(foc_running /\ foc_state = "STARTUP")
  BY <1>1, <1>3, NoStart, IdlePlace DEF StartInv, StartTyped
<1> QED BY <1>2, <1>3

LEMMA TargetStart == ASSUME RunInv, StartInv, SetTarget PROVE StartInv'
<1>1. /\ UNCHANGED <<foc_running, foc_state, speed_ref, gate>> /\ vf' = VF_SetTarget(vf, speed_ref)
      /\ main' = [main EXCEPT !.at = "gate", !.field = 1]
  BY DEF SetTarget
<1>2. vf' \in Ramps /\ vf'.target = speed_ref
  BY <1>1, SetTargetLeads DEF RunInv, Typed, StartInv, StartTyped
<1>3. main'.at = "gate" /\ main'.field = 1
  BY <1>1 DEF RunInv, Typed
<1>4. ResetUnderWay'
  BY <1>3 DEF ResetUnderWay, GateFields
<1> QED BY <1>1, <1>2, <1>3, <1>4 DEF StartInv, StartTyped, RampFollows, CountsThisRamp

LEMMA ResetStart == ASSUME RunInv, StartInv, ResetGate PROVE StartInv'
<1>1. /\ main.at = "gate" /\ UNCHANGED <<foc_running, foc_state, speed_ref, vf, hist>>
      /\ main.field \in 1..5
      /\ main' = IF main.field = 5 THEN Idle ELSE [main EXCEPT !.field = main.field + 1]
  BY DEF ResetGate, GateFields, StartInv, StartTyped
<1>2. /\ main.field = 5 => main'.at = "idle"
      /\ main.field # 5 => main'.at = "gate" /\ main'.field = main.field + 1
  BY <1>1, IdlePlace DEF RunInv, Typed
<1>3. StartTyped' /\ RampFollows'
  BY <1>1, <1>2, GateStore DEF StartInv, StartTyped, RampFollows
<1>4. main.field \in 3..5 => ~ResetUnderWay'
  BY <1>1, <1>2 DEF ResetUnderWay, GateFields
<1>5. main.field \in 1..2 => ResetUnderWay'
  BY <1>1, <1>2 DEF ResetUnderWay, GateFields
<1>6. main.field \in 4..5 => ~ResetUnderWay
  BY <1>1, ResetIs
<1>7. CountsThisRamp'
  <2>1. CASE main.field \in 1..2
    BY <1>5, <2>1 DEF CountsThisRamp
  <2>2. CASE main.field = 3
    BY <1>1, <2>2, GateStore DEF StartInv, RunInv, Typed, CountsThisRamp
  <2>3. CASE main.field \in 4..5
    <3>1. gate'.consecutive_good = gate.consecutive_good /\ ~ResetUnderWay
      BY <1>6, <2>3, GateStore DEF StartInv
    <3> QED BY <1>1, <3>1 DEF StartInv, CountsThisRamp
  <2> QED BY <1>1, <2>1, <2>2, <2>3
<1> QED BY <1>3, <1>7 DEF StartInv

\* A frame in STARTUP.
LEMMA GateCounts ==
  ASSUME StartInv, NEW v \in Ramps, NEW raw \in Int, NEW steady \in BOOLEAN
  PROVE  /\ GateCounted(v, raw, steady) \in Gates
         /\ GateCounted(v, raw, steady).consecutive_good = GoodRun(v, raw, steady)
         /\ GoodRun(v, raw, steady) \in Nat
         /\ SampleOk(v, raw, steady) \in BOOLEAN
<1>1. gate \in Gates
  BY DEF StartInv, StartTyped
<1>2. GoodRun(v, raw, steady) \in Nat
  BY <1>1 DEF GoodRun, Gates
<1>3. SampleOk(v, raw, steady) \in BOOLEAN
  BY DEF SampleOk, Ramps
<1> DEFINE late == IF v.complete THEN gate.handoff_cycles + 1 ELSE gate.handoff_cycles
<1>4. late \in Nat
  BY <1>1 DEF Gates
<1>5. GateCounted(v, raw, steady) =
        [gate EXCEPT !.startup_cycles = gate.startup_cycles + 1, !.handoff_cycles = late,
                     !.consecutive_good = GoodRun(v, raw, steady)]
  BY DEF GateCounted
<1> HIDE DEF late
<1>6. gate.startup_cycles + 1 \in Nat
  BY <1>1 DEF Gates
<1> DEFINE good == GoodRun(v, raw, steady)
           first == gate.startup_cycles + 1
           counted == [gate EXCEPT !.startup_cycles = first, !.handoff_cycles = late,
                                   !.consecutive_good = good]
<1>7. counted \in Gates /\ counted.consecutive_good = good
  <2>1. good \in Nat /\ first \in Nat
    BY <1>2, <1>6
  <2> HIDE DEF good, first
  <2> QED BY ONLY <1>1, <1>4, <2>1 DEF Gates
<1>8. GateCounted(v, raw, steady) = counted
  BY <1>5
<1> HIDE DEF counted
<1> QED BY <1>2, <1>3, <1>7, <1>8

LEMMA PendsStart ==
  ASSUME RunInv, StartInv, NEW raw \in Measured, NEW steady \in BOOLEAN, StartupPends(raw, steady)
  PROVE  StartInv'
<1> DEFINE v == VF_Update(vf)
           ok == SampleOk(v, raw, steady)
<1>1. /\ UNCHANGED <<foc_running, foc_state, speed_ref, main>> /\ vf' = v
      /\ foc_running /\ foc_state = "STARTUP" /\ gate' = GateCounted(v, raw, steady)
      /\ GoodRun(v, raw, steady) < REQUIRED
      /\ hist' = [hist EXCEPT !.good = Run(hist.good, ok, REQUIRED)]
  BY DEF StartupPends, Frame
<1>2. raw \in Int /\ v \in Ramps /\ v.target = vf.target /\ REQUIRED \in Nat \ {0}
  BY FocRunAssumption, UpdateKeepsTarget DEF StartInv, StartTyped
<1>3. hist'.good = Run(hist.good, ok, REQUIRED) /\ hist.good \in Nat
  BY <1>1 DEF RunInv, Typed
<1>4. ok \in BOOLEAN /\ gate' \in Gates /\ gate'.consecutive_good = GoodRun(v, raw, steady)
  BY <1>1, <1>2, GateCounts
<1>5. GoodRun(v, raw, steady) = IF ok THEN gate.consecutive_good + 1 ELSE 0
  BY DEF GoodRun
<1> HIDE DEF ok, v
<1>6. gate.consecutive_good \in Nat
  BY DEF StartInv, StartTyped, Gates
<1>7. ~ResetUnderWay => gate'.consecutive_good <= hist'.good
  <2> SUFFICES ASSUME ~ResetUnderWay PROVE gate'.consecutive_good <= hist'.good
    OBVIOUS
  <2>1. gate.consecutive_good <= hist.good
    BY <1>1 DEF StartInv, CountsThisRamp
  <2> QED BY <1>1, <1>2, <1>3, <1>4, <1>5, <1>6, <2>1, CountsAlike
<1>8. ResetUnderWay' <=> ResetUnderWay
  BY <1>1 DEF ResetUnderWay
<1> QED BY <1>1, <1>2, <1>4, <1>7, <1>8 DEF StartInv, StartTyped, RampFollows, CountsThisRamp

LEMMA HandsOverStart ==
  ASSUME RunInv, StartInv, NEW raw \in Measured, NEW steady \in BOOLEAN,
         StartupHandsOver(raw, steady)
  PROVE  StartInv' /\ (~ResetUnderWay => hist'.good >= REQUIRED)
<1> DEFINE v == VF_Update(vf)
           ok == SampleOk(v, raw, steady)
           counted == GateCounted(v, raw, steady)
<1>1. /\ UNCHANGED main /\ vf' = v /\ foc_running /\ foc_state = "STARTUP" /\ foc_state' = "RUN"
      /\ gate' = [counted EXCEPT !.latched_ready = TRUE]
      /\ GoodRun(v, raw, steady) >= REQUIRED
      /\ hist' = [NoHistory EXCEPT !.good = Run(hist.good, ok, REQUIRED)]
  BY DEF StartupHandsOver, Frame
<1>2. raw \in Int /\ v \in Ramps /\ REQUIRED \in Nat \ {0}
  BY FocRunAssumption, UpdateKeepsTarget DEF StartInv, StartTyped
<1>3. hist'.good = Run(hist.good, ok, REQUIRED) /\ hist.good \in Nat
  BY <1>1 DEF RunInv, Typed, NoHistory
<1>4. ok \in BOOLEAN /\ counted \in Gates
  BY <1>2, GateCounts
<1>5. GoodRun(v, raw, steady) = IF ok THEN gate.consecutive_good + 1 ELSE 0
  BY DEF GoodRun
<1> HIDE DEF ok, v, counted
<1>6. gate.consecutive_good \in Nat
  BY DEF StartInv, StartTyped, Gates
<1>7. ASSUME ~ResetUnderWay PROVE hist'.good >= REQUIRED
  <2>1. gate.consecutive_good <= hist.good
    BY <1>1, <1>7 DEF StartInv, CountsThisRamp
  <2> QED BY <1>1, <1>2, <1>3, <1>4, <1>5, <1>6, <2>1, CountsAlike
<1>8. gate' \in Gates
  <2>1. TRUE \in BOOLEAN /\ 0 \in Nat
    OBVIOUS
  <2> QED BY <1>1, <1>4, <2>1, GateSet, Zenon
<1> QED BY <1>1, <1>2, <1>7, <1>8, NoStart

LEMMA TimesOutStart == ASSUME RunInv, StartInv, StartupTimesOut PROVE StartInv'
<1> DEFINE v == VF_Update(vf)
           cycles == IF gate.latched_timeout THEN gate.startup_cycles ELSE gate.startup_cycles + 1
           late == IF gate.latched_timeout \/ gate.startup_cycles + 1 > MAX_STARTUP
                   THEN gate.handoff_cycles ELSE gate.handoff_cycles + 1
<1>1. /\ UNCHANGED main /\ foc_running' = FALSE
      /\ gate' = [gate EXCEPT !.latched_timeout = TRUE, !.startup_cycles = cycles,
                              !.handoff_cycles = late]
      /\ vf' = [v EXCEPT !.complete = FALSE, !.current = 0]
  BY DEF StartupTimesOut, Frame
<1>2. vf' \in Ramps
  <2>1. v \in Ramps
    BY UpdateKeepsTarget DEF StartInv, StartTyped
  <2> HIDE DEF v
  <2> QED BY <1>1, <2>1, StoppedRamp
<1>3. gate' \in Gates
  <2>1. gate \in Gates /\ cycles \in Nat /\ late \in Nat
    BY DEF StartInv, StartTyped, Gates
  <2> HIDE DEF cycles, late
  <2>2. \A g \in Gates : \A b \in BOOLEAN, n, m \in Nat :
          [g EXCEPT !.latched_timeout = b, !.startup_cycles = n, !.handoff_cycles = m] \in Gates
    BY DEF Gates
  <2>3. TRUE \in BOOLEAN
    OBVIOUS
  <2> QED BY <1>1, <2>1, <2>2, <2>3, Zenon
<1> QED BY <1>1, <1>2, <1>3, NoStart

LEMMA StartInvHolds == Spec => []StartInv
<1>1. Init => StartInv
  <2> SUFFICES ASSUME Init PROVE StartInv
    OBVIOUS
  <2>1. vf \in Ramps /\ gate \in Gates
    BY FreshStart DEF Init
  <2> QED BY <2>1, IdlePlace DEF Init, StartInv, StartTyped, RampFollows, CountsThisRamp
<1>2. RunInv /\ StartInv /\ [Next]_vars => StartInv'
  <2> SUFFICES ASSUME RunInv, StartInv, [Next]_vars PROVE StartInv'
    OBVIOUS
  <2>1. CASE RunFrame
    <3>1. PICK r \in Readings : \/ RunLosesEncoder(r[1], r[2]) \/ RunContinues(r[1], r[2])
                               \/ RunReverses(r[1], r[2])
      BY <2>1 DEF RunFrame
    <3>2. CASE RunLosesEncoder(r[1], r[2])
      BY <3>2, StopsRamp DEF RunLosesEncoder, Frame
    <3>3. CASE RunContinues(r[1], r[2]) \/ RunReverses(r[1], r[2])
      BY <3>3, NoStart DEF RunContinues, RunReverses, Frame, StartInv, StartTyped
    <3> QED BY <3>1, <3>2, <3>3
  <2>2. CASE StartupFrame
    BY <2>2, TimesOutStart, PendsStart, HandsOverStart DEF StartupFrame
  <2>3. CASE FrameUnreadable
    BY <2>3, StopsRamp, StartKept DEF FrameUnreadable
  <2>4. CASE SetSpeedStep
    BY <2>4, StageStart, StoreStart, CheckStart, TargetStart, ResetStart DEF SetSpeedStep
  <2>5. CASE FOC_Stop
    BY <2>5, StopsRamp DEF FOC_Stop
  <2>6. ASSUME NEW rpm \in Requests, SetSpeed(rpm) PROVE StartInv'
    BY <2>6, SetSpeedStart
  <2>7. ASSUME NEW direct \in BOOLEAN, FOC_Start(direct) PROVE StartInv'
    BY <2>7, StartOfRamp
  <2>8. CASE UNCHANGED vars
    BY <2>8, StartKept DEF vars
  <2> QED
    BY <2>1, <2>2, <2>3, <2>4, <2>5, <2>6, <2>7, <2>8 DEF Next, FOC_RunFrame
<1> QED
  BY <1>1, <1>2, RunInvHolds, PTL DEF Spec

\* For every ramp and every interleaving of a frame with FOC_SetSpeed: outside
\* the call the ramp of a start leads to the speed that RUN will be given.
THEOREM RampLeadsAlways == Spec => []RampLeadsToSpeed
<1>1. StartInv => RampLeadsToSpeed
  BY IdlePlace DEF StartInv, RampFollows, RampLeadsToSpeed
<1> QED
  BY <1>1, StartInvHolds, PTL

\* For every gate: RUN is entered from STARTUP only after REQUIRED frames in a
\* row that were fit for it on the present ramp, unless the frame falls into
\* the first three stores of the gate's reset.
THEOREM RunIsEarnedAlways == Spec => RunIsEarned
<1>1. RunInv /\ StartInv /\ [Next]_vars
        => [HandsOver /\ ~ResetUnderWay => hist'.good >= REQUIRED]_vars
  <2> SUFFICES ASSUME RunInv, StartInv, Next, HandsOver, ~ResetUnderWay
               PROVE  hist'.good >= REQUIRED
    OBVIOUS
  <2>1. foc_running /\ foc_running' /\ foc_state = "STARTUP" /\ foc_state' = "RUN"
    BY DEF HandsOver
  <2>2. CASE \E raw \in Measured, steady \in BOOLEAN : StartupHandsOver(raw, steady)
    BY <2>2, HandsOverStart
  <2>3. CASE ~\E raw \in Measured, steady \in BOOLEAN : StartupHandsOver(raw, steady)
    <3>1. ~FOC_RunFrame
      BY <2>1, <2>3 DEF FOC_RunFrame, FrameUnreadable, StartupFrame, StartupTimesOut, StartupPends,
                       RunFrame, RunLosesEncoder, RunContinues, RunReverses, Frame
    <3>2. ~SetSpeedStep
      BY <2>1 DEF SetSpeedStep, StageSpeed, StoreSpeed, CheckStartup, SetTarget, ResetGate, drive
    <3>3. /\ ~FOC_Stop /\ \A direct \in BOOLEAN : ~FOC_Start(direct)
          /\ \A rpm \in Requests : ~SetSpeed(rpm)
      BY <2>1 DEF FOC_Stop, FOC_Start, SetSpeed, drive
    <3> QED BY <3>1, <3>2, <3>3 DEF Next
  <2> QED BY <2>2, <2>3
<1>2. Spec => []RunInv /\ []StartInv
  BY RunInvHolds, StartInvHolds, PTL
<1>3. Spec => [][Next]_vars
  BY PTL DEF Spec
<1> QED
  BY <1>1, <1>2, <1>3, PTL DEF RunIsEarned

-----------------------------------------------------------------------------
(* The bounds of the counters.                                              *)

\* What FOC is asked for, at once or for later, is what was requested, or rest.
Requested ==
  /\ speed_ref \in Requests \cup {0} /\ policy.reverse \in Requests \cup {0}
  /\ vf.target \in Requests \cup {0} /\ main.rpm \in Requests \cup {0}

\* The policy gives up, or releases, with the cycle that would reach a limit.
PolicyBounded ==
  policy.bad < BAD_CYCLES /\ policy.standing < STARTUP_CYCLES /\ policy.zero < ZERO_CYCLES

\* The watchdogs of the gate pass their limits once: the frame that does ends
\* the start.
GateBounded ==
  /\ gate.startup_cycles <= MAX_STARTUP + 1 /\ gate.handoff_cycles <= MAX_HANDOFF + 1
  /\ gate.consecutive_good <= REQUIRED
  /\ foc_running /\ foc_state = "STARTUP" =>
       /\ gate.startup_cycles <= MAX_STARTUP /\ gate.handoff_cycles <= MAX_HANDOFF
       /\ gate.consecutive_good < REQUIRED

\* The ramp passes its end once, and ends at its target.
RampBounded ==
  /\ vf.tick \in 0..(RAMP + 1)
  /\ foc_running /\ ~vf.complete => vf.tick <= RAMP
  /\ vf.complete => vf.current = vf.target

Bounded == Requested /\ PolicyBounded /\ GateBounded /\ RampBounded /\ zero_frames \in 0..ZERO_FRAMES

LEMMA FreshIsBounded ==
  /\ FocRunPolicy_Init.bad = 0 /\ FocRunPolicy_Init.standing = 0 /\ FocRunPolicy_Init.zero = 0
  /\ FocRunPolicy_Init.reverse = 0
  /\ FocHandoffGate_Init.startup_cycles = 0 /\ FocHandoffGate_Init.handoff_cycles = 0
  /\ FocHandoffGate_Init.consecutive_good = 0
  /\ \A target \in Int : VF_Init(target) =
       [target |-> target, current |-> 0, tick |-> 0, complete |-> FALSE]
BY DEF FocRunPolicy_Init, FocHandoffGate_Init, VF_Init

LEMMA StoppedRampIs ==
  ASSUME NEW v \in Ramps
  PROVE  /\ [v EXCEPT !.complete = FALSE, !.current = 0].target = v.target
         /\ [v EXCEPT !.complete = FALSE, !.current = 0].tick = v.tick
         /\ [v EXCEPT !.complete = FALSE, !.current = 0].complete = FALSE
BY DEF Ramps

LEMMA LimitsAre ==
  /\ ZERO_CYCLES \in Nat \ {0} /\ BAD_CYCLES \in Nat \ {0} /\ STARTUP_CYCLES \in Nat \ {0}
  /\ REQUIRED \in Nat \ {0} /\ MAX_STARTUP \in Nat \ {0} /\ MAX_HANDOFF \in Nat \ {0}
  /\ ZERO_FRAMES \in Nat \ {0} /\ RAMP \in Nat \ {0} /\ Requests \subseteq Int /\ Measured \subseteq Int
BY FocRunAssumption

\* One frame of the policy that neither gives up nor releases.
LEMMA CountedFields ==
  ASSUME RunInv, NEW raw \in Int, NEW err \in BOOLEAN
  PROVE  /\ Counted(raw, err) \in [bad : Nat, seen : BOOLEAN, standing : Nat, zero : Nat,
                                   pending : BOOLEAN, reverse : Int]
         /\ Counted(raw, err).bad = IF EncoderBad(raw, err) THEN policy.bad + 1 ELSE 0
         /\ Counted(raw, err).standing =
              IF Standing(raw) THEN policy.standing + 1 ELSE policy.standing
         /\ Counted(raw, err).zero = policy.zero /\ Counted(raw, err).reverse = policy.reverse
<1> DEFINE seen == Turned(raw)
           standing == IF Standing(raw) THEN policy.standing + 1 ELSE policy.standing
           bad == IF EncoderBad(raw, err) THEN policy.bad + 1 ELSE 0
           P == [bad : Nat, seen : BOOLEAN, standing : Nat, zero : Nat,
                 pending : BOOLEAN, reverse : Int]
<1>1. policy \in P
  BY DEF RunInv, Typed
<1>2. standing \in Nat /\ bad \in Nat
  BY <1>1
<1>3. seen \in BOOLEAN
  BY <1>1 DEF Turned
<1>4. Counted(raw, err) = [policy EXCEPT !.seen = seen, !.standing = standing, !.bad = bad]
  BY DEF Counted
<1> HIDE DEF seen, standing, bad
<1>5. /\ [policy EXCEPT !.seen = seen, !.standing = standing, !.bad = bad] \in P
      /\ [policy EXCEPT !.seen = seen, !.standing = standing, !.bad = bad].bad = bad
      /\ [policy EXCEPT !.seen = seen, !.standing = standing, !.bad = bad].standing = standing
      /\ [policy EXCEPT !.seen = seen, !.standing = standing, !.bad = bad].zero = policy.zero
      /\ [policy EXCEPT !.seen = seen, !.standing = standing, !.bad = bad].reverse = policy.reverse
  BY ONLY <1>1, <1>2, <1>3
<1> HIDE DEF P
<1>6. bad = IF EncoderBad(raw, err) THEN policy.bad + 1 ELSE 0
  BY DEF bad
<1>7. standing = IF Standing(raw) THEN policy.standing + 1 ELSE policy.standing
  BY DEF standing
<1>8. P = [bad : Nat, seen : BOOLEAN, standing : Nat, zero : Nat, pending : BOOLEAN, reverse : Int]
  BY DEF P
<1> QED BY <1>4, <1>5, <1>6, <1>7, <1>8, Zenon

\* The kinds of steps, and what each leaves alone.
LEMMA StepKinds ==
  ASSUME Next
  PROVE  \/ Stops /\ UNCHANGED <<foc_state, speed_ref, gate, main>>
         \/ \E r \in Readings : RunContinues(r[1], r[2]) \/ RunReverses(r[1], r[2])
         \/ StartupTimesOut
         \/ \E raw \in Measured, steady \in BOOLEAN :
              StartupPends(raw, steady) \/ StartupHandsOver(raw, steady)
         \/ \E m \in Measured : StageSpeed(m)
         \/ StoreSpeed \/ SetTarget \/ ResetGate
         \/ \E direct \in BOOLEAN : FOC_Start(direct)
         \/ /\ UNCHANGED <<foc_running, foc_state, speed_ref, policy, gate, vf>>
            /\ \/ main' = main
               \/ main' = Idle
               \/ main' = [main EXCEPT !.at = "target"]
               \/ \E rpm \in Requests, at \in Places : main' = [at |-> at, rpm |-> rpm, field |-> 0]
<1>1. CASE RunFrame
  BY <1>1 DEF RunFrame, RunLosesEncoder, Frame
<1>2. CASE StartupFrame
  BY <1>2 DEF StartupFrame
<1>3. CASE FrameUnreadable
  BY <1>3 DEF FrameUnreadable
<1>4. CASE SetSpeedStep
  BY <1>4 DEF SetSpeedStep, CheckStartup, drive
<1>5. CASE FOC_Stop
  BY <1>5 DEF FOC_Stop
<1>6. ASSUME NEW rpm \in Requests, SetSpeed(rpm)
      PROVE  /\ UNCHANGED <<foc_running, foc_state, speed_ref, policy, gate, vf>>
             /\ \E r \in Requests, at \in Places : main' = [at |-> at, rpm |-> r, field |-> 0]
  <2>1. UNCHANGED <<foc_running, foc_state, speed_ref, policy, gate, vf>>
    BY <1>6 DEF SetSpeed, drive
  <2>2. "stage" \in Places /\ "store" \in Places
    BY DEF Places
  <2>3. CASE foc_running /\ foc_state = "RUN"
    <3>1. main' = [at |-> "stage", rpm |-> rpm, field |-> 0]
      BY <1>6, <2>3 DEF SetSpeed
    <3> QED BY <1>6, <2>1, <2>2, <3>1
  <2>4. CASE ~(foc_running /\ foc_state = "RUN")
    <3>1. main' = [at |-> "store", rpm |-> rpm, field |-> 0]
      BY <1>6, <2>4 DEF SetSpeed
    <3> QED BY <1>6, <2>1, <2>2, <3>1
  <2> QED BY <2>1, <2>3, <2>4
<1>7. CASE \E direct \in BOOLEAN : FOC_Start(direct)
  BY <1>7
<1> QED BY <1>1, <1>2, <1>3, <1>4, <1>5, <1>6, <1>7 DEF Next, FOC_RunFrame

\* What is asked for comes from the requests, also by way of the queue and the ramp.
LEMMA RequestedKept ==
  ASSUME RunInv, StartInv, Requested, Next PROVE Requested'
<1>0. /\ vf \in Ramps /\ policy \in [bad : Nat, seen : BOOLEAN, standing : Nat, zero : Nat,
                                    pending : BOOLEAN, reverse : Int]
      /\ main \in [at : Places, rpm : Int, field : Int] /\ speed_ref \in Int
  BY DEF RunInv, Typed, StartInv, StartTyped
<1> USE DEF Requested
<1>1. CASE Stops /\ UNCHANGED <<foc_state, speed_ref, gate, main>>
  BY <1>0, <1>1, FreshIsBounded, StoppedRampIs DEF Stops
<1>2. ASSUME NEW r \in Readings, RunContinues(r[1], r[2]) \/ RunReverses(r[1], r[2])
      PROVE  Requested'
  <2>1. r[1] \in Int /\ r[2] \in BOOLEAN
    BY LimitsAre DEF Readings
  <2> DEFINE C == Counted(r[1], r[2])
  <2>2. /\ C \in [bad : Nat, seen : BOOLEAN, standing : Nat, zero : Nat,
                  pending : BOOLEAN, reverse : Int]
        /\ C.reverse = policy.reverse
    BY <2>1, CountedFields
  <2>3. CASE RunContinues(r[1], r[2])
    <3>1. \E z : policy' = [C EXCEPT !.zero = z] /\ UNCHANGED <<speed_ref, vf, main>>
      BY <2>3 DEF RunContinues, Frame
    <3> HIDE DEF C
    <3> QED BY <2>2, <3>1
  <2>4. CASE RunReverses(r[1], r[2])
    <3>1. /\ policy' = [C EXCEPT !.zero = 0, !.pending = FALSE, !.reverse = 0]
          /\ speed_ref' = policy.reverse /\ UNCHANGED <<vf, main>>
      BY <2>4 DEF RunReverses, Frame
    <3> HIDE DEF C
    <3> QED BY <2>2, <3>1
  <2> QED BY <1>2, <2>3, <2>4
<1>3. VF_Update(vf) \in Ramps /\ VF_Update(vf).target = vf.target
  BY <1>0, UpdateKeepsTarget
<1>4. CASE StartupTimesOut
  <2>1. /\ policy' = FocRunPolicy_Init /\ vf' = [VF_Update(vf) EXCEPT !.complete = FALSE, !.current = 0]
        /\ UNCHANGED <<speed_ref, main>>
    BY <1>4 DEF StartupTimesOut, Frame
  <2> QED BY <1>3, <2>1, StoppedRampIs, FreshIsBounded
<1>5. CASE \E raw \in Measured, steady \in BOOLEAN :
             StartupPends(raw, steady) \/ StartupHandsOver(raw, steady)
  <2>1. vf' = VF_Update(vf) /\ UNCHANGED <<speed_ref, main>>
    BY <1>5 DEF StartupPends, StartupHandsOver, Frame
  <2>2. policy' = policy \/ policy' = FocRunPolicy_Init
    BY <1>5 DEF StartupPends, StartupHandsOver
  <2> QED BY <1>3, <2>1, <2>2, FreshIsBounded
<1>6. ASSUME NEW m \in Measured, StageSpeed(m) PROVE Requested'
  <2>1. \E staged \in BOOLEAN :
          /\ policy' = [policy EXCEPT !.pending = staged, !.zero = 0,
                                      !.reverse = IF staged THEN main.rpm ELSE 0]
          /\ speed_ref' = IF staged THEN 0 ELSE main.rpm
    BY <1>6 DEF StageSpeed, Allowed
  <2>2. main' = Idle /\ UNCHANGED vf
    BY <1>6 DEF StageSpeed
  <2> QED BY <1>0, <2>1, <2>2 DEF Idle
<1>7. CASE StoreSpeed
  BY <1>0, <1>7 DEF StoreSpeed
<1>8. CASE SetTarget
  <2>1. /\ vf' = VF_SetTarget(vf, speed_ref) /\ UNCHANGED <<speed_ref, policy>>
        /\ main' = [main EXCEPT !.at = "gate", !.field = 1]
    BY <1>8 DEF SetTarget
  <2> QED BY <1>0, <2>1, SetTargetLeads
<1>9. CASE ResetGate
  <2>1. UNCHANGED <<speed_ref, policy, vf>> /\ (main' = Idle \/ \E n : main' = [main EXCEPT !.field = n])
    BY <1>9 DEF ResetGate
  <2> QED BY <1>0, <2>1 DEF Idle
<1>10. CASE \E direct \in BOOLEAN : FOC_Start(direct)
  BY <1>0, <1>10, FreshIsBounded DEF FOC_Start
<1>11. ASSUME UNCHANGED <<foc_running, foc_state, speed_ref, policy, gate, vf>>,
              \/ main' = main \/ main' = Idle \/ main' = [main EXCEPT !.at = "target"]
              \/ \E rpm \in Requests, at \in Places : main' = [at |-> at, rpm |-> rpm, field |-> 0]
       PROVE  Requested'
  BY <1>0, <1>11 DEF Idle
<1> QED BY <1>1, <1>2, <1>4, <1>5, <1>6, <1>7, <1>8, <1>9, <1>10, <1>11, StepKinds

\* The frame that would bring a counter of the policy to its limit stops FOC or
\* releases the reversal, and both start the counter again.
LEMMA PolicyKept ==
  ASSUME RunInv, StartInv, PolicyBounded, Next PROVE PolicyBounded'
<1>0. policy \in [bad : Nat, seen : BOOLEAN, standing : Nat, zero : Nat,
                  pending : BOOLEAN, reverse : Int]
  BY DEF RunInv, Typed
<1> USE LimitsAre DEF PolicyBounded
<1>1. CASE policy' = FocRunPolicy_Init
  BY <1>1, FreshIsBounded
<1>2. CASE policy' = policy
  BY <1>2
<1>3. ASSUME NEW r \in Readings, RunContinues(r[1], r[2]) \/ RunReverses(r[1], r[2])
      PROVE  PolicyBounded'
  <2>1. r[1] \in Int /\ r[2] \in BOOLEAN
    BY DEF Readings
  <2> DEFINE C == Counted(r[1], r[2])
             z == ZeroSeen(r[1])
  <2>2. /\ C \in [bad : Nat, seen : BOOLEAN, standing : Nat, zero : Nat,
                  pending : BOOLEAN, reverse : Int]
        /\ C.bad = IF EncoderBad(r[1], r[2]) THEN policy.bad + 1 ELSE 0
        /\ C.standing = IF Standing(r[1]) THEN policy.standing + 1 ELSE policy.standing
        /\ C.zero = policy.zero
    BY <2>1, CountedFields
  <2>3. ~EncoderLost(r[1], r[2])
    BY <1>3 DEF RunContinues, RunReverses
  <2>4. C.bad < BAD_CYCLES /\ C.standing < STARTUP_CYCLES
    BY <1>0, <2>2, <2>3 DEF EncoderLost
  <2>5. CASE RunContinues(r[1], r[2])
    <3>1. policy' = [C EXCEPT !.zero = IF policy.pending THEN z ELSE C.zero]
      BY <2>5 DEF RunContinues
    <3>2. policy.pending => ~(z >= ZERO_CYCLES)
      BY <2>5 DEF RunContinues, StablyZero
    <3>3. z \in Nat
      BY <1>0 DEF ZeroSeen
    <3> HIDE DEF C, z
    <3> QED BY <2>2, <2>4, <3>1, <3>2, <3>3
  <2>6. CASE RunReverses(r[1], r[2])
    <3>1. policy' = [C EXCEPT !.zero = 0, !.pending = FALSE, !.reverse = 0]
      BY <2>6 DEF RunReverses
    <3> HIDE DEF C
    <3> QED BY <2>2, <2>4, <3>1
  <2> QED BY <1>3, <2>5, <2>6
<1>4. ASSUME NEW m \in Measured, StageSpeed(m) PROVE PolicyBounded'
  <2>1. \E staged, rpm : policy' = [policy EXCEPT !.pending = staged, !.zero = 0, !.reverse = rpm]
    BY <1>4 DEF StageSpeed
  <2> QED BY <1>0, <2>1
<1>5. CASE \E raw \in Measured, steady \in BOOLEAN :
             StartupPends(raw, steady) \/ StartupHandsOver(raw, steady)
  BY <1>1, <1>2, <1>5 DEF StartupPends, StartupHandsOver
<1> QED
  BY <1>1, <1>2, <1>3, <1>4, <1>5, StepKinds DEF Stops, StartupTimesOut, StoreSpeed, SetTarget,
     ResetGate, FOC_Start

LEMMA GateTimedOut ==
  ASSUME NEW g \in Gates, NEW n \in Nat, NEW m \in Nat
  PROVE  LET h == [g EXCEPT !.latched_timeout = TRUE, !.startup_cycles = n, !.handoff_cycles = m]
         IN  h.startup_cycles = n /\ h.handoff_cycles = m /\ h.consecutive_good = g.consecutive_good
BY DEF Gates

LEMMA GateReady ==
  ASSUME NEW g \in Gates
  PROVE  LET h == [g EXCEPT !.latched_ready = TRUE]
         IN  /\ h.startup_cycles = g.startup_cycles /\ h.handoff_cycles = g.handoff_cycles
             /\ h.consecutive_good = g.consecutive_good
BY DEF Gates

\* One frame of the gate.
LEMMA GateCountedFields ==
  ASSUME gate \in Gates, NEW v \in Ramps, NEW raw \in Int, NEW steady \in BOOLEAN
  PROVE  LET g == GateCounted(v, raw, steady)
         IN  /\ g \in Gates
             /\ g.startup_cycles = gate.startup_cycles + 1
             /\ g.handoff_cycles = IF v.complete THEN gate.handoff_cycles + 1 ELSE gate.handoff_cycles
             /\ g.consecutive_good = GoodRun(v, raw, steady) /\ GoodRun(v, raw, steady) \in Nat
             /\ GoodRun(v, raw, steady) <= gate.consecutive_good + 1
<1> DEFINE first == gate.startup_cycles + 1
           late == IF v.complete THEN gate.handoff_cycles + 1 ELSE gate.handoff_cycles
           good == GoodRun(v, raw, steady)
<1>1. first \in Nat /\ late \in Nat /\ good \in Nat /\ good <= gate.consecutive_good + 1
  BY DEF GoodRun, Gates
<1>2. GateCounted(v, raw, steady) = [gate EXCEPT !.startup_cycles = first, !.handoff_cycles = late,
                                                !.consecutive_good = good]
  BY DEF GateCounted
<1>3. /\ first = gate.startup_cycles + 1
      /\ late = IF v.complete THEN gate.handoff_cycles + 1 ELSE gate.handoff_cycles
      /\ good = GoodRun(v, raw, steady)
  OBVIOUS
<1> HIDE DEF first, late, good
<1>0. gate \in Gates
  OBVIOUS
<1> DEFINE h == [gate EXCEPT !.startup_cycles = first, !.handoff_cycles = late,
                         !.consecutive_good = good]
<1>4. h \in Gates /\ h.startup_cycles = first /\ h.handoff_cycles = late /\ h.consecutive_good = good
  BY ONLY <1>0, <1>1 DEF Gates
<1>5. GateCounted(v, raw, steady) = h
  BY <1>2
<1> HIDE DEF h
<1> QED BY <1>1, <1>3, <1>4, <1>5

\* A store of the reset makes a counter zero and leaves the others.
LEMMA ResetLowers ==
  ASSUME gate \in Gates, main.field \in 1..5, ResetGate
  PROVE  /\ gate'.startup_cycles \in {0, gate.startup_cycles}
         /\ gate'.handoff_cycles \in {0, gate.handoff_cycles}
         /\ gate'.consecutive_good \in {0, gate.consecutive_good}
<1> DEFINE f == GateFields[main.field]
<1>1. gate' = [gate EXCEPT ![f] = FocHandoffGate_Init[f]]
  BY DEF ResetGate
<1>2. f \in {"startup_cycles", "handoff_cycles", "consecutive_good", "latched_ready", "latched_timeout"}
  BY DEF GateFields
<1> HIDE DEF f
<1>3. \A x \in {"startup_cycles", "handoff_cycles", "consecutive_good"} :
         gate'[x] \in {FocHandoffGate_Init[x], gate[x]}
  BY <1>1, <1>2 DEF Gates
<1> QED BY <1>3, FreshIsBounded

\* The frame that passes a limit of the gate ends the start, and the one that
\* has seen enough ends the counting.
LEMMA GateKept ==
  ASSUME RunInv, StartInv, GateBounded, Next PROVE GateBounded'
<1>0. gate \in Gates /\ vf \in Ramps
  BY DEF StartInv, StartTyped
<1>1. /\ gate.startup_cycles \in Nat /\ gate.handoff_cycles \in Nat /\ gate.consecutive_good \in Nat
      /\ gate.latched_timeout \in BOOLEAN
  BY <1>0 DEF Gates
<1> USE LimitsAre DEF GateBounded
<1>2. CASE UNCHANGED <<foc_state, gate>> /\ (foc_running' => foc_running)
  BY <1>2
<1>3. CASE StartupTimesOut
  <2> DEFINE cycles == IF gate.latched_timeout THEN gate.startup_cycles ELSE gate.startup_cycles + 1
             late == IF gate.latched_timeout \/ gate.startup_cycles + 1 > MAX_STARTUP
                     THEN gate.handoff_cycles ELSE gate.handoff_cycles + 1
  <2>1. /\ gate' = [gate EXCEPT !.latched_timeout = TRUE, !.startup_cycles = cycles,
                                !.handoff_cycles = late]
        /\ foc_running /\ foc_state = "STARTUP" /\ foc_running' = FALSE
    BY <1>3 DEF StartupTimesOut, Frame
  <2>2. /\ cycles \in Nat /\ late \in Nat /\ TRUE \in BOOLEAN
        /\ cycles <= MAX_STARTUP + 1 /\ late <= MAX_HANDOFF + 1
    BY <1>1, <2>1
  <2> HIDE DEF cycles, late
  <2>3. /\ gate'.startup_cycles = cycles /\ gate'.handoff_cycles = late
        /\ gate'.consecutive_good = gate.consecutive_good
    BY <1>0, <2>1, <2>2, GateTimedOut
  <2> QED BY <2>1, <2>2, <2>3
<1>4. ASSUME NEW raw \in Measured, NEW steady \in BOOLEAN,
             StartupPends(raw, steady) \/ StartupHandsOver(raw, steady)
      PROVE  GateBounded'
  <2> DEFINE v == VF_Update(vf)
             g == GateCounted(v, raw, steady)
  <2>1. v \in Ramps /\ raw \in Int
    BY <1>0, UpdateKeepsTarget
  <2>2. /\ foc_running /\ foc_state = "STARTUP" /\ ~TimedOut(v)
        /\ \/ foc_state' = "STARTUP" /\ gate' = g /\ GoodRun(v, raw, steady) < REQUIRED
           \/ foc_state' = "RUN" /\ gate' = [g EXCEPT !.latched_ready = TRUE]
    BY <1>4 DEF StartupPends, StartupHandsOver, Frame
  <2>3. /\ g \in Gates /\ g.startup_cycles = gate.startup_cycles + 1
        /\ g.handoff_cycles = IF v.complete THEN gate.handoff_cycles + 1 ELSE gate.handoff_cycles
        /\ g.consecutive_good = GoodRun(v, raw, steady) /\ GoodRun(v, raw, steady) \in Nat
        /\ GoodRun(v, raw, steady) <= gate.consecutive_good + 1
    BY <1>0, <2>1, GateCountedFields
  <2>4. g.startup_cycles <= MAX_STARTUP /\ g.handoff_cycles <= MAX_HANDOFF
        /\ g.consecutive_good <= REQUIRED
    <3> HIDE DEF v, g
    <3> QED BY <1>1, <2>2, <2>3 DEF TimedOut
  <2>5. /\ gate'.startup_cycles = g.startup_cycles /\ gate'.handoff_cycles = g.handoff_cycles
        /\ gate'.consecutive_good = g.consecutive_good
    <3> HIDE DEF g
    <3> QED BY <2>2, <2>3, GateReady
  <2> HIDE DEF v, g
  <2> QED BY <1>1, <2>2, <2>3, <2>4, <2>5
<1>5. CASE ResetGate
  <2>1. main.field \in 1..5 /\ UNCHANGED <<foc_running, foc_state>>
    BY <1>5 DEF ResetGate, StartInv, StartTyped
  <2> QED BY <1>0, <1>1, <1>5, <2>1, ResetLowers
<1>6. CASE \E direct \in BOOLEAN : FOC_Start(direct)
  BY <1>6, FreshIsBounded DEF FOC_Start
<1>7. ASSUME NEW r \in Readings, RunContinues(r[1], r[2]) \/ RunReverses(r[1], r[2])
      PROVE  GateBounded'
  BY <1>2, <1>7 DEF RunContinues, RunReverses, Frame
<1>8. CASE (\E m \in Measured : StageSpeed(m)) \/ StoreSpeed \/ SetTarget
  BY <1>2, <1>8 DEF StageSpeed, StoreSpeed, SetTarget
<1>9. CASE Stops /\ UNCHANGED <<foc_state, speed_ref, gate, main>>
  BY <1>2, <1>9 DEF Stops
<1> QED BY <1>2, <1>3, <1>4, <1>5, <1>6, <1>7, <1>8, <1>9, StepKinds

\* A ramp that was not over goes on below its end or is over, at its target.
LEMMA UpdateIsBounded ==
  ASSUME NEW v \in Ramps, v.tick \in 0..(RAMP + 1), ~v.complete => v.tick <= RAMP,
         v.complete => v.current = v.target
  PROVE  LET u == VF_Update(v)
         IN  /\ u.tick \in 0..(RAMP + 1) /\ (~u.complete => u.tick <= RAMP)
             /\ (u.complete => u.current = u.target)
<1>1. CASE v.complete
  BY <1>1 DEF VF_Update
<1> DEFINE tick == v.tick + 1
<1>2. CASE ~v.complete /\ tick < RAMP
  <2>1. \E part : VF_Update(v) = [v EXCEPT !.tick = tick, !.current = part]
    BY <1>2 DEF VF_Update
  <2>2. VF_Update(v).tick = tick /\ ~VF_Update(v).complete
    BY <1>2, <2>1 DEF Ramps
  <2> QED BY <1>2, <2>2, LimitsAre
<1>3. CASE ~v.complete /\ ~(tick < RAMP)
  <2>1. VF_Update(v) = [v EXCEPT !.tick = tick, !.current = v.target, !.complete = TRUE]
    BY <1>3 DEF VF_Update
  <2>2. /\ VF_Update(v).tick = tick /\ VF_Update(v).complete
        /\ VF_Update(v).current = VF_Update(v).target
    BY <2>1 DEF Ramps
  <2> QED BY <1>3, <2>2, LimitsAre
<1> QED BY <1>1, <1>2, <1>3

\* A quotient of natural numbers is one.
LEMMA QuotientIsNatural == ASSUME NEW a \in Nat, NEW n \in Nat \ {0} PROVE a \div n \in Nat
OBVIOUS

\* A new target is joined on the ramp, not behind its end.
LEMMA RejoinIsBounded ==
  ASSUME NEW v \in Ramps, NEW target \in Int
  PROVE  Rejoin(v, target) \in 0..RAMP
<1>1. /\ Abs(v.current) \in Nat /\ RAMP \in Nat /\ Abs(target) \in Nat
      /\ target # 0 => Abs(target) \in Nat \ {0}
  BY LimitsAre DEF Abs, Ramps
<1>2. Abs(v.current) * RAMP \in Nat
  BY <1>1
<1>3. ASSUME target # 0 PROVE AtMost((Abs(v.current) * RAMP) \div Abs(target), RAMP) \in 0..RAMP
  <2>1. (Abs(v.current) * RAMP) \div Abs(target) \in Nat
    BY <1>1, <1>2, <1>3, QuotientIsNatural
  <2> QED BY <1>1, <2>1 DEF AtMost
<1>4. 0 \in 0..RAMP
  BY <1>1
<1> QED BY <1>3, <1>4 DEF Rejoin

LEMMA RampKept ==
  ASSUME RunInv, StartInv, RampBounded, Next PROVE RampBounded'
<1>0. vf \in Ramps /\ speed_ref \in Int
  BY DEF StartInv, StartTyped, RunInv, Typed
<1> USE LimitsAre DEF RampBounded
<1>1. CASE UNCHANGED vf /\ (foc_running' => foc_running)
  BY <1>1
<1>2. CASE Stops /\ UNCHANGED <<foc_state, speed_ref, gate, main>>
  <2>1. vf' = [vf EXCEPT !.complete = FALSE, !.current = 0] /\ ~foc_running'
    BY <1>2 DEF Stops
  <2> QED BY <1>0, <2>1, StoppedRampIs
<1>3. ASSUME foc_running
      PROVE  LET u == VF_Update(vf)
             IN  /\ u \in Ramps /\ u.tick \in 0..(RAMP + 1) /\ (~u.complete => u.tick <= RAMP)
                 /\ (u.complete => u.current = u.target)
  BY <1>0, <1>3, UpdateIsBounded, UpdateKeepsTarget
<1>4. CASE StartupTimesOut
  <2>1. foc_running /\ ~foc_running' /\ vf' = [VF_Update(vf) EXCEPT !.complete = FALSE, !.current = 0]
    BY <1>4 DEF StartupTimesOut, Frame
  <2> QED BY <1>3, <2>1, StoppedRampIs
<1>5. CASE \E raw \in Measured, steady \in BOOLEAN :
             StartupPends(raw, steady) \/ StartupHandsOver(raw, steady)
  <2>1. foc_running /\ vf' = VF_Update(vf)
    BY <1>5 DEF StartupPends, StartupHandsOver, Frame
  <2> QED BY <1>3, <2>1
<1>6. CASE SetTarget
  <2>1. vf' = VF_SetTarget(vf, speed_ref) /\ UNCHANGED foc_running
    BY <1>6 DEF SetTarget
  <2>2. CASE speed_ref = vf.target
    BY <2>1, <2>2 DEF VF_SetTarget
  <2>3. CASE speed_ref # vf.target
    <3>1. vf'.tick = Rejoin(vf, speed_ref) /\ vf'.complete = FALSE
      BY <2>1, <2>3 DEF VF_SetTarget, JoinedRamp
    <3> QED BY <1>0, <3>1, RejoinIsBounded
  <2> QED BY <2>2, <2>3
<1>7. CASE \E direct \in BOOLEAN : FOC_Start(direct)
  <2>1. vf' = VF_Init(speed_ref)
    BY <1>7 DEF FOC_Start
  <2>2. vf'.tick = 0 /\ vf'.complete = FALSE
    BY <1>0, <2>1, FreshIsBounded
  <2> QED BY <2>2
<1>8. ASSUME NEW r \in Readings, RunContinues(r[1], r[2]) \/ RunReverses(r[1], r[2])
      PROVE  RampBounded'
  BY <1>1, <1>8 DEF RunContinues, RunReverses, Frame
<1>9. CASE (\E m \in Measured : StageSpeed(m)) \/ StoreSpeed \/ ResetGate
  BY <1>1, <1>9 DEF StageSpeed, StoreSpeed, ResetGate
<1> QED BY <1>1, <1>2, <1>4, <1>5, <1>6, <1>7, <1>8, <1>9, StepKinds

LEMMA BoundedHolds == Spec => []Bounded
<1>1. Init => Bounded
  <2> SUFFICES ASSUME Init PROVE Bounded
    OBVIOUS
  <2>1. vf = [target |-> 0, current |-> 0, tick |-> 0, complete |-> FALSE]
    BY FreshIsBounded DEF Init
  <2>2. Requested
    BY <2>1, FreshIsBounded DEF Init, Requested, Idle
  <2>3. PolicyBounded /\ GateBounded /\ RampBounded
    BY <2>1, FreshIsBounded, LimitsAre DEF Init, PolicyBounded, GateBounded, RampBounded
  <2>4. zero_frames \in 0..ZERO_FRAMES
    BY LimitsAre DEF Init
  <2> QED BY <2>2, <2>3, <2>4 DEF Bounded
<1>2. RunInv /\ StartInv /\ Bounded /\ [Next]_vars => Bounded'
  <2> SUFFICES ASSUME RunInv, StartInv, Bounded, [Next]_vars PROVE Bounded'
    OBVIOUS
  <2>1. CASE Next
    <3>1. Requested' /\ PolicyBounded' /\ GateBounded' /\ RampBounded'
      BY <2>1, RequestedKept, PolicyKept, GateKept, RampKept DEF Bounded
    <3>2. \/ UNCHANGED zero_frames \/ zero_frames' = 0
          \/ zero_frames < ZERO_FRAMES /\ zero_frames' = zero_frames + 1
      BY <2>1 DEF Next, FOC_RunFrame, SetSpeedStep, FrameUnreadable, RunFrame, StartupFrame, Frame,
         RunLosesEncoder, RunContinues, RunReverses, StartupTimesOut, StartupPends, StartupHandsOver,
         StageSpeed, StoreSpeed, CheckStartup, SetTarget, ResetGate, FOC_Stop, SetSpeed, FOC_Start, drive
    <3>3. zero_frames' \in 0..ZERO_FRAMES
      BY <3>2, LimitsAre DEF Bounded
    <3> QED BY <3>1, <3>3 DEF Bounded
  <2>2. CASE UNCHANGED vars
    BY <2>2 DEF vars, Bounded, Requested, PolicyBounded, GateBounded, RampBounded
  <2> QED BY <2>1, <2>2
<1> QED
  BY <1>1, <1>2, RunInvHolds, StartInvHolds, PTL DEF Spec

\* For every choice of the limits: no counter of the policy, the gate, the ramp
\* or the unreadable frames ever leaves the range its limit gives it, so that
\* none can wrap however long FOC runs; a ramp that is over stands at its
\* target; and what FOC is asked for, at once or for later, was requested.
THEOREM CountersAreBounded == Spec => []FocTypeOK
<1>1. RunInv /\ StartInv /\ Bounded => FocTypeOK
  <2> SUFFICES ASSUME RunInv, StartInv, Bounded PROVE FocTypeOK
    OBVIOUS
  <2>1. policy \in [bad : 0..(BAD_CYCLES - 1), seen : BOOLEAN, standing : 0..(STARTUP_CYCLES - 1),
                    zero : 0..(ZERO_CYCLES - 1), pending : BOOLEAN, reverse : Requests \cup {0}]
    BY LimitsAre DEF RunInv, Typed, Bounded, PolicyBounded, Requested
  <2>2. gate \in [startup_cycles : 0..(MAX_STARTUP + 1), handoff_cycles : 0..(MAX_HANDOFF + 1),
                  consecutive_good : 0..REQUIRED, latched_ready : BOOLEAN, latched_timeout : BOOLEAN]
    BY LimitsAre DEF StartInv, StartTyped, Gates, Bounded, GateBounded
  <2>3. /\ vf.target \in Requests \cup {0} /\ vf.tick \in 0..(RAMP + 1) /\ vf.complete \in BOOLEAN
        /\ Abs(vf.current) <= Abs(vf.target) \/ ~vf.complete
    <3>1. vf.complete \in BOOLEAN /\ vf.target \in Int
      BY DEF StartInv, StartTyped, Ramps
    <3>2. Abs(vf.target) <= Abs(vf.target)
      BY <3>1 DEF Abs
    <3> QED BY <3>1, <3>2 DEF Bounded, Requested, RampBounded
  <2>4. foc_running \in BOOLEAN /\ foc_state \in {"STARTUP", "RUN"} /\ speed_ref \in Requests \cup {0}
    BY DEF RunInv, Typed, Bounded, Requested
  <2> QED BY <2>1, <2>2, <2>3, <2>4 DEF FocTypeOK, Bounded
<1> QED
  BY <1>1, RunInvHolds, StartInvHolds, BoundedHolds, PTL
=============================================================================
