# Formal models of the OEW drive firmware

The firmware drives an open-end-winding induction motor from two three-phase
bridges (TIM1 and TIM8 of an STM32G474). This directory holds TLA+ models of its
control logic, the TLC configurations that check them, and proofs checked by
TLAPS. `PROJECT.json` maps every definition to the lines it models.

## The system

| part | source | state | operations | what makes it correct |
|---|---|---|---|---|
| power stage | `src/src/pwm.c` | CCER, MOE, CEN of two timers, the pending sample context, the align session | enable, disable, align aperture, interlock | outputs come on only through an admission; every stop is complete |
| ADC | `src/src/adc.c`, `adc_dispatch.c` | injected group, latest frame (a sequence lock), offsets, control admission | injected start/stop, interrupt, regular conversion, calibration, frame reads | a reader never sees a torn frame; a frame is VALID only if all is known |
| protection | `src/src/protect.c` | fault latch, overvoltage counter | check a frame, periodic check, request clear | the latch is terminal and cleared only when quiet |
| FOC | `src/src/foc.c`, `foc_run_policy.c`, `foc_handoff_gate.c` | `foc_running`, start-up/run state, gates | start, stop, one frame | supervised whenever live |
| V/f | `src/src/vf_control.c` | `vfc.running`, ramp, slip | start, stop, 1 kHz update | stops on a fault |
| autotune | `src/src/autotune.c`, `autotune_math.c` | test session, abort flag | one blocking test at a time | leaves the drive as it found it |
| command line | `src/src/cli.c`, `main.c` | one line buffer | one handler per command | exclusion between modes |
| map capture | `src/src/map_capture*.c` | session state machine, record ring | arm, run, frame, period, abort, consume | one terminal status, no record lost silently |
| map pipeline (host) | `src/src/map_measurement_*.c`, `map_region_certifier.c`, `src/tools/map_*` | samples of a row, a matrix and a region per row | read, accumulate, solve, certify, emit | a region lies between tested cells, a bad reference moves no matrix far, and a good campaign gives a map that loads |
| current map | `src/src/current_map_selector.c`, `current_reconstruct.c`, `map_commissioning.c`, `map_artifact_decoder.c` | the map in force, in two tables | load, refuse, withdraw, select a row per vector | FOC drives only vectors that one row was measured for |
| clock bring-up | `src/main.c`, `src/system_stm32g4xx.c` | RCC bits, `SystemCoreClock`, `g_clock_fail` | bounded waits, fallback | without the PLL the power stage is locked |
| encoder | `src/src/encoder.c` | captured edges, watchdog | capture interrupt, update | a stale or bad signal is reported |
| UART | `src/src/uart.c` | receive and transmit rings | send, receive, abort token | no deadlock, no reordering |
| numeric blocks | `cordic_math.c`, `pll.c`, `observer.c`, `voltage_manager.c`, `flux_weakening.c` | filters | one update each | numeric accuracy, outside these models |

The parts interact through shared flags and registers. The contexts, by NVIC
priority: the two break interrupts and ADC1_2 at 0, TIM6 (1 kHz), USART2 and TIM1
update at 2, SysTick at 3, and the main loop, which executes one command at a
time. Equal priorities never preempt each other. Very little is masked: the align
aperture, a section of `PROTECT_RequestClear`, two of `FOC_SetSpeed`, a few of the UART. That is
what is hard about this code: a start sequence is a row of plain stores in the main
loop, and a stop can come between any two of them.

Where each part is hard, and which module looks at it:

| part | hard behaviour | looked at in |
|---|---|---|
| power stage, protection, FOC and V/f starts, align, autotune sessions | a break, a frame fault or a TIM6 stop between two stores of a start; a latch read once and used later; recovery racing a line that falls | `DriveSafety` |
| map capture | three contexts may end one session; a ring written by an interrupt and drained by the command line; ordinary commands given inside a session | `MapCapture` |
| ADC frames | a sequence lock with several writers that preempt each other | `AdcFrameLock` |
| UART transmit | three producers, one consumer, and an interrupt enable bit that two of them clear and set | `UartTx` |
| UART receive | an abort flag set by an interrupt and cleared by the test it is meant for; a ring that overflows while the main loop is busy | `UartRx` |
| encoder | a watchdog that publishes a loss in five stores which the capture interrupt splits | `Encoder` |
| FOC start, handoff, reversal | a speed request whose check, store and gate reset are apart, with a frame between any two; two watchdogs; an encoder that fails in the middle of a reversal | `FocRun` |
| autotune measurements | a test owns bridges, ADC interrupt and preload for seconds; an abort, a fault or a stopped timer may end it in any phase, and what it stores decides how FOC is run later | `Autotune` |
| current map | one map in two modules, refused after some of its checks; vectors between measured rows; commands that change the hardware a map was measured on | `CurrentMap` |
| map pipeline | tables kept twice, in firmware and host; rounding; one bad reference, frame or cell in a campaign of hundreds | `MapPipeline` |
| clock bring-up | a wait counter that wraps; a PLL that never locks; a switch that comes late | `ClockStart` |

## Modules

Each component has a module of state and actions and a `...Props` module that states what
must hold of it (and, in a section of its own, what comments of the code claim and the
code does not keep). TLC starts from the latter, or from an `MC...` module where a
configuration needs sets and sequences that a `.cfg` cannot write. A `...Proofs` module has the
theorems. An interrupt of
priority 0 cannot be preempted by anything modelled, so its handler is one step;
everything else is split wherever another context can change what it has read or see
what it has half written.

### The drive: `PowerStage`, `Protect`, `DriveSafety`

* `PowerStage` - the registers, the ADC admission flags and one operator per
  function of `pwm.c` and `adc.c` that reads or writes them.
* `Protect` - the latch, the value checks, the debounce and the end of
  `PROTECT_RequestClear`: its last look at the lines (`ClearRefused`) and the stores that
  clear the latch (`ClearCommit`). In `DriveSafety` they are two steps, `ClearChecks` and
  `ClearCommits`: PRIMASK is set, so no handler runs between them, but a line may fall there.
* `DriveSafety` - the composition: commands, starts, stops, the autotune session,
  the align aperture, TIM6, the ADC and the break interrupts. `pc` is the place of the
  main loop, `op` the sequence it executes, `masked` PRIMASK, `t6` the place of the TIM6
  handler.
* `DriveSafetyProps` - its properties. `AdmissionLatch` - the abstract specification:
  outputs come on only under an admission granted while no fault was latched, a trip
  latches and switches off, the latch is cleared only while the outputs are off and no
  admission is out.
* `DriveSafetyInv` - the inductive invariant. `DriveSafetyProofs` - the proofs: of the
  invariant, of the refinement of `AdmissionLatch`, and of the theorems about a capture session.

### Map capture: `MapCapture` over `DriveSafety`

A session shares the stage, the latch, the injected group and both interrupt levels with
the drive, so `MapCapture` extends `DriveSafety` and composes the session with the part
of it a session meets: starting and stopping FOC, recovery, calibration, both shutdown
lines and the breaks. V/f, autotune and align are left to `DriveSafety`. `capState`,
`capStatus` and the counters are the statics of `map_capture.c`; `ring`, `wr`, `rd` the
record ring; `t6` stands for the handler of the TIM1 update interrupt, which has the
priority of TIM6. The commands `mapcap arm/run/abort/drain` are actions, and so are the
frame (`CaptureFrame`), the period (`Period`) and the break while a session is active
(`CaptureBreak`); `terminal_stop` is split into stop, status and state where the main
loop executes it, because a frame or a break can execute it too in between. A record is
the number of its session and of its frame.

### ADC frames: `AdcFrameLock`

`adc_publish` and `ADC_GetLatestFrame` load by load and store by store, executed by the
main loop, TIM6 and a priority-0 handler, each preempting the ones before it. A frame is
two halves, each named by the publication it comes from, so that a torn read shows.

### UART: `UartTx`, `UartRx`

`UartTx` has the transmit ring with its three producers (lines of the main loop, which
block; packets of TIM6 and ADC1_2, which are dropped when they do not fit), the handler
that drains it, TXEIE and the data register. The handler is split between its look at the
ring and its store to CR1, because a priority-0 producer fits in between. `TransmitQueue` is the
abstract specification of what the senders rely on: a bounded queue, to which a byte of a line is
appended when there is room and a packet whole or not at all, and which the line takes from in
order. `UartTx` is shown to implement it, with the slots from tail to head as the queue. `UartRx` has
the receiver: the token matcher, the receive ring with its overflow, `UART_ReadLine`
character by character, and a test that clears the abort flag and polls it.

### Encoder: `Encoder`

The capture interrupt is one step; `ENC_Update` is split at each load and store it shares
with the interrupt, and so is the loop of `ENC_Calibrate`. Angles and speeds are
represented by the captures they are computed from.

### Start, handoff and reversal of FOC: `FocRun`

The ramp (`vf_start.c`), the handoff gate (`foc_handoff_gate.c`) and the run policy
(`foc_run_policy.c`) as records with the fields of their structs, driven by `FOC_RunFrame`
(one step) and by `FOC_SetSpeed`, which `main` takes through its check, its critical
section or its plain store, the check for STARTUP, the change of the ramp and the five
stores of the gate reset. Speeds are small signed numbers; whatever else decides a handoff
(EMF, filtered speed, mismatch, jerk, Id) is one free Boolean. `hist` is a history
variable: it counts what the frames have shown, independently of the counters of the
code, and only properties read it.

### Autotune: `Autotune`, `AutotuneTests`

`Autotune` has the commands, the session (`AT_TestBegin`, `AT_TestEnd`, `both_enable`, the
nested channel detection, the service vectors) and what is made of the results: the typed
parameters, the mask that tells measured from typed, the gains. `AutotuneTests` has the nine
measurements, each from point to point with its ways out, and what it stores when.
The main loop is at `pc` of command `cmd`; the abort byte and a break come between any two
steps. A value is the sort of source it comes from; an estimate is found or not, sane or not.

### The current map: `CurrentMap`

The selector's `g_map` and the reconstruction's `g_map` (`gMap`, `recon`), the identity
of the hardware read from the registers (`live`), and FOC as far as it uses the map: its
start and the choice of a vector by each frame. `mapload` is one action with all its
refusals; a region is a box over the phases. `MapInForce` is the abstract specification: a
complete map or none, its table beside it, FOC only on a complete map, and then both stay.

### The map pipeline: `MapProfile`, `MapRow`, `MapPipeline`

`MapProfile` holds the tables of vectors, offsets and regions of the firmware and of the
host, with the arithmetic between them; `MapRow` the accumulator, the least-squares solver
and the certifier of a row; `MapPipeline` a campaign over the twelve rows, from the dataset to the
loader. The numbers of the tables and of the solver are those of the code, with the clamp of a
coefficient and of a prediction to 32 bits (`clamp_i32`); currents are multiples of 500 mA, and their
sums, 64 bits wide in the code, are not wrapped. A prediction (`predict_scaled`) is cut to the
same 500 mA where the code cuts to 1 mA, so residuals somewhat above the limit pass here that the
code refuses: more matrices are solved than in the code, and `Tolerance` is wider for it.

### The clock: `ClockStart`

`clock_wait_set` poll by poll with a counter modulo `Width`, and the bring-up in `main`;
the PLL and the switch change their bits between any two polls, late or never. What it leaves in
`g_clock_fail` is the constant `ClockFail` of `DriveSafety`.

## Checks

The passing runs, their bounds and why these are enough:

* `drive` - every interleaving of the commands with the interrupts, the SD lines
  and a load that may go out of range at any time (215 000 states). `VbusOverCnt = 2`
  (the code uses a larger debounce; one step below and one at the threshold is what its
  guards tell apart), four load classes, two timers; nothing else is bounded in this run.
* `capture` - two sessions (`MaxSessions`), so that records, indices and ids of the one
  meet the other; three frames through a ring of three slots, which holds two records, so
  that the ring fills and wraps; `TimeoutPeriods = 3`. The load stays within limits (out of
  range is `drive`'s question) and the limits a frame is checked against are met or missed
  freely. The four reads of `MapCapture_Run` are one step: what can change between them
  is caught by the service start that follows, read by read. 4.8 million states.
* `framelock` - three publications (`MaxPublish`): with three contexts that is one inside
  another inside another, or two of one context around a reader. The bound stops the model,
  hence `CHECK_DEADLOCK FALSE`. 336 000 states.
* `uarttx` - a ring of six slots (five bytes), lines of three bytes, packets of two, two
  lines and two packets of each handler: the ring wraps, fills, and both kinds of sender
  meet it full. The packets of ADC1_2 together must not fill the ring, and in the code they
  cannot: a FOC message is sent at most once in a run of FOC and is about 40 of 1023
  bytes. The model ends when the lines and packets are sent. 313 000 states.
* `uartrx` - a token of two letters, a receive ring of three and a line of three
  characters, two polls of a test; every sequence of up to two of: both commands, the token,
  the token after a false start, backspaces that erase more than there is, an overlong line.
  The wire runs dry, hence `CHECK_DEADLOCK FALSE`. 304 000 states.
* `encoder` - four captures, each good, out of range or overrun, between any two
  instructions of six calls of a watchdog with a timeout of two. 545 000 states.
* `focrun` - requested speeds -2, 0, 1, 2 and measured speeds -2..2 around a standstill
  threshold of 1, two requests per start (so that one request overtakes another). The
  limits are small but keep the order they have in the code: `ZERO_CYCLES < BAD_CYCLES <
  STARTUP_CYCLES`, and `MAX_STARTUP` leaves room for the ramp and the handoff. Every counter
  reaches its limit. 492 000 states.

* `autotune` - four commands of twenty-four, so that one test's leftovers meet a second
  command and its result a third; two points of which one is needed; a curve of two. The
  abort byte and the break come at any step. 1.27 million states.
* `mapload` - two rows of two phases, coordinates -1..4 and regions that overlap, touch and leave
  a hole; an upload is the good one with one or two parts replaced; two dead times, two shrink
  steps. Nothing bounds the length of a behaviour. 2520 states.
* `pipeline` - the tables of the board profile as they are, twelve rows of eight points with two
  pulses, three true matrices, one flawed row of a campaign (an omitted pulse, a duplicate, an
  unqualified sample, a wrong or reversed reference, a cell that fails or is missing). Two flaws in
  different rows do not meet: a row is solved and certified from its own samples. 151 000 states.

Each `...Props` module also has a type invariant. They are in no run's list: most are proved (see
Proofs), and each is checked on demand, in place of the list of its component's configuration, and
holds, as do `LatchedMeansDisarmed`, `OneLoopAtATime`, `TablesOfOneMap`, `CalibrationPairWhole` (of
`ENC_Calibrate`, which nothing in the firmware calls), `FifoIntact` and `PacketsWholeOrCounted`. What
the runs check:

| run | properties |
|---|---|
| `drive` | main() leaves its loop only with the drive dark (`LoopLeftIsDark`); between commands running counters have an owner that would stop them (`CountersOwned`); a live FOC is supervised; the latch is cleared only with the drive dark, disarmed and idle, and a break that falls between the last look and the clearing stays pending and latches again (`ClearForgetsNoBreak`); energisation only under an admission (`AdmissionRespected`, a refinement); V/f does not outlive a fault |
| `capture` | the ring holds exactly the records not yet drained, in order, and a copy is not overwritten before its slot is freed (`RingHoldsTheRest`); COMPLETE means all frames and none lost; FAULTED leaves the latch set whoever ends the session; a session ends dark and disarmed |
| `framelock` | however preempted increments overlap, the lock is even at rest, so that readers are never locked out; without nested publications a read is whole; a priority-0 read answers at once, with its own frame |
| `uarttx` | the ring, its three producers and its handler implement a bounded queue (`TransmitQueueSpec`): what has gone out and what waits are together the bytes accepted, in order, and a packet goes in whole or is counted as dropped; a blocking send ends |
| `uartrx` | the command line gets exactly the lines sent, as long as the ring has not overflowed; a test that has cleared the flag ends at its next poll after the token, however full the ring |
| `encoder` | a silent signal is reported; a signal that keeps coming is not called lost, wherever its captures fall (`LiveIsNotLost`); no speed is computed across a bad capture (`SpeedSkipsBadCaptures`) |
| `focrun` | while a reversal is queued FOC asks for standstill; it is released only on frames in a row that show standstill; a run with a failed encoder ends; RUN is entered only after enough good frames on the ramp of the present target; the ramp leads to the speed RUN will be given; a start ends |
| `autotune` | no ADC handler runs under a measurement; bridges, preload and session are given back on every way out (`SessionGivenBack`); no test stores what it reports as failed, and a wait for periods that an abort, a fault or a stopped timer cuts short stores nothing (`FailedTestKeepsResults`); a typed Tr never passes for a measured one; FOC gets the gains of the present parameters; every command ends |
| `mapload` | a running FOC drives only vectors of exactly the active row; a refused upload does not take a matching map along; `MapInForce` is implemented, so the map is complete, the table of the reconstruction is that map's, and FOC keeps both |
| `pipeline` | a campaign without flaws goes through to a map that loads; a certified box has, along each phase, valid cells on both sides, no closer than the guard, and no failed one inside (`BoxIsTested`); no frame of the bench counts twice in a row (`NoFrameTwice`); a row whose references are exact is solved to the true matrix, coefficient by coefficient (`CleanRowsAreExact`), and one wrong reference is refused or moves no coefficient far (`MatrixIsNearTruth`) |

Fairness is stated only where something must come to its end, and only for what hardware
or the processor does by itself: TIM6 keeps running and a pending break is served
(`DriveSafety`); a handler that was entered goes on, a pending transmit interrupt is served,
the line keeps its rate, and - strong fairness, because handlers can preempt it again and
again - interrupts leave time for a send of the main loop (`UartTx`); the timer triggers a
conversion every period while FOC runs and the main loop comes back to a call it has begun
(`FocRun`); and the main loop goes on inside a command (`Autotune`). `MapCapture` states the same for its own timer and commands in
`FairCaptureSpec`. Nothing is assumed of the operator, the load or the encoder.

## Known divergences

Where a comment or a test of the repository says what the code does not do, the claim is a
property, and TLC shows the shortest behaviour against it. Two are listed in
`PROJECT.json`, with the quoted lines:

* `rearm` (`NoSelfRearm`) - a break between the stores of `pwm_start_timers_direct`: the
  rest of the row switches a bridge on with the fault latched.
* `clockfail` (`DeadPllIsReported`) - the waits test `n == 0` after `n--` has wrapped, so a
  time-out returns success; the wait for SWS ends at its first poll, since HSI16 shows one of the
  two bits. With a PLL that never locks the drive comes up with the power stage admitted.

The properties below are in no listed run; TLC refutes each in the same way. To see it, take the
component's passing configuration with the property in place of its list and, for
`RunningSessionEnds`, the specification `FairCaptureSpec`; one session (`MaxSessions = 1`) is
enough for those of `CaptureProps`, three commands for those of `MCAutotune`.
`CoreClockIsTheClock` takes `clockfail.cfg` with `PllLocks = TRUE`.

| property | module | claim | what happens |
|---|---|---|---|
| `FocStoppedByFault` | `DriveSafetyProps` | after a latched stop FOC does not report running (main.c:147) | a stop between the outputs and the store of `foc_running` |
| `RunningMeansOutputs` | `DriveSafetyProps` | `foc_running` only with counters running (foc.c:713) | `vf=0`, given while FOC runs, stops the counters under it |
| `VfTickSeesOvercurrent` | `DriveSafetyProps` | the V/f tick refreshes the frame that is checked (main.c:238) | it cannot while the injected group is armed |
| `BreakEvidenceLatched` | `DriveSafetyProps` | a break is latched by its handler (protect.c:43) | `al` clears the status registers in its masked section, before the handler could run |
| `RunningSessionEnds` | `CaptureProps` | a session ends after its timeout (map_capture.h:162) | the timeout counts update events, whose interrupt no capture code enables |
| `ClearOnlyWhenDark` | `CaptureProps` | the latch is cleared with both bridges dark (protect.c:198) | a start of the session that raced the fault has left one on |
| `TerminalIsFinal` | `CaptureProps` | a terminal state is final (map_capture.h:168) | `MapCapture_Run` stores RUNNING over the FAULTED that a break has just stored |
| `TimeoutMeansSilence` | `EncoderProps` | the recheck prevents a false loss (encoder.c:287) | a capture after the recheck |
| `NoSpeedAcrossLoss` | `EncoderProps` | no speed spans a declared loss (encoder.c:297) | a capture between the stores of the watchdog |
| `ErrorsAreCounted` | `EncoderProps` | every bad frame and timeout is counted (encoder.c:63) | a capture inside the increment |
| `SequenceCounts` | `AdcFrameLockProps` | the sequence counts publications (the monotonicity test) | a publication inside the increment |
| `LinesWhole` | `UartTxProps` | a line goes out in one piece (uart.h:41) | packets of handlers inside lines |
| `AbortWorksDuringTest` | `MCUartRx` | the token works while a test runs (uart.c:48) | it arrives between the command and the clearing of the flag |
| `DetectionWaits` | `MCUartRx` | the channel detection waits (autotune.c:388) | the flag of an earlier abort is still set |
| `AdmissionFalseInSession` | `CaptureProps` | a session owns the frames (adc_dispatch.c:8) | `1` inside an armed session starts FOC, whose frames then go to the session |
| `ReadsAreWhole` | `AdcFrameLockProps` | a read is whole (adc.c:130) | a publication preempted by another one resumes under an even lock; a reader takes half of each |
| `QueueDrains` | `UartTxProps` | what is enqueued is sent (uart.c:207) | the handler clears TXEIE after a priority-0 producer has set it; the message waits for the next event |
| `ReversalSeesShaft` | `MCFocRun` | a reversal waits for standstill (foc_run_policy.c:104) | a failed encoder shows zero speed, and a queued reversal is released on it |
| `CoreClockIsTheClock` | `MCClockStart` | what is computed from `SystemCoreClock` fits the clock (main.c:676) | the switch to the PLL happens after `SystemCoreClockUpdate` has read HSI16 |
| `InForceMatchesLive` | `MCCurrentMap` | a map of other hardware is not in force (current_map_selector.c:138) | `deadtime=` or a calibration changes the identity, and FOC starts on the old map |
| `PoweredIsSupervised` | `MCAutotune` | the ADC interrupt is disabled and enabled in pairs (docs/tz/TZ_CLI_MAIN_LOOP_EXTRACTION.md:77) | `hold=` and `pv=` leave it off; V/f then drives both bridges without an ADC handler |
| `TrIsNeverEntered` | `MCAutotune` | only the autotune sets `AT_VALID_TR` (foc.c:926) | `trm=` sets it for a typed number |
| `IdleMeasuresLs` | `MCAutotune` | idle measures Ls (docs/AUTOTUNE_GUI_GUIDE.md:87) | the median of Ls is never computed |
| `OewIsTransaction` | `MCAutotune` | an oew test is a transaction (autotune.c:1781) | a stopped test leaves its points in the curve |
| `MaskMeansMeasured` | `MCAutotune` | a set bit means a measured value (autotune.h) | a second idle without saturation clears Isat and keeps its bit |
| `FitUsesInliersOnly` | `MCMapPipeline` | outliers are rejected before the fit (docs/MAP_ACCUMULATOR_SPEC.md:213) | they are counted and stay in it |
| `OutliersCounted` | `MCMapPipeline` | the number of discarded samples is kept (same, 6.2) | phases are sorted apart, and one sample counts twice |
| `PolarityIsChecked` | `MCMapPipeline` | the sign of each coefficient is checked (same, 6.1) | a reversed shunt fits as well |
| `VectorsInRowRegion` | `MCMapPipeline` | the vectors stay within 2048 Q15 of the row (map_capture_profiles.c:242) | shift and grid together reach 32 counts, 2097 Q15 |
| `HostMirrorsFirmware` | `MCMapPipeline` | the host mirrors the firmware's Q15 (map_bench_dataset.py:80) | one rounds down, the other towards zero |
| `NotUnstaged` | `MCFocRun` | an opposite target in RUN is staged | the handoff comes between the check and the store of `FOC_SetSpeed` |

Noticed and not stated as a property: the same opposite request repeated while it is pending
is judged by a single reading (its comment says that a new request supersedes a queued one);
`FOC_Start` goes straight to RUN over a shaft that turns against the target; unreadable
frames are forgiven 500 times in a row in RUN although the comment calls a bad frame a
stop. A second oew test appends behind the points of the first; an abort in the last pair of
`pairs` is not seen, and the test commits; `ch` runs with a stale abort flag; `irot` stores a Tr before it
refuses an overflow; noload keeps the bit of a typed Tr; `AT_TestEnd` clears the busy flag before
the bridges are off. Tests that delay instead of waiting for periods (`iv`, `pairs`, `idle`, `lspos`)
do not fail on a break: what was measured before it is stored if the points are enough
(autotune.c:958-1042). docs/MAP_ACCUMULATOR_SPEC.md:255-256 asks for evidence at every face of a
region and for a guard to the nearest failed or untested cell; the certifier takes the box of the
valid cells, phase by phase. The median of two negative middles with an odd sum is off by two (`median_i32`); comments at
map_capture_profiles.c:263-268 describe a smaller grid.

## Proofs

Every invariant and every action property of a passing run is a theorem, but for two of
`MapPipeline`, and so is the refinement of the three abstract specifications (`AdmissionLatch`,
`MapInForce`, `TransmitQueue`): what TLC
shows on a small instance holds for every value of the constants. Hardly any of these properties is inductive by
itself. Each proof module therefore starts with an invariant that is, as named conjuncts
that say what each context may rely on at the place where another one interrupted it. One lemma
per action (or group of actions) shows that the invariant is kept; the theorems at the end follow
from it, those about steps with the action that takes the step.

| module | theorems about | the invariant |
|---|---|---|
| `DriveSafetyProofs` | `TypeOK`, `LatchedMeansDisarmed`, `OneLoopAtATime`, `CountersOwned`, `FocSupervised`, `LoopLeftIsDark`, `ClearForgetsNoBreak`, `AdmissionRespected` | `Inv` |
| `DriveSafetyProofs` (second part) | `RingHoldsTheRest`, `CompleteIsExact`, `FaultedIsLatched`, `SessionEndsDark` | `CapInv` |
| `FocRunProofs` | `PendingAsksZero`, `BlindRunEnds`, `ReversalWaits`, `RampLeadsToSpeed`, `RunIsEarned`, `FocTypeOK` | `RunInv`, `StartInv`, `Bounded` |
| `AutotuneProofs` | `AtTypeOK`, `QuietWhileDriven`, `SessionGivenBack`, `TrIsNotTheTypedOne`, `FailedTestKeepsResults`, `GainsOfThePresentMotor` | `AtInv` |
| `CurrentMapProofs` | `TablesOfOneMap`, `VectorIsMeasured`, `RefusedUploadIsHarmless`, `MapInForce` | `MapInv` |
| `FeedbackProofs` | `LockEvenAtRest`, `WholeUnlessNested`, `IsrReadsItsOwn` | `LockInv` |
| `FeedbackProofs` (second part) | `LossIsReported`, `LiveIsNotLost`, `SpeedSkipsBadCaptures`, `CalibrationPairWhole` | `EncInv` |
| `UartTxProofs` | `TransmitQueueSpec`, `FifoIntact`, `PacketsWholeOrCounted` | `RingInv`, `QueueInv` |
| `UartRxProofs` | `AbortEndsTest`, `LinesExact` | `RxInv`, `LineInv` |
| `MapPipelineProofs` | `BoxIsTested`, `NoFrameTwice`, `CleanRowsAreExact` | `PipeInv` |

Why the strengthening is needed, and what each argument turns on:

* `Inv`. `CountersOwned` speaks of idle states only, so `Inv` has to say for each place of the
  start sequences which flags and counters may be on there (`DarkBeforeStart`,
  `CountersCovered`, `ModesAtPlace`), `ClearForgetsNoBreak` needs that no command that could
  reach the commit leaves anything on (`DisarmedAtPlace`) and that a line which falls after the
  last look leaves its break pending until PRIMASK is lifted (`ClearKeepsBreak`), and the debounce bound needs
  that the periodic check never counts under a latched fault (`CheckedFrame`). The refinement maps
  each step of the drive to a grant, a trip, a clear or a stutter of `AdmissionLatch`.
* `CapInv`. The reader copies a record and frees its slot in two steps with frames in between, so
  the ring property has to be stated from the first record not drained (`Reader`). COMPLETE is
  exact because a session that may still run has dropped nothing and lacks a frame
  (`Quotas`). A terminal stop cut in two by a frame or a break does not lose the latch, since
  only the main loop clears it and is busy with the stop (`FoundLatched`), and nothing
  is switched on between the stop of the hardware and the store of the state
  (`DarkBeforeState`).
* `RunInv`, `StartInv`. `PendingAsksZero` would break if the plain store of
  `FOC_SetSpeed` met a queued reversal, so `RunInv` says where the call can be: it stages only
  in RUN (`StagesInRun`, since nothing leads from RUN to STARTUP but a stop and a start, and no
  start begins inside the call), and nothing is queued outside RUN or in front of the plain
  store (`NothingQueued`). `BlindRunEnds` needs that the debounce counter has counted at least
  every error the history has seen since the run began (`ErrorsSeen`); `ReversalWaits`
  that the counter of the policy has seen no standing frame that the history has not
  (`StandstillSeen`). The ramp may lag behind the speed only while a call that stored it has
  not come to the ramp (`RampFollows`), and the gate may count frames of the previous ramp only
  while its reset, field by field, is under way (`CountsThisRamp`): `RunIsEarned` excepts
  exactly that window, which the code has. `FocTypeOK` bounds every counter; the gate's pass their
  limits by one, and only in the frame that ends the start, so that `Bounded` is tighter while
  FOC starts (`GateBounded`), and a reset store that falls between two frames can only lower them.
* `AtInv`. What is given back depends on what was taken, so `Session` says for each place which of
  bridges, conversions and preload a command holds there, and that a latched fault has taken the
  bridges: a cut wait then fails, and the store behind it is not reached (`CutKeeps`); `LoopsAreBounded` carries the look at a
  loop's bound over to the repetition inside it.
* `MapInv`. `VectorIsMeasured` holds at the start of FOC only because no two rows of
  the map overlap (`Disjoint`, from `map_regions_sane`), so `MapInv` carries that with the map; a
  vector chosen later is of one row because the selector counts the rows (`ExactlyOne`).
* `LockInv`. An increment split into load and store loses what a preempting context added, but
  each publication adds twice and so leaves the parity as it found it: every value loaded has the parity of
  what lies below in the preemption order (`Parity`). Without nesting there is one writer
  (`OneWriter`), the lock only grows, and a reader that finds it unchanged has copied the frame that is still
  there (`ReaderIsBehind`). A priority-0 handler has the lock to itself (`IsrAlone`).
* `EncInv`. The count of the watchdog is bounded on both sides by what has really been quiet
  (`CountIsQuiet`), and a silence it has dealt with stays an error until the next capture, wherever
  in the five stores that capture falls (`SilenceIsError`). The two reads of the
  calibration are of one capture as long as the count has not moved (`ReadsOfOneCapture`).
* `RingInv`. `FifoIntact` byte by byte (`Waiting`): the slots from tail to head hold what follows the
  bytes sent. Both producers write between a look at the tail and the store of the head, and the
  handler only makes more room meanwhile. For the packets, each byte has its whole packet around it
  (`PacketsAreWhole`) and the first bytes are counted (`Counted`).
* `QueueInv`. For the refinement the ring is read as the sequence of bytes from tail to head. A
  sequence is what follows the bytes sent (`RestWaits`, from `RingInv`), also while the tail moves on
  under a sender that has looked at it, and a line goes on where it stands (`InLine`). Then a
  store of the head is an append (`PutExtends`), a step of the handler a removal of the first byte
  (`DrainTakes`), and every other step a stutter.
* `RxInv`. The matcher goes back to the first letter at most, which loses no token because its
  letters are distinct: whenever the last characters begin the token, the matcher stands
  behind them (`Matching`). Then a token completed after the clearing is in the flag (`Heard`).
* `LineInv`. `LinesExact` defines the text of a line by counting, as the letters no later
  backspace erases, and the code keeps a buffer. They agree one character on because behind
  each letter that is left the letters exceed the backspaces by as many as are left there
  (`Balanced`): so a further backspace takes away the last of them and no other
  (`KeptWithEraser`). Both the letters of a line and the lines of the input are numbered by rank,
  and no rank is ever missing (`Ranked`), since what is added is behind all the rest and what is
  taken away is the last. While a line is being dropped nothing is in the buffer, and the line can
  never fit again (`Reader`).
* `PipeInv`. A campaign is a loop over rows, points and pulses with sums that only the last sample
  completes, so the statement about a solved row has to be carried through the loop: which records
  are those of the present row (`RowIsAccepted`, with `FlawsAreOfRows` linking each flaw to its
  record), and which cells the box was cut from (`RegionIsTested`). `CleanRowsAreExact` is
  then arithmetic. A reference that is a linear image of the currents makes each swapped sum the same
  linear image of the moments (`TotalIsLinear`), the quotients of the solver's determinants are the
  coefficients without a remainder (`ExactIsRecovered`), and the clamp leaves them alone. Sums over
  sequences of any length need induction; the library's induction theorems take an operator as
  a parameter, so the proof takes the least number outside a set (`Induction`).

The assumptions are those the modules state: the constants are natural numbers, most of them
positive (`FocRunAssumption` and its like), what is typed is of the sorts of value the model
tells apart (`TypedAssumption`), and the token's letters are distinct and none of them
ends a line (`UartRxAssumption`, true of "abort"). `PipelineAssumption` asks of a true matrix
that its coefficients fit the 32 bits the artifact gives them. TLC evaluates each on the
instance it checks.

Only model-checked:

* what must come to its end under fairness: `VfStopsOnFault`, `SendEnds`, `StartupEnds`,
  `CommandsEnd`. The prover has no rules for ENABLED.
* `CleanCampaignLoads` and `MatrixIsNearTruth`: the one is about the numbers in the tables of
  the board profile, which are not meant for every value, the other about a distance that depends on
  the points of a row.

## Not modelled

* Numeric blocks (CORDIC, PLL, observer, PI controllers, flux weakening, slip, voltage
  limits, the 2x2 arithmetic of the reconstruction, the estimates of autotune): fixed-point
  arithmetic over 32-bit data, outside a model checker's reach and covered by host tests. What
  they decide is chosen freely where a model needs it.
* Other builds: the bench aperture (`OEW_BENCH_APERTURE`) and the release build without service
  commands. The capture model is of the `OEW_MAP_CAPTURE` build. The build that only monitors
  the shutdown lines (`OEW_SD_MONITOR_ONLY`, `BreakInput = FALSE`) is covered by the proofs; the
  runs take the default, in which they trip the break.
* Of the map: `map_builder.c`, the builder of the firmware; the wire protocol, the coverage counter,
  the bounds by geometry of the certifier, and the parser of scope files.
* Regular conversions of the main loop against those of TIM6: a regular read is refused while
  the injected group is armed, so the two meet only in the one tick after a break stop, and a
  telemetry value is all that is lost.
* Two thirds of the lines counted as implementation are vendor headers (CMSIS and the device
  header), which hold register names and no behaviour.
* Dead time, duty conversion, pin set-up, printing and parsing, diagnostics records,
  the unused `control_isr.c`, the host's Python tools and the vendored files.

## Plan

1. `MapCapture` feeding `MapPipeline`: the records of a session, exported over the UART, as the
   dataset.
2. `map_builder.c` as a fourth user of `MapProfile`, against the same abstract map.
3. An abstract record queue, refined by `MapCapture`'s ring as `TransmitQueue` is by `UartTx`.
4. The numeric blocks with state that decide something: the voltage limits and the flux
   weakening, against reference definitions over small widths.

There is one passing run per component but the clock, bounded so that every counter and queue meets its limit twice;
most divergences have no run of their own.

Theorems to come: `CaptureTypeOK`, from `CapInv` with the places of the drive; the refinement of
item 3, for which `RingHoldsTheRest` is the mapping.
