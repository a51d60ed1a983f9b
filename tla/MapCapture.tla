----------------------------- MODULE MapCapture -----------------------------
(***************************************************************************)
(* A map-capture session (map_capture.c with its port and the `mapcap'     *)
(* commands of main.c): a bounded burst of fixed vectors whose ADC frames  *)
(* are recorded in a ring that the command line drains.  The session       *)
(* shares the stage, the latch, the injected group and both interrupt      *)
(* levels with the drive, so the module composes it with the part of       *)
(* DriveSafety a session meets: starting and stopping FOC, clearing the    *)
(* latch, the SD lines and the break interrupts.  V/f, autotune and align  *)
(* are left to DriveSafety.  The place t6 of the priority-2 handler is     *)
(* here that of TIM1_UP, which has TIM6's priority.                        *)
(***************************************************************************)
EXTENDS DriveSafety, Sequences

CONSTANTS RingCapacity,     \* MAP_CAPTURE_RING_CAPACITY
          Pulses,           \* request pulse_count
          TimeoutPeriods,   \* request timeout_periods
          MaxSessions       \* bound: sessions armed

ASSUME CaptureAssumption ==
  /\ RingCapacity \in Nat /\ RingCapacity > 1
  /\ Pulses \in Nat \ {0}
  /\ TimeoutPeriods \in Nat /\ TimeoutPeriods >= Pulses
  /\ MaxSessions \in Nat \ {0}

VARIABLES
  capState,     \* g_state
  capStatus,    \* g_terminal_status
  capId,        \* g_request.capture_id
  accepted,     \* g_accepted_frames
  periods,      \* g_periods_elapsed
  dropped,      \* g_dropped_records
  ring, wr, rd, \* g_ring, g_write_index, g_read_index
  copied,       \* the record ConsumeRecord has copied, before it frees the slot
  ending,       \* the status of the terminal_stop the main loop executes
  uie           \* TIM1 update interrupt enable, which no capture code sets

sessionVars == <<capState, capStatus>>
countVars   == <<capId, accepted, periods, dropped>>
ringVars    == <<ring, wr, rd>>
readerVars  == <<copied, ending>>
capVars     == <<sessionVars, countVars, ringVars, readerVars, uie>>

CapStates == {"IDLE", "ARMED", "RUNNING", "COMPLETE", "ABORTED", "FAULTED"}

\* MapCaptureStatus: REFUSED stands for the three refusals of Run that latch,
\* ADC_FAULT for every frame that ends the session.
CapStatuses ==
  {"OK", "ABORTED_BY_USER", "PROTECTION_FAULT", "FAULT_LATCHED", "REFUSED",
   "ADC_ARM_FAILED", "PWM_START_FAILED", "ADC_FAULT", "BUFFER_OVERFLOW", "TIMEOUT"}

NoRecord == [id |-> 0, n |-> 0]
Slots    == 0..(RingCapacity - 1)
Records  == [id : 0..MaxSessions, n : 0..Pulses]

ring_next(i) == IF i + 1 = RingCapacity THEN 0 ELSE i + 1

\* records_available
Available == IF wr >= rd THEN wr - rd ELSE RingCapacity - rd + wr

MapCapture_IsActive == capState \in {"ARMED", "RUNNING"}

CapturePlaces ==
  {"armState", "armAdc", "runCheck", "runState", "capEnabled", "capPublish",
   "capStop", "capStatus", "capState", "drainCopy", "drainFree"}

CaptureInit ==
  /\ Init
  /\ capState = "IDLE" /\ capStatus = "OK" /\ ending = "OK"
  /\ capId = 0 /\ accepted = 0 /\ periods = 0 /\ dropped = 0
  /\ ring = [s \in Slots |-> NoRecord] /\ wr = 0 /\ rd = 0
  /\ copied = NoRecord
  /\ uie \in BOOLEAN   \* an align session that a break ended has left it set

-----------------------------------------------------------------------------
(* terminal_stop.                                                          *)

\* The state and the latch request that go with a terminal status.
StateOf(status) ==
  CASE status = "OK"              -> "COMPLETE"
    [] status = "ABORTED_BY_USER" -> "ABORTED"
    [] OTHER                      -> "FAULTED"

\* Mutant: the port does not latch an overflow.
LatchesNoOverflow(status) ==
  status \notin {"OK", "ABORTED_BY_USER", "PROTECTION_FAULT", "FAULT_LATCHED",
                 "BUFFER_OVERFLOW"}

Latches(status) ==
  status \notin {"OK", "ABORTED_BY_USER", "PROTECTION_FAULT", "FAULT_LATCHED"}

\* Mutant: the stop withdraws the admission only.
CaptureStopsAdmission == admitted' = FALSE /\ UNCHANGED stageVars

CaptureStops == PWM_Disable /\ admitted' = FALSE

Commits(status) ==
  /\ capStatus' = status
  /\ capState' = StateOf(status)
  /\ fault' = (fault \/ Latches(status))

\* Inside an interrupt handler of priority 0 it is one step.
TerminalStop(status) == CaptureStops /\ Commits(status)

-----------------------------------------------------------------------------
(* MapCapture_OnAdcFrame.  The frame is published first.                   *)

\* The status a session wants: ADC_FRAME_WINDOW_INVALID.
ServiceFrame(usable) == usable /\ offsetsValid /\ ~ctxValid

\* Only a RUNNING session looks at the frame; the dispatcher hands FOC
\* nothing while any session is active.
FrameIgnored(usable) ==
  /\ FrameReady /\ capState = "ARMED"
  /\ frame' = ADC_FrameStatus(usable)
  /\ UNCHANGED <<ccer, moe, cen, ctxValid, armed, pinVars, permVars, protVars,
                 load, modeVars, adcIrqOn, mainVars, t6, capVars>>

\* A wrong status, a value over the request's limits, a failed snapshot or
\* registers that are no longer those of the request end the session.
FrameFaults ==
  /\ FrameReady /\ capState = "RUNNING"
  /\ TerminalStop("ADC_FAULT")
  /\ UNCHANGED <<offsetsValid, pinVars, vbusOver, load, modeVars, adcIrqOn, mainVars, t6,
                 countVars, ringVars, readerVars, uie>>

\* Mutant: the test for a full ring is dropped.
NeverFull == FALSE

RingFull == ring_next(wr) = rd

FrameOverflows ==
  /\ FrameReady /\ capState = "RUNNING" /\ ServiceFrame(TRUE)
  /\ RingFull
  /\ dropped' = dropped + 1
  /\ TerminalStop("BUFFER_OVERFLOW")
  /\ UNCHANGED <<offsetsValid, pinVars, vbusOver, load, modeVars, adcIrqOn, mainVars, t6,
                 capId, accepted, periods, ringVars, readerVars, uie>>

\* Mutant: the session ends one frame late.
EnoughLate == accepted + 1 > Pulses

Enough == accepted + 1 >= Pulses

FrameRecorded ==
  /\ FrameReady /\ capState = "RUNNING" /\ ServiceFrame(TRUE)
  /\ ~RingFull
  /\ ring' = [ring EXCEPT ![wr] = [id |-> capId, n |-> accepted + 1]]
  /\ wr' = ring_next(wr)
  /\ accepted' = accepted + 1
  /\ IF Enough THEN TerminalStop("OK")
     ELSE /\ frame' = ADC_FrameStatus(TRUE)
          /\ UNCHANGED <<ccer, moe, cen, ctxValid, armed, admitted, fault, sessionVars>>
  /\ UNCHANGED <<offsetsValid, pinVars, vbusOver, load, modeVars, adcIrqOn, mainVars, t6,
                 capId, periods, dropped, rd, readerVars, uie>>

CaptureFrame == (\E usable \in BOOLEAN : FrameIgnored(usable))
                  \/ FrameFaults \/ FrameOverflows \/ FrameRecorded

\* Without a session the frame goes where DriveSafety says.
DriveFrame == ~MapCapture_IsActive /\ Adc /\ UNCHANGED capVars

-----------------------------------------------------------------------------
(* TIM1_UP, MapCapture_OnPeriod: the decision, then terminal_stop; frames  *)
(* and breaks may come in between.                                         *)

PeriodCounts ==
  /\ Tim6Runs /\ t6 = "idle"
  /\ uie /\ "TIM1" \in cen /\ capState = "RUNNING"
  /\ periods' = IF fault THEN periods ELSE periods + 1
  /\ t6' = IF fault THEN "faulted" ELSE IF periods' > TimeoutPeriods THEN "expired" ELSE "idle"
  /\ UNCHANGED <<stageVars, pinVars, permVars, protVars, load, modeVars, adcIrqOn,
                 mainVars, sessionVars, capId, accepted, dropped, ringVars, readerVars, uie>>

PeriodEnds ==
  /\ Tim6Runs /\ t6 \in {"expired", "faulted"}
  /\ TerminalStop(IF t6 = "expired" THEN "TIMEOUT" ELSE "PROTECTION_FAULT")
  /\ t6' = "idle"
  /\ UNCHANGED <<offsetsValid, pinVars, vbusOver, load, modeVars, adcIrqOn, mainVars,
                 countVars, ringVars, readerVars, uie>>

Period == PeriodCounts \/ PeriodEnds

-----------------------------------------------------------------------------
(* The break interrupts end an active session after their own latch.       *)

CaptureBreak(t) ==
  /\ BreakStops(t)
  /\ IF MapCapture_IsActive
     THEN admitted' = FALSE /\ capStatus' = "PROTECTION_FAULT" /\ capState' = "FAULTED"
     ELSE UNCHANGED <<admitted, sessionVars>>
  /\ UNCHANGED <<offsetsValid, countVars, ringVars, readerVars, uie>>

-----------------------------------------------------------------------------
(* The commands.  Places of the main loop, with op = "CAP".                *)

CapAt(p) == MainRuns /\ pc = p /\ op = "CAP"

StopWith(status) == ending' = status /\ Goto("capStop")

\* Everything but the main loop's place and the named session variables.
DriveKeeps == UNCHANGED <<stageVars, pinVars, permVars, protVars, load, modeVars, adcIrqOn, t6>>

\* 'mcarm=': MapCapture_Arm up to its last check; the refusals change nothing.
CmdArm ==
  /\ Command
  /\ ~MapCapture_IsActive
  /\ PWM_HardwareInterlockHealthy
  /\ ~focRunning /\ ~vfcRunning
  /\ ~fault
  /\ offsetsValid
  /\ capId < MaxSessions
  /\ Begin("CAP", "armState")
  /\ DriveKeeps /\ UNCHANGED capVars

ArmCommits ==
  /\ CapAt("armState")
  /\ wr' = 0 /\ rd' = 0 /\ ring' = [s \in Slots |-> NoRecord]
  /\ capId' = capId + 1 /\ accepted' = 0 /\ periods' = 0 /\ dropped' = 0
  /\ capStatus' = "OK" /\ capState' = "ARMED"
  /\ Goto("armAdc")
  /\ DriveKeeps /\ UNCHANGED <<readerVars, uie>>

\* The diagnostic admission, and ADC_InjectedStart.
ArmStartsAdc ==
  /\ CapAt("armAdc")
  /\ admitted' = FALSE /\ ctxValid' = FALSE
  /\ IF offsetsValid
     THEN armed' = TRUE /\ Finish /\ UNCHANGED ending
     ELSE UNCHANGED armed /\ StopWith("ADC_ARM_FAILED")
  /\ UNCHANGED <<ccer, moe, cen, frame, offsetsValid, pinVars, protVars, load, modeVars,
                 adcIrqOn, t6, sessionVars, countVars, ringVars, copied, uie>>

\* 'mapcap run': the conditions are read again.
CmdRun ==
  /\ Command
  /\ capState = "ARMED"
  /\ Begin("CAP", "runCheck")
  /\ DriveKeeps /\ UNCHANGED capVars

\* The four reads are one step: a break among them acts like one before them.
RunChecks ==
  /\ CapAt("runCheck")
  /\ \/ /\ ~PWM_HardwareInterlockHealthy \/ focRunning \/ vfcRunning
              \/ (~fault /\ ~offsetsValid)
        /\ StopWith("REFUSED")
     \/ /\ PWM_HardwareInterlockHealthy /\ ~focRunning /\ ~vfcRunning /\ fault
        /\ StopWith("FAULT_LATCHED")
     \/ /\ PWM_HardwareInterlockHealthy /\ ~focRunning /\ ~vfcRunning /\ ~fault /\ offsetsValid
        /\ Goto("runState") /\ UNCHANGED ending
  /\ DriveKeeps /\ UNCHANGED <<sessionVars, countVars, ringVars, copied, uie>>

RunCommits ==
  /\ CapAt("runState")
  /\ capState' = "RUNNING"
  /\ Goto("capEnabled")
  /\ DriveKeeps /\ UNCHANGED <<capStatus, countVars, ringVars, readerVars, uie>>

\* PWM_ServiceCaptureStart: the preconditions without a sample context ...
ServiceNotEnabled ==
  /\ CapAt("capEnabled")
  /\ Goto(IF PWM_IsEnabled THEN "refused" ELSE "readFault")
  /\ DriveKeeps /\ UNCHANGED capVars

ServiceReads(p) ==
  /\ op = "CAP" /\ p \in {"readFault", "readAdc"}
  /\ ReadPrecondition(p)
  /\ UNCHANGED capVars

ServiceReadsInterlock ==
  /\ CapAt("readInterlock")
  /\ Goto(IF PWM_HardwareInterlockHealthy THEN "capPublish" ELSE "refused")
  /\ DriveKeeps /\ UNCHANGED capVars

\* ... and the diagnostic context; the stores are pwm_start_timers_direct's.
ServicePublishes ==
  /\ CapAt("capPublish")
  /\ admitted' = FALSE /\ ctxValid' = FALSE
  /\ Goto("ccer1")
  /\ UNCHANGED <<ccer, moe, cen, armed, frame, offsetsValid, pinVars, protVars, load,
                 modeVars, adcIrqOn, t6, capVars>>

ServiceRefused ==
  /\ CapAt("refused")
  /\ StopWith("PWM_START_FAILED")
  /\ DriveKeeps /\ UNCHANGED <<sessionVars, countVars, ringVars, copied, uie>>

\* 'mapcap abort'
CmdAbort ==
  /\ Command
  /\ MapCapture_IsActive
  /\ pc' = "capStop" /\ op' = "CAP" /\ UNCHANGED masked
  /\ ending' = "ABORTED_BY_USER"
  /\ DriveKeeps /\ UNCHANGED <<sessionVars, countVars, ringVars, copied, uie>>

\* The main loop's terminal_stop: the hardware, the status, then the state
\* with the latch.  Nothing is masked.
MainStops ==
  /\ CapAt("capStop")
  /\ CaptureStops
  /\ Goto("capStatus")
  /\ UNCHANGED <<offsetsValid, pinVars, protVars, load, modeVars, adcIrqOn, t6, capVars>>

MainSetsStatus ==
  /\ CapAt("capStatus")
  /\ capStatus' = ending
  /\ Goto("capState")
  /\ DriveKeeps /\ UNCHANGED <<capState, countVars, ringVars, readerVars, uie>>

MainSetsState ==
  /\ CapAt("capState")
  /\ capState' = StateOf(ending)
  /\ IF Latches(ending) THEN Latch ELSE UNCHANGED <<fault, stageVars>>
  /\ Finish
  /\ UNCHANGED <<pinVars, permVars, vbusOver, load, modeVars, adcIrqOn, t6, capStatus,
                 countVars, ringVars, readerVars, uie>>

\* 'mapcap drain': ConsumeRecord until the ring is empty.
CmdDrain ==
  /\ Command
  /\ rd # wr
  /\ Begin("CAP", "drainCopy")
  /\ DriveKeeps /\ UNCHANGED capVars

DrainCopies ==
  /\ CapAt("drainCopy") /\ rd # wr
  /\ copied' = ring[rd]
  /\ Goto("drainFree")
  /\ DriveKeeps /\ UNCHANGED <<sessionVars, countVars, ringVars, ending, uie>>

DrainFrees ==
  /\ CapAt("drainFree")
  /\ rd' = ring_next(rd)
  /\ Goto("drainCopy")
  /\ DriveKeeps /\ UNCHANGED <<sessionVars, countVars, ring, wr, readerVars, uie>>

DrainEnds ==
  /\ CapAt("drainCopy") /\ rd = wr
  /\ Finish
  /\ DriveKeeps /\ UNCHANGED capVars

-----------------------------------------------------------------------------
\* The steps of the commands; which command comes next is the operator's.
CaptureStep ==
  ArmCommits \/ ArmStartsAdc \/ RunChecks \/ RunCommits \/ ServiceNotEnabled
    \/ (\E p \in Reads : ServiceReads(p)) \/ ServiceReadsInterlock \/ ServicePublishes
    \/ ServiceRefused \/ MainStops \/ MainSetsStatus \/ MainSetsState
    \/ DrainCopies \/ DrainFrees \/ DrainEnds

CaptureCommand == CmdArm \/ CmdRun \/ CmdAbort \/ CmdDrain

\* What of DriveSafety's main loop goes on beside it.
DriveStep ==
  /\ \/ FocStartStep \/ ClearStep \/ CmdFocStart \/ CmdFocStop \/ CmdClear \/ CmdCalibrate
     \/ EnableStep /\ (op = "CAP" => pc \in Stores \cup {"commit"})
  /\ UNCHANGED capVars

CaptureSd(t) ==
  (SdFall(t) \/ SdRise(t)) /\ UNCHANGED <<protVars, load>> /\ Quiet /\ UNCHANGED capVars

CaptureNext ==
  CaptureStep \/ CaptureCommand \/ DriveStep \/ CaptureFrame \/ DriveFrame \/ Period
    \/ (\E t \in Timers : CaptureBreak(t) \/ CaptureSd(t))

capAllVars == <<vars, capVars>>

\* The main loop finishes a command it has begun, frames and periods come as
\* long as their timer runs, and a pending break is served.
CaptureFairness ==
  /\ WF_capAllVars(CaptureStep) /\ WF_capAllVars(DriveStep /\ pc # "idle")
  /\ WF_capAllVars(CaptureFrame) /\ WF_capAllVars(Period)
  /\ \A t \in Timers : WF_capAllVars(CaptureBreak(t))

CaptureSpec == CaptureInit /\ [][CaptureNext]_capAllVars
FairCaptureSpec == CaptureSpec /\ CaptureFairness
=============================================================================
