---------------------------- MODULE CaptureProps ----------------------------
(***************************************************************************)
(* What must hold of a map-capture session.                                *)
(***************************************************************************)
EXTENDS MapCapture

CaptureTypeOK ==
  /\ StageTypeOK /\ ProtectTypeOK /\ ModeTypeOK
  /\ pc \in Places \cup CapturePlaces /\ op \in Ops \cup {"CAP"}
  /\ t6 \in {"idle", "expired", "faulted"}
  /\ capState \in CapStates /\ capStatus \in CapStatuses /\ ending \in CapStatuses
  /\ capId \in 0..MaxSessions /\ accepted \in 0..Pulses
  /\ periods \in 0..(TimeoutPeriods + 1) /\ dropped \in 0..1
  /\ ring \in [Slots -> Records] /\ wr \in Slots /\ rd \in Slots
  /\ copied \in Records /\ uie \in BOOLEAN

\* The number of the first record of this session that was not drained yet.
FirstUndrained ==
  IF copied.id # capId \/ capId = 0 THEN 1
  ELSE IF pc = "drainFree" THEN copied.n ELSE copied.n + 1

\* The ring holds, from the reader's index on, exactly the records of this
\* session that were accepted and not yet drained, in order: the interrupt
\* never overwrites one, and the reader never skips one or reads one twice.
\* "A record is copied atomically before its slot is freed" (map_capture.h):
\* between the copy and the release of the slot, both in the main loop, the
\* interrupt has not touched it.
RingHoldsTheRest ==
  /\ Available = accepted + 1 - FirstUndrained
  /\ \A k \in 0..(Available - 1) :
       ring[IF rd + k < RingCapacity THEN rd + k ELSE rd + k - RingCapacity]
         = [id |-> capId, n |-> FirstUndrained + k]
  /\ pc = "drainFree" => rd # wr /\ copied = ring[rd]

\* A session is COMPLETE with exactly the requested frames and nothing lost.
CompleteIsExact == capState = "COMPLETE" => accepted = Pulses /\ dropped = 0

\* A session that becomes FAULTED leaves the central latch set, whoever
\* latches it (map_capture.c terminal_stop, map_capture_port.c cap_latch).
FaultedIsLatched ==
  [][capState # "FAULTED" /\ capState' = "FAULTED" => fault']_capAllVars

\* Leaving a session switches the stage off and disarms the injected group.
SessionEndsDark ==
  [][capState = "RUNNING" /\ capState' # "RUNNING" => Live' = {} /\ ~armed']_capAllVars

-----------------------------------------------------------------------------
(* What comments of the code say and the code does not keep.               *)

\* "Normal control admission remains false for the whole diagnostic session"
\* (map_capture.c:165).
AdmissionFalseInSession == MapCapture_IsActive /\ pc = "idle" => ~admitted

\* "It enforces the bounded timeout" (map_capture.h:162, of OnPeriod): a
\* running session ends.
RunningSessionEnds == capState = "RUNNING" ~> capState # "RUNNING"

\* "With PWM/EN disabled, the only service sample is accepted"
\* (protect.c:198): the latch is cleared with both bridges dark.
ClearOnlyWhenDark == [][fault /\ ~fault' => Live = {}]_capAllVars

Ended == capState \in {"COMPLETE", "FAULTED", "ABORTED"}

\* MapCapture_Abort returns NOT_ACTIVE for a session that has ended and is
\* "idempotent" (map_capture.h:168): a terminal state changes only by arming.
TerminalIsFinal ==
  [][Ended => capState' \in {capState, "ARMED"}]_capAllVars
=============================================================================
