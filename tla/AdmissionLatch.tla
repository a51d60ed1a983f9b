--------------------------- MODULE AdmissionLatch ---------------------------
(***************************************************************************)
(* What the drive promises about its outputs, without saying how: they are *)
(* switched on only under an admission that was granted while no fault was *)
(* latched, a trip latches and switches them off, and the latch is cleared *)
(* only while they are off and no admission is pending.                    *)
(*                                                                         *)
(* A trip does not revoke an admission that was already granted: that is   *)
(* the most the start sequences of pwm.c keep (see NoSelfRearm).           *)
(***************************************************************************)
VARIABLES latched, granted, on

vars == <<latched, granted, on>>

Init == latched = FALSE /\ granted = FALSE /\ on = FALSE

Grant     == ~latched /\ granted' = TRUE /\ UNCHANGED <<latched, on>>
Revoke    == granted /\ granted' = FALSE /\ UNCHANGED <<latched, on>>
Energise  == granted /\ on' = TRUE /\ granted' \in BOOLEAN /\ UNCHANGED latched
Trip      == latched' = TRUE /\ on' = FALSE /\ UNCHANGED granted
Shut      == on' = FALSE /\ UNCHANGED <<latched, granted>>
Clear     == ~on /\ ~granted /\ latched' = FALSE /\ UNCHANGED <<granted, on>>

Next == Grant \/ Revoke \/ Energise \/ Trip \/ Shut \/ Clear

Spec == Init /\ [][Next]_vars
=============================================================================
