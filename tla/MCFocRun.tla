------------------------------ MODULE MCFocRun ------------------------------
(***************************************************************************)
(* FocRun with its properties, for TLC.                                    *)
(***************************************************************************)
EXTENDS FocRunProps
Wanted == {-2, 0, 1, 2}
Shown == -2..2
=============================================================================
