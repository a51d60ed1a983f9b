----------------------------- MODULE MapInForce -----------------------------
(* What the admission of maps promises to FOC: there is a complete map or none, *)
(* with the table of that map beside it, FOC runs only on a complete map, and   *)
(* the map under a running FOC stays.                                           *)
CONSTANTS
    Complete(_),  \* a map with all that FOC relies on
    TableOf(_),   \* the table the reconstruction takes from a map
    None          \* no map, no table

VARIABLES map, table, running

Init == map = None /\ table = None /\ running = FALSE

Install ==
    /\ ~ running
    /\ Complete(map') /\ table' = TableOf(map')
    /\ UNCHANGED running

Withdraw == ~ running /\ map' = None /\ table' = None /\ UNCHANGED running

Start == map # None /\ running' = TRUE /\ UNCHANGED <<map, table>>

Stop == running' = FALSE /\ UNCHANGED <<map, table>>

Next == Install \/ Withdraw \/ Start \/ Stop

Spec == Init /\ [][Next]_<<map, table, running>>
=============================================================================
