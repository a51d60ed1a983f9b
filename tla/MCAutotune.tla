------------------------------ MODULE MCAutotune ------------------------------
(* Two points of a measurement, one of which is enough; the operator types a    *)
(* good motor, another one with a Tr, or a resistance out of range with a Tr.   *)
EXTENDS AutotuneProps

MCTyped == {[rs |-> 1, ls |-> 1, rr |-> TRUE, tr |-> FALSE],
            [rs |-> 2, ls |-> 1, rr |-> TRUE, tr |-> TRUE],
            [rs |-> 3, ls |-> 0, rr |-> FALSE, tr |-> TRUE]}
=============================================================================
