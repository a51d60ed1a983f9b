---------------------------- MODULE MCClockStart ----------------------------
(* A counter of three polls, in a word of four bits.                            *)
EXTENDS ClockStart

MCLimit == 3
MCWidth == 16
=============================================================================
