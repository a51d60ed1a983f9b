------------------------------ MODULE MCUartRx ------------------------------
(***************************************************************************)
(* UartRx with its properties, for TLC: a token of two letters, and every  *)
(* sequence of up to MaxLines of a few lines on the wire.                  *)
(***************************************************************************)
EXTENDS UartRxProps

CONSTANT MaxLines

MCTok == <<"a", "b">>
MCTestCmd == <<"x">>
MCDetectCmd == <<"y">>

\* The commands, the token, the token after a false start, a line with
\* backspaces, one that erases more than it has, and an overlong one.
MCLines == {
  <<"x", "cr">>, <<"y", "cr">>, <<"a", "b", "cr">>, <<"x", "a", "a", "b", "cr">>,
  <<"y", "bs", "bs", "x", "cr">>, <<"x", "x", "x", "x", "y", "cr">>}

MCScripts == {FlattenSeq(s) : s \in UNION {[1..n -> MCLines] : n \in 1..MaxLines}}
=============================================================================
