----------------------------- MODULE UartRxProps -----------------------------
(***************************************************************************)
(* What the receive side promises the operator.                            *)
(***************************************************************************)
EXTENDS UartRx, FiniteSets

RxTypeOK ==
  /\ pos \in 0..(Len(Tok) - 1)
  /\ Len(rx_ring) <= RingCap /\ Len(line) <= LineMax
  /\ rx_overflow \in Nat /\ polls \in 0..MaxPolls
  /\ {drain, lost, skipped, g_autotune_abort} \subseteq BOOLEAN
  /\ main \in {"loop", "starting", "testing", "detecting"}
  /\ since \in [{"line", "command", "clear"} -> 0..Len(rxd)]

-----------------------------------------------------------------------------
(* What arrived, by definition.                                            *)

\* The token was completed by one of the characters after the first n.
HeardAfter(n) ==
  \E k \in (n + 1)..Len(rxd) : k >= Len(Tok) /\ SubSeq(rxd, k - Len(Tok) + 1, k) = Tok

\* Of a line, the characters no later backspace has erased.
Count(l, a, b, S) == Cardinality({k \in a..b : l[k] \in S})

Survives(l, k) ==
  /\ l[k] # "bs"
  /\ \A j \in (k + 1)..Len(l) :
       Count(l, k + 1, j, {"bs"}) <= Cardinality({m \in (k + 1)..j : l[m] # "bs"})

Kept(l) == {k \in DOMAIN l : Survives(l, k)}

\* The n-th number of a set.
Nth(S, n) == CHOOSE k \in S : Cardinality({m \in S : m <= k}) = n

Text(l) == [n \in 1..Cardinality(Kept(l)) |-> l[Nth(Kept(l), n)]]

Fits(l) == \A j \in 1..Len(l) : Len(Text(SubSeq(l, 1, j))) <= LineMax

\* The lines of what has arrived: each from behind the end of the one before.
Ends(s) == {k \in DOMAIN s : s[k] = "cr"}

Behind(ends) == IF ends = {} THEN 1 ELSE 1 + CHOOSE e \in ends : \A f \in ends : f <= e

Start(s, k) == Behind({e \in Ends(s) : e < k})

LineTo(s, k) == SubSeq(s, Start(s, k), k - 1)

Good(s) == {k \in Ends(s) : Fits(LineTo(s, k)) /\ Text(LineTo(s, k)) # <<>>}

Lines(s) == [n \in 1..Cardinality(Good(s)) |-> Text(LineTo(s, Nth(Good(s), n)))]

\* The characters the main loop has taken.
Consumed == SubSeq(rxd, 1, Len(rxd) - Len(rx_ring))

-----------------------------------------------------------------------------
\* As long as the ring has not overflowed, the command line gets exactly the
\* lines that arrived, with backspaces applied; an overlong line is left out and no
\* part of it is taken for a line.
LinesExact == rx_overflow = 0 => got = Lines(Consumed)

\* A test that has cleared the abort flag does not go past its next poll once the
\* token has arrived, however full the ring is and whatever precedes the
\* token on its line.
AbortEndsTest ==
  [][main = "testing" /\ main' = "testing" /\ polls' # polls => ~HeardAfter(since.clear)]_vars

-----------------------------------------------------------------------------
(* What comments of the code say and the code does not keep.               *)

\* "The command works even when the main loop is busy with an autotune"
\* (uart.c:48): a token received after the command of the test has been taken
\* ends the test.
AbortWorksDuringTest ==
  [][main = "testing" /\ main' = "testing" /\ polls' # polls => ~HeardAfter(since.command)]_vars

\* "We wait up to 20 ms and go on earlier when the current is high enough"
\* (autotune.c:388): the channel detection skips its waits only for a token
\* that arrived after its own line.
DetectionWaits == skipped /\ rx_overflow = 0 => HeardAfter(since.line)
=============================================================================
