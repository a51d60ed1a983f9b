------------------------------- MODULE UartRx -------------------------------
(***************************************************************************)
(* The receive side of uart.c with its reader: the USART2 handler matches  *)
(* the abort token and fills the ring, the main loop takes one character   *)
(* at a time (UART_ReadLine) and executes a line by running a blocking     *)
(* autotune test, during which only the handler goes on.                   *)
(*                                                                         *)
(* Two commands stand for all: TestCmd is a test that clears               *)
(* g_autotune_abort and polls it, DetectCmd is the channel detection,      *)
(* which does neither but shortens its waits when the flag is set.         *)
(***************************************************************************)
EXTENDS Integers, Sequences, SequencesExt

CONSTANTS
  Tok,          \* the letters of "abort"
  TestCmd, DetectCmd,
  RingCap,      \* UART_RX_BUF_SIZE - 1
  LineMax,      \* UART_RX_LINE_MAX - 1
  Scripts,      \* what may arrive on the wire: sequences of characters
  MaxPolls      \* bound: polls of one test

\* The letters of the token are distinct, and none ends a line.
ASSUME UartRxAssumption ==
  /\ IsInjective(Tok) /\ Tok \in Seq(Range(Tok)) /\ Len(Tok) > 1 /\ "cr" \notin Range(Tok)
  /\ \A s \in Scripts : s \in Seq(Range(s))
  /\ {RingCap, LineMax, MaxPolls} \subseteq Nat \ {0}

VARIABLES
  wire,         \* characters still to arrive
  rxd,          \* characters the handler has taken, in order
  pos,          \* the matcher's position in the token
  rx_ring, rx_overflow,
  line, drain,  \* the statics of UART_ReadLine
  g_autotune_abort,
  main,         \* "loop", "starting", "testing" or "detecting"
  polls,
  got,          \* lines handed to the command line
  lost,         \* a character was overrun
  skipped,      \* the channel detection has skipped a wait
  since         \* characters received when the line of the command ended, when the
                \* command was taken and when the flag was cleared

wireVars == <<wire, rxd, pos, lost>>
lineVars == <<line, drain, got>>
vars == <<wire, rxd, pos, rx_ring, rx_overflow, line, drain, g_autotune_abort, main, polls,
          got, lost, skipped, since>>

Init ==
  /\ wire \in Scripts /\ rxd = <<>> /\ pos = 0 /\ lost = FALSE
  /\ rx_ring = <<>> /\ rx_overflow = 0
  /\ line = <<>> /\ drain = FALSE /\ got = <<>>
  /\ g_autotune_abort = FALSE
  /\ main = "loop" /\ polls = 0 /\ skipped = FALSE
  /\ since = [line |-> 0, command |-> 0, clear |-> 0]

-----------------------------------------------------------------------------
(* uart_rx_isr.                                                            *)

\* Mutant: after a mismatch the character is not tried as a first letter.
FedForgetful(c) ==
  IF c = "cr" THEN 0
  ELSE IF c = Tok[pos + 1] THEN pos + 1
  ELSE 0

Fed(c) ==
  IF c = "cr" THEN 0
  ELSE IF c = Tok[pos + 1] THEN pos + 1
  ELSE IF c = Tok[1] THEN 1 ELSE 0

Receive ==
  /\ wire # <<>>
  /\ LET c == Head(wire)
         matched == Fed(c) = Len(Tok)
     IN  /\ pos' = IF matched THEN 0 ELSE Fed(c)
         /\ g_autotune_abort' = (g_autotune_abort \/ matched)
         /\ IF Len(rx_ring) < RingCap
            THEN rx_ring' = Append(rx_ring, c) /\ UNCHANGED rx_overflow
            ELSE rx_overflow' = rx_overflow + 1 /\ UNCHANGED rx_ring
         /\ rxd' = Append(rxd, c)
  /\ wire' = Tail(wire)
  /\ UNCHANGED <<lineVars, main, polls, lost, skipped, since>>

\* The handler comes too late for a character (ORE) and clears the error.
Overrun ==
  /\ wire # <<>>
  /\ wire' = Tail(wire) /\ lost' = TRUE
  /\ UNCHANGED <<rxd, pos, rx_ring, rx_overflow, lineVars, g_autotune_abort, main, polls,
                 skipped, since>>

-----------------------------------------------------------------------------
(* UART_ReadLine and the dispatch of the line.                             *)

Taken == main = "loop" /\ rx_ring # <<>> /\ rx_ring' = Tail(rx_ring)

TakeKeeps == UNCHANGED <<wireVars, rx_overflow, polls, skipped>>

Idle == UNCHANGED <<g_autotune_abort, main, since, got>>

TakeDrained ==
  /\ Taken /\ drain
  /\ drain' = (Head(rx_ring) # "cr")
  /\ TakeKeeps /\ Idle /\ UNCHANGED line

Execute(l) ==
  /\ main' = IF l = TestCmd THEN "starting" ELSE IF l = DetectCmd THEN "detecting" ELSE "loop"
  /\ g_autotune_abort' = (g_autotune_abort \/ l = Tok)
  /\ since' = [since EXCEPT !.command = Len(rxd), !.line = Len(rxd) - Len(rx_ring')]
  /\ got' = Append(got, l)

TakeEnd ==
  /\ Taken /\ ~drain /\ Head(rx_ring) = "cr"
  /\ line' = <<>>
  /\ IF line = <<>> THEN Idle ELSE Execute(line)
  /\ TakeKeeps /\ UNCHANGED drain

TakeBackspace ==
  /\ Taken /\ ~drain /\ Head(rx_ring) = "bs"
  /\ line' = IF line = <<>> THEN line ELSE Front(line)
  /\ TakeKeeps /\ Idle /\ UNCHANGED drain

\* Mutant: the tail of an overlong line is read as the next line.
Restart == /\ line' = <<>> /\ drain' = FALSE

Overlong == line' = <<>> /\ drain' = TRUE

AddChar(c) ==
  IF Len(line) >= LineMax THEN Overlong
  ELSE line' = Append(line, c) /\ UNCHANGED drain

TakeChar ==
  /\ Taken /\ ~drain /\ Head(rx_ring) \notin {"cr", "bs"}
  /\ AddChar(Head(rx_ring))
  /\ TakeKeeps /\ Idle

-----------------------------------------------------------------------------
(* A test.                                                                 *)

\* The test has said that it starts, and clears the flag.
TestClears ==
  /\ main = "starting"
  /\ g_autotune_abort' = FALSE
  /\ main' = "testing" /\ polls' = 0
  /\ since' = [since EXCEPT !.clear = Len(rxd)]
  /\ UNCHANGED <<wireVars, rx_ring, rx_overflow, lineVars, skipped>>

\* The test polls the flag, and goes on until it is set or nothing is left.
TestPolls ==
  /\ main = "testing"
  /\ IF g_autotune_abort \/ polls = MaxPolls
     THEN main' = "loop" /\ UNCHANGED polls
     ELSE polls' = polls + 1 /\ UNCHANGED main
  /\ UNCHANGED <<wireVars, rx_ring, rx_overflow, lineVars, g_autotune_abort, skipped, since>>

\* delay_us returns at once when the flag is set.
DetectWaits ==
  /\ main = "detecting"
  /\ main' = "loop"
  /\ skipped' = g_autotune_abort
  /\ UNCHANGED <<wireVars, rx_ring, rx_overflow, lineVars, g_autotune_abort, polls, since>>

-----------------------------------------------------------------------------
ReadLine == TakeDrained \/ TakeEnd \/ TakeBackspace \/ TakeChar

Next ==
  \/ Receive \/ Overrun
  \/ ReadLine
  \/ TestClears \/ TestPolls \/ DetectWaits

Spec == Init /\ [][Next]_vars
=============================================================================
