------------------------- MODULE AdcFrameLockProps -------------------------
(***************************************************************************)
(* What the frame lock promises its readers.                               *)
(***************************************************************************)
EXTENDS AdcFrameLock

Halves == [half1 : 0..MaxPublish, half2 : 0..MaxPublish]

TypeOK ==
  /\ lock \in 0..(2 * MaxPublish) /\ seq \in 0..MaxPublish /\ published \in 0..MaxPublish
  /\ frame \in Halves /\ got \in [Contexts -> Halves]
  /\ place \in [Contexts -> {"idle"} \cup Writing \cup Reading]
  /\ reg \in [Contexts -> 0..(2 * MaxPublish)] /\ mine \in [Contexts -> 0..MaxPublish]
  /\ attempt \in [Contexts -> 0..2] /\ answer \in [Contexts -> {"none", "true", "false"}]
  /\ nested \in BOOLEAN

AtRest == \A c \in Contexts : place[c] = "idle"

Whole(f) == f.half1 = f.half2

\* However the increments of preempted writers overlap, the lock is even once
\* nobody writes: it can never lock every later reader out.
LockEvenAtRest == (\A c \in Contexts : place[c] \notin Writing) => lock % 2 = 0

\* As long as no publication has begun inside another one, a read that
\* succeeds returns one publication.
WholeUnlessNested == \A c \in Contexts : answer[c] = "true" /\ ~nested => Whole(got[c])

\* A read by a priority-0 handler answers at once: with the frame the handler
\* has just published, whatever publication it has interrupted, and without
\* one only if it has interrupted a publication.
IsrReadsItsOwn ==
  [][answer'["isr"] # answer["isr"] =>
       /\ answer'["isr"] = "true" => got["isr"] = [half1 |-> mine["isr"], half2 |-> mine["isr"]]
       /\ answer'["isr"] = "false" => \E c \in Contexts : place[c] \in Writing]_vars

-----------------------------------------------------------------------------
(* What comments and tests of the code say and the code does not keep.     *)

\* "A seqlock protects frame readers from observing a partial ISR update"
\* (adc.c:45): no read returns half of one frame and half of another.
ReadsAreWhole == \A c \in Contexts : answer[c] = "true" => Whole(got[c])

\* The sequence is incremented by one at every publish
\* (tests/adc_sequence_monotonic_test.c:1).
SequenceCounts == AtRest => seq = published
=============================================================================
