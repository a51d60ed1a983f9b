---------------------------- MODULE AdcFrameLock ----------------------------
(***************************************************************************)
(* The sequence lock around latest_frame (adc.c adc_publish and            *)
(* ADC_GetLatestFrame).  Three contexts publish and read, and each         *)
(* preempts the ones before it at any instruction: the main loop           *)
(* (regular conversions and every stop), TIM6 (the same, at 1 kHz) and the *)
(* priority-0 handlers (ADC1_2, which reads the frame it has published,    *)
(* and the breaks, which publish only).                                    *)
(*                                                                         *)
(* frame_lock++ and ++frame_sequence are a load and a store; the frame is  *)
(* copied in two halves, each named by the publication it comes from.      *)
(***************************************************************************)
EXTENDS Integers, FiniteSets

CONSTANT MaxPublish     \* bound: frames published

ASSUME LockAssumption == MaxPublish \in Nat \ {0}

Contexts == {"main", "tim6", "isr"}

Above(c) == CASE c = "main" -> {"tim6", "isr"} [] c = "tim6" -> {"isr"} [] c = "isr" -> {}

Writing == {"lockLoad", "lockStore", "seqLoad", "seqStore", "half1", "half2",
            "unlockLoad", "unlockStore"}
Reading == {"before", "copy1", "copy2", "after"}

VARIABLES
  lock, seq,      \* frame_lock, frame_sequence
  frame,          \* latest_frame: which publication each half is of
  published,      \* publications begun, which names them
  place,          \* where each context is
  reg,            \* the value each context has loaded
  mine,           \* the publication each context is writing
  got,            \* what each context has copied out
  attempt,        \* the reader's attempt, 0..2
  answer,         \* "none", "true" or "false": what the last read returned
  nested          \* a publication has begun inside another one

vars == <<lock, seq, frame, published, place, reg, mine, got, attempt, answer, nested>>

Init ==
  /\ lock = 0 /\ seq = 0 /\ published = 0 /\ nested = FALSE
  /\ frame = [half1 |-> 0, half2 |-> 0]
  /\ place = [c \in Contexts |-> "idle"]
  /\ reg = [c \in Contexts |-> 0] /\ mine = [c \in Contexts |-> 0]
  /\ got = [c \in Contexts |-> [half1 |-> 0, half2 |-> 0]]
  /\ attempt = [c \in Contexts |-> 0] /\ answer = [c \in Contexts |-> "none"]

Runs(c) == \A d \in Above(c) : place[d] = "idle"

At(c, p) == Runs(c) /\ place[c] = p
Goto(c, p) == place' = [place EXCEPT ![c] = p]
Load(c, v) == reg' = [reg EXCEPT ![c] = v]

-----------------------------------------------------------------------------
(* adc_publish.                                                            *)

Publish(c) ==
  /\ At(c, "idle")
  /\ published < MaxPublish
  /\ published' = published + 1
  /\ mine' = [mine EXCEPT ![c] = published + 1]
  /\ nested' = (nested \/ \E d \in Contexts : place[d] \in Writing)
  /\ answer' = [answer EXCEPT ![c] = "none"]
  /\ got' = [got EXCEPT ![c] = [half1 |-> 0, half2 |-> 0]]
  /\ Goto(c, "lockLoad")
  /\ UNCHANGED <<lock, seq, frame, reg, attempt>>

LoadLock(c, p, next) ==
  /\ At(c, p)
  /\ Load(c, lock)
  /\ Goto(c, next)
  /\ UNCHANGED <<lock, seq, frame, published, mine, got, attempt, answer, nested>>

StoreLock(c) ==
  /\ At(c, "lockStore")
  /\ lock' = reg[c] + 1
  /\ Goto(c, "seqLoad")
  /\ UNCHANGED <<seq, frame, published, reg, mine, got, attempt, answer, nested>>

LoadSeq(c) ==
  /\ At(c, "seqLoad")
  /\ Load(c, seq)
  /\ Goto(c, "seqStore")
  /\ UNCHANGED <<lock, seq, frame, published, mine, got, attempt, answer, nested>>

StoreSeq(c) ==
  /\ At(c, "seqStore")
  /\ seq' = reg[c] + 1
  /\ Goto(c, "half1")
  /\ UNCHANGED <<lock, frame, published, reg, mine, got, attempt, answer, nested>>

\* Mutant: the copy of the frame misses its second half.
WriteFirst(c, h, next) ==
  /\ At(c, h)
  /\ frame' = IF h = "half1" THEN [frame EXCEPT ![h] = mine[c]] ELSE frame
  /\ Goto(c, next)
  /\ UNCHANGED <<lock, seq, published, reg, mine, got, attempt, answer, nested>>

WriteHalf(c, h, next) ==
  /\ At(c, h)
  /\ frame' = [frame EXCEPT ![h] = mine[c]]
  /\ Goto(c, next)
  /\ UNCHANGED <<lock, seq, published, reg, mine, got, attempt, answer, nested>>

\* Mutant: the lock is left odd.
KeepsLocked(c) ==
  /\ At(c, "unlockStore")
  /\ Goto(c, "idle")
  /\ UNCHANGED <<lock, seq, frame, published, reg, mine, got, attempt, answer, nested>>

\* ADC1_2 goes on to read the frame.
Unlock(c) ==
  /\ At(c, "unlockStore")
  /\ lock' = reg[c] + 1
  /\ \/ Goto(c, "idle")
     \/ c = "isr" /\ Goto(c, "before")
  /\ UNCHANGED <<seq, frame, published, reg, mine, got, attempt, answer, nested>>

-----------------------------------------------------------------------------
(* ADC_GetLatestFrame.                                                     *)

Return(c, a) ==
  /\ answer' = [answer EXCEPT ![c] = a]
  /\ attempt' = [attempt EXCEPT ![c] = 0]
  /\ Goto(c, "idle")

Again(c) ==
  IF attempt[c] = 2 THEN Return(c, "false")
  ELSE /\ attempt' = [attempt EXCEPT ![c] = attempt[c] + 1]
       /\ Goto(c, "before")
       /\ UNCHANGED answer

Read(c) ==
  /\ c # "isr" /\ At(c, "idle")
  /\ answer' = [answer EXCEPT ![c] = "none"]
  /\ Goto(c, "before")
  /\ UNCHANGED <<lock, seq, frame, published, reg, mine, got, attempt, nested>>

ReadLock(c) ==
  /\ At(c, "before")
  /\ Load(c, lock)
  /\ IF lock % 2 = 1 THEN Again(c) ELSE Goto(c, "copy1") /\ UNCHANGED <<attempt, answer>>
  /\ UNCHANGED <<lock, seq, frame, published, mine, got, nested>>

Copy(c, p, h, next) ==
  /\ At(c, p)
  /\ got' = [got EXCEPT ![c][h] = frame[h]]
  /\ Goto(c, next)
  /\ UNCHANGED <<lock, seq, frame, published, reg, mine, attempt, answer, nested>>

\* Mutant: the second look at the lock is dropped.
AcceptCopy(c) ==
  /\ At(c, "after")
  /\ Return(c, "true")
  /\ UNCHANGED <<lock, seq, frame, published, reg, mine, got, nested>>

CheckCopy(c) ==
  /\ At(c, "after")
  /\ IF lock = reg[c] /\ lock % 2 = 0 THEN Return(c, "true") ELSE Again(c)
  /\ UNCHANGED <<lock, seq, frame, published, reg, mine, got, nested>>

-----------------------------------------------------------------------------
adc_publish(c) ==
  \/ Publish(c)
  \/ LoadLock(c, "lockLoad", "lockStore") \/ StoreLock(c)
  \/ LoadSeq(c) \/ StoreSeq(c)
  \/ WriteHalf(c, "half1", "half2") \/ WriteHalf(c, "half2", "unlockLoad")
  \/ LoadLock(c, "unlockLoad", "unlockStore") \/ Unlock(c)

ADC_GetLatestFrame(c) ==
  \/ Read(c) \/ ReadLock(c)
  \/ Copy(c, "copy1", "half1", "copy2") \/ Copy(c, "copy2", "half2", "after")
  \/ CheckCopy(c)

Next == \E c \in Contexts : adc_publish(c) \/ ADC_GetLatestFrame(c)

Spec == Init /\ [][Next]_vars
=============================================================================
