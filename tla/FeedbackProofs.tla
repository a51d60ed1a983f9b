--------------------------- MODULE FeedbackProofs ---------------------------
(***************************************************************************)
(* What the control loops read of currents and of speed, for every number  *)
(* of publications and captures.  The frame lock of the ADC is even at     *)
(* rest, a read is whole unless publications were nested, and a priority-0 *)
(* read returns the frame its own handler has published.  The encoder      *)
(* reports a loss and no live signal, no speed spans a bad capture, and    *)
(* the pair of the calibration is whole, wherever the captures fall in     *)
(* ENC_Update and ENC_Calibrate.                                           *)
(***************************************************************************)
EXTENDS AdcFrameLockProps, EncoderProps, TLAPS

(* The frame lock.                                                         *)

Frames == [half1 : Nat, half2 : Nat]

\* The types the proof needs; the counters are only natural numbers here.
Typed ==
  /\ lock \in Nat /\ seq \in Nat /\ published \in Nat /\ nested \in BOOLEAN
  /\ reg \in [Contexts -> Nat] /\ mine \in [Contexts -> Nat]
  /\ place \in [Contexts -> {"idle"} \cup Writing \cup Reading]
  /\ frame \in Frames /\ got \in [Contexts -> Frames]
  /\ answer \in [Contexts -> {"none", "true", "false"}]
  /\ attempt \in [Contexts -> Nat]

IsOdd(n) == n % 2 = 1

\* Between the two increments of its publication.
Odd(c) == place[c] \in {"seqLoad", "seqStore", "half1", "half2", "unlockLoad", "unlockStore"}

\* What the contexts that c has preempted leave of the parity.
OddBelow(c) ==
  \/ c = "tim6" /\ Odd("main")
  \/ c = "isr" /\ (Odd("main") <=> ~Odd("tim6"))

\* A publication leaves the parity as it has found it, whatever has preempted
\* it: each value it loads and stores has the parity of what lies below.
Parity ==
  /\ IsOdd(lock) <=> (OddBelow("isr") <=> ~Odd("isr"))
  /\ \A c \in Contexts :
       /\ place[c] = "lockStore" => (IsOdd(reg[c]) <=> OddBelow(c))
       /\ place[c] = "unlockStore" => (IsOdd(reg[c]) <=> ~OddBelow(c))

\* With no publication inside another one there is one writer; it stores what
\* follows the lock, and the frame is whole but between its two halves.
OneWriter ==
  ~nested =>
    /\ \A c, d \in Contexts : place[c] \in Writing /\ place[d] \in Writing => c = d
    /\ \A c \in Contexts :
         /\ place[c] \in {"lockStore", "unlockStore"} => reg[c] = lock
         /\ place[c] = "half2" => frame.half1 = mine[c]
    /\ (\A c \in Contexts : place[c] # "half2") => Whole(frame)

\* Then the lock only grows, and a reader that finds it as it was has copied
\* the frame that is still there.
ReaderIsBehind ==
  ~nested =>
    \A c \in Contexts : place[c] \in {"copy1", "copy2", "after"} =>
      /\ ~IsOdd(reg[c]) /\ reg[c] <= lock
      /\ lock = reg[c] =>
           /\ place[c] \in {"copy2", "after"} => got[c].half1 = frame.half1
           /\ place[c] = "after" => got[c].half2 = frame.half2

\* An answer is given at the end of a read and forgotten at the next step.
NoAnswerYet == \A c \in Contexts : place[c] # "idle" => answer[c] = "none"

\* Nothing runs between the publication of a priority-0 handler and its read.
IsrAlone ==
  /\ place["isr"] = "half2" => frame.half1 = mine["isr"]
  /\ place["isr"] \in {"unlockLoad", "unlockStore"} \cup Reading =>
       frame.half1 = mine["isr"] /\ frame.half2 = mine["isr"]
  /\ place["isr"] \in {"copy1", "copy2", "after"} => reg["isr"] = lock /\ ~IsOdd(lock)
  /\ place["isr"] \in {"copy2", "after"} => got["isr"].half1 = mine["isr"]
  /\ place["isr"] = "after" => got["isr"].half2 = mine["isr"]

LockInv ==
  /\ Typed /\ Parity /\ OneWriter /\ ReaderIsBehind /\ NoAnswerYet /\ IsrAlone
  /\ WholeUnlessNested

USE DEF Contexts, Writing, Reading

LEMMA NextIsOdd == ASSUME NEW n \in Nat PROVE IsOdd(n + 1) <=> ~IsOdd(n)
BY DEF IsOdd

LEMMA ZeroIsEven == ~IsOdd(0)
BY DEF IsOdd

\* A context moves only with those above it idle.
LEMMA OnlyTheTopRuns ==
  ASSUME NEW c \in Contexts, NEW p, At(c, p)
  PROVE  /\ place[c] = p
         /\ c = "main" => place["tim6"] = "idle" /\ place["isr"] = "idle"
         /\ c = "tim6" => place["isr"] = "idle"
BY DEF At, Runs, Above

LEMMA LockInitially == Init => LockInv
<1> SUFFICES ASSUME Init PROVE LockInv
  OBVIOUS
<1> USE DEF Init
<1>1. Typed
  BY DEF Typed, Frames
<1>2. Parity
  <2>1. \A c \in Contexts : ~Odd(c) /\ place[c] = "idle"
    BY DEF Odd
  <2> QED BY <2>1, ZeroIsEven DEF Parity, OddBelow
<1>3. OneWriter /\ ReaderIsBehind /\ NoAnswerYet /\ IsrAlone /\ WholeUnlessNested
  BY DEF OneWriter, ReaderIsBehind, NoAnswerYet, IsrAlone, WholeUnlessNested, Whole
<1> QED BY <1>1, <1>2, <1>3 DEF LockInv

-----------------------------------------------------------------------------
(* adc_publish.                                                            *)

LEMMA PublishKeeps == ASSUME LockInv, NEW c \in Contexts, Publish(c) PROVE LockInv'
<1> USE DEF LockInv, Publish, Goto
<1>1. place[c] = "idle" /\ place' = [place EXCEPT ![c] = "lockLoad"]
  BY OnlyTheTopRuns
<1>2. Typed'
  BY <1>1 DEF Typed, Frames
<1>3. Parity'
  BY <1>1 DEF Typed, Parity, Odd, OddBelow
<1>4. OneWriter'
  BY <1>1 DEF Typed, OneWriter, Whole
<1>5. ReaderIsBehind' /\ NoAnswerYet' /\ IsrAlone' /\ WholeUnlessNested'
  BY <1>1, OnlyTheTopRuns DEF Typed, ReaderIsBehind, NoAnswerYet, IsrAlone, WholeUnlessNested
<1> QED BY <1>2, <1>3, <1>4, <1>5

LEMMA LoadLockKeeps ==
  ASSUME LockInv, NEW c \in Contexts,
         LoadLock(c, "lockLoad", "lockStore") \/ LoadLock(c, "unlockLoad", "unlockStore")
  PROVE  LockInv'
<1> USE DEF LockInv, LoadLock, Goto, Load
<1>1. /\ \/ place[c] = "lockLoad" /\ place' = [place EXCEPT ![c] = "lockStore"]
         \/ place[c] = "unlockLoad" /\ place' = [place EXCEPT ![c] = "unlockStore"]
      /\ reg' = [reg EXCEPT ![c] = lock]
      /\ c = "main" => place["tim6"] = "idle" /\ place["isr"] = "idle"
      /\ c = "tim6" => place["isr"] = "idle"
  BY OnlyTheTopRuns
<1>2. Typed'
  BY <1>1 DEF Typed
<1>3. Parity'
  BY <1>1 DEF Typed, Parity, Odd, OddBelow
<1>4. OneWriter' /\ NoAnswerYet' /\ WholeUnlessNested'
  BY <1>1 DEF Typed, OneWriter, Whole, NoAnswerYet, WholeUnlessNested
<1>5. ReaderIsBehind' /\ IsrAlone'
  BY <1>1 DEF Typed, ReaderIsBehind, IsrAlone
<1> QED BY <1>2, <1>3, <1>4, <1>5

\* One increment of the lock, at the beginning or at the end.
LEMMA StoreLockKeeps ==
  ASSUME LockInv, NEW c \in Contexts, StoreLock(c) PROVE LockInv'
<1> USE DEF LockInv, StoreLock, Goto
<1>1. /\ place[c] = "lockStore" /\ place' = [place EXCEPT ![c] = "seqLoad"]
      /\ lock' = reg[c] + 1 /\ reg[c] \in Nat
      /\ c = "main" => place["tim6"] = "idle" /\ place["isr"] = "idle"
      /\ c = "tim6" => place["isr"] = "idle"
  BY OnlyTheTopRuns DEF Typed
<1>2. Typed'
  BY <1>1 DEF Typed
<1>3. Parity'
  <2>1. IsOdd(lock') <=> ~OddBelow(c)
    BY <1>1, NextIsOdd DEF Parity
  <2> QED BY <1>1, <2>1 DEF Typed, Parity, Odd, OddBelow
<1>4. OneWriter'
  BY <1>1 DEF Typed, OneWriter, Whole
<1>5. ReaderIsBehind'
  BY <1>1 DEF Typed, OneWriter, ReaderIsBehind
<1>6. NoAnswerYet' /\ WholeUnlessNested' /\ IsrAlone'
  BY <1>1 DEF Typed, NoAnswerYet, WholeUnlessNested, IsrAlone
<1> QED BY <1>2, <1>3, <1>4, <1>5, <1>6

LEMMA UnlockKeeps ==
  ASSUME LockInv, NEW c \in Contexts, Unlock(c) PROVE LockInv'
<1> USE DEF LockInv, Unlock, Goto
<1>1. /\ place[c] = "unlockStore"
      /\ \/ place' = [place EXCEPT ![c] = "idle"]
         \/ c = "isr" /\ place' = [place EXCEPT ![c] = "before"]
      /\ lock' = reg[c] + 1 /\ reg[c] \in Nat
      /\ c = "main" => place["tim6"] = "idle" /\ place["isr"] = "idle"
      /\ c = "tim6" => place["isr"] = "idle"
  BY OnlyTheTopRuns DEF Typed
<1>2. Typed'
  BY <1>1 DEF Typed
<1>3. Parity'
  <2>1. IsOdd(lock') <=> OddBelow(c)
    BY <1>1, NextIsOdd DEF Parity
  <2> QED BY <1>1, <2>1 DEF Typed, Parity, Odd, OddBelow
<1>4. OneWriter'
  BY <1>1 DEF Typed, OneWriter, Whole
<1>5. ReaderIsBehind'
  BY <1>1 DEF Typed, OneWriter, ReaderIsBehind
<1>6. NoAnswerYet' /\ WholeUnlessNested' /\ IsrAlone'
  BY <1>1 DEF Typed, NoAnswerYet, WholeUnlessNested, IsrAlone
<1> QED BY <1>2, <1>3, <1>4, <1>5, <1>6

\* The two steps of ++frame_sequence touch nothing a reader looks at.
LEMMA SequenceKeeps ==
  ASSUME LockInv, NEW c \in Contexts, LoadSeq(c) \/ StoreSeq(c) PROVE LockInv'
<1> USE DEF LockInv, LoadSeq, StoreSeq, Goto, Load
<1>1. /\ \/ place[c] = "seqLoad" /\ place' = [place EXCEPT ![c] = "seqStore"]
         \/ place[c] = "seqStore" /\ place' = [place EXCEPT ![c] = "half1"]
      /\ reg' \in {reg, [reg EXCEPT ![c] = seq]}
  BY OnlyTheTopRuns
<1>2. Typed'
  BY <1>1 DEF Typed
<1>3. Parity'
  BY <1>1 DEF Typed, Parity, Odd, OddBelow
<1>4. OneWriter' /\ ReaderIsBehind'
  BY <1>1 DEF Typed, OneWriter, Whole, ReaderIsBehind
<1>5. NoAnswerYet' /\ WholeUnlessNested' /\ IsrAlone'
  BY <1>1 DEF Typed, NoAnswerYet, WholeUnlessNested, IsrAlone
<1> QED BY <1>2, <1>3, <1>4, <1>5

\* While a lone writer copies, the lock is odd, and no reader takes the frame.
LEMMA CopyingIsOdd ==
  ASSUME LockInv, ~nested, NEW c \in Contexts, place[c] \in {"half1", "half2"}
  PROVE  IsOdd(lock)
BY DEF LockInv, Parity, Odd, OddBelow, OneWriter

LEMMA WriteHalfKeeps ==
  ASSUME LockInv, NEW c \in Contexts,
         WriteHalf(c, "half1", "half2") \/ WriteHalf(c, "half2", "unlockLoad")
  PROVE  LockInv'
<1> USE DEF LockInv, WriteHalf, Goto
<1>1. /\ \/ /\ place[c] = "half1" /\ place' = [place EXCEPT ![c] = "half2"]
            /\ frame' = [frame EXCEPT !["half1"] = mine[c]]
         \/ /\ place[c] = "half2" /\ place' = [place EXCEPT ![c] = "unlockLoad"]
            /\ frame' = [frame EXCEPT !["half2"] = mine[c]]
      /\ c # "isr" => place["isr"] = "idle"
  BY OnlyTheTopRuns
<1>2. /\ frame' \in Frames
      /\ place[c] = "half1" => frame'.half1 = mine[c] /\ frame'.half2 = frame.half2
      /\ place[c] = "half2" => frame'.half2 = mine[c] /\ frame'.half1 = frame.half1
  BY <1>1 DEF Typed, Frames
<1>3. Typed'
  BY <1>1, <1>2 DEF Typed
<1>4. Parity'
  BY <1>1 DEF Typed, Parity, Odd, OddBelow
<1>5. OneWriter'
  BY <1>1, <1>2 DEF Typed, OneWriter, Whole
<1>6. ReaderIsBehind'
  BY <1>1, <1>2, CopyingIsOdd DEF Typed, ReaderIsBehind
<1>7. NoAnswerYet' /\ WholeUnlessNested'
  BY <1>1 DEF Typed, NoAnswerYet, WholeUnlessNested
<1>8. IsrAlone'
  BY <1>1, <1>2 DEF Typed, IsrAlone
<1> QED BY <1>3, <1>4, <1>5, <1>6, <1>7, <1>8

-----------------------------------------------------------------------------
(* ADC_GetLatestFrame.                                                     *)

\* A reader's step that leaves lock, frame and the publications alone, and is
\* at no place a copy is judged from, disturbs only what it answers.
LEMMA ReaderMoves ==
  ASSUME LockInv, NEW c \in Contexts, NEW p \in {"idle", "before"},
         place[c] \in {"idle"} \cup Reading, place' = [place EXCEPT ![c] = p],
         c = "isr" /\ p = "before" => place[c] \in Reading,
         reg' \in {reg, [reg EXCEPT ![c] = lock]},
         attempt' \in [Contexts -> Nat], answer' \in [Contexts -> {"none", "true", "false"}],
         UNCHANGED <<lock, seq, frame, published, mine, got, nested>>,
         NoAnswerYet', WholeUnlessNested'
  PROVE  LockInv'
<1> USE DEF LockInv
<1>1. Typed'
  BY DEF Typed
<1>2. Parity'
  BY DEF Typed, Parity, Odd, OddBelow
<1>3. OneWriter' /\ ReaderIsBehind'
  BY DEF Typed, OneWriter, ReaderIsBehind, Whole
<1>4. IsrAlone'
  BY DEF Typed, IsrAlone
<1> QED BY <1>1, <1>2, <1>3, <1>4

LEMMA ReadKeeps == ASSUME LockInv, NEW c \in Contexts, Read(c) PROVE LockInv'
<1>1. place[c] = "idle" /\ c # "isr" /\ place' = [place EXCEPT ![c] = "before"]
  BY OnlyTheTopRuns DEF Read, Goto
<1>2. NoAnswerYet' /\ WholeUnlessNested'
  BY <1>1 DEF Read, LockInv, Typed, NoAnswerYet, WholeUnlessNested
<1> QED BY <1>1, <1>2, ReaderMoves DEF Read, LockInv, Typed

\* Giving up or trying again.
LEMMA AgainKeeps ==
  ASSUME LockInv, NEW c \in Contexts, place[c] \in Reading, Again(c),
         reg' \in {reg, [reg EXCEPT ![c] = lock]},
         UNCHANGED <<lock, seq, frame, published, mine, got, nested>>
  PROVE  LockInv'
<1>1. CASE attempt[c] = 2
  <2>1. /\ answer' = [answer EXCEPT ![c] = "false"] /\ attempt' = [attempt EXCEPT ![c] = 0]
        /\ place' = [place EXCEPT ![c] = "idle"]
    BY <1>1 DEF Again, Return, Goto
  <2>2. NoAnswerYet' /\ WholeUnlessNested'
    BY <2>1 DEF LockInv, Typed, NoAnswerYet, WholeUnlessNested
  <2> QED BY <2>1, <2>2, ReaderMoves DEF LockInv, Typed
<1>2. CASE attempt[c] # 2
  <2>1. /\ attempt' = [attempt EXCEPT ![c] = attempt[c] + 1]
        /\ place' = [place EXCEPT ![c] = "before"] /\ answer' = answer
    BY <1>2 DEF Again, Goto
  <2>2. NoAnswerYet' /\ WholeUnlessNested'
    BY <2>1 DEF LockInv, Typed, NoAnswerYet, WholeUnlessNested
  <2>3. attempt' \in [Contexts -> Nat] /\ answer' \in [Contexts -> {"none", "true", "false"}]
    BY <2>1 DEF LockInv, Typed
  <2> QED BY <2>1, <2>2, <2>3, ReaderMoves
<1> QED BY <1>1, <1>2

LEMMA ReadLockKeeps == ASSUME LockInv, NEW c \in Contexts, ReadLock(c) PROVE LockInv'
<1>1. /\ place[c] = "before" /\ reg' = [reg EXCEPT ![c] = lock]
      /\ UNCHANGED <<lock, seq, frame, published, mine, got, nested>>
  BY OnlyTheTopRuns DEF ReadLock, Load
<1>2. CASE IsOdd(lock)
  BY <1>1, <1>2, AgainKeeps DEF ReadLock, IsOdd
<1>3. CASE ~IsOdd(lock)
  <2> USE DEF LockInv
  <2>1. place' = [place EXCEPT ![c] = "copy1"] /\ attempt' = attempt /\ answer' = answer
    BY <1>3 DEF ReadLock, Goto, IsOdd
  <2>2. Typed'
    BY <1>1, <2>1 DEF Typed
  <2>3. Parity' /\ NoAnswerYet'
    BY <1>1, <2>1 DEF Typed, Parity, Odd, OddBelow, NoAnswerYet
  <2>4. OneWriter' /\ ReaderIsBehind'
    BY <1>1, <1>3, <2>1 DEF Typed, OneWriter, ReaderIsBehind, Whole
  <2>5. IsrAlone' /\ WholeUnlessNested'
    BY <1>1, <1>3, <2>1 DEF Typed, IsrAlone, WholeUnlessNested
  <2> QED BY <2>2, <2>3, <2>4, <2>5
<1> QED BY <1>2, <1>3

LEMMA CopyKeeps ==
  ASSUME LockInv, NEW c \in Contexts,
         Copy(c, "copy1", "half1", "copy2") \/ Copy(c, "copy2", "half2", "after")
  PROVE  LockInv'
<1> USE DEF LockInv
<1>1. /\ \/ /\ place[c] = "copy1" /\ place' = [place EXCEPT ![c] = "copy2"]
            /\ got' = [got EXCEPT ![c] = [got[c] EXCEPT !["half1"] = frame["half1"]]]
         \/ /\ place[c] = "copy2" /\ place' = [place EXCEPT ![c] = "after"]
            /\ got' = [got EXCEPT ![c] = [got[c] EXCEPT !["half2"] = frame["half2"]]]
      /\ UNCHANGED <<lock, seq, frame, published, reg, mine, attempt, answer, nested>>
      /\ answer[c] = "none"
  BY OnlyTheTopRuns DEF Copy, Goto, NoAnswerYet
<1>2. /\ got' \in [Contexts -> Frames]
      /\ \A d \in Contexts \ {c} : got'[d] = got[d]
      /\ place[c] = "copy1" => got'[c].half1 = frame.half1
      /\ place[c] = "copy2" => got'[c].half2 = frame.half2 /\ got'[c].half1 = got[c].half1
  BY <1>1 DEF Typed, Frames
<1>3. Typed'
  BY <1>1, <1>2 DEF Typed
<1>4. Parity' /\ NoAnswerYet'
  BY <1>1 DEF Typed, Parity, Odd, OddBelow, NoAnswerYet
<1>5. OneWriter'
  BY <1>1 DEF Typed, OneWriter, Whole
<1>6. ReaderIsBehind'
  BY <1>1, <1>2 DEF Typed, ReaderIsBehind
<1>7. IsrAlone'
  BY <1>1, <1>2 DEF Typed, IsrAlone
<1>8. WholeUnlessNested'
  BY <1>1, <1>2 DEF Typed, WholeUnlessNested
<1> QED BY <1>3, <1>4, <1>5, <1>6, <1>7, <1>8

LEMMA CheckCopyKeeps == ASSUME LockInv, NEW c \in Contexts, CheckCopy(c) PROVE LockInv'
<1> USE DEF LockInv
<1>1. /\ place[c] = "after"
      /\ UNCHANGED <<lock, seq, frame, published, reg, mine, got, nested>>
  BY OnlyTheTopRuns DEF CheckCopy
<1>2. CASE lock = reg[c] /\ ~IsOdd(lock)
  <2>1. /\ answer' = [answer EXCEPT ![c] = "true"] /\ attempt' = [attempt EXCEPT ![c] = 0]
        /\ place' = [place EXCEPT ![c] = "idle"]
    BY <1>2 DEF CheckCopy, Return, Goto, IsOdd, Typed
  <2>2. NoAnswerYet'
    BY <2>1 DEF Typed, NoAnswerYet
  <2>3. ~nested => Whole(got[c])
    BY <1>1, <1>2, CopyingIsOdd DEF OneWriter, ReaderIsBehind, Whole
  <2>4. WholeUnlessNested'
    BY <1>1, <2>1, <2>3 DEF Typed, WholeUnlessNested
  <2> QED BY <1>1, <2>1, <2>2, <2>4, ReaderMoves DEF Typed
<1>3. CASE ~(lock = reg[c] /\ ~IsOdd(lock))
  <2>1. Again(c)
    BY <1>3 DEF CheckCopy, IsOdd, Typed
  <2> QED BY <1>1, <2>1, AgainKeeps
<1> QED BY <1>2, <1>3

-----------------------------------------------------------------------------
LEMMA LockStep == LockInv /\ [Next]_vars => LockInv'
<1>1. ASSUME LockInv, UNCHANGED vars PROVE LockInv'
  BY <1>1 DEF vars, LockInv, Typed, Parity, Odd, OddBelow, OneWriter, ReaderIsBehind, NoAnswerYet,
              IsrAlone, WholeUnlessNested
<1>2. ASSUME LockInv, NEW c \in Contexts, adc_publish(c) PROVE LockInv'
  BY <1>2, PublishKeeps, LoadLockKeeps, StoreLockKeeps, SequenceKeeps, WriteHalfKeeps, UnlockKeeps
     DEF adc_publish
<1>3. ASSUME LockInv, NEW c \in Contexts, ADC_GetLatestFrame(c) PROVE LockInv'
  BY <1>3, ReadKeeps, ReadLockKeeps, CopyKeeps, CheckCopyKeeps DEF ADC_GetLatestFrame
<1> QED BY <1>1, <1>2, <1>3 DEF Next

LEMMA LockInvariance == Spec => []LockInv
BY LockInitially, LockStep, PTL DEF Spec

\* However the increments of preempted publications overlap, the lock is even
\* once nobody writes (adc.c:130-160).
THEOREM LockIsEvenAtRest == Spec => []LockEvenAtRest
<1>1. LockInv => LockEvenAtRest
  BY DEF LockInv, Typed, Parity, Odd, OddBelow, IsOdd, LockEvenAtRest
<1> QED BY <1>1, LockInvariance, PTL

\* A read that succeeds is of one publication, as long as none has begun inside
\* another one (adc.c:484-497).
THEOREM ReadsAreWholeUnlessNested == Spec => []WholeUnlessNested
<1>1. LockInv => WholeUnlessNested
  BY DEF LockInv
<1> QED BY <1>1, LockInvariance, PTL

\* A priority-0 handler reads the frame it has just published, and none only if
\* it has interrupted a publication (adc.c:423-497).
THEOREM IsrReadsOwnFrame == Spec => IsrReadsItsOwn
<1> DEFINE Own ==
      answer'["isr"] # answer["isr"] =>
        /\ answer'["isr"] = "true" => got["isr"] = [half1 |-> mine["isr"], half2 |-> mine["isr"]]
        /\ answer'["isr"] = "false" => \E c \in Contexts : place[c] \in Writing
<1>1. ASSUME LockInv, NEW c \in Contexts, adc_publish(c) PROVE Own
  <2>1. answer'["isr"] \in {answer["isr"], "none"}
    BY <1>1 DEF adc_publish, Publish, LoadLock, StoreLock, LoadSeq, StoreSeq, WriteHalf, Unlock,
                LockInv, Typed
  <2> QED BY <2>1
<1>2. ASSUME LockInv, NEW c \in Contexts, Read(c) \/ Copy(c, "copy1", "half1", "copy2")
                                         \/ Copy(c, "copy2", "half2", "after")
      PROVE  Own
  BY <1>2 DEF Read, Copy, LockInv, Typed
<1>3. ASSUME LockInv, NEW c \in Contexts, c # "isr", ReadLock(c) \/ CheckCopy(c) PROVE Own
  BY <1>3 DEF ReadLock, CheckCopy, Again, Return, LockInv, Typed
<1>4. ASSUME LockInv, ReadLock("isr") PROVE Own
  <2>1. place["isr"] = "before"
    BY <1>4, OnlyTheTopRuns DEF ReadLock
  <2>2. CASE IsOdd(lock)
    <3>1. \E c \in Contexts : place[c] \in Writing
      BY <1>4, <2>1, <2>2 DEF LockInv, Typed, Parity, Odd, OddBelow
    <3>2. answer'["isr"] \in {answer["isr"], "false"}
      BY <1>4, <2>2 DEF ReadLock, Again, Return, LockInv, Typed, IsOdd
    <3> QED BY <3>1, <3>2
  <2>3. CASE ~IsOdd(lock)
    BY <1>4, <2>3 DEF ReadLock, IsOdd
  <2> QED BY <2>2, <2>3
<1>5. ASSUME LockInv, CheckCopy("isr") PROVE Own
  <2>1. place["isr"] = "after"
    BY <1>5, OnlyTheTopRuns DEF CheckCopy
  <2>2. /\ lock = reg["isr"] /\ lock % 2 = 0
        /\ got["isr"].half1 = mine["isr"] /\ got["isr"].half2 = mine["isr"]
    BY <1>5, <2>1 DEF LockInv, Typed, IsrAlone, IsOdd
  <2>3. got["isr"] = [half1 |-> mine["isr"], half2 |-> mine["isr"]]
    BY <1>5, <2>2 DEF LockInv, Typed, Frames
  <2>4. answer'["isr"] = "true"
    BY <1>5, <2>2 DEF CheckCopy, Return, LockInv, Typed
  <2> QED BY <2>3, <2>4
<1>6. LockInv /\ [Next]_vars => [Own]_vars
  BY <1>1, <1>2, <1>3, <1>4, <1>5 DEF Next, ADC_GetLatestFrame
<1> QED BY <1>6, LockInvariance, PTL DEF Spec, IsrReadsItsOwn

-----------------------------------------------------------------------------
(* The encoder.                                                            *)

Pairs == [period : Nat, pulse : Nat]

\* The types the proof needs.
EncTyped ==
  /\ enc_capture_count \in Nat /\ last_count \in Int /\ stale_ms \in Nat /\ quiet \in Nat
  /\ frames \in Nat /\ calCount \in Nat /\ pair \in Pairs /\ calPair \in Pairs
  /\ t6 \in {"idle", "recheck", "error", "load", "store", "speed", "first"}
  /\ cal \in {"idle", "period", "pulse", "check", "accepted"}

\* The watchdog has seen a capture that did not restart its count: then that
\* capture is fresh.  Otherwise its count is what has been quiet, but for the
\* call that restarted it.
CountIsQuiet ==
  /\ last_count <= enc_capture_count
  /\ IF enc_capture_count # last_count THEN quiet = 0
     ELSE stale_ms <= quiet /\ quiet <= stale_ms + 1

\* The watchdog goes on to publish only after a silence, and a silence it has
\* dealt with is an error until the next capture.
SilenceIsError ==
  /\ t6 = "recheck" => stale_ms >= ENC_TIMEOUT_MS
  /\ enc_capture_count = last_count =>
       /\ t6 \in {"load", "store", "speed", "first"} => enc_error # "none"
       /\ t6 = "idle" /\ stale_ms >= ENC_TIMEOUT_MS => enc_error # "none"

\* After a bad capture the next one is a first one.
BadMeansFirst == enc_error = "bad" => first_capture

\* What the calibration has read is of the capture it has seen, as long as
\* that is the last one.
ReadsOfOneCapture ==
  /\ pair.period = pair.pulse
  /\ calCount <= enc_capture_count
  /\ enc_capture_count = calCount =>
       /\ cal \in {"pulse", "check"} => calPair.period = pair.period
       /\ cal = "check" => calPair.pulse = pair.pulse

EncInv ==
  EncTyped /\ CountIsQuiet /\ SilenceIsError /\ BadMeansFirst /\ ReadsOfOneCapture
  /\ CalibrationPairWhole

LEMMA EncInitially == EncInit => EncInv
BY EncoderAssumption
DEF EncInit, EncInv, EncTyped, Pairs, CountIsQuiet, SilenceIsError, BadMeansFirst, ReadsOfOneCapture,
    CalibrationPairWhole

\* A capture, good, out of range or overrun.
LEMMA CaptureKeeps ==
  ASSUME EncInv, GoodCapture \/ BadPeriod \/ Overcapture PROVE EncInv'
<1> USE DEF EncInv, Capture, watchdog, calVars, filter
<1>1. CASE GoodCapture
  <2> USE <1>1 DEF GoodCapture, Counts
  <2>1. EncTyped' BY DEF EncTyped, Pairs
  <2>2. CountIsQuiet' /\ SilenceIsError' BY DEF EncTyped, CountIsQuiet, SilenceIsError
  <2>3. BadMeansFirst' /\ CalibrationPairWhole' BY DEF BadMeansFirst, CalibrationPairWhole
  <2>4. ReadsOfOneCapture' BY DEF EncTyped, ReadsOfOneCapture
  <2> QED BY <2>1, <2>2, <2>3, <2>4
<1>2. CASE BadPeriod \/ Overcapture
  BY <1>2 DEF BadPeriod, Overcapture, BadCapture, EncTyped, CountIsQuiet, SilenceIsError,
              BadMeansFirst, ReadsOfOneCapture, CalibrationPairWhole
<1> QED BY <1>1, <1>2

LEMMA UpdateKeepsInv == ASSUME EncInv, ENC_Update PROVE EncInv'
<1> USE EncoderAssumption DEF EncInv, UpdateKeeps, calVars, filter
<1>1. CASE Tick
  <2> USE <1>1 DEF Tick, Silent, Restarts
  <2>1. EncTyped' BY DEF EncTyped
  <2>2. CountIsQuiet' BY DEF EncTyped, CountIsQuiet
  <2>3. SilenceIsError' BY DEF EncTyped, CountIsQuiet, SilenceIsError
  <2>4. BadMeansFirst' /\ ReadsOfOneCapture' /\ CalibrationPairWhole'
    BY DEF BadMeansFirst, ReadsOfOneCapture, CalibrationPairWhole
  <2> QED BY <2>1, <2>2, <2>3, <2>4
<1>2. CASE Recheck
  <2> USE <1>2 DEF Recheck, Restarts
  <2>1. EncTyped' BY DEF EncTyped
  <2>2. CountIsQuiet' /\ SilenceIsError' BY DEF EncTyped, CountIsQuiet, SilenceIsError
  <2>3. BadMeansFirst' /\ ReadsOfOneCapture' /\ CalibrationPairWhole'
    BY DEF BadMeansFirst, ReadsOfOneCapture, CalibrationPairWhole
  <2> QED BY <2>1, <2>2, <2>3
<1>3. CASE PublishTimeout
  BY <1>3 DEF PublishTimeout, EncTyped, CountIsQuiet, SilenceIsError, BadMeansFirst,
              ReadsOfOneCapture, CalibrationPairWhole
<1>4. CASE LoadBadCount \/ StoreBadCount \/ ClearSpeed
  BY <1>4 DEF LoadBadCount, StoreBadCount, ClearSpeed, EncTyped, CountIsQuiet, SilenceIsError,
              BadMeansFirst, ReadsOfOneCapture, CalibrationPairWhole
<1>5. CASE Rearm
  BY <1>5 DEF Rearm, EncTyped, CountIsQuiet, SilenceIsError, BadMeansFirst, ReadsOfOneCapture,
              CalibrationPairWhole
<1> QED BY <1>1, <1>2, <1>3, <1>4, <1>5 DEF ENC_Update

LEMMA CalibrateKeeps == ASSUME EncInv, ENC_Calibrate PROVE EncInv'
<1> USE DEF EncInv, CalKeeps, watchdog, filter
<1>1. EncTyped'
  BY DEF ENC_Calibrate, CalSeesCapture, CalReadsPeriod, CalReadsPulse, CalChecks, EncTyped, Pairs
<1>2. CountIsQuiet' /\ SilenceIsError' /\ BadMeansFirst'
  BY DEF ENC_Calibrate, CalSeesCapture, CalReadsPeriod, CalReadsPulse, CalChecks,
         CountIsQuiet, SilenceIsError, BadMeansFirst
<1>3. ReadsOfOneCapture' /\ CalibrationPairWhole'
  BY DEF ENC_Calibrate, CalSeesCapture, CalReadsPeriod, CalReadsPulse, CalChecks, EncTyped, Pairs,
         ReadsOfOneCapture, CalibrationPairWhole
<1> QED BY <1>1, <1>2, <1>3

LEMMA EncStep == EncInv /\ [EncNext]_encVars => EncInv'
<1> SUFFICES ASSUME EncInv, [EncNext]_encVars PROVE EncInv'
  OBVIOUS
<1>1. CASE UNCHANGED encVars
  BY <1>1 DEF encVars, watchdog, calVars, filter, EncInv, EncTyped, CountIsQuiet, SilenceIsError,
              BadMeansFirst, ReadsOfOneCapture, CalibrationPairWhole
<1> QED BY <1>1, CaptureKeeps, UpdateKeepsInv, CalibrateKeeps DEF EncNext

LEMMA EncInvariance == EncSpec => []EncInv
BY EncInitially, EncStep, PTL DEF EncSpec

\* A signal that has been silent for longer than the timeout is reported
\* (encoder.c:278-304), for every timeout.
THEOREM LossReported == EncSpec => []LossIsReported
<1>1. EncInv => LossIsReported
  BY EncoderAssumption DEF EncInv, EncTyped, CountIsQuiet, SilenceIsError, LossIsReported
<1> QED BY <1>1, EncInvariance, PTL

\* The pair ENC_Calibrate accepts is of one capture (encoder.c:324-345).
THEOREM CalibrationWhole == EncSpec => []CalibrationPairWhole
<1>1. EncInv => CalibrationPairWhole
  BY DEF EncInv
<1> QED BY <1>1, EncInvariance, PTL

\* A timeout is decided only after that many silent calls (encoder.c:285-293).
THEOREM LiveNotLost == EncSpec => LiveIsNotLost
<1>1. EncInv /\ [EncNext]_encVars => [t6 = "recheck" /\ t6' = "error" => quiet >= ENC_TIMEOUT_MS]_encVars
  <2> SUFFICES ASSUME EncInv, EncNext, t6 = "recheck", t6' = "error" PROVE quiet >= ENC_TIMEOUT_MS
    BY DEF EncInv
  <2>1. Recheck
    BY DEF EncNext, ENC_Update, ENC_Calibrate, GoodCapture, BadPeriod, Overcapture, Capture, watchdog,
           Tick, PublishTimeout, LoadBadCount, StoreBadCount, ClearSpeed, Rearm, CalSeesCapture,
           CalReadsPeriod, CalReadsPulse, CalChecks, CalKeeps
  <2> QED
    BY <2>1, EncoderAssumption DEF Recheck, EncInv, EncTyped, CountIsQuiet, SilenceIsError
<1> QED BY <1>1, EncInvariance, PTL DEF EncSpec, LiveIsNotLost

\* A speed is computed from two captures with no bad one between them
\* (encoder.c:190-245).
THEOREM SpeedSkipsBad == EncSpec => SpeedSkipsBadCaptures
<1>1. EncInv /\ [EncNext]_encVars => [enc_speed' # enc_speed /\ enc_speed' # NoSpeed => enc_error # "bad"]_encVars
  <2> SUFFICES ASSUME EncInv, EncNext, enc_speed' # enc_speed, enc_speed' # NoSpeed
               PROVE enc_error # "bad"
    BY DEF EncInv
  <2>1. GoodCapture
    BY DEF EncNext, ENC_Update, ENC_Calibrate, BadPeriod, Overcapture, BadCapture, Capture, filter,
           Tick, Recheck, PublishTimeout, LoadBadCount, StoreBadCount, ClearSpeed, Rearm,
           CalSeesCapture, CalReadsPeriod, CalReadsPulse, CalChecks, CalKeeps
  <2> QED
    BY <2>1 DEF GoodCapture, EncInv, BadMeansFirst
<1> QED BY <1>1, EncInvariance, PTL DEF EncSpec, SpeedSkipsBadCaptures
=============================================================================
