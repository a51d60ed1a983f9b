---------------------------- MODULE UartRxProofs ----------------------------
(***************************************************************************)
(* For every abort token of distinct letters, every ring, every length of  *)
(* a line and every text on the wire: a test that has cleared the abort    *)
(* flag ends at its first poll after the token has arrived, and as long as *)
(* the ring has not overflowed the command line gets the lines that        *)
(* arrived.                                                                *)
(***************************************************************************)
EXTENDS UartRxProps, SequenceTheorems, FiniteSetTheorems, TLAPS

Chars == UNION {Range(s) : s \in Scripts}

Typed ==
  /\ wire \in Seq(Chars) /\ rxd \in Seq(Chars) /\ pos \in 0..(Len(Tok) - 1)
  /\ g_autotune_abort \in BOOLEAN
  /\ "clear" \in DOMAIN since /\ since.clear \in Nat

\* The p characters of s up to the k-th are the first p letters of the token.
EndsAt(s, k, p) == p <= k /\ \A j \in 1..p : s[k - p + j] = Tok[j]

\* When the last characters begin the token, the matcher stands behind them.
\* The converse is not needed: a flag set for nothing would end a test early, and
\* this theorem is about the token that must not be missed.
Matching == \A p \in 1..(Len(Tok) - 1) : EndsAt(rxd, Len(rxd), p) => pos = p

\* What a test has to see is in the flag.
Heard == main = "testing" /\ HeardAfter(since.clear) => g_autotune_abort

RxInv == Typed /\ Matching /\ Heard

-----------------------------------------------------------------------------
\* The token among the characters, letter by letter.
LEMMA TokenLetters ==
  ASSUME NEW S, NEW s \in Seq(S), NEW k \in 1..Len(s), k >= Len(Tok)
  PROVE  SubSeq(s, k - Len(Tok) + 1, k) = Tok <=> EndsAt(s, k, Len(Tok))
<1> DEFINE m == k - Len(Tok) + 1
           sub == SubSeq(s, m, k)
<1>1. Len(Tok) \in Nat /\ Len(Tok) > 1 /\ Tok \in Seq(Range(Tok))
  BY UartRxAssumption, LenProperties
<1>2. Len(s) \in Nat BY LenProperties
<1>3. m \in 1..(Len(s) + 1) /\ k \in (m - 1)..Len(s) BY <1>1, <1>2
<1>4. /\ sub \in Seq(S) /\ Len(sub) = Len(Tok)
      /\ \A j \in 1..Len(Tok) : sub[j] = s[k - Len(Tok) + j]
  <2>1. /\ sub \in Seq(S) /\ Len(sub) = IF m <= k THEN k - m + 1 ELSE 0
        /\ \A j \in 1..(k - m + 1) : sub[j] = s[m + j - 1]
    BY <1>1, <1>2, <1>3, SubSeqProperties
  <2> QED BY <2>1, <1>1, <1>2
<1>5. sub = Tok <=> \A j \in 1..Len(Tok) : sub[j] = Tok[j]
  <2> HIDE DEF sub
  <2>1. DOMAIN sub = 1..Len(Tok) /\ DOMAIN Tok = 1..Len(Tok)
    BY <1>1, <1>4, LenProperties
  <2>2. sub = [j \in 1..Len(Tok) |-> sub[j]] /\ Tok = [j \in 1..Len(Tok) |-> Tok[j]]
    BY <2>1, <1>1, <1>4
  <2> QED BY <2>2
<1> HIDE DEF sub
<1>6. SubSeq(s, k - Len(Tok) + 1, k) = sub BY DEF sub
<1> QED BY <1>4, <1>5, <1>6, <1>1 DEF EndsAt

\* The matcher, fed the next character, keeps its place.
LEMMA FedKeepsPlace ==
  ASSUME Typed, Matching, NEW c \in Chars, NEW p \in 1..Len(Tok),
         EndsAt(Append(rxd, c), Len(rxd) + 1, p)
  PROVE  Fed(c) = p
<1>1. Len(Tok) \in Nat /\ Len(Tok) > 1 /\ DOMAIN Tok = 1..Len(Tok)
  BY UartRxAssumption, LenProperties
<1>2. /\ Len(rxd) \in Nat /\ Append(rxd, c)[Len(rxd) + 1] = c
      /\ \A i \in 1..Len(rxd) : Append(rxd, c)[i] = rxd[i]
  BY AppendProperties, LenProperties DEF Typed
<1>3. c = Tok[p]
  <2>1. Append(rxd, c)[Len(rxd) + 1 - p + p] = Tok[p] BY <1>1 DEF EndsAt
  <2> QED BY <2>1, <1>1, <1>2
<1>4. c # "cr" BY <1>1, <1>3, UartRxAssumption DEF Range
<1>5. Tok[pos + 1] = Tok[p] => pos + 1 = p
  <2>1. pos + 1 \in 1..Len(Tok) BY <1>1 DEF Typed
  <2>2. \A i, j \in 1..Len(Tok) : Tok[i] = Tok[j] => i = j
    BY <1>1, UartRxAssumption DEF IsInjective
  <2> QED BY <2>1, <2>2
<1>6. CASE p = 1 BY <1>1, <1>3, <1>4, <1>5, <1>6 DEF Fed, Typed
<1>7. CASE p > 1
  <2>1. EndsAt(rxd, Len(rxd), p - 1)
    <3>1. p - 1 <= Len(rxd) BY <1>1, <1>2 DEF EndsAt
    <3>2. ASSUME NEW j \in 1..(p - 1) PROVE rxd[Len(rxd) - (p - 1) + j] = Tok[j]
      <4>1. Append(rxd, c)[Len(rxd) + 1 - p + j] = Tok[j] BY <1>1, <3>2 DEF EndsAt
      <4>2. Len(rxd) + 1 - p + j \in 1..Len(rxd) BY <1>1, <1>2, <3>1, <3>2
      <4>3. Len(rxd) + 1 - p + j = Len(rxd) - (p - 1) + j BY <1>1, <1>2, <3>2
      <4> QED BY <4>1, <4>2, <4>3, <1>2
    <3> QED BY <3>1, <3>2 DEF EndsAt
  <2>2. pos = p - 1 BY <2>1, <1>1, <1>7 DEF Matching
  <2> QED BY <2>2, <1>1, <1>3, <1>4, <1>7 DEF Fed
<1> QED BY <1>1, <1>6, <1>7

-----------------------------------------------------------------------------
LEMMA InitRx == Init => RxInv
<1> SUFFICES ASSUME Init PROVE RxInv OBVIOUS
<1>1. Len(Tok) \in Nat /\ Len(Tok) > 1 BY UartRxAssumption, LenProperties
<1>2. wire \in Seq(Chars)
  <2>1. wire \in Seq(Range(wire)) /\ Range(wire) \subseteq Chars
    BY UartRxAssumption DEF Init, Chars
  <2> QED BY <2>1, SeqMonotonic
<1>3. rxd = <<>> /\ rxd \in Seq(Chars) /\ Len(rxd) = 0 BY EmptySeq DEF Init
<1>4. Typed
  <2>1. "clear" \in DOMAIN since /\ since.clear \in Nat BY DEF Init
  <2>2. g_autotune_abort \in BOOLEAN BY DEF Init
  <2>3. pos \in 0..(Len(Tok) - 1) BY <1>1 DEF Init
  <2> QED BY <1>2, <1>3, <2>1, <2>2, <2>3 DEF Typed
<1>5. Matching BY <1>1, <1>3 DEF Matching, EndsAt
<1> QED BY <1>4, <1>5 DEF RxInv, Heard, Init

\* A character feeds the matcher, and the one that completes the token sets the
\* flag.
LEMMA ReceiveKeeps == ASSUME RxInv, Receive PROVE RxInv'
<1> DEFINE c == Head(wire)
<1>1. Len(Tok) \in Nat /\ Len(Tok) > 1 BY UartRxAssumption, LenProperties
<1>2. /\ c \in Chars /\ wire' \in Seq(Chars)
      /\ rxd' = Append(rxd, c) /\ main' = main /\ since' = since
      /\ pos' = (IF Fed(c) = Len(Tok) THEN 0 ELSE Fed(c))
      /\ g_autotune_abort' = (g_autotune_abort \/ Fed(c) = Len(Tok))
  BY HeadTailProperties DEF RxInv, Typed, Receive
<1> HIDE DEF c
<1>3. /\ rxd \in Seq(Chars) /\ Len(rxd) \in Nat
      /\ rxd' \in Seq(Chars) /\ Len(rxd') = Len(rxd) + 1
      /\ \A i \in 1..Len(rxd) : rxd'[i] = rxd[i]
  BY <1>2, AppendProperties, LenProperties DEF RxInv, Typed
<1>4. ASSUME NEW p \in 1..Len(Tok), EndsAt(rxd', Len(rxd'), p) PROVE Fed(c) = p
  BY <1>2, <1>3, <1>4, FedKeepsPlace DEF RxInv
<1>5. Typed' BY <1>1, <1>2, <1>3 DEF RxInv, Typed, Fed
<1>6. Matching' BY <1>1, <1>2, <1>4 DEF Matching
<1>7. Heard'
  <2> SUFFICES ASSUME main' = "testing", HeardAfter(since.clear)' PROVE g_autotune_abort'
    BY DEF Heard
  <2>1. PICK k \in (since.clear + 1)..Len(rxd') :
          k >= Len(Tok) /\ SubSeq(rxd', k - Len(Tok) + 1, k) = Tok
    BY <1>2 DEF HeardAfter
  <2>2. since.clear \in Nat BY DEF RxInv, Typed
  <2>3. EndsAt(rxd', k, Len(Tok))
    <3>1. k \in 1..Len(rxd') BY <1>3, <2>1, <2>2
    <3>2. SubSeq(rxd', k - Len(Tok) + 1, k) = Tok <=> EndsAt(rxd', k, Len(Tok))
      BY <1>3, <2>1, <3>1, TokenLetters
    <3> QED BY <2>1, <3>2
  <2>4. CASE k = Len(rxd')
    <3>1. Len(Tok) \in 1..Len(Tok) BY <1>1
    <3>2. EndsAt(rxd', Len(rxd'), Len(Tok)) BY <2>3, <2>4
    <3>3. Fed(c) = Len(Tok) BY <1>4, <3>1, <3>2
    <3> QED BY <1>2, <3>3
  <2>5. CASE k \in (since.clear + 1)..Len(rxd)
    <3>1. EndsAt(rxd, k, Len(Tok))
      <4>1. ASSUME NEW j \in 1..Len(Tok) PROVE rxd[k - Len(Tok) + j] = Tok[j]
        <5>1. k - Len(Tok) + j \in 1..Len(rxd) BY <1>1, <1>3, <2>1, <2>2, <2>5, <4>1
        <5>2. rxd'[k - Len(Tok) + j] = Tok[j] BY <2>3, <4>1 DEF EndsAt
        <5> QED BY <5>1, <5>2, <1>3
      <4> QED BY <4>1, <2>1 DEF EndsAt
    <3>2. SubSeq(rxd, k - Len(Tok) + 1, k) = Tok
      BY <1>1, <1>3, <2>1, <2>2, <2>5, <3>1, TokenLetters
    <3>3. HeardAfter(since.clear) BY <2>1, <2>5, <3>2 DEF HeardAfter
    <3>4. g_autotune_abort BY <1>2, <3>3 DEF RxInv, Heard
    <3> QED BY <3>4, <1>2
  <2> QED BY <1>3, <2>1, <2>2, <2>4, <2>5
<1> QED BY <1>5, <1>6, <1>7 DEF RxInv

\* No other step feeds the matcher, and no test starts with anything to hear.
LEMMA OthersKeep == ASSUME RxInv, [Next]_vars, ~Receive PROVE RxInv'
<1> USE DEF RxInv, wireVars, lineVars
<1>1. CASE Overrun
  <2>1. wire' \in Seq(Chars) BY <1>1, HeadTailProperties DEF Typed, Overrun
  <2> QED BY <1>1, <2>1 DEF Overrun, Typed, Matching, Heard, HeardAfter
<1>2. CASE ReadLine
  <2>1. /\ UNCHANGED <<wire, rxd, pos>>
        /\ \/ UNCHANGED <<g_autotune_abort, main, since>>
           \/ \E l : Execute(l)
    BY <1>2 DEF ReadLine, TakeDrained, TakeEnd, TakeBackspace, TakeChar, TakeKeeps, Idle
  <2>2. CASE UNCHANGED <<g_autotune_abort, main, since>>
    BY <2>1, <2>2 DEF Typed, Matching, Heard, HeardAfter
  <2>3. CASE \E l : Execute(l)
    <3>1. /\ main' # "testing" /\ g_autotune_abort' \in BOOLEAN
          /\ "clear" \in DOMAIN since' /\ since'.clear = since.clear
      BY <2>3 DEF Execute, Typed
    <3> QED BY <2>1, <3>1 DEF Typed, Matching, Heard
  <2> QED BY <2>1, <2>2, <2>3
<1>3. CASE TestClears
  <2>1. Len(rxd) \in Nat BY LenProperties DEF Typed
  <2>2. "clear" \in DOMAIN since' /\ since'.clear = Len(rxd) BY <1>3 DEF TestClears, Typed
  <2>3. ~HeardAfter(since.clear)' BY <1>3, <2>1, <2>2 DEF TestClears, HeardAfter
  <2> QED BY <1>3, <2>1, <2>2, <2>3 DEF TestClears, Typed, Matching, Heard
<1>4. CASE TestPolls BY <1>4 DEF TestPolls, Typed, Matching, Heard, HeardAfter
<1>5. CASE DetectWaits BY <1>5 DEF DetectWaits, Typed, Matching, Heard
<1>6. CASE UNCHANGED vars BY <1>6 DEF vars, Typed, Matching, Heard, HeardAfter
<1> QED BY <1>1, <1>2, <1>3, <1>4, <1>5, <1>6 DEF Next

LEMMA RxInvariant == Spec => []RxInv
<1>1. RxInv /\ [Next]_vars => RxInv' BY ReceiveKeeps, OthersKeep
<1> QED BY InitRx, <1>1, PTL DEF Spec

\* However full the ring is and whatever precedes the token, a test does not go
\* past its next poll once uart_rx_isr has matched the token.
THEOREM AbortIsHeard == Spec => AbortEndsTest
<1>1. RxInv /\ [Next]_vars
        => [main = "testing" /\ main' = "testing" /\ polls' # polls
              => ~HeardAfter(since.clear)]_vars
  <2> SUFFICES ASSUME RxInv, Next, main = "testing", main' = "testing", polls' # polls
               PROVE  ~HeardAfter(since.clear)
    BY DEF vars
  <2>1. ~g_autotune_abort
    BY DEF Next, Receive, Overrun, ReadLine, TakeDrained, TakeEnd, TakeBackspace, TakeChar,
       TakeKeeps, TestClears, TestPolls, DetectWaits
  <2> QED BY <2>1 DEF RxInv, Heard
<1> QED BY <1>1, RxInvariant, PTL DEF Spec, AbortEndsTest

-----------------------------------------------------------------------------
(* The n-th number of a set.                                               *)

Rank(S, k) == Cardinality({m \in S : m <= k})

\* No number is missing among the ranks.
Ranked(S) ==
  /\ S \subseteq Int /\ IsFiniteSet(S)
  /\ \A n \in 1..Cardinality(S) : \E k \in S : Rank(S, k) = n

\* The n-th number of a set is in it and has n - 1 before it.
LEMMA NthHasRank ==
  ASSUME NEW S, Ranked(S), NEW n \in 1..Cardinality(S)
  PROVE  Nth(S, n) \in S /\ Rank(S, Nth(S, n)) = n
BY DEF Ranked, Rank, Nth

\* Nothing is missing where nothing is.
LEMMA RankedEmpty == Ranked({}) /\ Cardinality({}) = 0
BY FS_EmptySet DEF Ranked

\* A number larger than all others is the last one.
LEMMA AddLast ==
  ASSUME NEW S, S \subseteq Int, IsFiniteSet(S), NEW x \in Int, \A s \in S : s < x
  PROVE  /\ Cardinality(S) \in Nat /\ IsFiniteSet(S \cup {x})
         /\ Cardinality(S \cup {x}) = Cardinality(S) + 1
         /\ \A k \in S : /\ Rank(S \cup {x}, k) = Rank(S, k)
                         /\ Rank(S, k) \in 0..Cardinality(S)
         /\ Rank(S \cup {x}, x) = Cardinality(S) + 1
<1>1. Cardinality(S) \in Nat BY FS_CardinalityType
<1>2. x \notin S OBVIOUS
<1>3. IsFiniteSet(S \cup {x}) /\ Cardinality(S \cup {x}) = Cardinality(S) + 1
  BY <1>2, FS_AddElement
<1>4. ASSUME NEW k \in S
      PROVE  Rank(S \cup {x}, k) = Rank(S, k) /\ Rank(S, k) \in 0..Cardinality(S)
  <2>1. {m \in S \cup {x} : m <= k} = {m \in S : m <= k}
    <3>1. ~(x <= k) OBVIOUS
    <3> QED BY <3>1
  <2>2. /\ Cardinality({m \in S : m <= k}) <= Cardinality(S)
        /\ IsFiniteSet({m \in S : m <= k})
    BY FS_Subset
  <2>3. Cardinality({m \in S : m <= k}) \in Nat BY <2>2, FS_CardinalityType
  <2> QED BY <1>1, <2>1, <2>2, <2>3 DEF Rank
<1>5. {m \in S \cup {x} : m <= x} = S \cup {x}
  <2>1. \A m \in S \cup {x} : m <= x OBVIOUS
  <2> QED BY <2>1
<1>6. Rank(S \cup {x}, x) = Cardinality(S) + 1 BY <1>3, <1>5 DEF Rank
<1> QED BY <1>1, <1>3, <1>4, <1>6

\* The numbers keep their places when a larger one comes.
LEMMA NthAfterAdd ==
  ASSUME NEW S, S \subseteq Int, IsFiniteSet(S), NEW x \in Int, \A s \in S : s < x
  PROVE  /\ \A n \in 1..Cardinality(S) : Nth(S \cup {x}, n) = Nth(S, n)
         /\ Nth(S \cup {x}, Cardinality(S) + 1) = x
<1> DEFINE T == S \cup {x}
<1>1. /\ Cardinality(S) \in Nat
      /\ \A k \in S : Rank(T, k) = Rank(S, k) /\ Rank(S, k) \in 0..Cardinality(S)
      /\ Rank(T, x) = Cardinality(S) + 1
  BY AddLast
<1>2. ASSUME NEW n \in 1..Cardinality(S) PROVE Nth(T, n) = Nth(S, n)
  <2>1. \A k : k \in T /\ Rank(T, k) = n <=> k \in S /\ Rank(S, k) = n
    <3>1. Rank(T, x) # n BY <1>1, <1>2
    <3> QED BY <1>1, <3>1
  <2> HIDE DEF T
  <2>2. (CHOOSE k : k \in T /\ Rank(T, k) = n) = (CHOOSE k : k \in S /\ Rank(S, k) = n)
    BY <2>1, Zenon
  <2>3. Nth(T, n) = (CHOOSE k : k \in T /\ Rank(T, k) = n) BY DEF Nth, Rank
  <2>4. Nth(S, n) = (CHOOSE k : k \in S /\ Rank(S, k) = n) BY DEF Nth, Rank
  <2> QED BY <2>2, <2>3, <2>4
<1>3. Nth(T, Cardinality(S) + 1) = x
  <2>1. \A k \in T : Rank(T, k) = Cardinality(S) + 1 <=> k = x BY <1>1
  <2>2. x \in T OBVIOUS
  <2> HIDE DEF T
  <2> QED BY <2>1, <2>2 DEF Nth, Rank
<1> QED BY <1>2, <1>3

\* No rank is missing after that.
LEMMA RankedAfterAdd ==
  ASSUME NEW S, Ranked(S), NEW x \in Int, \A s \in S : s < x
  PROVE  Ranked(S \cup {x})
<1> DEFINE T == S \cup {x}
<1>1. S \subseteq Int /\ IsFiniteSet(S) BY DEF Ranked
<1>2. /\ Cardinality(S) \in Nat /\ IsFiniteSet(T) /\ Cardinality(T) = Cardinality(S) + 1
      /\ \A k \in S : Rank(T, k) = Rank(S, k)
      /\ Rank(T, x) = Cardinality(S) + 1
  <2>1. /\ Cardinality(S) \in Nat /\ IsFiniteSet(S \cup {x})
        /\ Cardinality(S \cup {x}) = Cardinality(S) + 1
        /\ \A k \in S : /\ Rank(S \cup {x}, k) = Rank(S, k)
                        /\ Rank(S, k) \in 0..Cardinality(S)
        /\ Rank(S \cup {x}, x) = Cardinality(S) + 1
    BY <1>1, AddLast
  <2> QED BY <2>1
<1>3. T \subseteq Int /\ S \subseteq T /\ x \in T BY <1>1
<1>4. \A n \in 1..Cardinality(S) : \E k \in S : Rank(S, k) = n BY DEF Ranked
<1> HIDE DEF T
<1>5. ASSUME NEW n \in 1..Cardinality(T) PROVE \E k \in T : Rank(T, k) = n
  <2>1. CASE n = Cardinality(S) + 1 BY <1>2, <1>3, <2>1
  <2>2. CASE n \in 1..Cardinality(S) BY <1>2, <1>3, <1>4, <2>2
  <2> QED BY <1>2, <2>1, <2>2
<1>6. Ranked(T) BY <1>2, <1>3, <1>5 DEF Ranked
<1> QED BY <1>6 DEF T

\* Without its last number a set still misses none.
LEMMA RankedWithoutLast ==
  ASSUME NEW S, Ranked(S), S # {}
  PROVE  LET x == Nth(S, Cardinality(S))
         IN  /\ x \in S /\ (\A m \in S \ {x} : m < x) /\ Ranked(S \ {x})
             /\ Cardinality(S \ {x}) + 1 = Cardinality(S) /\ Cardinality(S \ {x}) \in Nat
<1> DEFINE x == Nth(S, Cardinality(S))
           R == S \ {x}
<1>1. S \subseteq Int /\ IsFiniteSet(S) BY DEF Ranked
<1>2. Cardinality(S) \in Nat \ {0} BY <1>1, FS_CardinalityType, FS_EmptySet
<1>3. x \in S /\ Rank(S, x) = Cardinality(S) BY <1>2, NthHasRank
<1> HIDE DEF x
<1>4. {m \in S : m <= x} = S
  <2>1. {m \in S : m <= x} \in SUBSET S OBVIOUS
  <2> QED BY <1>1, <1>3, <2>1, FS_Subset DEF Rank
<1>5. \A m \in R : m < x BY <1>1, <1>3, <1>4
<1>6. R \subseteq Int /\ IsFiniteSet(R) /\ S = R \cup {x} BY <1>1, <1>3, FS_Subset
<1>7. /\ Cardinality(R) \in Nat /\ Cardinality(R \cup {x}) = Cardinality(R) + 1
      /\ \A k \in R : Rank(R \cup {x}, k) = Rank(R, k)
  <2>1. x \in Int BY <1>1, <1>3
  <2> HIDE DEF R
  <2> QED BY <1>5, <1>6, <2>1, AddLast
<1>8. /\ Cardinality(S) = Cardinality(R) + 1
      /\ \A k \in R : Rank(S, k) = Rank(R, k)
  BY <1>6, <1>7
<1>9. ASSUME NEW n \in 1..Cardinality(R) PROVE \E k \in R : Rank(R, k) = n
  <2>1. n \in 1..Cardinality(S) /\ n # Cardinality(S) BY <1>7, <1>8, <1>9
  <2>2. PICK k \in S : Rank(S, k) = n BY <2>1 DEF Ranked
  <2>3. k # x BY <1>3, <2>1, <2>2
  <2> QED BY <1>8, <2>2, <2>3
<1>10. Ranked(R) BY <1>6, <1>9 DEF Ranked
<1> QED BY <1>3, <1>5, <1>7, <1>8, <1>10 DEF x

-----------------------------------------------------------------------------
(* One more character of a line.                                           *)

Erasers(l, a, b) == Count(l, a, b, {"bs"})
Letters(l, a, b) == Cardinality({m \in a..b : l[m] # "bs"})

\* Behind each letter that is left, as many letters are left as the erasers
\* have left.
Balanced(l) ==
  \A k \in Kept(l) :
    Letters(l, k + 1, Len(l)) = Erasers(l, k + 1, Len(l)) + Cardinality({m \in Kept(l) : k < m})

\* The counts of letters and of erasers in a stretch of a line.
LEMMA CountsAreNumbers ==
  ASSUME NEW l, NEW a \in Int, NEW b \in Int
  PROVE  /\ Erasers(l, a, b) \in Nat /\ Letters(l, a, b) \in Nat
         /\ b < a => Erasers(l, a, b) = 0 /\ Letters(l, a, b) = 0
<1>1. IsFiniteSet(a..b) BY FS_Interval
<1>2. /\ IsFiniteSet({k \in a..b : l[k] \in {"bs"}}) /\ IsFiniteSet({k \in a..b : l[k] # "bs"})
  BY <1>1, FS_Subset
<1>3. b < a => /\ {k \in a..b : l[k] \in {"bs"}} = {} /\ {k \in a..b : l[k] # "bs"} = {}
  <2>1. b < a => a..b = {} OBVIOUS
  <2> QED BY <2>1
<1> QED BY <1>2, <1>3, FS_CardinalityType, FS_EmptySet DEF Erasers, Letters, Count

\* What one more character of a line changes in the counts.
LEMMA OneMore ==
  ASSUME NEW S, NEW l \in Seq(S), NEW c \in S, NEW a \in 1..(Len(l) + 1)
  PROVE  LET n == Len(l)
             t == Append(l, c)
         IN  /\ \A j \in (a - 1)..n : /\ Erasers(t, a, j) = Erasers(l, a, j)
                                      /\ Letters(t, a, j) = Letters(l, a, j)
             /\ Erasers(t, a, n + 1) = Erasers(l, a, n) + (IF c = "bs" THEN 1 ELSE 0)
             /\ Letters(t, a, n + 1) = Letters(l, a, n) + (IF c = "bs" THEN 0 ELSE 1)
<1> DEFINE n == Len(l)
           t == Append(l, c)
<1>1. n \in Nat /\ t[n + 1] = c /\ \A i \in 1..n : t[i] = l[i]
  BY AppendProperties, LenProperties
<1> HIDE DEF t
<1>2. ASSUME NEW j \in (a - 1)..n
      PROVE  Erasers(t, a, j) = Erasers(l, a, j) /\ Letters(t, a, j) = Letters(l, a, j)
  <2>1. \A k \in a..j : t[k] = l[k] BY <1>1, <1>2
  <2>2. /\ {k \in a..j : t[k] \in {"bs"}} = {k \in a..j : l[k] \in {"bs"}}
        /\ {k \in a..j : t[k] # "bs"} = {k \in a..j : l[k] # "bs"}
    BY <2>1
  <2> QED BY <2>2 DEF Erasers, Letters, Count
<1> DEFINE E == {k \in a..n : t[k] \in {"bs"}}
           L == {k \in a..n : t[k] # "bs"}
<1>3. n \in (a - 1)..n /\ n + 1 \notin a..n /\ a..(n + 1) = (a..n) \cup {n + 1} BY <1>1
<1>4. Cardinality(E) = Erasers(l, a, n) /\ Cardinality(L) = Letters(l, a, n)
  BY <1>2, <1>3 DEF Erasers, Letters, Count
<1>5. IsFiniteSet(E) /\ IsFiniteSet(L) /\ n + 1 \notin E /\ n + 1 \notin L
  <2>1. IsFiniteSet(a..n) BY <1>1, FS_Interval
  <2> QED BY <2>1, <1>3, FS_Subset
<1>6. {k \in a..(n + 1) : t[k] \in {"bs"}} = IF c = "bs" THEN E \cup {n + 1} ELSE E
  BY <1>1, <1>3
<1>7. {k \in a..(n + 1) : t[k] # "bs"} = IF c = "bs" THEN L ELSE L \cup {n + 1}
  BY <1>1, <1>3
<1> HIDE DEF E, L
<1>8. /\ Cardinality(E \cup {n + 1}) = Cardinality(E) + 1
      /\ Cardinality(L \cup {n + 1}) = Cardinality(L) + 1
  BY <1>5, FS_AddElement
<1>9. Cardinality(E) \in Nat /\ Cardinality(L) \in Nat BY <1>5, FS_CardinalityType
<1>10. Erasers(t, a, n + 1) = Cardinality(E) + (IF c = "bs" THEN 1 ELSE 0)
  <2>1. CASE c = "bs" BY <1>6, <1>8, <2>1 DEF Erasers, Count
  <2>2. CASE c # "bs"
    <3>1. Erasers(t, a, n + 1) = Cardinality(E) BY <1>6, <2>2 DEF Erasers, Count
    <3> QED BY <1>9, <2>2, <3>1
  <2> QED BY <2>1, <2>2
<1>11. Letters(t, a, n + 1) = Cardinality(L) + (IF c = "bs" THEN 0 ELSE 1)
  <2>1. CASE c # "bs" BY <1>7, <1>8, <2>1 DEF Letters
  <2>2. CASE c = "bs"
    <3>1. Letters(t, a, n + 1) = Cardinality(L) BY <1>7, <2>2 DEF Letters
    <3> QED BY <1>9, <2>2, <3>1
  <2> QED BY <2>1, <2>2
<1> QED BY <1>2, <1>4, <1>10, <1>11 DEF t

\* What survives, in terms of the counts.
LEMMA SurvivesCounts ==
  ASSUME NEW l, NEW k
  PROVE  Survives(l, k) <=>
           l[k] # "bs" /\ \A j \in (k + 1)..Len(l) : Erasers(l, k + 1, j) <= Letters(l, k + 1, j)
BY DEF Survives, Erasers, Letters

\* A line with one more letter: the letter is kept, and all that were.
LEMMA KeptWithLetter ==
  ASSUME NEW S, NEW l \in Seq(S), NEW c \in S, c # "bs"
  PROVE  Kept(Append(l, c)) = Kept(l) \cup {Len(l) + 1}
<1> DEFINE n == Len(l)
           t == Append(l, c)
<1>1. /\ n \in Nat /\ t[n + 1] = c /\ (\A i \in 1..n : t[i] = l[i]) /\ Len(t) = n + 1
      /\ DOMAIN l = 1..n /\ DOMAIN t = 1..(n + 1)
  BY AppendProperties, LenProperties
<1>2. \A a \in 1..(n + 1) :
        /\ \A j \in (a - 1)..n : /\ Erasers(t, a, j) = Erasers(l, a, j)
                                 /\ Letters(t, a, j) = Letters(l, a, j)
        /\ Erasers(t, a, n + 1) = Erasers(l, a, n)
        /\ Letters(t, a, n + 1) = Letters(l, a, n) + 1
  <2> TAKE a \in 1..(n + 1)
  <2>1. Erasers(l, a, n) \in Nat BY <1>1, CountsAreNumbers
  <2> QED BY <2>1, OneMore
<1> HIDE DEF t
<1>3. ASSUME NEW k \in 1..n PROVE Survives(t, k) <=> Survives(l, k)
  <2>1. k + 1 \in 1..(n + 1) /\ t[k] = l[k] BY <1>1, <1>3
  <2>2. \A j \in (k + 1)..n :
          Erasers(t, k + 1, j) = Erasers(l, k + 1, j) /\ Letters(t, k + 1, j) = Letters(l, k + 1, j)
    BY <1>1, <1>2, <2>1
  <2>3. ASSUME Survives(l, k) PROVE Erasers(t, k + 1, n + 1) <= Letters(t, k + 1, n + 1)
    <3>1. Erasers(l, k + 1, n) \in Nat /\ Letters(l, k + 1, n) \in Nat
      BY <1>1, CountsAreNumbers
    <3>2. Erasers(l, k + 1, n) <= Letters(l, k + 1, n)
      <4>1. CASE k = n BY <1>1, <3>1, <4>1, CountsAreNumbers
      <4>2. CASE k < n BY <1>1, <2>3, <4>2, SurvivesCounts
      <4>3. k = n \/ k < n
        <5> HIDE DEF n
        <5> QED BY <1>1, <1>3
      <4> QED BY <4>1, <4>2, <4>3
    <3> QED BY <1>2, <2>1, <3>1, <3>2
  <2>4. (k + 1)..(n + 1) = ((k + 1)..n) \cup {n + 1} BY <1>1
  <2>5. Survives(l, k) <=>
          l[k] # "bs" /\ \A j \in (k + 1)..n : Erasers(l, k + 1, j) <= Letters(l, k + 1, j)
    BY SurvivesCounts
  <2>6. Survives(t, k) <=>
          /\ t[k] # "bs"
          /\ \A j \in (k + 1)..(n + 1) : Erasers(t, k + 1, j) <= Letters(t, k + 1, j)
    BY <1>1, SurvivesCounts
  <2> HIDE DEF n
  <2> QED BY <2>1, <2>2, <2>3, <2>4, <2>5, <2>6
<1>4. Survives(t, n + 1)
  <2>1. (n + 1 + 1)..Len(t) = {} BY <1>1
  <2> QED BY <1>1, <2>1 DEF Survives
<1>5. Kept(t) = Kept(l) \cup {n + 1} BY <1>1, <1>3, <1>4 DEF Kept
<1> QED BY <1>5 DEF t

\* A line with one more eraser: the last letter goes.
LEMMA KeptWithEraser ==
  ASSUME NEW S, NEW l \in Seq(S), NEW c \in S, c = "bs", Balanced(l), Ranked(Kept(l))
  PROVE  Kept(Append(l, c)) =
           IF Kept(l) = {} THEN {} ELSE Kept(l) \ {Nth(Kept(l), Cardinality(Kept(l)))}
<1> DEFINE n == Len(l)
           t == Append(l, c)
           x == Nth(Kept(l), Cardinality(Kept(l)))
<1>1. /\ n \in Nat /\ t[n + 1] = c /\ (\A i \in 1..n : t[i] = l[i]) /\ Len(t) = n + 1
      /\ DOMAIN l = 1..n /\ DOMAIN t = 1..(n + 1)
  BY AppendProperties, LenProperties
<1>2. \A a \in 1..(n + 1) :
        /\ \A j \in (a - 1)..n : /\ Erasers(t, a, j) = Erasers(l, a, j)
                                 /\ Letters(t, a, j) = Letters(l, a, j)
        /\ Erasers(t, a, n + 1) = Erasers(l, a, n) + 1
        /\ Letters(t, a, n + 1) = Letters(l, a, n)
  <2> TAKE a \in 1..(n + 1)
  <2>1. Letters(l, a, n) \in Nat BY <1>1, CountsAreNumbers
  <2> QED BY <2>1, OneMore
<1> HIDE DEF t
<1>3. ASSUME NEW k \in 1..n
      PROVE  Survives(t, k) <=> Survives(l, k) /\ Cardinality({m \in Kept(l) : k < m}) # 0
  <2>1. k + 1 \in 1..(n + 1) /\ t[k] = l[k] BY <1>1, <1>3
  <2>2. \A j \in (k + 1)..n :
          Erasers(t, k + 1, j) = Erasers(l, k + 1, j) /\ Letters(t, k + 1, j) = Letters(l, k + 1, j)
    BY <1>1, <1>2, <2>1
  <2>3. (k + 1)..(n + 1) = ((k + 1)..n) \cup {n + 1} BY <1>1
  <2>4. Survives(l, k) <=>
          l[k] # "bs" /\ \A j \in (k + 1)..n : Erasers(l, k + 1, j) <= Letters(l, k + 1, j)
    BY SurvivesCounts
  <2>5. Survives(t, k) <=>
          /\ t[k] # "bs"
          /\ \A j \in (k + 1)..(n + 1) : Erasers(t, k + 1, j) <= Letters(t, k + 1, j)
    BY <1>1, SurvivesCounts
  <2>6. ASSUME Survives(l, k)
        PROVE  Erasers(t, k + 1, n + 1) <= Letters(t, k + 1, n + 1)
                 <=> Cardinality({m \in Kept(l) : k < m}) # 0
    <3>1. Erasers(l, k + 1, n) \in Nat /\ Letters(l, k + 1, n) \in Nat
      BY <1>1, CountsAreNumbers
    <3>2. k \in Kept(l) BY <1>1, <2>6 DEF Kept
    <3>3. Letters(l, k + 1, n) = Erasers(l, k + 1, n) + Cardinality({m \in Kept(l) : k < m})
      BY <3>2 DEF Balanced
    <3>4. Cardinality({m \in Kept(l) : k < m}) \in Nat BY FS_Subset, FS_CardinalityType DEF Ranked
    <3> QED BY <1>2, <2>1, <3>1, <3>3, <3>4
  <2> HIDE DEF n
  <2> QED BY <2>1, <2>2, <2>3, <2>4, <2>5, <2>6
<1>4. ~Survives(t, n + 1) BY <1>1 DEF Survives
<1>5. /\ Kept(l) = {k \in 1..n : Survives(l, k)}
      /\ Kept(t) = {k \in 1..n : Survives(t, k)}
  <2>1. 1..(n + 1) = (1..n) \cup {n + 1} BY <1>1
  <2> QED BY <1>1, <1>4, <2>1 DEF Kept
<1>6. CASE Kept(l) = {}
  <2>1. \A k \in 1..n : ~Survives(l, k) BY <1>5, <1>6
  <2>2. Kept(t) = {} BY <1>3, <1>5, <2>1
  <2> QED BY <1>6, <2>2 DEF t
<1>7. CASE Kept(l) # {}
  <2>1. x \in Kept(l) /\ \A m \in Kept(l) \ {x} : m < x BY <1>7, RankedWithoutLast
  <2>2. Kept(l) \subseteq 1..n BY <1>5
  <2> HIDE DEF x
  <2>3. ASSUME NEW k \in Kept(l) PROVE Cardinality({m \in Kept(l) : k < m}) # 0 <=> k # x
    <3>1. IsFiniteSet({m \in Kept(l) : k < m}) BY FS_Subset DEF Ranked
    <3>2. Cardinality({m \in Kept(l) : k < m}) # 0 <=> {m \in Kept(l) : k < m} # {}
      BY <3>1, FS_EmptySet
    <3>3. {m \in Kept(l) : k < m} # {} <=> k # x BY <2>1, <2>2
    <3> QED BY <3>2, <3>3
  <2>4. \A k \in 1..n : Survives(t, k) <=> k \in Kept(l) /\ k # x
    <3> SUFFICES ASSUME NEW k \in 1..n PROVE Survives(t, k) <=> k \in Kept(l) /\ k # x
      OBVIOUS
    <3>1. Survives(l, k) <=> k \in Kept(l) BY <1>5
    <3> QED BY <1>3, <2>3, <3>1
  <2>5. Kept(t) = Kept(l) \ {x} BY <1>5, <2>2, <2>4
  <2> QED BY <1>7, <2>5 DEF t, x
<1> QED BY <1>6, <1>7

\* What a line so far is known to be like.
Tidy(l) == Balanced(l) /\ Ranked(Kept(l))

\* The empty line is tidy.
LEMMA TidyEmpty == Tidy(<<>>) /\ Kept(<<>>) = {}
<1>1. Kept(<<>>) = {} BY DEF Kept
<1> QED BY <1>1, RankedEmpty DEF Tidy, Balanced

\* Only characters of the line are kept.
LEMMA KeptInLine ==
  ASSUME NEW S, NEW l \in Seq(S)
  PROVE  Kept(l) \subseteq 1..Len(l) /\ Len(l) \in Nat
BY LenProperties DEF Kept

\* A tidy line stays tidy with a letter more ...
LEMMA TidyWithLetter ==
  ASSUME NEW S, NEW l \in Seq(S), NEW c \in S, c # "bs", Tidy(l)
  PROVE  Tidy(Append(l, c))
<1> DEFINE n == Len(l)
           t == Append(l, c)
           K == Kept(l)
<1>1. n \in Nat /\ Len(t) = n + 1 BY AppendProperties, LenProperties
<1>2. Kept(t) = K \cup {n + 1} BY KeptWithLetter
<1>3. K \subseteq 1..n BY KeptInLine
<1>4. Ranked(K) BY DEF Tidy
<1>5. Ranked(Kept(t))
  <2> HIDE DEF K, n
  <2>1. n + 1 \in Int /\ \A s \in K : s < n + 1 BY <1>1, <1>3
  <2> QED BY <1>2, <1>4, <2>1, RankedAfterAdd
<1>6. ASSUME NEW k \in Kept(t)
      PROVE  Letters(t, k + 1, n + 1)
               = Erasers(t, k + 1, n + 1) + Cardinality({m \in Kept(t) : k < m})
  <2>1. CASE k = n + 1
    <3>1. {m \in Kept(t) : k < m} = {} BY <1>1, <1>2, <1>3, <2>1
    <3>2. Letters(t, k + 1, n + 1) = 0 /\ Erasers(t, k + 1, n + 1) = 0
      BY <1>1, <2>1, CountsAreNumbers
    <3>3. Cardinality({m \in Kept(t) : k < m}) = 0 BY <3>1, FS_EmptySet
    <3> QED BY <3>2, <3>3
  <2>2. CASE k \in K
    <3>1. /\ Letters(t, k + 1, n + 1) = Letters(l, k + 1, n) + 1
          /\ Erasers(t, k + 1, n + 1) = Erasers(l, k + 1, n)
      <4>1. k + 1 \in 1..(n + 1) BY <1>1, <1>3, <2>2
      <4>2. Erasers(l, k + 1, n) \in Nat BY <1>1, <4>1, CountsAreNumbers
      <4> QED BY <4>1, <4>2, OneMore
    <3>2. Letters(l, k + 1, n) = Erasers(l, k + 1, n) + Cardinality({m \in K : k < m})
      BY <2>2 DEF Tidy, Balanced
    <3>3. /\ {m \in Kept(t) : k < m} = {m \in K : k < m} \cup {n + 1}
          /\ n + 1 \notin {m \in K : k < m}
      BY <1>1, <1>2, <1>3, <2>2
    <3>4. IsFiniteSet({m \in K : k < m}) BY <1>4, FS_Subset DEF Ranked
    <3>5. Cardinality({m \in Kept(t) : k < m}) = Cardinality({m \in K : k < m}) + 1
      BY <3>3, <3>4, FS_AddElement
    <3>6. Cardinality({m \in K : k < m}) \in Nat BY <3>4, FS_CardinalityType
    <3>7. Erasers(l, k + 1, n) \in Nat BY <1>1, <1>3, <2>2, CountsAreNumbers
    <3> QED BY <3>1, <3>2, <3>5, <3>6, <3>7
  <2> QED BY <1>2, <2>1, <2>2
<1> HIDE DEF t
<1>7. Tidy(t) BY <1>1, <1>5, <1>6 DEF Tidy, Balanced
<1> QED BY <1>7 DEF t

\* ... and with an eraser more.
LEMMA TidyWithEraser ==
  ASSUME NEW S, NEW l \in Seq(S), NEW c \in S, c = "bs", Tidy(l)
  PROVE  Tidy(Append(l, c))
<1> DEFINE n == Len(l)
           t == Append(l, c)
           K == Kept(l)
           x == Nth(K, Cardinality(K))
<1>1. n \in Nat /\ Len(t) = n + 1 BY AppendProperties, LenProperties
<1>2. Kept(t) = IF K = {} THEN {} ELSE K \ {x} BY KeptWithEraser DEF Tidy
<1>3. K \subseteq 1..n BY KeptInLine
<1>4. Ranked(K) BY DEF Tidy
<1>5. CASE K = {}
  <2>1. Kept(t) = {} BY <1>2, <1>5
  <2> QED BY <2>1, RankedEmpty DEF Tidy, Balanced
<1>6. CASE K # {}
  <2>1. x \in K /\ (\A m \in K \ {x} : m < x) /\ Ranked(K \ {x}) BY <1>4, <1>6, RankedWithoutLast
  <2>2. Kept(t) = K \ {x} BY <1>2, <1>6
  <2> HIDE DEF x
  <2>3. ASSUME NEW k \in Kept(t)
        PROVE  Letters(t, k + 1, n + 1)
                 = Erasers(t, k + 1, n + 1) + Cardinality({m \in Kept(t) : k < m})
    <3>1. k \in K /\ k < x /\ k \in 1..n BY <1>3, <2>1, <2>2, <2>3
    <3>2. /\ Letters(t, k + 1, n + 1) = Letters(l, k + 1, n)
          /\ Erasers(t, k + 1, n + 1) = Erasers(l, k + 1, n) + 1
      <4>1. k + 1 \in 1..(n + 1) BY <1>1, <3>1
      <4>2. Letters(l, k + 1, n) \in Nat BY <1>1, <4>1, CountsAreNumbers
      <4> QED BY <4>1, <4>2, OneMore
    <3>3. Letters(l, k + 1, n) = Erasers(l, k + 1, n) + Cardinality({m \in K : k < m})
      BY <3>1 DEF Tidy, Balanced
    <3>4. {m \in Kept(t) : k < m} = {m \in K : k < m} \ {x} /\ x \in {m \in K : k < m}
      BY <2>1, <2>2, <3>1
    <3>5. IsFiniteSet({m \in K : k < m}) BY <1>4, FS_Subset DEF Ranked
    <3>6. Cardinality({m \in Kept(t) : k < m}) = Cardinality({m \in K : k < m}) - 1
      BY <3>4, <3>5, FS_RemoveElement
    <3>7. Cardinality({m \in K : k < m}) \in Nat BY <3>5, FS_CardinalityType
    <3>8. Erasers(l, k + 1, n) \in Nat BY <1>1, <3>1, CountsAreNumbers
    <3> QED BY <3>2, <3>3, <3>6, <3>7, <3>8
  <2> HIDE DEF t
  <2>4. Tidy(t) BY <1>1, <2>1, <2>2, <2>3 DEF Tidy, Balanced
  <2> QED BY <2>4 DEF t
<1> QED BY <1>5, <1>6

\* The text of a tidy line is a sequence as long as what is kept.
LEMMA TextIsText ==
  ASSUME NEW S, NEW l \in Seq(S), Tidy(l)
  PROVE  Text(l) \in Seq(S) /\ Len(Text(l)) = Cardinality(Kept(l)) /\ Cardinality(Kept(l)) \in Nat
<1> DEFINE C == Cardinality(Kept(l))
<1>1. C \in Nat BY FS_CardinalityType DEF Tidy, Ranked
<1>2. ASSUME NEW i \in 1..C PROVE l[Nth(Kept(l), i)] \in S
  <2>1. Nth(Kept(l), i) \in Kept(l) BY NthHasRank DEF Tidy
  <2> QED BY <2>1, KeptInLine, ElementOfSeq
<1>3. Text(l) = [i \in 1..C |-> l[Nth(Kept(l), i)]] BY DEF Text
<1> HIDE DEF C
<1>4. Text(l) \in [1..C -> S] BY <1>2, <1>3
<1>5. Text(l) \in Seq(S) BY <1>1, <1>4
<1>6. Len(Text(l)) = C BY <1>1, <1>4, <1>5, LenProperties
<1> QED BY <1>1, <1>5, <1>6 DEF C

\* A letter is added to the text ...
LEMMA TextWithLetter ==
  ASSUME NEW S, NEW l \in Seq(S), NEW c \in S, c # "bs", Tidy(l)
  PROVE  Text(Append(l, c)) = Append(Text(l), c)
<1> DEFINE n == Len(l)
           t == Append(l, c)
           K == Kept(l)
           C == Cardinality(K)
<1>1. /\ n \in Nat /\ t \in Seq(S) /\ t[n + 1] = c /\ \A i \in 1..n : t[i] = l[i]
  BY AppendProperties, LenProperties
<1>2. Tidy(t) BY TidyWithLetter
<1>3. Kept(t) = K \cup {n + 1} BY KeptWithLetter
<1>4. K \subseteq 1..n BY KeptInLine
<1>5. Ranked(K) /\ K \subseteq Int /\ IsFiniteSet(K) /\ n + 1 \in Int /\ \A s \in K : s < n + 1
  BY <1>1, <1>4 DEF Tidy, Ranked
<1> HIDE DEF t, K
<1>6. /\ C \in Nat /\ Cardinality(Kept(t)) = C + 1
      /\ \A i \in 1..C : Nth(Kept(t), i) = Nth(K, i)
      /\ Nth(Kept(t), C + 1) = n + 1
  <2> DEFINE y == n + 1
  <2>1. y \in Int /\ Kept(t) = K \cup {y} BY <1>3, <1>5
  <2>2. \A s \in K : s < y BY <1>5
  <2> HIDE DEF y
  <2>3. /\ C \in Nat /\ Cardinality(K \cup {y}) = C + 1 BY <1>5, <2>1, <2>2, AddLast
  <2>4. /\ \A i \in 1..C : Nth(K \cup {y}, i) = Nth(K, i)
        /\ Nth(K \cup {y}, C + 1) = y
    BY <1>5, <2>1, <2>2, NthAfterAdd
  <2> QED BY <2>1, <2>3, <2>4 DEF y
<1>7. \A i \in 1..C : Nth(K, i) \in 1..n BY <1>4, <1>5, NthHasRank
<1>8. Text(l) = [i \in 1..C |-> l[Nth(K, i)]] BY DEF Text, K
<1>9. Text(t) = [i \in 1..(C + 1) |-> t[Nth(Kept(t), i)]] BY <1>6 DEF Text
<1>10. Text(l) \in Seq(S) /\ Len(Text(l)) = C BY TextIsText DEF K
<1>11. Text(t) \in Seq(S) /\ Len(Text(t)) = C + 1 BY <1>1, <1>2, <1>6, TextIsText
<1>12. /\ Append(Text(l), c) \in Seq(S) /\ Len(Append(Text(l), c)) = C + 1
       /\ \A i \in 1..C : Append(Text(l), c)[i] = Text(l)[i]
       /\ Append(Text(l), c)[C + 1] = c
  BY <1>10, AppendProperties
<1>13. ASSUME NEW i \in 1..(C + 1) PROVE Text(t)[i] = Append(Text(l), c)[i]
  <2>1. CASE i = C + 1 BY <1>1, <1>6, <1>9, <1>12, <2>1
  <2>2. CASE i \in 1..C
    <3>1. Text(t)[i] = t[Nth(K, i)] BY <1>6, <1>9, <2>2
    <3>2. Text(l)[i] = l[Nth(K, i)] BY <1>8, <2>2
    <3> QED BY <1>1, <1>7, <1>12, <2>2, <3>1, <3>2
  <2>3. i = C + 1 \/ i \in 1..C
    <3> HIDE DEF C
    <3> QED BY <1>6, <1>13
  <2> QED BY <2>1, <2>2, <2>3
<1>14. Text(t) = Append(Text(l), c) BY <1>11, <1>12, <1>13, SeqEqual
<1> QED BY <1>14 DEF t

\* ... and an eraser takes the last letter from it.
LEMMA TextWithEraser ==
  ASSUME NEW S, NEW l \in Seq(S), NEW c \in S, c = "bs", Tidy(l)
  PROVE  Text(Append(l, c)) = IF Text(l) = <<>> THEN <<>> ELSE Front(Text(l))
<1> DEFINE n == Len(l)
           t == Append(l, c)
           K == Kept(l)
           C == Cardinality(K)
           x == Nth(K, C)
<1>1. n \in Nat /\ t \in Seq(S) /\ \A i \in 1..n : t[i] = l[i] BY AppendProperties, LenProperties
<1>2. Tidy(t) BY TidyWithEraser
<1>3. Kept(t) = IF K = {} THEN {} ELSE K \ {x} BY KeptWithEraser DEF Tidy
<1>4. K \subseteq 1..n BY KeptInLine
<1>5. Ranked(K) BY DEF Tidy
<1>6. Text(l) \in Seq(S) /\ Len(Text(l)) = C /\ C \in Nat BY TextIsText
<1>7. Text(l) = <<>> <=> K = {}
  <2>1. C = 0 <=> K = {} BY <1>5, FS_EmptySet DEF Ranked
  <2> HIDE DEF C, K
  <2> QED BY <1>6, <2>1
<1>8. Text(t) \in Seq(S) /\ Len(Text(t)) = Cardinality(Kept(t)) BY <1>1, <1>2, TextIsText
<1>9. CASE K = {}
  <2>1. Len(Text(t)) = 0 BY <1>3, <1>8, <1>9, FS_EmptySet
  <2> HIDE DEF t
  <2>2. Text(t) = <<>> BY <1>8, <2>1
  <2> QED BY <1>7, <1>9, <2>2 DEF t
<1>10. CASE K # {}
  <2> DEFINE R == K \ {x}
  <2>1. /\ x \in K /\ (\A m \in R : m < x) /\ Ranked(R)
        /\ Cardinality(R) + 1 = C /\ Cardinality(R) \in Nat
    BY <1>5, <1>10, RankedWithoutLast
  <2>2. Kept(t) = R /\ K = R \cup {x} BY <1>3, <1>10, <2>1
  <2>3. R \subseteq Int /\ IsFiniteSet(R) /\ x \in Int /\ R \subseteq 1..n
    BY <1>4, <2>1 DEF Ranked
  <2> HIDE DEF x
  <2>4. \A i \in 1..Cardinality(R) : Nth(K, i) = Nth(R, i)
    <3> HIDE DEF R, K
    <3>1. \A s \in R : s < x BY <2>1
    <3>2. \A i \in 1..Cardinality(R) : Nth(R \cup {x}, i) = Nth(R, i)
      BY ONLY <2>3, <3>1, NthAfterAdd
    <3>3. K = R \cup {x} BY <2>2
    <3> QED BY ONLY <3>2, <3>3
  <2>5. \A i \in 1..Cardinality(R) : Nth(R, i) \in 1..n BY <2>1, <2>3, NthHasRank
  <2>6. Text(l) = [i \in 1..C |-> l[Nth(K, i)]] BY DEF Text
  <2>7. Text(t) = [i \in 1..Cardinality(R) |-> t[Nth(R, i)]] BY <2>2 DEF Text
  <2> HIDE DEF R, K, C, t
  <2>8. Len(Text(t)) = Cardinality(R) BY <1>8, <2>2
  <2>9. /\ Front(Text(l)) \in Seq(S) /\ Len(Front(Text(l))) = Cardinality(R)
        /\ \A i \in 1..Cardinality(R) : Front(Text(l))[i] = Text(l)[i]
    <3>1. Front(Text(l)) = SubSeq(Text(l), 1, Cardinality(R)) BY <1>6, <2>1 DEF Front
    <3>2. \A i \in 1..Cardinality(R) : Text(l)[i] \in S
      <4>1. \A i \in 1..Cardinality(R) : i \in 1..Len(Text(l)) BY <1>6, <2>1
      <4> QED BY <1>6, <4>1, ElementOfSeq
    <3> QED BY <2>1, <3>1, <3>2, SubSeqProperties
  <2>10. ASSUME NEW i \in 1..Cardinality(R) PROVE Text(t)[i] = Front(Text(l))[i]
    <3>1. Text(t)[i] = t[Nth(R, i)] BY <2>7
    <3>2. Text(l)[i] = l[Nth(K, i)]
      <4>1. i \in 1..C BY <2>1, <2>10
      <4> QED BY <2>6, <4>1
    <3> QED BY <1>1, <2>4, <2>5, <2>9, <3>1, <3>2
  <2>11. Text(t) = Front(Text(l)) BY <1>8, <2>8, <2>9, <2>10, SeqEqual
  <2>12. Text(l) # <<>> BY <1>7, <1>10
  <2> QED BY <2>11, <2>12 DEF t
<1> QED BY <1>9, <1>10

\* A line fits as long as each beginning of it does.
LEMMA FitsWithOneMore ==
  ASSUME NEW S, NEW l \in Seq(S), NEW c \in S
  PROVE  Fits(Append(l, c)) <=> Fits(l) /\ Len(Text(Append(l, c))) <= LineMax
<1> DEFINE n == Len(l)
           t == Append(l, c)
<1>1. /\ n \in Nat /\ t \in Seq(S) /\ Len(t) = n + 1 /\ \A i \in 1..n : t[i] = l[i]
  BY AppendProperties, LenProperties
<1> HIDE DEF t
<1>2. ASSUME NEW j \in 1..n PROVE SubSeq(t, 1, j) = SubSeq(l, 1, j)
  <2>1. \A i \in 1..j : t[i] = l[i] /\ l[i] \in S BY <1>1, <1>2, ElementOfSeq
  <2>2. /\ SubSeq(t, 1, j) \in Seq(S) /\ Len(SubSeq(t, 1, j)) = j
        /\ \A i \in 1..j : SubSeq(t, 1, j)[i] = t[i]
    BY <1>2, <2>1, SubSeqProperties
  <2>3. /\ SubSeq(l, 1, j) \in Seq(S) /\ Len(SubSeq(l, 1, j)) = j
        /\ \A i \in 1..j : SubSeq(l, 1, j)[i] = l[i]
    BY <1>2, <2>1, SubSeqProperties
  <2> QED BY <2>1, <2>2, <2>3, SeqEqual
<1>3. SubSeq(t, 1, n + 1) = t BY <1>1, SubSeqFull
<1>4. 1..(n + 1) = (1..n) \cup {n + 1} BY <1>1
<1>5. Fits(l) <=> \A j \in 1..n : Len(Text(SubSeq(t, 1, j))) <= LineMax BY <1>2 DEF Fits
<1>6. Fits(t) <=> \A j \in 1..(n + 1) : Len(Text(SubSeq(t, 1, j))) <= LineMax BY <1>1 DEF Fits
<1> HIDE DEF n
<1>7. Fits(t) <=> Fits(l) /\ Len(Text(t)) <= LineMax BY <1>3, <1>4, <1>5, <1>6
<1> QED BY <1>7 DEF t

-----------------------------------------------------------------------------
(* One more character of all that has arrived.                             *)

\* Each line so far begins somewhere before its end, and no end is missing in
\* the list of the good ones.
Sliced(s) ==
  /\ \A k \in 1..(Len(s) + 1) : Start(s, k) \in 1..k
  /\ Ranked(Good(s))

\* Before anything has arrived there is no line.
LEMMA SlicedEmpty == Sliced(<<>>) /\ Lines(<<>>) = <<>> /\ LineTo(<<>>, 1) = <<>>
<1>1. Ends(<<>>) = {} BY DEF Ends
<1>2. Good(<<>>) = {} BY <1>1 DEF Good
<1>3. Start(<<>>, 1) = 1 BY <1>1 DEF Start, Behind
<1>4. LineTo(<<>>, 1) = <<>> BY <1>3, SubSeqEmpty DEF LineTo
<1>5. Lines(<<>>) = <<>> BY <1>2, FS_EmptySet DEF Lines
<1>6. \A k \in 1..(Len(<<>>) + 1) : Start(<<>>, k) \in 1..k
  <2>1. Len(<<>>) = 0 OBVIOUS
  <2>2. \A k \in 1..(Len(<<>>) + 1) : k = 1 BY <2>1
  <2> QED BY <1>3, <2>2
<1> QED BY <1>2, <1>4, <1>5, <1>6, RankedEmpty DEF Sliced

\* The ends of lines, one character on.
LEMMA EndsWithOneMore ==
  ASSUME NEW S, NEW s \in Seq(S), NEW c \in S
  PROVE  Ends(Append(s, c)) = IF c = "cr" THEN Ends(s) \cup {Len(s) + 1} ELSE Ends(s)
<1> DEFINE n == Len(s)
           t == Append(s, c)
<1>1. /\ n \in Nat /\ t[n + 1] = c /\ (\A i \in 1..n : t[i] = s[i])
      /\ DOMAIN s = 1..n /\ DOMAIN t = 1..(n + 1) /\ 1..(n + 1) = (1..n) \cup {n + 1}
  BY AppendProperties, LenProperties
<1> HIDE DEF n, t
<1>2. Ends(t) = IF c = "cr" THEN Ends(s) \cup {n + 1} ELSE Ends(s) BY <1>1 DEF Ends
<1> QED BY <1>2 DEF n, t

\* Where the lines begin, one character on: a new one behind an end.
LEMMA StartWithOneMore ==
  ASSUME NEW S, NEW s \in Seq(S), NEW c \in S
  PROVE  /\ \A k \in 1..(Len(s) + 1) : Start(Append(s, c), k) = Start(s, k)
         /\ Start(Append(s, c), Len(s) + 2) =
              IF c = "cr" THEN Len(s) + 2 ELSE Start(s, Len(s) + 1)
<1> DEFINE n == Len(s)
           t == Append(s, c)
<1>1. n \in Nat /\ Ends(s) \subseteq 1..n BY LenProperties DEF Ends
<1>2. Ends(t) = IF c = "cr" THEN Ends(s) \cup {n + 1} ELSE Ends(s) BY EndsWithOneMore
<1> HIDE DEF n, t
<1>3. ASSUME NEW k \in 1..(n + 1) PROVE {e \in Ends(t) : e < k} = {e \in Ends(s) : e < k}
  BY <1>1, <1>2, <1>3
<1>4. \A k \in 1..(n + 1) : Start(t, k) = Start(s, k) BY <1>3 DEF Start
<1>5. Start(t, n + 2) = IF c = "cr" THEN n + 2 ELSE Start(s, n + 1)
  <2>1. CASE c = "cr"
    <3> DEFINE E == {e \in Ends(t) : e < n + 2}
    <3>1. n + 1 \in E /\ \A e \in E : e \in Int /\ e <= n + 1 BY <1>1, <1>2, <2>1
    <3>2. E # {} BY <3>1
    <3>3. \A e \in E : (\A f \in E : f <= e) <=> e = n + 1
      <4> SUFFICES ASSUME NEW e \in E PROVE (\A f \in E : f <= e) <=> e = n + 1 OBVIOUS
      <4>1. (\A f \in E : f <= e) => n + 1 <= e BY <3>1
      <4> HIDE DEF E
      <4> QED BY <1>1, <3>1, <4>1
    <3>4. Start(t, n + 2) = Behind(E) BY DEF Start
    <3> HIDE DEF E
    <3>5. (CHOOSE e \in E : \A f \in E : f <= e) = n + 1 BY <3>1, <3>3
    <3>6. Behind(E) = 1 + (n + 1) BY <3>2, <3>5 DEF Behind
    <3> QED BY <1>1, <2>1, <3>4, <3>6
  <2>2. CASE c # "cr"
    <3>1. {e \in Ends(t) : e < n + 2} = {e \in Ends(s) : e < n + 1} BY <1>1, <1>2, <2>2
    <3> QED BY <2>2, <3>1 DEF Start
  <2> QED BY <2>1, <2>2
<1> QED BY <1>4, <1>5 DEF n, t

\* The lines, one character on: the current one is longer, or a new one begins.
LEMMA LineWithOneMore ==
  ASSUME NEW S, NEW s \in Seq(S), NEW c \in S, Sliced(s)
  PROVE  /\ \A k \in 1..(Len(s) + 1) : LineTo(Append(s, c), k) = LineTo(s, k)
         /\ LineTo(s, Len(s) + 1) \in Seq(S)
         /\ LineTo(Append(s, c), Len(s) + 2) =
              IF c = "cr" THEN <<>> ELSE Append(LineTo(s, Len(s) + 1), c)
<1> DEFINE n == Len(s)
           t == Append(s, c)
           b == Start(s, n + 1)
<1>1. n \in Nat /\ t[n + 1] = c /\ (\A i \in 1..n : t[i] = s[i] /\ s[i] \in S)
  BY AppendProperties, LenProperties, ElementOfSeq
<1>2. /\ \A k \in 1..(n + 1) : Start(t, k) = Start(s, k) /\ Start(s, k) \in 1..k
      /\ Start(t, n + 2) = IF c = "cr" THEN n + 2 ELSE b
  BY StartWithOneMore DEF Sliced
<1>3. b \in 1..(n + 1)
  <2>1. n + 1 \in 1..(n + 1) BY <1>1
  <2> QED BY <1>2, <2>1
<1> HIDE DEF n, t, b
<1>4. ASSUME NEW k \in 1..(n + 1) PROVE LineTo(t, k) = LineTo(s, k)
  <2> DEFINE a == Start(s, k)
  <2>1. Start(t, k) = a /\ a \in 1..k BY <1>2
  <2> HIDE DEF a
  <2>2. \A i \in a..(k - 1) : i \in 1..n BY <1>1, <1>4, <2>1
  <2>3. \A i \in a..(k - 1) : t[i] = s[i] /\ s[i] \in S BY <1>1, <2>2
  <2>4. /\ SubSeq(t, a, k - 1) \in Seq(S)
        /\ Len(SubSeq(t, a, k - 1)) = IF a <= k - 1 THEN k - 1 - a + 1 ELSE 0
        /\ \A i \in 1..(k - 1 - a + 1) : SubSeq(t, a, k - 1)[i] = t[a + i - 1]
    BY <1>1, <1>4, <2>1, <2>3, SubSeqProperties
  <2>5. /\ SubSeq(s, a, k - 1) \in Seq(S)
        /\ Len(SubSeq(s, a, k - 1)) = IF a <= k - 1 THEN k - 1 - a + 1 ELSE 0
        /\ \A i \in 1..(k - 1 - a + 1) : SubSeq(s, a, k - 1)[i] = s[a + i - 1]
    BY <1>1, <1>4, <2>1, <2>3, SubSeqProperties
  <2>6. ASSUME NEW i \in 1..Len(SubSeq(t, a, k - 1))
        PROVE  SubSeq(t, a, k - 1)[i] = SubSeq(s, a, k - 1)[i]
    <3>1. i \in 1..(k - 1 - a + 1) /\ a + i - 1 \in a..(k - 1) BY <1>1, <1>4, <2>1, <2>4, <2>6
    <3> QED BY <2>3, <2>4, <2>5, <3>1
  <2>7. SubSeq(t, a, k - 1) = SubSeq(s, a, k - 1) BY <2>4, <2>5, <2>6, SeqEqual
  <2> QED BY <2>1, <2>7 DEF LineTo, a
<1>5. LineTo(s, n + 1) = SubSeq(s, b, n)
  <2> DEFINE m == n + 1
  <2>1. m - 1 = n /\ b = Start(s, m) BY <1>1 DEF b
  <2> HIDE DEF m
  <2>2. LineTo(s, m) = SubSeq(s, b, n) BY <2>1 DEF LineTo
  <2> QED BY <2>2 DEF m
<1>6. /\ SubSeq(s, b, n) \in Seq(S) /\ Len(SubSeq(s, b, n)) = n - b + 1
      /\ \A i \in 1..(n - b + 1) : SubSeq(s, b, n)[i] = s[b + i - 1]
  <2>1. \A i \in b..n : s[i] \in S BY <1>1, <1>3
  <2>2. /\ SubSeq(s, b, n) \in Seq(S) /\ Len(SubSeq(s, b, n)) = IF b <= n THEN n - b + 1 ELSE 0
        /\ \A i \in 1..(n - b + 1) : SubSeq(s, b, n)[i] = s[b + i - 1]
    BY <1>1, <1>3, <2>1, SubSeqProperties
  <2> QED BY <1>1, <1>3, <2>2
<1>7. LineTo(t, n + 2) = IF c = "cr" THEN <<>> ELSE Append(LineTo(s, n + 1), c)
  <2> DEFINE m == n + 2
             y == Start(t, m)
  <2>1. m - 1 = n + 1 BY <1>1
  <2> HIDE DEF m
  <2>2. LineTo(t, m) = SubSeq(t, y, n + 1) BY <2>1 DEF LineTo
  <2> HIDE DEF y
  <2>3. CASE c = "cr"
    <3>0. y = n + 2 BY <1>2, <2>3 DEF y, m
    <3>1. LineTo(t, n + 2) = SubSeq(t, n + 2, n + 1) BY <2>2, <3>0 DEF m
    <3>2. n + 2 \in Int /\ n + 1 \in Int /\ n + 1 < n + 2 BY <1>1
    <3> QED BY <2>3, <3>1, <3>2, SubSeqEmpty
  <2>4. CASE c # "cr"
    <3> DEFINE l == SubSeq(s, b, n)
               u == SubSeq(t, b, n + 1)
    <3>0. y = b BY <1>2, <2>4 DEF y, m
    <3>1. LineTo(t, n + 2) = u BY <2>2, <3>0 DEF m
    <3>2. /\ Append(l, c) \in Seq(S) /\ Len(Append(l, c)) = n - b + 2
          /\ \A i \in 1..(n - b + 1) : Append(l, c)[i] = s[b + i - 1]
          /\ Append(l, c)[n - b + 2] = c
      <4> HIDE DEF l
      <4>1. l \in Seq(S) /\ Len(l) = n - b + 1 /\ \A i \in 1..(n - b + 1) : l[i] = s[b + i - 1]
        BY <1>6 DEF l
      <4>2. n - b + 1 + 1 = n - b + 2 BY <1>1, <1>3
      <4> QED BY <4>1, <4>2, AppendProperties
    <3>3. \A i \in b..(n + 1) : t[i] \in S BY <1>1, <1>3
    <3>4. /\ u \in Seq(S) /\ Len(u) = n - b + 2
          /\ \A i \in 1..(n - b + 2) : u[i] = t[b + i - 1]
      <4>1. /\ u \in Seq(S) /\ Len(u) = IF b <= n + 1 THEN n + 1 - b + 1 ELSE 0
            /\ \A i \in 1..(n + 1 - b + 1) : u[i] = t[b + i - 1]
        BY <1>1, <1>3, <3>3, SubSeqProperties
      <4>2. b <= n + 1 /\ n + 1 - b + 1 = n - b + 2 BY <1>1, <1>3
      <4> HIDE DEF u
      <4> QED BY <4>1, <4>2
    <3> HIDE DEF u, l
    <3>5. ASSUME NEW i \in 1..(n - b + 2) PROVE u[i] = Append(l, c)[i]
      <4>1. CASE i = n - b + 2
        <5>1. b + i - 1 = n + 1 BY <1>1, <1>3, <4>1
        <5> QED BY <1>1, <3>2, <3>4, <4>1, <5>1
      <4>2. CASE i \in 1..(n - b + 1)
        <5>1. b + i - 1 \in 1..n BY <1>1, <1>3, <4>2
        <5> QED BY <1>1, <3>2, <3>4, <4>2, <5>1
      <4>3. i = n - b + 2 \/ i \in 1..(n - b + 1) BY <1>1, <1>3, <3>5
      <4> QED BY <4>1, <4>2, <4>3
    <3>6. u = Append(l, c) BY <3>2, <3>4, <3>5, SeqEqual
    <3> QED BY <1>5, <2>4, <3>1, <3>6 DEF l
  <2> QED BY <2>3, <2>4
<1> QED BY <1>4, <1>5, <1>6, <1>7 DEF n, t

\* The lines with a character more: a new one if it ends a good one.
LEMMA LinesWithOneMore ==
  ASSUME NEW S, NEW s \in Seq(S), NEW c \in S, Sliced(s)
  PROVE  LET l == LineTo(s, Len(s) + 1)
         IN  /\ Sliced(Append(s, c))
             /\ Lines(Append(s, c)) = IF c = "cr" /\ Fits(l) /\ Text(l) # <<>>
                                      THEN Append(Lines(s), Text(l)) ELSE Lines(s)
<1> DEFINE n == Len(s)
           t == Append(s, c)
           l == LineTo(s, n + 1)
           G == Good(s)
<1>1. n \in Nat /\ Len(t) = n + 1 BY AppendProperties, LenProperties
<1>2. /\ \A k \in 1..(n + 1) : LineTo(t, k) = LineTo(s, k)
      /\ Ends(t) = IF c = "cr" THEN Ends(s) \cup {n + 1} ELSE Ends(s)
      /\ \A k \in 1..(n + 1) : Start(t, k) = Start(s, k) /\ Start(s, k) \in 1..k
      /\ Start(t, n + 2) = IF c = "cr" THEN n + 2 ELSE Start(s, n + 1)
  BY LineWithOneMore, EndsWithOneMore, StartWithOneMore DEF Sliced
<1>3. Ends(s) \subseteq 1..n /\ G \subseteq 1..n BY LenProperties DEF Ends, Good
<1>4. Ranked(G) BY DEF Sliced
<1> HIDE DEF n, t
<1>5. \A k \in 1..(n + 2) : Start(t, k) \in 1..k
  <2> SUFFICES ASSUME NEW k \in 1..(n + 2) PROVE Start(t, k) \in 1..k OBVIOUS
  <2>1. CASE k \in 1..(n + 1) BY <1>2, <2>1
  <2>2. CASE k = n + 2
    <3>1. n + 1 \in 1..(n + 1) BY <1>1
    <3>2. Start(s, n + 1) \in 1..(n + 1) BY <1>2, <3>1
    <3> QED BY <1>1, <1>2, <2>2, <3>2
  <2> QED BY <1>1, <2>1, <2>2
<1>6. Good(t) = IF c = "cr" /\ Fits(l) /\ Text(l) # <<>> THEN G \cup {n + 1} ELSE G
  <2>1. \A k \in Ends(s) : LineTo(t, k) = LineTo(s, k) BY <1>1, <1>2, <1>3
  <2>2. LineTo(t, n + 1) = l BY <1>1, <1>2
  <2> HIDE DEF l
  <2>3. CASE c = "cr" BY <1>2, <2>1, <2>2, <2>3 DEF Good
  <2>4. CASE c # "cr" BY <1>2, <2>1, <2>4 DEF Good
  <2> QED BY <2>3, <2>4
<1> HIDE DEF l
<1>7. n + 1 \in Int /\ G \subseteq Int /\ IsFiniteSet(G) /\ \A k \in G : k < n + 1
  BY <1>1, <1>3, <1>4 DEF Ranked
<1> DEFINE C == Cardinality(G)
<1>8. C \in Nat /\ \A i \in 1..C : Nth(G, i) \in 1..n
  BY <1>3, <1>4, <1>7, NthHasRank, FS_CardinalityType
<1>9. Lines(s) = [i \in 1..C |-> Text(LineTo(s, Nth(G, i)))] BY DEF Lines
<1>10. \A i \in 1..C : LineTo(t, Nth(G, i)) = LineTo(s, Nth(G, i)) BY <1>1, <1>2, <1>8
<1>11. CASE c = "cr" /\ Fits(l) /\ Text(l) # <<>>
  <2> DEFINE y == n + 1
             T == G \cup {y}
  <2>1. Good(t) = T BY <1>6, <1>11
  <2>2. y \in Int /\ \A k \in G : k < y BY <1>7
  <2>3. LineTo(t, y) = l BY <1>1, <1>2 DEF l
  <2> HIDE DEF y, G
  <2>4. Ranked(T) BY <1>4, <2>2, RankedAfterAdd
  <2>5. Cardinality(T) = C + 1 BY <1>7, <2>2, AddLast
  <2>6. (\A i \in 1..C : Nth(T, i) = Nth(G, i)) /\ Nth(T, C + 1) = y
    BY <1>7, <2>2, NthAfterAdd
  <2>7. Lines(t) = [i \in 1..(C + 1) |-> Text(LineTo(t, Nth(T, i)))] BY <2>1, <2>5 DEF Lines
  <2> HIDE DEF T, C
  <2> DEFINE V == {Text(LineTo(s, Nth(G, i))) : i \in 1..C} \cup {Text(l)}
  <2>8. Lines(s) \in Seq(V) /\ Len(Lines(s)) = C
    <3>1. Lines(s) \in [1..C -> V] BY <1>9
    <3> HIDE DEF V
    <3>2. Lines(s) \in Seq(V) BY <1>8, <3>1
    <3> QED BY <1>8, <3>1, <3>2, LenProperties
  <2>9. Text(l) \in V OBVIOUS
  <2>10. ASSUME NEW i \in 1..(C + 1) PROVE Lines(t)[i] = IF i = C + 1 THEN Text(l) ELSE Lines(s)[i]
    <3>1. CASE i = C + 1 BY <2>3, <2>6, <2>7, <3>1
    <3>2. CASE i \in 1..C BY <1>8, <1>9, <1>10, <2>6, <2>7, <3>2
    <3>3. i = C + 1 \/ i \in 1..C BY <1>8, <2>10
    <3> QED BY <3>1, <3>2, <3>3
  <2> HIDE DEF V
  <2>11. /\ Append(Lines(s), Text(l)) \in Seq(V) /\ Len(Append(Lines(s), Text(l))) = C + 1
         /\ \A i \in 1..C : Append(Lines(s), Text(l))[i] = Lines(s)[i]
         /\ Append(Lines(s), Text(l))[C + 1] = Text(l)
    BY <2>8, <2>9, AppendProperties
  <2>12. Lines(t) = Append(Lines(s), Text(l))
    <3>1. \A i \in 1..(C + 1) : i = C + 1 \/ i \in 1..C BY <1>8
    <3>2. \A i \in 1..(C + 1) : Lines(t)[i] = Append(Lines(s), Text(l))[i]
      BY <2>10, <2>11, <3>1
    <3>3. \A i \in 1..(C + 1) : Append(Lines(s), Text(l))[i] \in V
      BY <2>11, ElementOfSeq
    <3>4. Lines(t) \in [1..(C + 1) -> V] BY <2>7, <3>2, <3>3
    <3>5. Lines(t) \in Seq(V) /\ Len(Lines(t)) = C + 1
      <4>1. C + 1 \in Nat BY <1>8
      <4>2. Lines(t) \in Seq(V) BY <3>4, <4>1
      <4> QED BY <3>4, <4>1, <4>2, LenProperties
    <3> QED BY <2>11, <3>2, <3>5, SeqEqual
  <2>13. Sliced(t) BY <1>1, <1>5, <2>1, <2>4 DEF Sliced
  <2> QED BY <1>11, <2>12, <2>13 DEF l, n, t
<1>12. CASE ~(c = "cr" /\ Fits(l) /\ Text(l) # <<>>)
  <2>1. Good(t) = G BY <1>6, <1>12
  <2>2. Lines(t) = [i \in 1..C |-> Text(LineTo(t, Nth(G, i)))] BY <2>1 DEF Lines
  <2>3. Lines(t) = Lines(s) BY <1>9, <1>10, <2>2
  <2>4. Sliced(t) BY <1>1, <1>4, <1>5, <2>1 DEF Sliced
  <2> QED BY <1>12, <2>3, <2>4 DEF l, n, t
<1> QED BY <1>11, <1>12

-----------------------------------------------------------------------------
(* The ring and the reader.                                                *)

\* The first m of a sequence.
LEMMA FirstOnes ==
  ASSUME NEW S, NEW s \in Seq(S), NEW m \in 0..Len(s)
  PROVE  /\ SubSeq(s, 1, m) \in Seq(S) /\ Len(SubSeq(s, 1, m)) = m
         /\ \A i \in 1..m : SubSeq(s, 1, m)[i] = s[i]
<1>1. Len(s) \in Nat /\ m \in Nat BY LenProperties
<1>2. \A i \in 1..m : s[i] \in S BY <1>1, ElementOfSeq
<1>3. /\ SubSeq(s, 1, m) \in Seq(S)
      /\ Len(SubSeq(s, 1, m)) = IF 1 <= m THEN m - 1 + 1 ELSE 0
      /\ \A i \in 1..(m - 1 + 1) : SubSeq(s, 1, m)[i] = s[1 + i - 1]
  BY <1>1, <1>2, SubSeqProperties
<1> QED BY <1>1, <1>3

\* A sequence with one more.
LEMMA OneBehind ==
  ASSUME NEW S, NEW s \in Seq(S), NEW c \in S, NEW n, Len(s) = n
  PROVE  /\ Append(s, c) \in Seq(S) /\ Len(Append(s, c)) = n + 1 /\ Append(s, c)[n + 1] = c
         /\ \A i \in 1..n : Append(s, c)[i] = s[i]
BY AppendProperties

\* The ring holds the last of what has arrived.
Queued ==
  /\ wire \in Seq(Chars) /\ rxd \in Seq(Chars) /\ rx_ring \in Seq(Chars)
  /\ Len(rx_ring) <= Len(rxd)
  /\ \A k \in 1..Len(rx_ring) : rx_ring[k] = rxd[Len(rxd) - Len(rx_ring) + k]

\* What the reader has made of the characters s: the lines it has handed over, the
\* line it is at, and whether it is dropping that one.
Reader(s, g, ln, d) ==
  LET l == LineTo(s, Len(s) + 1)
  IN  /\ s \in Seq(Chars) /\ Sliced(s) /\ Tidy(l)
      /\ g = Lines(s)
      /\ IF d THEN ~Fits(l) /\ ln = <<>> ELSE Fits(l) /\ ln = Text(l)

\* As long as nothing is dropped, the reader has made of the characters it has taken
\* what their definition says, and the ring holds the rest.
LineInv ==
  /\ wire \in Seq(Chars) /\ rx_overflow \in Nat /\ drain \in BOOLEAN
  /\ rx_overflow = 0 => Queued /\ Reader(Consumed, got, line, drain)

\* A character that finds room in the ring changes nothing for the reader.
LEMMA ReceiveQueues ==
  ASSUME Queued, Receive, Len(rx_ring) < RingCap
  PROVE  Queued' /\ Consumed' = Consumed
<1> DEFINE c == Head(wire)
           m == Len(rx_ring)
           n == Len(rxd)
<1>1. /\ c \in Chars /\ wire' \in Seq(Chars)
      /\ rxd' = Append(rxd, c) /\ rx_ring' = Append(rx_ring, c)
  BY HeadTailProperties DEF Queued, Receive
<1> HIDE DEF c
<1>2. /\ rxd' \in Seq(Chars) /\ Len(rxd') = n + 1 /\ n \in Nat /\ rxd'[n + 1] = c
      /\ \A i \in 1..n : rxd'[i] = rxd[i]
  BY <1>1, AppendProperties, LenProperties DEF Queued
<1>3. /\ rx_ring' \in Seq(Chars) /\ Len(rx_ring') = m + 1 /\ m \in Nat /\ rx_ring'[m + 1] = c
      /\ \A i \in 1..m : rx_ring'[i] = rx_ring[i]
  BY <1>1, AppendProperties, LenProperties DEF Queued
<1>4. m <= n /\ \A k \in 1..m : rx_ring[k] = rxd[n - m + k] BY DEF Queued
<1> HIDE DEF m, n
<1>5. ASSUME NEW k \in 1..(m + 1) PROVE rx_ring'[k] = rxd'[n - m + k]
  <2>1. CASE k = m + 1
    <3>1. n - m + k = n + 1 BY <1>2, <1>3, <2>1
    <3> QED BY <1>2, <1>3, <2>1, <3>1
  <2>2. CASE k \in 1..m
    <3>1. n - m + k \in 1..n BY <1>2, <1>3, <1>4, <2>2
    <3> QED BY <1>2, <1>3, <1>4, <2>2, <3>1
  <2> QED BY <1>3, <1>5, <2>1, <2>2
<1>6. Queued'
  <2>1. n + 1 - (m + 1) = n - m /\ m + 1 <= n + 1 BY <1>2, <1>3, <1>4
  <2>2. Len(rx_ring') <= Len(rxd') BY <1>2, <1>3, <2>1
  <2>3. \A k \in 1..Len(rx_ring') : rx_ring'[k] = rxd'[Len(rxd') - Len(rx_ring') + k]
    BY <1>2, <1>3, <1>5, <2>1
  <2> QED BY <1>1, <1>2, <1>3, <2>2, <2>3 DEF Queued
<1>7. /\ Consumed \in Seq(Chars) /\ Len(Consumed) = n - m
      /\ \A i \in 1..(n - m) : Consumed[i] = rxd[i]
  <2>1. n - m \in 0..n BY <1>2, <1>3, <1>4
  <2>2. Consumed = SubSeq(rxd, 1, n - m) /\ Len(rxd) = n BY DEF Consumed, m, n
  <2> HIDE DEF Consumed
  <2> QED BY <2>1, <2>2, FirstOnes DEF Queued
<1>8. /\ Consumed' \in Seq(Chars) /\ Len(Consumed') = n - m
      /\ \A i \in 1..(n - m) : Consumed'[i] = rxd'[i]
  <2>1. n + 1 - (m + 1) = n - m /\ n - m \in 0..(n + 1) BY <1>2, <1>3, <1>4
  <2>2. Consumed' = SubSeq(rxd', 1, Len(rxd') - Len(rx_ring')) BY DEF Consumed
  <2>3. Consumed' = SubSeq(rxd', 1, n - m) BY <1>2, <1>3, <2>1, <2>2
  <2> QED BY <1>2, <2>1, <2>3, FirstOnes
<1>9. Len(Consumed') = n - m BY <1>8
<1>10. \A i \in 1..(n - m) : Consumed'[i] = Consumed[i]
  <2> SUFFICES ASSUME NEW i \in 1..(n - m) PROVE Consumed'[i] = Consumed[i] OBVIOUS
  <2>1. i \in 1..n BY <1>2, <1>3, <1>4
  <2> QED BY <1>2, <1>7, <1>8, <1>9, <2>1
<1> QED BY <1>6, <1>7, <1>8, <1>9, <1>10, SeqEqual

\* The reader takes the next of what has arrived.
LEMMA TakeOne ==
  ASSUME Queued, rx_ring # <<>>, rx_ring' = Tail(rx_ring), UNCHANGED <<wire, rxd>>
  PROVE  /\ Queued' /\ Head(rx_ring) \in Chars
         /\ Consumed' = Append(Consumed, Head(rx_ring))
<1> DEFINE c == Head(rx_ring)
           m == Len(rx_ring)
           n == Len(rxd)
<1>1. /\ m \in Nat \ {0} /\ n \in Nat /\ m <= n
      /\ c \in Chars /\ c = rx_ring[1]
      /\ rx_ring' \in Seq(Chars) /\ Len(rx_ring') = m - 1
      /\ \A i \in 1..(m - 1) : rx_ring'[i] = rx_ring[i + 1]
      /\ \A k \in 1..m : rx_ring[k] = rxd[n - m + k]
  BY HeadTailProperties, LenProperties, EmptySeq DEF Queued
<1> HIDE DEF c, m, n
<1>2. ASSUME NEW k \in 1..(m - 1) PROVE rx_ring'[k] = rxd[n - (m - 1) + k]
  <2>1. k + 1 \in 1..m /\ n - m + (k + 1) = n - (m - 1) + k BY <1>1
  <2> QED BY <1>1, <1>2, <2>1
<1>3. Queued'
  <2>1. m - 1 <= n BY <1>1
  <2> QED BY <1>1, <1>2, <2>1 DEF Queued, n
<1>4. /\ Consumed \in Seq(Chars) /\ Len(Consumed) = n - m
      /\ \A i \in 1..(n - m) : Consumed[i] = rxd[i]
  <2>1. n - m \in 0..n BY <1>1
  <2>2. Consumed = SubSeq(rxd, 1, n - m) /\ Len(rxd) = n BY DEF Consumed, m, n
  <2> QED BY <2>1, <2>2, FirstOnes DEF Queued
<1>5. /\ Consumed' \in Seq(Chars) /\ Len(Consumed') = n - (m - 1)
      /\ \A i \in 1..(n - (m - 1)) : Consumed'[i] = rxd[i]
  <2>1. n - (m - 1) \in 0..n BY <1>1
  <2>2. Consumed' = SubSeq(rxd', 1, Len(rxd') - Len(rx_ring')) BY DEF Consumed
  <2>3. rxd' = rxd /\ Len(rxd) = n BY DEF n
  <2>4. Consumed' = SubSeq(rxd, 1, n - (m - 1)) BY <1>1, <2>2, <2>3
  <2> QED BY <2>1, <2>3, <2>4, FirstOnes DEF Queued
<1> DEFINE a == Append(Consumed, c)
<1>6. /\ a \in Seq(Chars) /\ Len(a) = n - m + 1 /\ a[n - m + 1] = c
      /\ \A i \in 1..(n - m) : a[i] = Consumed[i]
  <2> DEFINE z == Consumed
             k == n - m
  <2>1. z \in Seq(Chars) /\ Len(z) = k /\ c \in Chars BY <1>1, <1>4
  <2> HIDE DEF z, k
  <2>2. /\ Append(z, c) \in Seq(Chars) /\ Len(Append(z, c)) = k + 1 /\ Append(z, c)[k + 1] = c
        /\ \A i \in 1..k : Append(z, c)[i] = z[i]
    BY <2>1, OneBehind
  <2> QED BY <2>2 DEF z, k
<1> HIDE DEF a
<1>7. n - (m - 1) = n - m + 1 /\ n - m \in Nat BY <1>1
<1>8. ASSUME NEW i \in 1..(n - m + 1) PROVE Consumed'[i] = a[i]
  <2>1. CASE i = n - m + 1
    <3>1. 1 \in 1..m BY <1>1
    <3>2. c = rxd[n - m + 1] BY <1>1, <3>1
    <3> QED BY <1>5, <1>6, <1>7, <1>8, <2>1, <3>2
  <2>2. CASE i \in 1..(n - m) BY <1>4, <1>5, <1>6, <1>7, <1>8, <2>2
  <2> QED BY <1>7, <1>8, <2>1, <2>2
<1>9. Consumed' = a BY <1>5, <1>6, <1>7, <1>8, SeqEqual
<1> QED BY <1>1, <1>3, <1>9 DEF a, c

\* The text of a line that fits is short enough.
LEMMA FittingText ==
  ASSUME NEW S, NEW l \in Seq(S), Tidy(l), Fits(l)
  PROVE  Len(Text(l)) \in Nat /\ Len(Text(l)) <= LineMax
<1>1. Len(l) \in Nat /\ Text(l) \in Seq(S) /\ Len(Text(l)) = Cardinality(Kept(l))
      /\ Cardinality(Kept(l)) \in Nat /\ LineMax \in Nat
  BY TextIsText, LenProperties, UartRxAssumption
<1>2. CASE Len(l) = 0
  <2>1. Kept(l) = {}
    <3>1. 1..Len(l) = {} BY <1>2
    <3> QED BY <3>1, KeptInLine
  <2> QED BY <1>1, <2>1, FS_EmptySet
<1>3. CASE Len(l) # 0
  <2>1. Len(l) \in 1..Len(l) BY <1>1, <1>3
  <2>2. SubSeq(l, 1, Len(l)) = l BY SubSeqFull
  <2>3. Len(Text(SubSeq(l, 1, Len(l)))) <= LineMax BY <2>1 DEF Fits
  <2> QED BY <1>1, <2>2, <2>3
<1> QED BY <1>2, <1>3

\* The empty line.
LEMMA EmptyLine == Tidy(<<>>) /\ Text(<<>>) = <<>> /\ Fits(<<>>)
<1>1. Kept(<<>>) = {} BY TidyEmpty
<1>2. Text(<<>>) = <<>> BY <1>1, FS_EmptySet DEF Text
<1>3. Fits(<<>>) BY DEF Fits
<1> QED BY <1>2, <1>3, TidyEmpty

\* The reader takes the end of a line: it hands the line over and starts the next.
LEMMA ReaderAtEnd ==
  ASSUME NEW s, NEW g, NEW ln, NEW d \in BOOLEAN, Reader(s, g, ln, d), "cr" \in Chars
  PROVE  Reader(Append(s, "cr"), IF d \/ ln = <<>> THEN g ELSE Append(g, ln), <<>>, FALSE)
<1> DEFINE l == LineTo(s, Len(s) + 1)
           t == Append(s, "cr")
<1>1. s \in Seq(Chars) /\ Sliced(s) /\ g = Lines(s)
      /\ IF d THEN ~Fits(l) /\ ln = <<>> ELSE Fits(l) /\ ln = Text(l)
  BY DEF Reader
<1>2. t \in Seq(Chars) /\ Len(t) + 1 = Len(s) + 2
  <2>1. t \in Seq(Chars) /\ Len(t) = Len(s) + 1 /\ Len(s) \in Nat
    BY <1>1, AppendProperties, LenProperties
  <2> QED BY <2>1
<1>3. /\ Sliced(t)
      /\ Lines(t) = IF Fits(l) /\ Text(l) # <<>> THEN Append(Lines(s), Text(l)) ELSE Lines(s)
  BY <1>1, LinesWithOneMore
<1>4. LineTo(t, Len(s) + 2) = <<>> BY <1>1, LineWithOneMore
<1>5. LineTo(t, Len(t) + 1) = <<>> BY <1>2, <1>4
<1> HIDE DEF t, l
<1>6. Lines(t) = IF d \/ ln = <<>> THEN g ELSE Append(g, ln) BY <1>1, <1>3
<1>7. Reader(t, IF d \/ ln = <<>> THEN g ELSE Append(g, ln), <<>>, FALSE)
  BY <1>2, <1>3, <1>5, <1>6, EmptyLine DEF Reader
<1> QED BY <1>7 DEF t

\* The reader takes a letter or an eraser.
LEMMA ReaderInLine ==
  ASSUME NEW s, NEW g, NEW ln, NEW d \in BOOLEAN, Reader(s, g, ln, d),
         NEW c \in Chars, c # "cr"
  PROVE  /\ d => Reader(Append(s, c), g, <<>>, TRUE)
         /\ ~d /\ c = "bs" => Reader(Append(s, c), g, IF ln = <<>> THEN ln ELSE Front(ln), FALSE)
         /\ ~d /\ c # "bs" /\ Len(ln) >= LineMax => Reader(Append(s, c), g, <<>>, TRUE)
         /\ ~d /\ c # "bs" /\ ~(Len(ln) >= LineMax) => Reader(Append(s, c), g, Append(ln, c), FALSE)
<1> DEFINE l == LineTo(s, Len(s) + 1)
           t == Append(s, c)
           x == Append(l, c)
<1>1. s \in Seq(Chars) /\ Sliced(s) /\ Tidy(l) /\ g = Lines(s)
      /\ IF d THEN ~Fits(l) /\ ln = <<>> ELSE Fits(l) /\ ln = Text(l)
  BY DEF Reader
<1>2. t \in Seq(Chars) /\ Len(t) + 1 = Len(s) + 2
  <2>1. t \in Seq(Chars) /\ Len(t) = Len(s) + 1 /\ Len(s) \in Nat
    BY <1>1, AppendProperties, LenProperties
  <2> QED BY <2>1
<1>3. Sliced(t) /\ Lines(t) = g BY <1>1, LinesWithOneMore
<1>4. l \in Seq(Chars) /\ LineTo(t, Len(s) + 2) = x BY <1>1, LineWithOneMore
<1>5. LineTo(t, Len(t) + 1) = x BY <1>2, <1>4
<1> HIDE DEF t, l
<1>6. Tidy(x) BY <1>1, <1>4, TidyWithLetter, TidyWithEraser
<1>7. Fits(x) <=> Fits(l) /\ Len(Text(x)) <= LineMax BY <1>4, FitsWithOneMore
<1> HIDE DEF x
<1>8. /\ ~Fits(x) => Reader(t, g, <<>>, TRUE)
      /\ Fits(x) => Reader(t, g, Text(x), FALSE)
  BY <1>2, <1>3, <1>5, <1>6 DEF Reader
<1>9. d => Reader(t, g, <<>>, TRUE) BY <1>1, <1>7, <1>8
<1>10. ASSUME ~d
       PROVE  /\ Text(l) \in Seq(Chars) /\ Len(Text(l)) \in Nat /\ Len(Text(l)) <= LineMax
              /\ Fits(l) /\ ln = Text(l) /\ LineMax \in Nat
  BY <1>1, <1>4, <1>10, FittingText, TextIsText, UartRxAssumption
<1>11. ASSUME ~d, c = "bs"
       PROVE  Reader(t, g, IF ln = <<>> THEN ln ELSE Front(ln), FALSE)
  <2>1. Text(x) = IF ln = <<>> THEN ln ELSE Front(ln)
    BY <1>1, <1>4, <1>10, <1>11, TextWithEraser DEF x
  <2>2. Len(Text(x)) <= LineMax
    <3>1. CASE ln = <<>> BY <1>10, <1>11, <2>1, <3>1
    <3>2. CASE ln # <<>>
      <4>0. ln \in Seq(Chars) BY <1>10, <1>11
      <4>1. Len(ln) \in Nat \ {0} BY <3>2, <4>0, EmptySeq, LenProperties
      <4>2. Len(Front(ln)) = Len(ln) - 1
        <5>1. Len(ln) - 1 \in 0..Len(ln) BY <4>1
        <5> QED BY <4>0, <5>1, FirstOnes DEF Front
      <4> QED BY <1>10, <1>11, <2>1, <3>2, <4>1, <4>2
    <3> QED BY <3>1, <3>2
  <2> QED BY <1>7, <1>8, <1>10, <1>11, <2>1, <2>2
<1>12. ASSUME ~d, c # "bs"
       PROVE  /\ Len(ln) >= LineMax => Reader(t, g, <<>>, TRUE)
              /\ ~(Len(ln) >= LineMax) => Reader(t, g, Append(ln, c), FALSE)
  <2>1. Text(x) = Append(ln, c) BY <1>1, <1>4, <1>10, <1>12, TextWithLetter DEF x
  <2>2. Len(Append(ln, c)) = Len(ln) + 1 BY <1>10, <1>12, AppendProperties
  <2>3. Len(Text(x)) <= LineMax <=> Len(ln) < LineMax BY <1>10, <1>12, <2>1, <2>2
  <2>4. Len(ln) >= LineMax <=> ~(Len(ln) < LineMax) BY <1>10, <1>12
  <2> QED BY <1>7, <1>8, <1>10, <1>12, <2>1, <2>3, <2>4
<1> QED BY <1>9, <1>11, <1>12 DEF t

\* At first nothing has arrived and nothing is handed over.
LEMMA InitLines == Init => LineInv
<1> SUFFICES ASSUME Init PROVE LineInv OBVIOUS
<1>1. wire \in Seq(Chars)
  <2>1. wire \in Seq(Range(wire)) /\ Range(wire) \subseteq Chars
    BY UartRxAssumption DEF Init, Chars
  <2> QED BY <2>1, SeqMonotonic
<1>2. rxd = <<>> /\ rx_ring = <<>> /\ <<>> \in Seq(Chars) /\ Len(<<>>) = 0 BY EmptySeq DEF Init
<1>3. Queued BY <1>1, <1>2 DEF Queued
<1>4. Consumed = <<>>
  <2>1. Len(rxd) - Len(rx_ring) = 0 BY <1>2
  <2>2. Consumed = SubSeq(<<>>, 1, 0) BY <1>2, <2>1 DEF Consumed
  <2> QED BY <2>2, SubSeqEmpty
<1>5. LineTo(<<>>, Len(<<>>) + 1) = <<>>
  <2>1. Len(<<>>) + 1 = 1 BY <1>2
  <2> QED BY <2>1, SlicedEmpty
<1>6. Reader(<<>>, got, line, drain) BY <1>2, <1>5, SlicedEmpty, EmptyLine DEF Reader, Init
<1> QED BY <1>1, <1>3, <1>4, <1>6 DEF LineInv, Init

\* A character that arrives is nothing to the reader yet.
LEMMA ReceiveLines == ASSUME LineInv, Receive PROVE LineInv'
<1>1. wire' \in Seq(Chars) /\ drain' \in BOOLEAN
  BY HeadTailProperties DEF LineInv, Receive, lineVars
<1>2. rx_overflow' \in Nat /\ (rx_overflow' = 0 => rx_overflow = 0 /\ Len(rx_ring) < RingCap)
  BY DEF LineInv, Receive
<1>3. ASSUME rx_overflow' = 0 PROVE Queued' /\ Reader(Consumed, got, line, drain)'
  <2>1. Queued /\ Reader(Consumed, got, line, drain) BY <1>2, <1>3 DEF LineInv
  <2>2. Queued' /\ Consumed' = Consumed BY <1>2, <1>3, <2>1, ReceiveQueues
  <2>3. UNCHANGED <<got, line, drain>> BY DEF Receive, lineVars
  <2> HIDE DEF Reader, Consumed
  <2> QED BY <2>1, <2>2, <2>3
<1> QED BY <1>1, <1>2, <1>3 DEF LineInv

\* Each branch of UART_ReadLine is a step of the reader.
LEMMA TakeLines ==
  ASSUME LineInv, ReadLine
  PROVE  LineInv'
<1> DEFINE c == Head(rx_ring)
           R == Reader(Append(Consumed, c), got', line', drain')
<1>1. /\ rx_ring # <<>> /\ rx_ring' = Tail(rx_ring)
      /\ UNCHANGED <<wire, rxd, rx_overflow>>
  BY DEF ReadLine, TakeDrained, TakeEnd, TakeBackspace, TakeChar, Taken, TakeKeeps, wireVars
<1>2. drain \in BOOLEAN /\ drain' \in BOOLEAN
  BY DEF LineInv, ReadLine, TakeDrained, TakeEnd, TakeBackspace, TakeChar, AddChar, Overlong
<1>3. ASSUME rx_overflow = 0 PROVE Queued' /\ Consumed' = Append(Consumed, c) /\ R
  <2>1. Queued /\ Reader(Consumed, got, line, drain) BY <1>3 DEF LineInv
  <2>2. Queued' /\ c \in Chars /\ Consumed' = Append(Consumed, c) BY <1>1, <2>1, TakeOne
  <2>3. drain => line = <<>> BY <2>1 DEF Reader
  <2> DEFINE s == Consumed
  <2>4. Reader(s, got, line, drain) BY <2>1
  <2> HIDE DEF s
  <2>5. ASSUME c = "cr"
        PROVE  Reader(Append(s, c), IF drain \/ line = <<>> THEN got ELSE Append(got, line),
                      <<>>, FALSE)
    BY <1>2, <2>2, <2>4, <2>5, ReaderAtEnd
  <2>6. ASSUME c # "cr"
        PROVE  /\ drain => Reader(Append(s, c), got, <<>>, TRUE)
               /\ ~drain /\ c = "bs"
                    => Reader(Append(s, c), got, IF line = <<>> THEN line ELSE Front(line), FALSE)
               /\ ~drain /\ c # "bs" /\ Len(line) >= LineMax
                    => Reader(Append(s, c), got, <<>>, TRUE)
               /\ ~drain /\ c # "bs" /\ ~(Len(line) >= LineMax)
                    => Reader(Append(s, c), got, Append(line, c), FALSE)
    BY <1>2, <2>2, <2>4, <2>6, ReaderInLine
  <2> HIDE DEF c
  <2>7. Reader(Append(s, c), got', line', drain')
    <3>1. CASE TakeDrained
      <4>1. drain /\ drain' = (c # "cr") /\ got' = got /\ line' = <<>>
        BY <2>3, <3>1 DEF TakeDrained, Idle, c
      <4>2. CASE c = "cr"
        <5>1. drain' = FALSE BY <4>1, <4>2
        <5> QED BY <2>5, <4>1, <4>2, <5>1
      <4>3. CASE c # "cr"
        <5>1. drain' = TRUE BY <4>1, <4>3
        <5> QED BY <2>6, <4>1, <4>3, <5>1
      <4> QED BY <4>2, <4>3
    <3>2. CASE TakeEnd
      <4>1. /\ ~drain /\ c = "cr" /\ line' = <<>> /\ drain' = FALSE
            /\ got' = IF line = <<>> THEN got ELSE Append(got, line)
        BY <1>2, <3>2 DEF TakeEnd, Idle, Execute, c
      <4> QED BY <2>5, <4>1
    <3>3. CASE TakeBackspace
      <4>1. /\ ~drain /\ c = "bs" /\ drain' = FALSE /\ got' = got
            /\ line' = IF line = <<>> THEN line ELSE Front(line)
        BY <1>2, <3>3 DEF TakeBackspace, Idle, c
      <4>2. c # "cr" BY <4>1
      <4> QED BY <2>6, <4>1, <4>2
    <3>4. CASE TakeChar
      <4>1. /\ ~drain /\ c # "cr" /\ c # "bs" /\ got' = got /\ AddChar(c)
        BY <3>4 DEF TakeChar, Idle, c
      <4>2. CASE Len(line) >= LineMax
        <5>1. line' = <<>> /\ drain' = TRUE BY <4>1, <4>2 DEF AddChar, Overlong
        <5> QED BY <2>6, <4>1, <4>2, <5>1
      <4>3. CASE ~(Len(line) >= LineMax)
        <5>1. line' = Append(line, c) /\ drain' = FALSE BY <1>2, <4>1, <4>3 DEF AddChar
        <5> QED BY <2>6, <4>1, <4>3, <5>1
      <4> QED BY <4>2, <4>3
    <3> QED BY <3>1, <3>2, <3>3, <3>4 DEF ReadLine
  <2> QED BY <2>2, <2>7 DEF s, c
<1>4. ASSUME rx_overflow' = 0 PROVE Queued' /\ Reader(Consumed', got', line', drain')
  <2>1. Queued' /\ Consumed' = Append(Consumed, c) /\ R BY <1>1, <1>3, <1>4
  <2> HIDE DEF Reader, Consumed, Queued, c
  <2> QED BY <2>1
<1> QED BY <1>1, <1>2, <1>4 DEF LineInv

\* No other step touches the ring or the line.
LEMMA OthersLines ==
  ASSUME LineInv, Next, ~Receive, ~ReadLine
  PROVE  LineInv'
<1>1. /\ wire' \in Seq(Chars) /\ UNCHANGED <<rxd, rx_ring, rx_overflow, got, line, drain>>
  <2>1. CASE Overrun
    <3>1. wire' \in Seq(Chars) BY <2>1, HeadTailProperties DEF LineInv, Overrun
    <3> QED BY <2>1, <3>1 DEF Overrun, lineVars
  <2>2. CASE TestClears BY <2>2 DEF LineInv, TestClears, wireVars, lineVars
  <2>3. CASE TestPolls BY <2>3 DEF LineInv, TestPolls, wireVars, lineVars
  <2>4. CASE DetectWaits BY <2>4 DEF LineInv, DetectWaits, wireVars, lineVars
  <2> QED BY <2>1, <2>2, <2>3, <2>4 DEF Next
<1>2. Consumed' = Consumed BY <1>1 DEF Consumed
<1>3. Queued => Queued' BY <1>1 DEF Queued
<1> HIDE DEF Consumed, Queued, Reader
<1> QED BY <1>1, <1>2, <1>3 DEF LineInv

\* As long as the ring has not overflowed, UART_ReadLine hands over exactly the
\* lines that arrived, each with its backspaces applied and none of them overlong.
THEOREM LinesAreExact == Spec => []LinesExact
<1>1. LineInv => LinesExact BY DEF LineInv, Reader, LinesExact
<1>2. LineInv /\ [Next]_vars => LineInv'
  <2>1. ASSUME LineInv, UNCHANGED vars PROVE LineInv'
    <3>1. Consumed' = Consumed BY <2>1 DEF Consumed, vars
    <3>2. Queued => Queued' BY <2>1 DEF Queued, vars
    <3> QED BY <2>1, <3>1, <3>2 DEF LineInv, vars
  <2> QED BY <2>1, ReceiveLines, TakeLines, OthersLines
<1> QED BY InitLines, <1>1, <1>2, PTL DEF Spec
=============================================================================
