-------------------------- MODULE MapPipelineProofs --------------------------
(* Proofs about the pipeline of a campaign, for every number of pulses, every   *)
(* currents, matrices, flaws and limits: a region lies between tested cells     *)
(* along each phase, no frame counts twice, exact references give the matrix.   *)
EXTENDS MapPipelineProps, SequenceTheorems, FiniteSetTheorems, WellFoundedInduction, TLAPS

\* The numbers of an int16_t.
Low == -32768
High == 32767
Q15 == Low .. High
Pulses == 1 .. Len(Excitation[1])

Samples == [seq : Int, x : [1 .. 2 -> Int], y : [1 .. 3 -> Int], margin : Nat,
            claims : BOOLEAN, point : Points]

\* Samples whose references are a matrix times their currents.
Exact(matrix, samples) ==
    \A k \in DOMAIN samples : \A i \in 1 .. 2 :
        samples[k].y[i] = matrix[i][1] * samples[k].x[1] + matrix[i][2] * samples[k].x[2]

ExactSamples == {s \in Samples : \A i \in 1 .. 2 :
                    s.y[i] = truth[i][1] * s.x[1] + truth[i][2] * s.x[2]}

Boxes == [min : [Phases -> Q15], max : [Phases -> Q15], margin : Nat, valid : {TRUE}]

Cells == [at : [Phases -> Q15], margin : Nat, status : {"VALID", "INVALID", "UNTESTED"}]

-----------------------------------------------------------------------------
(* Least numbers, induction over the numbers, and the least and the greatest    *)
(* element of a bounded set of integers.                                        *)

LEMMA Int16 == Low \in Int /\ High \in Int
BY DEF Low, High

LEMMA LeastNatural ==
    ASSUME NEW T, T \subseteq Nat, T # {} PROVE \E x \in T : \A y \in T : x <= y
<1> DEFINE R == OpToRel(<, Nat)
<1>1. IsWellFoundedOn(R, Nat)
    BY NatLessThanWellFounded
<1>2. \A x \in Nat, y \in Nat : y < x => <<y, x>> \in R
    BY DEF OpToRel
<1> HIDE DEF R
<1>3. PICK x \in T : \A y \in T : ~ (<<y, x>> \in R)
    BY <1>1, WFMin
<1>4. \A y \in T : ~ (y < x)
    BY <1>2, <1>3, Zenon
<1>5. ASSUME NEW y \in T PROVE x <= y
    BY <1>4, <1>5
<1> QED BY <1>5

\* Induction, from the least number that is not in the set: a set that has 0 and with each
\* number the next has them all.
LEMMA Induction ==
    ASSUME NEW S, 0 \in S, \A n \in Nat : n \in S => n + 1 \in S
    PROVE  \A n \in Nat : n \in S
<1> DEFINE T == {n \in Nat : n \notin S}
<1> SUFFICES ASSUME T # {} PROVE FALSE
    OBVIOUS
<1>1. PICK x \in T : \A y \in T : x <= y
    <2>1. T \subseteq Nat
        OBVIOUS
    <2> HIDE DEF T
    <2> QED BY <2>1, LeastNatural
<1>2. x \in Nat /\ x \notin S /\ x # 0
    OBVIOUS
<1>3. x - 1 \in Nat /\ ~ (x <= x - 1)
    BY <1>2
<1>4. x - 1 \in S
    BY <1>1, <1>3
<1>5. (x - 1) + 1 = x
    BY <1>2
<1>6. (x - 1) + 1 \in S
    BY <1>3, <1>4
<1> QED BY <1>2, <1>5, <1>6

LEMMA LeastIsLeast ==
    ASSUME NEW S, S \subseteq Q15, S # {}
    PROVE  Least(S) \in S /\ \A u \in S : Least(S) <= u
<1> DEFINE T == {v - Low : v \in S}
<1>1. T \subseteq Nat /\ T # {}
    <2>1. \A v \in S : v \in Int /\ Low <= v /\ v <= High
        BY Int16 DEF Q15
    <2> QED BY <2>1, Int16
<1> HIDE DEF T
<1>2. PICK x \in T : \A y \in T : x <= y
    BY <1>1, LeastNatural
<1>3. PICK v \in S : x = v - Low
    BY <1>2 DEF T
<1>4. ASSUME NEW u \in S PROVE v <= u
    <2>1. u - Low \in T /\ u \in Int /\ v \in Int
        BY <1>3, <1>4, Int16 DEF T, Q15
    <2> QED BY <2>1, <1>2, <1>3, Int16
<1> QED BY <1>4 DEF Least

LEMMA GreatestIsGreatest ==
    ASSUME NEW S, S \subseteq Q15, S # {}
    PROVE  Greatest(S) \in S /\ \A u \in S : u <= Greatest(S)
<1> DEFINE T == {High - v : v \in S}
<1>1. T \subseteq Nat /\ T # {}
    <2>1. \A v \in S : v \in Int /\ Low <= v /\ v <= High
        BY Int16 DEF Q15
    <2> QED BY <2>1, Int16
<1> HIDE DEF T
<1>2. PICK x \in T : \A y \in T : x <= y
    BY <1>1, LeastNatural
<1>3. PICK v \in S : x = High - v
    BY <1>2 DEF T
<1>4. ASSUME NEW u \in S PROVE u <= v
    <2>1. High - u \in T /\ u \in Int /\ v \in Int
        BY <1>3, <1>4, Int16 DEF T, Q15
    <2> QED BY <2>1, <1>2, <1>3, Int16
<1> QED BY <1>4 DEF Greatest

-----------------------------------------------------------------------------
(* certify_impl.                                                                *)

\* What BoxIsTested says of a box and the cells it was made of.
Tested(box, cells) ==
    LET at == {cells[k].at : k \in ValidCells(cells)}
    IN  /\ \A i \in Phases :
               /\ \E c \in at : c[i] + Guard <= box.min[i]
               /\ \E c \in at : box.max[i] <= c[i] - Guard
        /\ \A k \in DOMAIN cells : inside(box, cells[k]) => cells[k].status = "VALID"

\* The bounds of a box that was certified are vectors of 16 bits.
LEMMA CertifiedIsTested ==
    ASSUME NEW D, NEW cells \in [D -> Cells], NEW box \in certify_impl(cells)
    PROVE  Tested(box, cells) /\ box \in Boxes
<1> DEFINE Along(i) == {cells[k].at[i] : k \in ValidCells(cells)}
<1>1. /\ Cardinality(ValidCells(cells)) >= MinValidCells /\ box = Box(cells)
      /\ \A i \in 1 .. 3 : box.min[i] <= box.max[i]
      /\ NoneInside(box, cells)
    BY DEF certify_impl
<1>2. ValidCells(cells) # {}
    <2> SUFFICES ASSUME ValidCells(cells) = {} PROVE FALSE
        OBVIOUS
    <2>1. 0 >= MinValidCells
        BY <1>1, FS_EmptySet
    <2> QED BY <2>1, RowAssumption
<1>3. /\ box.min = [i \in 1 .. 3 |-> Least(Along(i)) + Guard]
      /\ box.max = [i \in 1 .. 3 |-> Greatest(Along(i)) - Guard]
    BY <1>1 DEF Box
<1>4. ASSUME NEW i \in Phases
      PROVE  /\ Least(Along(i)) \in Along(i) /\ Greatest(Along(i)) \in Along(i)
             /\ Along(i) \subseteq Q15
    <2>1. Along(i) \subseteq Q15 /\ Along(i) # {}
        BY <1>2 DEF ValidCells, Cells
    <2> HIDE DEF Along
    <2> QED BY <2>1, LeastIsLeast, GreatestIsGreatest
<1>5. ASSUME NEW i \in Phases
      PROVE  /\ box.min[i] = Least(Along(i)) + Guard /\ box.max[i] = Greatest(Along(i)) - Guard
             /\ box.min[i] \in Q15 /\ box.max[i] \in Q15
    <2>1. box.min[i] = Least(Along(i)) + Guard /\ box.max[i] = Greatest(Along(i)) - Guard
        BY <1>3 DEF Phases
    <2>2. Least(Along(i)) \in Q15 /\ Greatest(Along(i)) \in Q15
        BY <1>4
    <2>3. box.min[i] <= box.max[i]
        BY <1>1 DEF Phases
    <2> DEFINE l == Least(Along(i))
               g == Greatest(Along(i))
    <2>4. l \in Q15 /\ g \in Q15 /\ box.min[i] = l + Guard /\ box.max[i] = g - Guard
        BY <2>1, <2>2
    <2> HIDE DEF Along, l, g
    <2>5. box.min[i] \in Q15 /\ box.max[i] \in Q15
        <3>1. /\ l \in Int /\ g \in Int /\ Guard \in Nat
              /\ Low <= l /\ g <= High /\ l + Guard <= g - Guard
            BY <2>3, <2>4, Int16, RowAssumption DEF Q15
        <3> QED BY <2>4, <3>1, Int16 DEF Q15
    <2> QED BY <2>1, <2>5
<1>6. ASSUME NEW i \in Phases
      PROVE  /\ \E k \in ValidCells(cells) : cells[k].at[i] + Guard <= box.min[i]
             /\ \E k \in ValidCells(cells) : box.max[i] <= cells[k].at[i] - Guard
    <2>1. PICK k \in ValidCells(cells) : cells[k].at[i] = Least(Along(i))
        BY <1>4
    <2>2. PICK j \in ValidCells(cells) : cells[j].at[i] = Greatest(Along(i))
        BY <1>4
    <2>3. Least(Along(i)) \in Int /\ Greatest(Along(i)) \in Int
        <3>1. Least(Along(i)) \in Q15 /\ Greatest(Along(i)) \in Q15
            BY <1>4
        <3> HIDE DEF Along
        <3> QED BY <3>1, Int16 DEF Q15
    <2> HIDE DEF Along
    <2> QED BY <2>1, <2>2, <2>3, <1>5, RowAssumption
<1>7. Tested(box, cells)
    BY <1>1, <1>6 DEF Tested, NoneInside
<1>8. box.min \in [Phases -> Q15] /\ box.max \in [Phases -> Q15]
    BY <1>3, <1>5 DEF Phases
<1>9. box.margin \in Nat
    <2> DEFINE M == {cells[k].margin : k \in ValidCells(cells)}
    <2>1. M \subseteq Nat /\ M # {}
        BY <1>2 DEF ValidCells, Cells
    <2>2. box.margin = Least(M)
        BY <1>1 DEF Box
    <2> HIDE DEF M
    <2>3. \E v \in M : \A u \in M : v <= u
        BY <2>1, LeastNatural
    <2> QED BY <2>1, <2>2, <2>3 DEF Least
<1> QED BY <1>1, <1>7, <1>8, <1>9 DEF Boxes, Box

-----------------------------------------------------------------------------
(* The dataset: what a row of it is made of.                                    *)

LEMMA DivisionIsInteger ==
    ASSUME NEW a \in Int, NEW b \in Nat \ {0} PROVE TruncDiv(a, b) \in Int
BY DEF TruncDiv

LEMMA ModulationIsInteger ==
    ASSUME NEW s \in Sectors PROVE MAP_CAPTURE_BOARD_MOD[s + 1] \in [Phases -> Int]
<1>1. s \in {0, 1, 2, 3, 4, 5}
    BY DEF Sectors
<1> QED BY <1>1 DEF MAP_CAPTURE_BOARD_MOD, Phases

LEMMA GridIsInteger ==
    ASSUME NEW p \in Points PROVE MAP_CAPTURE_BOARD_GRID[p + 1] \in [Phases -> Int]
<1>1. p \in {0, 1, 2, 3, 4, 5, 6, 7}
    BY DEF Points
<1> QED BY <1>1 DEF MAP_CAPTURE_BOARD_GRID, Phases

LEMMA BoardCcrIsInteger ==
    ASSUME NEW s \in Sectors, NEW w \in Windows, NEW p \in Points
    PROVE  /\ board_ccr(s, w, p) \in [Phases -> Int]
           /\ board_tim8_ccr(s, w, p) \in [Phases -> Int]
<1> DEFINE mod == MAP_CAPTURE_BOARD_MOD[s + 1]
           shift == WindowShift(mod, w, MAP_CAPTURE_BOARD_WINDOW_SHIFT)
           grid == MAP_CAPTURE_BOARD_GRID[p + 1]
<1>1. mod \in [Phases -> Int] /\ grid \in [Phases -> Int]
    BY ModulationIsInteger, GridIsInteger
<1>2. shift \in [Phases -> Int]
    BY DEF WindowShift, MAP_CAPTURE_BOARD_WINDOW_SHIFT
<1>3. board_ccr(s, w, p)
        = [i \in Phases |-> Middle + TruncDiv(mod[i] * 500, 32768) + shift[i] + grid[i]]
    BY DEF board_ccr
<1> HIDE DEF mod, shift, grid
<1>4. ASSUME NEW i \in Phases PROVE TruncDiv(mod[i] * 500, 32768) \in Int
    BY <1>1, DivisionIsInteger
<1>5. board_ccr(s, w, p) \in [Phases -> Int]
    BY <1>1, <1>2, <1>3, <1>4 DEF Middle
<1>6. \A i \in Phases : Shifted(i) \in Phases
    BY DEF Shifted, Phases
<1> QED BY <1>5, <1>6 DEF board_tim8_ccr

LEMMA Q15OfCcr == ASSUME NEW ccr \in Int PROVE q15_from_ccr(ccr) \in Q15
<1>1. \A v \in Int : Clamp16(v) \in Q15
    <2>1. \A v \in Int : Clamp16(v) = IF v > High THEN High ELSE IF v < Low THEN Low ELSE v
        BY DEF Clamp16, Low, High
    <2>2. Low <= High
        BY DEF Low, High
    <2> QED BY <2>1, <2>2, Int16 DEF Q15
<1> DEFINE n == (ccr - Middle) * 32768
<1>2. n \in Int
    BY DEF Middle
<1> HIDE DEF n
<1>3. (IF n >= 0 THEN n + Middle \div 2 ELSE n - Middle \div 2) \div Middle \in Int
    BY <1>2 DEF Middle
<1> QED BY <1>1, <1>3 DEF q15_from_ccr, n

LEMMA CellIsTyped == ASSUME NEW r \in Rows, NEW s \in Samples PROVE Cell(r, s) \in Cells
<1>1. s.point \in Points /\ s.margin \in Nat
    BY DEF Samples
<1> DEFINE id == 8 * r + s.point
           record == Record(r, s.point)
<1>2. id \div 16 \in Sectors /\ (id \div 8) % 2 \in Windows /\ id % 8 \in Points
    <2>1. id \in 0 .. 95
        BY <1>1 DEF Rows, Points
    <2> HIDE DEF id
    <2>2. id \div 16 \in 0 .. 5 /\ id \div 8 \in Int /\ id % 8 \in 0 .. 7
        BY <2>1
    <2>3. (id \div 8) % 2 \in 0 .. 1
        BY <2>2
    <2> QED BY <2>2, <2>3 DEF Points, Sectors, Windows
<1>3. record.tim1 \in [Phases -> Int] /\ record.tim8 \in [Phases -> Int]
    <2> HIDE DEF id
    <2>1. record.tim1 = board_ccr(id \div 16, (id \div 8) % 2, id % 8)
          /\ record.tim8 = board_tim8_ccr(id \div 16, (id \div 8) % 2, id % 8)
        BY DEF Record, MapCaptureProfile_BuildRequest, id
    <2> QED BY <1>2, <2>1, BoardCcrIsInteger
<1> DEFINE ccr == dataset_ccr_from_pair(record.tim1, record.tim8)
<1>4. ccr \in [Phases -> Int]
    <2> HIDE DEF record
    <2> QED BY <1>3 DEF dataset_ccr_from_pair, Middle
<1>5. Cell(r, s) = [at |-> [i \in Phases |-> q15_from_ccr(ccr[i])], margin |-> s.margin,
                    status |-> "VALID"]
    BY DEF Cell
<1> HIDE DEF ccr
<1>6. \A i \in Phases : q15_from_ccr(ccr[i]) \in Q15
    BY <1>4, Q15OfCcr
<1> QED BY <1>1, <1>5, <1>6 DEF Cells

LEMMA ExcitationIsTyped ==
    ASSUME NEW p \in Points, NEW k \in Pulses
    PROVE  Excitation[p + 1][k] \in [1 .. 2 -> Int]
<1>1. p + 1 \in 1 .. 8
    BY DEF Points
<1> QED BY <1>1, PipelineAssumption DEF Pulses

LEMMA ReferenceIsTyped ==
    ASSUME truth \in Truths, NEW x \in [1 .. 2 -> Int]
    PROVE  /\ Reference(x) \in [1 .. 3 -> Int]
           /\ \A i \in 1 .. 2 : Reference(x)[i] = truth[i][1] * x[1] + truth[i][2] * x[2]
<1> DEFINE u == truth[1][1] * x[1] + truth[1][2] * x[2]
           v == truth[2][1] * x[1] + truth[2][2] * x[2]
<1>1. truth \in [1 .. 2 -> [1 .. 2 -> Int]]
    BY PipelineAssumption
<1>2. u \in Int /\ v \in Int
    BY <1>1
<1>3. Reference(x) = <<u, v, - u - v>>
    BY DEF Reference
<1>4. \A i \in 1 .. 2 : Reference(x)[i] = IF i = 1 THEN u ELSE v
    <2> HIDE DEF u, v
    <2> QED BY <1>3
<1>5. Reference(x) \in [1 .. 3 -> Int]
    <2> HIDE DEF u, v
    <2> QED BY <1>2, <1>3
<1> QED BY <1>4, <1>5

LEMMA PointSamplesAreTyped ==
    ASSUME truth \in Truths, NEW p \in Points, NEW pulses \in Seq(Pulses)
    PROVE  /\ PointSamples(p, pulses) \in Seq(ExactSamples)
           /\ Len(PointSamples(p, pulses)) = Len(pulses)
<1> DEFINE n == Len(pulses)
           e(k) == [seq |-> 10 * p + pulses[k], x |-> Excitation[p + 1][pulses[k]],
                    y |-> Reference(Excitation[p + 1][pulses[k]]),
                    margin |-> MinMargin, claims |-> TRUE, point |-> p]
<1>1. n \in Nat /\ DOMAIN pulses = 1 .. n /\ \A k \in 1 .. n : pulses[k] \in Pulses
    BY LenProperties, ElementOfSeq
<1>2. ASSUME NEW k \in 1 .. n PROVE e(k) \in ExactSamples
    <2>1. Excitation[p + 1][pulses[k]] \in [1 .. 2 -> Int]
        BY <1>1, ExcitationIsTyped
    <2> DEFINE x == Excitation[p + 1][pulses[k]]
    <2>2. /\ Reference(x) \in [1 .. 3 -> Int]
          /\ \A i \in 1 .. 2 : Reference(x)[i] = truth[i][1] * x[1] + truth[i][2] * x[2]
        BY <2>1, ReferenceIsTyped
    <2>3. 10 * p + pulses[k] \in Int /\ MinMargin \in Nat
        BY <1>1, RowAssumption DEF Pulses, Points
    <2>4. e(k).x = x /\ e(k).y = Reference(x)
        OBVIOUS
    <2>5. e(k) \in Samples
        BY <2>1, <2>2, <2>3 DEF Samples
    <2> HIDE DEF e, x
    <2> QED BY <2>2, <2>4, <2>5 DEF ExactSamples
<1>3. PointSamples(p, pulses) = [k \in 1 .. n |-> e(k)]
    BY <1>1 DEF PointSamples
<1> HIDE DEF e, n
<1> QED BY <1>1, <1>2, <1>3 DEF n

LEMMA RowSamplesAreTyped ==
    ASSUME truth \in Truths, NEW points, NEW pulsesOf,
           \A p \in Points : pulsesOf[p] \in Seq(Pulses)
    PROVE  /\ RowSamples(points, pulsesOf) \in Seq(Samples)
           /\ Exact(truth, RowSamples(points, pulsesOf))
           /\ \A n \in Nat :
                 points = Points /\ (\A p \in Points : Len(pulsesOf[p]) = n)
                     => Len(RowSamples(points, pulsesOf)) = 8 * n
<1> DEFINE Part(p) == IF p \in points THEN PointSamples(p, pulsesOf[p]) ELSE << >>
<1>1. ASSUME NEW p \in Points PROVE Part(p) \in Seq(ExactSamples)
    BY PointSamplesAreTyped, EmptySeq
<1>2. ASSUME NEW p \in Points, NEW n \in Nat, points = Points, Len(pulsesOf[p]) = n
      PROVE  Len(Part(p)) = n
    BY <1>2, PointSamplesAreTyped
<1>3. RowSamples(points, pulsesOf)
        = Part(0) \o Part(1) \o Part(2) \o Part(3) \o Part(4) \o Part(5) \o Part(6) \o Part(7)
    BY DEF RowSamples
<1>4. {0, 1, 2, 3, 4, 5, 6, 7} \subseteq Points
    BY DEF Points
<1> HIDE DEF Part
<1>5. ASSUME NEW a \in Seq(ExactSamples), NEW p \in Points
      PROVE  a \o Part(p) \in Seq(ExactSamples) /\ Len(a \o Part(p)) = Len(a) + Len(Part(p))
    BY <1>1, ConcatProperties
<1>6. RowSamples(points, pulsesOf) \in Seq(ExactSamples)
    BY <1>1, <1>3, <1>4, <1>5
<1>7. Len(RowSamples(points, pulsesOf))
        = Len(Part(0)) + Len(Part(1)) + Len(Part(2)) + Len(Part(3)) + Len(Part(4)) + Len(Part(5))
          + Len(Part(6)) + Len(Part(7))
    BY <1>1, <1>3, <1>4, <1>5
<1>8. ASSUME NEW n \in Nat, points = Points, \A p \in Points : Len(pulsesOf[p]) = n
      PROVE  Len(RowSamples(points, pulsesOf)) = 8 * n
    <2>1. ASSUME NEW p \in Points PROVE Len(Part(p)) = n
        BY <1>2, <1>8
    <2>2. /\ Len(Part(0)) = n /\ Len(Part(1)) = n /\ Len(Part(2)) = n /\ Len(Part(3)) = n
          /\ Len(Part(4)) = n /\ Len(Part(5)) = n /\ Len(Part(6)) = n /\ Len(Part(7)) = n
        BY <1>4, <2>1
    <2> QED BY <1>7, <2>2
<1> DEFINE s == RowSamples(points, pulsesOf)
<1>9. s \in Seq(Samples)
    <2>1. ExactSamples \subseteq Samples
        BY DEF ExactSamples
    <2> HIDE DEF s
    <2> QED BY <1>6, <2>1, SeqMonotonic DEF s
<1>10. Exact(truth, s)
    <2> HIDE DEF s
    <2>1. \A k \in DOMAIN s : s[k] \in ExactSamples
        BY <1>6, LenProperties, ElementOfSeq DEF s
    <2> QED BY <2>1 DEF Exact, ExactSamples
<1> QED BY <1>8, <1>9, <1>10

LEMMA AllPulsesAreTyped ==
    ASSUME NEW p \in Points
    PROVE  /\ AllPulses[p] \in Seq(Pulses) /\ AllPulses[p] # << >>
           /\ Len(AllPulses[p]) = Len(Excitation[1])
<1> DEFINE n == Len(Excitation[1])
<1>1. n \in Nat /\ n > 0 /\ DOMAIN Excitation[1] = 1 .. n
    BY PipelineAssumption
<1>2. AllPulses[p] = [k \in 1 .. n |-> k]
    BY <1>1 DEF AllPulses
<1> HIDE DEF n
<1>3. Pulses = 1 .. n
    BY DEF Pulses, n
<1>4. AllPulses[p] \in Seq(Pulses) /\ Len(AllPulses[p]) = n
    BY <1>1, <1>2, <1>3
<1> QED BY <1>1, <1>4, EmptySeq DEF n

\* The samples of a row without flaws, eight points of as many pulses.
LEMMA CleanIsTyped ==
    ASSUME truth \in Truths
    PROVE  /\ Clean \in Seq(Samples) /\ Exact(truth, Clean) /\ Len(Clean) = 8 * Len(Excitation[1])
           /\ FlawedSamples \subseteq 1 .. Len(Clean)
<1>1. Len(Excitation[1]) \in Nat
    BY PipelineAssumption
<1>2. Clean \in Seq(Samples) /\ Exact(truth, Clean) /\ Len(Clean) = 8 * Len(Excitation[1])
    BY <1>1, AllPulsesAreTyped, RowSamplesAreTyped DEF Clean
<1> QED BY <1>2, PipelineAssumption

\* A row with a sample changed is a row of samples.
LEMMA OneChanged ==
    ASSUME NEW s \in Seq(Samples), NEW k \in 1 .. Len(s), NEW v \in Samples
    PROVE  [s EXCEPT ![k] = v] \in Seq(Samples)
BY ExceptSeq

\* Every row a dataset may have; without a flaw in them, its references are exact.
Inputs(in) ==
    /\ in.samples \in Seq(Samples)
    /\ in.cells \in [DOMAIN in.samples -> Cells]
    /\ in.flaw \in {"none", "omitted"} => Exact(truth, in.samples)

LEMMA EntryIsTyped ==
    ASSUME NEW r \in Rows, NEW samples \in Seq(Samples), NEW flaw,
           flaw \in {"none", "omitted"} => Exact(truth, samples)
    PROVE  Inputs(Entry(r, samples, flaw))
<1>1. \A k \in DOMAIN samples : samples[k] \in Samples
    BY LenProperties, ElementOfSeq
<1>2. \A k \in DOMAIN samples : Cell(r, samples[k]) \in Cells
    BY <1>1, CellIsTyped
<1> QED BY <1>2 DEF Inputs, Entry

LEMMA FlawedIsTyped ==
    ASSUME truth \in Truths, NEW r \in Rows, NEW in \in FlawedRows(r)
    PROVE  Inputs(in)
<1>1. /\ Clean \in Seq(Samples) /\ FlawedSamples \subseteq 1 .. Len(Clean)
      /\ \A k \in FlawedSamples : Clean[k] \in Samples
    BY CleanIsTyped, ElementOfSeq
<1>2. CASE in \in Omitted(r)
    <2>1. PICK p \in Points, pulses \in Fewer : in = Entry(r, Without(p, pulses), "omitted")
        BY <1>2 DEF Omitted
    <2>2. \A q \in Points : AllPulses[q] \in Seq(Pulses)
        BY AllPulsesAreTyped
    <2>3. pulses \in Seq(Pulses)
        <3> DEFINE s == AllPulses[0]
        <3>1. s \in Seq(Pulses) /\ s # << >>
            BY AllPulsesAreTyped DEF Points
        <3> HIDE DEF s
        <3>2. Tail(s) \in Seq(Pulses)
            BY <3>1, HeadTailProperties
        <3>3. SubSeq(s, 1, Len(s) - 1) \in Seq(Pulses)
            <4>1. Len(s) - 1 \in Int /\ \A k \in 1 .. Len(s) - 1 : s[k] \in Pulses
                BY <3>1, LenProperties, ElementOfSeq
            <4> QED BY <4>1, SubSeqProperties
        <3> QED BY <2>1, <3>2, <3>3 DEF s, Fewer
    <2>4. \A q \in Points : [AllPulses EXCEPT ![p] = pulses][q] \in Seq(Pulses)
        BY <2>2, <2>3 DEF AllPulses
    <2> QED BY <2>1, <2>4, RowSamplesAreTyped, EntryIsTyped DEF Without
<1>3. CASE in \in SinglePoint(r)
    <2>2. \A q \in Points : AllPulses[q] \in Seq(Pulses)
        BY AllPulsesAreTyped
    <2> QED BY <1>3, <2>2, RowSamplesAreTyped, EntryIsTyped DEF SinglePoint
<1>4. CASE in \in Duplicated(r)
    <2>1. PICK k \in FlawedSamples, j \in FlawedSamples :
              in = Entry(r, [Clean EXCEPT ![k].seq = Clean[j].seq], "duplicate")
        BY <1>4 DEF Duplicated
    <2>2. [Clean[k] EXCEPT !.seq = Clean[j].seq] \in Samples
        BY <1>1 DEF Samples
    <2>3. [Clean EXCEPT ![k].seq = Clean[j].seq] \in Seq(Samples)
        BY <1>1, <2>2, OneChanged
    <2> QED BY <2>1, <2>3, EntryIsTyped
<1>5. CASE in \in Unqualified(r)
    <2>1. PICK k \in FlawedSamples :
              \/ in = Entry(r, [Clean EXCEPT ![k].claims = FALSE], "unqualified")
              \/ in = Entry(r, [Clean EXCEPT ![k].margin = MinMargin - 1], "unqualified")
        BY <1>5 DEF Unqualified
    <2>2. /\ [Clean[k] EXCEPT !.claims = FALSE] \in Samples
          /\ [Clean[k] EXCEPT !.margin = MinMargin - 1] \in Samples
        <3>1. MinMargin - 1 \in Nat
            BY RowAssumption
        <3> QED BY <1>1, <3>1 DEF Samples
    <2>3. /\ [Clean EXCEPT ![k].claims = FALSE] \in Seq(Samples)
          /\ [Clean EXCEPT ![k].margin = MinMargin - 1] \in Seq(Samples)
        BY <1>1, <2>2, OneChanged
    <2> QED BY <2>1, <2>3, EntryIsTyped
<1>6. CASE in \in WrongReference(r)
    <2>1. PICK k \in FlawedSamples, e \in Errors :
              \/ in = Entry(r, OffAlone(k, e), "kcl")
              \/ in = Entry(r, OffWithThird(k, e), "wrong")
        BY <1>6 DEF WrongReference
    <2>2. /\ [Clean[k] EXCEPT !.y[1] = @ + e] \in Samples
          /\ [Clean[k] EXCEPT !.y[1] = @ + e, !.y[3] = @ - e] \in Samples
        <3> DEFINE s == Clean[k]
        <3>1. s \in Samples /\ e \in Int
            BY <1>1, PipelineAssumption
        <3> HIDE DEF s
        <3>2. /\ s.y \in [1 .. 3 -> Int]
              /\ [s.y EXCEPT ![1] = s.y[1] + e] \in [1 .. 3 -> Int]
              /\ [s.y EXCEPT ![1] = s.y[1] + e, ![3] = s.y[3] - e] \in [1 .. 3 -> Int]
            BY <3>1 DEF Samples
        <3>3. /\ [s EXCEPT !.y[1] = @ + e] = [s EXCEPT !.y = [s.y EXCEPT ![1] = s.y[1] + e]]
              /\ [s EXCEPT !.y[1] = @ + e, !.y[3] = @ - e]
                    = [s EXCEPT !.y = [s.y EXCEPT ![1] = s.y[1] + e, ![3] = s.y[3] - e]]
            BY <3>1, <3>2 DEF Samples
        <3>4. \A y \in [1 .. 3 -> Int] : [s EXCEPT !.y = y] \in Samples
            BY <3>1 DEF Samples
        <3> QED BY <3>2, <3>3, <3>4 DEF s
    <2>3. OffAlone(k, e) \in Seq(Samples) /\ OffWithThird(k, e) \in Seq(Samples)
        <3>1. /\ OffAlone(k, e) = [Clean EXCEPT ![k] = [Clean[k] EXCEPT !.y[1] = @ + e]]
              /\ OffWithThird(k, e)
                    = [Clean EXCEPT ![k] = [Clean[k] EXCEPT !.y[1] = @ + e, !.y[3] = @ - e]]
            BY DEF OffAlone, OffWithThird
        <3> QED BY <1>1, <2>2, <3>1, OneChanged
    <2> QED BY <2>1, <2>3, EntryIsTyped
<1>7. CASE in \in Reversed(r)
    <2>1. \A k \in DOMAIN Clean : Clean[k] \in Samples
        BY <1>1, LenProperties, ElementOfSeq
    <2>2. \A k \in DOMAIN Clean : [Clean[k] EXCEPT !.x[1] = - @] \in Samples
        BY <2>1 DEF Samples
    <2>3. [k \in DOMAIN Clean |-> [Clean[k] EXCEPT !.x[1] = - @]] \in Seq(Samples)
        BY <1>1, <2>2, LenProperties
    <2> QED BY <1>7, <2>3, EntryIsTyped DEF Reversed
<1>8. CASE in \in NotValid(r)
    <2>1. PICK ps \in FlawedCells, st \in {"INVALID", "UNTESTED"} :
              in = [Entry(r, Clean, "cells") EXCEPT !.cells =
                      [k \in DOMAIN Clean |->
                         [Cell(r, Clean[k]) EXCEPT !.status = IF Clean[k].point \in ps THEN st ELSE "VALID"]]]
        BY <1>8 DEF NotValid
    <2>2. \A k \in DOMAIN Clean : Cell(r, Clean[k]) \in Cells
        BY <1>1, LenProperties, ElementOfSeq, CellIsTyped
    <2>3. \A k \in DOMAIN Clean :
              [Cell(r, Clean[k]) EXCEPT !.status = IF Clean[k].point \in ps THEN st ELSE "VALID"] \in Cells
        BY <2>2 DEF Cells
    <2>4. in.samples = Clean
        BY <2>1 DEF Entry
    <2>5. in.cells = [k \in DOMAIN Clean |->
                         [Cell(r, Clean[k]) EXCEPT !.status = IF Clean[k].point \in ps THEN st ELSE "VALID"]]
        BY <2>1 DEF Entry
    <2>6. in.flaw = "cells"
        BY <2>1 DEF Entry
    <2> QED BY <1>1, <2>3, <2>4, <2>5, <2>6 DEF Inputs
<1> QED BY <1>2, <1>3, <1>4, <1>5, <1>6, <1>7, <1>8 DEF FlawedRows

-----------------------------------------------------------------------------
(* Total: the sum is defined, unfolds at its last term, and is linear.          *)

IsSum(g, f, n) == g = [i \in 0 .. n |-> IF i = 0 THEN 0 ELSE g[i - 1] + f[i]]

LEMMA SumsExist == ASSUME NEW f PROVE \A n \in Nat : \E g : IsSum(g, f, n)
<1> DEFINE S == {n \in Nat : \E g : IsSum(g, f, n)}
<1>1. 0 \in S
    <2> DEFINE g == [i \in 0 .. 0 |-> 0]
    <2>1. IsSum(g, f, 0)
        BY DEF IsSum
    <2> QED BY <2>1
<1>2. ASSUME NEW n \in Nat, n \in S PROVE n + 1 \in S
    <2>1. PICK g : IsSum(g, f, n)
        BY <1>2
    <2> DEFINE m == n + 1
               h == [i \in 0 .. m |-> IF i = 0 THEN 0 ELSE g[i - 1] + f[i]]
    <2>2. \A i \in 0 .. n : h[i] = g[i]
        BY <2>1 DEF IsSum
    <2>3. \A i \in 0 .. m : i # 0 => i - 1 \in 0 .. n
        OBVIOUS
    <2>4. \A i \in 0 .. m : h[i] = IF i = 0 THEN 0 ELSE h[i - 1] + f[i]
        BY <2>2, <2>3
    <2>5. IsSum(h, f, m)
        BY <2>4 DEF IsSum
    <2>6. m \in Nat
        OBVIOUS
    <2> HIDE DEF h, m
    <2>7. m \in S
        BY <2>5, <2>6
    <2> QED BY <2>7 DEF m
<1> HIDE DEF S
<1>3. \A n \in Nat : n \in S
    BY <1>1, <1>2, Induction
<1> QED BY <1>3 DEF S

LEMMA SumsAgree ==
    ASSUME NEW f, NEW n \in Nat, NEW m \in Nat, m <= n, NEW g, NEW h, IsSum(g, f, n), IsSum(h, f, m)
    PROVE  g[m] = h[m]
<1> DEFINE S == {i \in Nat : i <= m => g[i] = h[i]}
<1>1. 0 \in S
    BY DEF IsSum
<1>2. ASSUME NEW i \in Nat, i \in S PROVE i + 1 \in S
    <2> SUFFICES ASSUME i + 1 <= m PROVE g[i + 1] = h[i + 1]
        OBVIOUS
    <2> DEFINE j == i + 1
    <2>1. j \in 0 .. m /\ j \in 0 .. n /\ j # 0 /\ j - 1 = i /\ i <= m
        OBVIOUS
    <2> HIDE DEF j
    <2>2. g[j] = g[j - 1] + f[j] /\ h[j] = h[j - 1] + f[j]
        BY <2>1 DEF IsSum
    <2>3. g[i] = h[i]
        BY <1>2, <2>1
    <2> QED BY <2>1, <2>2, <2>3 DEF j
<1> HIDE DEF S
<1>3. \A i \in Nat : i \in S
    BY <1>1, <1>2, Induction
<1> QED BY <1>3 DEF S

LEMMA TotalIsSum ==
    ASSUME NEW f, NEW n \in Nat, NEW g, IsSum(g, f, n) PROVE Total(f, n) = g[n]
<1> DEFINE sum == CHOOSE s : s = [i \in 0 .. n |-> IF i = 0 THEN 0 ELSE s[i - 1] + f[i]]
<1>1. IsSum(sum, f, n)
    BY DEF IsSum
<1>2. Total(f, n) = sum[n]
    BY DEF Total
<1> HIDE DEF sum
<1> QED BY <1>1, <1>2, SumsAgree

LEMMA TotalUnfolds ==
    ASSUME NEW f, NEW n \in Nat
    PROVE  Total(f, 0) = 0 /\ Total(f, n + 1) = Total(f, n) + f[n + 1]
<1> DEFINE m == n + 1
<1>1. m \in Nat /\ m # 0 /\ m - 1 = n /\ n <= m /\ 0 \in Nat
    OBVIOUS
<1> HIDE DEF m
<1>2. PICK g : IsSum(g, f, m)
    BY <1>1, SumsExist
<1>3. PICK h : IsSum(h, f, n)
    BY SumsExist
<1>4. PICK z : IsSum(z, f, 0)
    BY <1>1, SumsExist
<1>5. Total(f, m) = g[m] /\ Total(f, n) = h[n] /\ Total(f, 0) = z[0]
    BY <1>1, <1>2, <1>3, <1>4, TotalIsSum
<1>6. g[m] = g[m - 1] + f[m] /\ z[0] = 0
    BY <1>1, <1>2, <1>4 DEF IsSum
<1>7. g[n] = h[n]
    BY <1>1, <1>2, <1>3, SumsAgree
<1> QED BY <1>1, <1>5, <1>6, <1>7 DEF m

LEMMA TotalIsInteger ==
    ASSUME NEW N \in Nat, NEW f \in [1 .. N -> Int] PROVE Total(f, N) \in Int
<1> DEFINE S == {n \in Nat : n <= N => Total(f, n) \in Int}
<1>1. 0 \in S
    BY TotalUnfolds
<1>2. ASSUME NEW n \in Nat, n \in S PROVE n + 1 \in S
    <2> SUFFICES ASSUME n + 1 <= N PROVE Total(f, n + 1) \in Int
        OBVIOUS
    <2>1. f[n + 1] \in Int /\ Total(f, n) \in Int
        BY <1>2
    <2>2. Total(f, n + 1) = Total(f, n) + f[n + 1]
        BY TotalUnfolds
    <2> QED BY <2>1, <2>2
<1> HIDE DEF S
<1>3. \A n \in Nat : n \in S
    BY <1>1, <1>2, Induction
<1> QED BY <1>3 DEF S

\* Each of N values is a and b times those of g and h.
Combined(f, a, g, b, h, N) ==
    /\ N \in Nat /\ a \in Int /\ b \in Int
    /\ g \in [1 .. N -> Int] /\ h \in [1 .. N -> Int]
    /\ \A k \in 1 .. N : f[k] = a * g[k] + b * h[k]

LEMMA TotalIsLinear ==
    ASSUME NEW f, NEW a, NEW g, NEW b, NEW h, NEW N, Combined(f, a, g, b, h, N)
    PROVE  Total(f, N) = a * Total(g, N) + b * Total(h, N)
<1> USE DEF Combined
<1> DEFINE S == {n \in Nat : n <= N => /\ Total(g, n) \in Int /\ Total(h, n) \in Int
                                      /\ Total(f, n) = a * Total(g, n) + b * Total(h, n)}
<1>1. 0 \in S
    BY TotalUnfolds
<1>2. ASSUME NEW n \in Nat, n \in S PROVE n + 1 \in S
    <2> DEFINE m == n + 1
    <2> SUFFICES ASSUME m <= N
                 PROVE  /\ Total(g, m) \in Int /\ Total(h, m) \in Int
                        /\ Total(f, m) = a * Total(g, m) + b * Total(h, m)
        OBVIOUS
    <2>1. m \in 1 .. N /\ n <= N
        OBVIOUS
    <2>2. /\ Total(f, m) = Total(f, n) + f[m]
          /\ Total(g, m) = Total(g, n) + g[m]
          /\ Total(h, m) = Total(h, n) + h[m]
        BY TotalUnfolds
    <2> HIDE DEF m
    <2>3. /\ Total(g, n) \in Int /\ Total(h, n) \in Int /\ g[m] \in Int /\ h[m] \in Int
          /\ Total(f, n) = a * Total(g, n) + b * Total(h, n) /\ f[m] = a * g[m] + b * h[m]
        BY <1>2, <2>1
    <2> DEFINE s == Total(g, n)
               t == Total(h, n)
               u == g[m]
               v == h[m]
    <2>4. s \in Int /\ t \in Int /\ u \in Int /\ v \in Int
        BY <2>3
    <2>5. /\ Total(g, m) = s + u /\ Total(h, m) = t + v
          /\ Total(f, m) = (a * s + b * t) + (a * u + b * v)
        BY <2>2, <2>3
    <2> HIDE DEF s, t, u, v
    <2>6. (a * s + b * t) + (a * u + b * v) = a * (s + u) + b * (t + v)
        BY <2>4
    <2> QED BY <2>4, <2>5, <2>6
<1> HIDE DEF S
<1>3. \A n \in Nat : n \in S
    BY <1>1, <1>2, Induction
<1> QED BY <1>3 DEF S

-----------------------------------------------------------------------------
(* LeastSquares on references without error.                                    *)

LEMMA Quotient == ASSUME NEW a \in Nat, NEW d \in Nat, d > 0 PROVE (a * d) \div d = a
OBVIOUS

\* A number of 32 bits is not clamped, and what is clamped is an integer.
LEMMA Clamped ==
    /\ \A v \in Int32 : clamp_i32(v) = v
    /\ \A v \in Int : clamp_i32(v) \in Int
<1>1. INT32_MAX \in Int
    BY DEF INT32_MAX
<1> QED BY <1>1 DEF clamp_i32, Int32

LEMMA DividesBack == ASSUME NEW a \in Int, NEW d \in Nat, d > 0 PROVE TDiv(a * d, d) = a
<1>1. CASE a >= 0
    <2>1. a * d >= 0
        BY <1>1
    <2> QED BY <1>1, <2>1, Quotient DEF TDiv
<1>2. CASE a < 0
    <2>1. a * d < 0 /\ - (a * d) = (- a) * d /\ - a \in Nat
        BY <1>2
    <2> QED BY <2>1, Quotient DEF TDiv
<1> QED BY <1>1, <1>2

\* The normal equations of values that are a and b times the currents.
LEMMA NormalEquations ==
    ASSUME NEW a \in Int, NEW b \in Int, NEW p \in Int, NEW q \in Int, NEW r \in Int, NEW c \in Int
    PROVE  /\ ((a * p + b * q) * r - (a * q + b * r) * q) * c = (a * c) * (p * r - q * q)
           /\ ((a * q + b * r) * p - (a * p + b * q) * q) * c = (b * c) * (p * r - q * q)
OBVIOUS

\* Over any number of samples with exact references, the least squares are the
\* matrix, to the last unit.
LEMMA ExactIsRecovered ==
    ASSUME NEW matrix \in [1 .. 2 -> [1 .. 2 -> Int]], NEW samples \in Seq(Samples),
           \A i, j \in 1 .. 2 : CoeffScale * matrix[i][j] \in Int32,
           Exact(matrix, samples), NEW n \in 0 .. Len(samples),
           WellPosed(Moments(samples, n))
    PROVE  \A i, j \in 1 .. 2 :
               LeastSquares(Moments(samples, n))[i][j] = CoeffScale * matrix[i][j]
<1> DEFINE X(i, j) == [k \in 1 .. n |-> samples[k].x[i] * samples[k].x[j]]
           Y(i, j) == [k \in 1 .. n |-> samples[k].y[i] * samples[k].x[j]]
           p == Total(X(1, 1), n)
           q == Total(X(1, 2), n)
           r == Total(X(2, 2), n)
           m == Moments(samples, n)
<1>1. n \in Nat /\ \A k \in 1 .. n : k \in DOMAIN samples /\ samples[k] \in Samples
    BY LenProperties, ElementOfSeq
<1>2. \A k \in 1 .. n : samples[k].x[1] \in Int /\ samples[k].x[2] \in Int
    <2>1. ASSUME NEW s \in Samples PROVE s.x[1] \in Int /\ s.x[2] \in Int
        <3>1. s.x \in [1 .. 2 -> Int]
            BY DEF Samples
        <3> QED BY <3>1
    <2> QED BY <1>1, <2>1
<1>3. /\ X(1, 1) \in [1 .. n -> Int] /\ X(1, 2) \in [1 .. n -> Int] /\ X(2, 2) \in [1 .. n -> Int]
    BY <1>2
<1>4. p \in Int /\ q \in Int /\ r \in Int
    <2> HIDE DEF X
    <2> QED BY <1>1, <1>3, TotalIsInteger
<1>5. ASSUME NEW i \in 1 .. 2
      PROVE  /\ Total(Y(i, 1), n) = matrix[i][1] * p + matrix[i][2] * q
             /\ Total(Y(i, 2), n) = matrix[i][1] * q + matrix[i][2] * r
    <2>1. matrix[i][1] \in Int /\ matrix[i][2] \in Int
        OBVIOUS
    <2>2. ASSUME NEW k \in 1 .. n
          PROVE  /\ Y(i, 1)[k] = matrix[i][1] * X(1, 1)[k] + matrix[i][2] * X(1, 2)[k]
                 /\ Y(i, 2)[k] = matrix[i][1] * X(1, 2)[k] + matrix[i][2] * X(2, 2)[k]
        <3> DEFINE a == matrix[i][1]
                   b == matrix[i][2]
                   u == samples[k].x[1]
                   v == samples[k].x[2]
        <3>1. a \in Int /\ b \in Int /\ u \in Int /\ v \in Int
            BY <1>2, <2>1
        <3>2. samples[k].y[i] = a * u + b * v
            BY <1>1 DEF Exact
        <3>3. /\ Y(i, 1)[k] = (a * u + b * v) * u /\ Y(i, 2)[k] = (a * u + b * v) * v
              /\ X(1, 1)[k] = u * u /\ X(1, 2)[k] = u * v /\ X(2, 2)[k] = v * v
            BY <3>2
        <3> HIDE DEF a, b, u, v, X, Y
        <3>4. /\ (a * u + b * v) * u = a * (u * u) + b * (u * v)
              /\ (a * u + b * v) * v = a * (u * v) + b * (v * v)
            BY <3>1
        <3> QED BY <3>3, <3>4 DEF a, b
    <2>3. /\ Combined(Y(i, 1), matrix[i][1], X(1, 1), matrix[i][2], X(1, 2), n)
          /\ Combined(Y(i, 2), matrix[i][1], X(1, 2), matrix[i][2], X(2, 2), n)
        <3> HIDE DEF X, Y
        <3> QED BY <1>1, <1>3, <2>1, <2>2 DEF Combined
    <2> HIDE DEF X, Y
    <2> QED BY <2>3, TotalIsLinear
<1>6. /\ m.s00 = p /\ m.s01 = q /\ m.s11 = r
      /\ m.t00 = Total(Y(1, 1), n) /\ m.t01 = Total(Y(1, 2), n)
      /\ m.t10 = Total(Y(2, 1), n) /\ m.t11 = Total(Y(2, 2), n)
    BY DEF Moments
<1> HIDE DEF X, Y, p, q, r, m
<1> DEFINE d == p * r - q * q
<1>7. Determinant(m) = d /\ d \in Nat /\ d > 0
    <2>1. Determinant(m) = d
        BY <1>6 DEF Determinant
    <2>2. Determinant(m) > 0
        BY DEF WellPosed, m
    <2> QED BY <1>4, <2>1, <2>2
<1> HIDE DEF d
<1>8. ASSUME NEW a \in Int, NEW b \in Int
      PROVE  /\ TDiv(((a * p + b * q) * r - (a * q + b * r) * q) * CoeffScale, d) = CoeffScale * a
             /\ TDiv(((a * q + b * r) * p - (a * p + b * q) * q) * CoeffScale, d) = CoeffScale * b
    <2>1. CoeffScale \in Int /\ a * CoeffScale \in Int /\ b * CoeffScale \in Int
        BY RowAssumption
    <2>2. TDiv((a * CoeffScale) * d, d) = a * CoeffScale /\ TDiv((b * CoeffScale) * d, d) = b * CoeffScale
        BY <1>7, <2>1, DividesBack
    <2>3. /\ ((a * p + b * q) * r - (a * q + b * r) * q) * CoeffScale = (a * CoeffScale) * d
          /\ ((a * q + b * r) * p - (a * p + b * q) * q) * CoeffScale = (b * CoeffScale) * d
        BY <1>4, <2>1, NormalEquations DEF d
    <2>4. a * CoeffScale = CoeffScale * a /\ b * CoeffScale = CoeffScale * b
        BY <2>1
    <2> QED BY <2>2, <2>3, <2>4
<1>9. ASSUME NEW i \in 1 .. 2
      PROVE  /\ LeastSquares(m)[i][1] = CoeffScale * matrix[i][1]
             /\ LeastSquares(m)[i][2] = CoeffScale * matrix[i][2]
    <2> DEFINE s == Total(Y(i, 1), n)
               t == Total(Y(i, 2), n)
    <2>1. /\ LeastSquares(m)[i][1] = clamp_i32(TDiv((s * r - t * q) * CoeffScale, d))
          /\ LeastSquares(m)[i][2] = clamp_i32(TDiv((t * p - s * q) * CoeffScale, d))
        <3>1. i = 1 \/ i = 2
            OBVIOUS
        <3> QED BY <1>6, <1>7, <3>1 DEF LeastSquares
    <2>2. s = matrix[i][1] * p + matrix[i][2] * q /\ t = matrix[i][1] * q + matrix[i][2] * r
        BY <1>5
    <2>3. matrix[i][1] \in Int /\ matrix[i][2] \in Int
        OBVIOUS
    <2>4. /\ TDiv((s * r - t * q) * CoeffScale, d) = CoeffScale * matrix[i][1]
          /\ TDiv((t * p - s * q) * CoeffScale, d) = CoeffScale * matrix[i][2]
        BY <1>8, <2>2, <2>3
    <2>5. CoeffScale * matrix[i][1] \in Int32 /\ CoeffScale * matrix[i][2] \in Int32
        OBVIOUS
    <2> QED BY <2>1, <2>4, <2>5, Clamped
<1> QED BY <1>9 DEF m

-----------------------------------------------------------------------------
(* The solver returns a matrix of integers, whatever the samples.               *)

Matrices == [1 .. 2 -> [1 .. 2 -> Int]]

LEMMA MomentsAreIntegers ==
    ASSUME NEW samples \in Seq(Samples), NEW n \in 0 .. Len(samples)
    PROVE  LET m == Moments(samples, n)
           IN  /\ m.s00 \in Int /\ m.s01 \in Int /\ m.s11 \in Int
               /\ m.t00 \in Int /\ m.t01 \in Int /\ m.t10 \in Int /\ m.t11 \in Int
<1> DEFINE X(i, j) == [k \in 1 .. n |-> samples[k].x[i] * samples[k].x[j]]
           Y(i, j) == [k \in 1 .. n |-> samples[k].y[i] * samples[k].x[j]]
           m == Moments(samples, n)
<1>1. n \in Nat /\ \A k \in 1 .. n : samples[k] \in Samples
    BY LenProperties, ElementOfSeq
<1>2. \A k \in 1 .. n : \A i \in 1 .. 2 : samples[k].x[i] \in Int /\ samples[k].y[i] \in Int
    <2>1. ASSUME NEW s \in Samples, NEW i \in 1 .. 2 PROVE s.x[i] \in Int /\ s.y[i] \in Int
        BY DEF Samples
    <2> QED BY <1>1, <2>1
<1>3. ASSUME NEW i \in 1 .. 2, NEW j \in 1 .. 2
      PROVE  Total(X(i, j), n) \in Int /\ Total(Y(i, j), n) \in Int
    <2>1. \A u \in Int, v \in Int : u * v \in Int
        OBVIOUS
    <2>2. \A k \in 1 .. n : /\ samples[k].x[i] * samples[k].x[j] \in Int
                            /\ samples[k].y[i] * samples[k].x[j] \in Int
        BY <1>2, <2>1
    <2>3. X(i, j) \in [1 .. n -> Int] /\ Y(i, j) \in [1 .. n -> Int]
        BY <2>2
    <2> HIDE DEF X, Y
    <2> QED BY <1>1, <2>3, TotalIsInteger
<1>4. /\ m.s00 = Total(X(1, 1), n) /\ m.s01 = Total(X(1, 2), n) /\ m.s11 = Total(X(2, 2), n)
      /\ m.t00 = Total(Y(1, 1), n) /\ m.t01 = Total(Y(1, 2), n)
      /\ m.t10 = Total(Y(2, 1), n) /\ m.t11 = Total(Y(2, 2), n)
    BY DEF Moments
<1>5. 1 \in 1 .. 2 /\ 2 \in 1 .. 2
    OBVIOUS
<1> HIDE DEF X, Y, m
<1> QED BY <1>3, <1>4, <1>5 DEF m

LEMMA TDivIsInteger == ASSUME NEW a \in Int, NEW d \in Int, d > 0 PROVE TDiv(a, d) \in Int
BY DEF TDiv

LEMMA SolvedIsMatrix ==
    ASSUME NEW samples \in Seq(Samples), Len(samples) >= MinSamples,
           NEW matrix \in MapMeasurement_SolveM(samples)
    PROVE  /\ matrix \in Matrices
           /\ Len(samples) - Holdout \in 0 .. Len(samples)
           /\ WellPosed(Moments(samples, Len(samples) - Holdout))
           /\ matrix = LeastSquares(Moments(samples, Len(samples) - Holdout))
<1> DEFINE m == Moments(samples, Len(samples) - Holdout)
           d == Determinant(m)
<1>1. Len(samples) - Holdout \in 0 .. Len(samples)
    BY RowAssumption, LenProperties
<1>2. WellPosed(m) /\ matrix = LeastSquares(m)
    BY DEF MapMeasurement_SolveM
<1>3. /\ m.s00 \in Int /\ m.s01 \in Int /\ m.s11 \in Int
      /\ m.t00 \in Int /\ m.t01 \in Int /\ m.t10 \in Int /\ m.t11 \in Int
    BY <1>1, MomentsAreIntegers
<1> HIDE DEF m
<1>4. d \in Int /\ d > 0
    BY <1>2, <1>3 DEF Determinant, WellPosed
<1> HIDE DEF d
<1>5. ASSUME NEW a \in Int, NEW b \in Int
      PROVE  /\ TDiv((a * m.s11 - b * m.s01) * CoeffScale, d) \in Int
             /\ TDiv((b * m.s00 - a * m.s01) * CoeffScale, d) \in Int
    <2>1. CoeffScale \in Int
        BY RowAssumption
    <2>2. /\ (a * m.s11 - b * m.s01) * CoeffScale \in Int
          /\ (b * m.s00 - a * m.s01) * CoeffScale \in Int
        <3>1. \A s \in Int, t \in Int, u \in Int : (a * s - b * t) * u \in Int
            OBVIOUS
        <3>2. \A s \in Int, t \in Int, u \in Int : (b * s - a * t) * u \in Int
            OBVIOUS
        <3> QED BY <1>3, <2>1, <3>1, <3>2
    <2> QED BY <1>4, <2>2, TDivIsInteger
<1>6. LeastSquares(m) \in Matrices
    <2> DEFINE a == clamp_i32(TDiv((m.t00 * m.s11 - m.t01 * m.s01) * CoeffScale, d))
               b == clamp_i32(TDiv((m.t01 * m.s00 - m.t00 * m.s01) * CoeffScale, d))
               c == clamp_i32(TDiv((m.t10 * m.s11 - m.t11 * m.s01) * CoeffScale, d))
               e == clamp_i32(TDiv((m.t11 * m.s00 - m.t10 * m.s01) * CoeffScale, d))
    <2>1. a \in Int /\ b \in Int /\ c \in Int /\ e \in Int
        BY <1>3, <1>5, Clamped
    <2>2. LeastSquares(m) = << <<a, b>>, <<c, e>> >>
        BY DEF LeastSquares, d
    <2> HIDE DEF a, b, c, e
    <2> QED BY <2>1, <2>2 DEF Matrices
<1> QED BY <1>1, <1>2, <1>6 DEF m

-----------------------------------------------------------------------------
(* A frame that was met before is refused, wherever it stands.                  *)

\* Over the samples of an accepted row the frame numbers are all different.
LEMMA AddedAreDistinct ==
    ASSUME NEW samples \in Seq(Samples), AllAdded(samples)
    PROVE  \A i, j \in DOMAIN samples : i # j => samples[i].seq # samples[j].seq
<1>1. DOMAIN samples = 1 .. Len(samples) /\ Len(samples) \in Nat
    BY LenProperties
<1>2. ASSUME NEW j \in DOMAIN samples, NEW i \in DOMAIN samples, i < j
      PROVE  samples[i].seq # samples[j].seq
    <2> DEFINE taken == SubSeq(samples, 1, j - 1)
    <2>1. i \in DOMAIN taken /\ taken[i] = samples[i]
        <3>1. /\ i \in 1 .. j - 1 /\ j - 1 \in Int /\ 1 \in 1 .. Len(samples) + 1
              /\ j - 1 \in 1 - 1 .. Len(samples) /\ (j - 1) - 1 + 1 = j - 1 /\ 1 + i - 1 = i
            BY <1>1, <1>2
        <3>2. /\ Len(taken) = j - 1 /\ taken \in Seq(Samples)
              /\ \A k \in 1 .. j - 1 : taken[k] = samples[k]
            BY <1>1, <3>1, SubSeqProperties
        <3> HIDE DEF taken
        <3> QED BY <3>1, <3>2, LenProperties
    <2>2. MapMeasurementAccumulator_Add(taken, samples[j]) = "OK"
        BY DEF AllAdded
    <2> HIDE DEF taken
    <2>3. ~ \E k \in DOMAIN taken : taken[k].seq = samples[j].seq
        BY <2>2 DEF MapMeasurementAccumulator_Add
    <2> QED BY <2>1, <2>3
<1>3. \A i, j \in DOMAIN samples : i # j => i < j \/ j < i
    BY <1>1
<1> QED BY <1>2, <1>3

-----------------------------------------------------------------------------
(* The invariant.                                                               *)

InProgress == {"read", "accumulated", "solved"}

ProgressIsTyped ==
    /\ truth \in Truths
    /\ row \in 0 .. 12
    /\ stage \in {"start", "certified", "emitted"} \cup InProgress \cup Failed
    /\ stage \in InProgress => row \in Rows
    /\ region \in Seq(Boxes) /\ Len(region) = row
    /\ recon \in Seq(Matrices)
    /\ Len(recon) = row + (IF stage \in {"solved", "CERT_FAILED"} THEN 1 ELSE 0)

\* The flaws are those of the rows so far, with that of the row at hand.
FlawsAreOfRows ==
    /\ \A r \in DOMAIN flaws : r \in Rows /\ r <= row
    /\ stage \in {"start", "certified"} => \A r \in DOMAIN flaws : r < row
    /\ stage \in InProgress => FlawOf(row) = input.flaw

\* A row that was accepted has enough samples, and no frame in it twice.
RowIsAccepted ==
    stage \in {"accumulated", "solved"} =>
        /\ Len(input.samples) >= MinSamples
        /\ \A i, j \in DOMAIN input.samples : i # j => input.samples[i].seq # input.samples[j].seq

RegionIsTested == stage = "certified" => row >= 1 /\ Tested(region[row], input.cells)

PipeInv ==
    /\ ProgressIsTyped
    /\ Inputs(input)
    /\ FlawsAreOfRows
    /\ RowIsAccepted
    /\ RegionIsTested
    /\ CleanRowsAreExact

LEMMA PipeInitInv == PipeInit => PipeInv
<1> SUFFICES ASSUME PipeInit PROVE PipeInv
    OBVIOUS
<1> USE DEF PipeInit
<1>1. ProgressIsTyped
    <2>1. Len(<< >>) = 0 /\ region = << >> /\ recon = << >>
        OBVIOUS
    <2>2. region \in Seq(Boxes) /\ recon \in Seq(Matrices)
        BY EmptySeq
    <2> QED BY <2>1, <2>2 DEF ProgressIsTyped, InProgress
<1>2. Inputs(input)
    <2>1. input.samples = << >> /\ input.cells = << >>
        OBVIOUS
    <2>2. << >> \in Seq(Samples) /\ DOMAIN << >> = {} /\ << >> \in [{} -> Cells]
        OBVIOUS
    <2> QED BY <2>1, <2>2 DEF Inputs, Exact
<1>3. FlawsAreOfRows /\ RowIsAccepted /\ RegionIsTested
    BY DEF FlawsAreOfRows, RowIsAccepted, RegionIsTested, InProgress
<1>4. CleanRowsAreExact
    BY DEF CleanRowsAreExact
<1> QED BY <1>1, <1>2, <1>3, <1>4 DEF PipeInv

\* What was true of rows before is true while neither the matrix, nor the solved
\* matrices, nor the flaws of their rows change.
LEMMA ExactStays ==
    ASSUME CleanRowsAreExact, recon' = recon, truth' = truth,
           \A r \in DOMAIN recon : FlawOf(r - 1)' = FlawOf(r - 1)
    PROVE  CleanRowsAreExact'
BY DEF CleanRowsAreExact

LEMMA PipeNextInv == PipeInv /\ [PipeNext]_vars => PipeInv'
<1> SUFFICES ASSUME PipeInv, [PipeNext]_vars PROVE PipeInv'
    OBVIOUS
<1>1. /\ ProgressIsTyped /\ Inputs(input) /\ FlawsAreOfRows /\ RowIsAccepted
      /\ RegionIsTested /\ CleanRowsAreExact
    BY DEF PipeInv
<1>2. CASE ReadRow
    <2>1. /\ stage \in {"start", "certified"} /\ row \in Rows
          /\ UNCHANGED <<truth, row, recon, region>> /\ stage' \in {"read", "EVIDENCE"}
        BY <1>2 DEF ReadRow
    <2>2. truth \in Truths /\ \A r \in DOMAIN flaws : r < row /\ r \in Rows
        BY <1>1, <2>1 DEF ProgressIsTyped, FlawsAreOfRows
    <2>3. /\ Inputs(input)'
          /\ DOMAIN flaws' \subseteq DOMAIN flaws \cup {row}
          /\ FlawOf(row)' = input'.flaw
          /\ \A r \in Rows : r # row => FlawOf(r)' = FlawOf(r)
        <3>1. CASE input' = Entry(row, Clean, "none") /\ flaws' = flaws
            <4>1. Inputs(input')
                BY <2>1, <2>2, <3>1, CleanIsTyped, EntryIsTyped
            <4>2. row \notin DOMAIN flaws
                <5>1. ~ (row < row)
                    BY <2>1 DEF Rows
                <5> QED BY <2>2, <5>1
            <4>3. input'.flaw = "none"
                BY <3>1 DEF Entry
            <4>4. Inputs(input)'
                BY <2>1, <4>1 DEF Inputs, Exact
            <4> QED BY <2>1, <3>1, <4>2, <4>3, <4>4 DEF FlawOf
        <3>2. CASE /\ input' \in FlawedRows(row)
                   /\ flaws' = [r \in DOMAIN flaws \cup {row} |->
                                  IF r = row THEN input'.flaw ELSE flaws[r]]
            <4>1. Inputs(input')
                BY <2>1, <2>2, <3>2, FlawedIsTyped
            <4>2. Inputs(input)'
                BY <2>1, <4>1 DEF Inputs, Exact
            <4>3. DOMAIN flaws' = DOMAIN flaws \cup {row}
                BY <3>2
            <4>4. flaws'[row] = input'.flaw /\ \A r \in DOMAIN flaws : r # row => flaws'[r] = flaws[r]
                BY <3>2
            <4> QED BY <2>1, <4>2, <4>3, <4>4 DEF FlawOf
        <3> QED BY <1>2, <3>1, <3>2 DEF ReadRow
    <2>4. ProgressIsTyped'
        BY <1>1, <2>1 DEF ProgressIsTyped, InProgress, Failed
    <2>5. FlawsAreOfRows'
        <3>1. \A r \in DOMAIN flaws' : r \in Rows /\ r <= row
            BY <2>1, <2>2, <2>3 DEF Rows
        <3> QED BY <2>1, <2>3, <3>1 DEF FlawsAreOfRows
    <2>6. RowIsAccepted' /\ RegionIsTested'
        BY <2>1 DEF RowIsAccepted, RegionIsTested
    <2>7. CleanRowsAreExact'
        <3>1. \A r \in DOMAIN recon : r - 1 \in Rows /\ r - 1 # row
            <4>1. DOMAIN recon = 1 .. row /\ row \in 0 .. 11
                BY <1>1, <2>1, LenProperties DEF ProgressIsTyped, Rows
            <4> QED BY <4>1 DEF Rows
        <3> QED BY <1>1, <2>1, <2>3, <3>1, ExactStays
    <2> QED BY <2>3, <2>4, <2>5, <2>6, <2>7 DEF PipeInv
<1>3. CASE Accumulate
    <2>1. /\ stage = "read" /\ stage' \in {"accumulated", "ACCUM_FAILED"}
          /\ stage' = "accumulated" =>
                AllAdded(input.samples)
                /\ MapMeasurementAccumulator_FinalizeRow(input.samples) = "OK"
          /\ UNCHANGED <<truth, row, input, flaws, recon, region>>
        BY <1>3 DEF Accumulate
    <2>2. RowIsAccepted'
        <3> SUFFICES ASSUME stage' = "accumulated" PROVE RowIsAccepted'
            BY <2>1 DEF RowIsAccepted
        <3>1. input.samples \in Seq(Samples)
            BY <1>1 DEF Inputs
        <3>2. ~ (Len(input.samples) < MinSamples)
            BY <2>1 DEF MapMeasurementAccumulator_FinalizeRow
        <3>3. Len(input.samples) >= MinSamples
            BY <3>1, <3>2, LenProperties, RowAssumption
        <3> QED BY <2>1, <3>1, <3>3, AddedAreDistinct DEF RowIsAccepted
    <2>3. ProgressIsTyped' /\ Inputs(input)' /\ FlawsAreOfRows' /\ RegionIsTested'
        BY <1>1, <2>1
        DEF ProgressIsTyped, FlawsAreOfRows, RegionIsTested, Inputs, Exact, InProgress, Failed, FlawOf
    <2>4. CleanRowsAreExact'
        BY <1>1, <2>1 DEF CleanRowsAreExact, FlawOf
    <2> QED BY <2>2, <2>3, <2>4 DEF PipeInv
<1>4. CASE Solve
    <2>1. /\ stage = "accumulated" /\ UNCHANGED <<truth, row, input, flaws, region>>
          /\ \/ stage' = "SOLVER_FAILED" /\ recon' = recon
             \/ /\ stage' = "solved"
                /\ \E m \in MapMeasurement_SolveM(input.samples) : recon' = Append(recon, m)
        BY <1>4 DEF Solve
    <2>2. Inputs(input)' /\ FlawsAreOfRows' /\ RegionIsTested' /\ RowIsAccepted'
        BY <1>1, <2>1 DEF FlawsAreOfRows, RegionIsTested, RowIsAccepted, Inputs, Exact, InProgress, FlawOf
    <2>3. CASE stage' = "SOLVER_FAILED" /\ recon' = recon
        <3>1. ProgressIsTyped'
            BY <1>1, <2>1, <2>3 DEF ProgressIsTyped, InProgress, Failed
        <3>2. CleanRowsAreExact'
            BY <1>1, <2>1, <2>3 DEF CleanRowsAreExact, FlawOf
        <3> QED BY <2>2, <3>1, <3>2 DEF PipeInv
    <2>4. ASSUME NEW m \in MapMeasurement_SolveM(input.samples),
                 stage' = "solved", recon' = Append(recon, m)
          PROVE  PipeInv'
        <3>1. /\ input.samples \in Seq(Samples) /\ Len(input.samples) >= MinSamples
              /\ input.flaw \in {"none", "omitted"} => Exact(truth, input.samples)
              /\ truth \in Matrices /\ FlawOf(row) = input.flaw
              /\ \A i, j \in 1 .. 2 : CoeffScale * truth[i][j] \in Int32
            BY <1>1, <2>1, PipelineAssumption
            DEF Inputs, RowIsAccepted, ProgressIsTyped, Matrices, FlawsAreOfRows, InProgress
        <3>2. m \in Matrices
            BY <3>1, SolvedIsMatrix
        <3>3. recon \in Seq(Matrices) /\ Len(recon) = row /\ row \in Rows /\ row \in Nat
            BY <1>1, <2>1 DEF ProgressIsTyped, InProgress, Rows
        <3>4. /\ recon' \in Seq(Matrices) /\ Len(recon') = row + 1 /\ recon'[row + 1] = m
              /\ \A r \in 1 .. row : recon'[r] = recon[r]
              /\ DOMAIN recon = 1 .. row /\ DOMAIN recon' = 1 .. row + 1
            BY <2>4, <3>2, <3>3, AppendProperties, LenProperties
        <3>5. ProgressIsTyped'
            BY <1>1, <2>1, <2>4, <3>3, <3>4 DEF ProgressIsTyped, InProgress
        <3>6. CleanRowsAreExact'
            <4>1. input.flaw \in {"none", "omitted"} =>
                      \A i, j \in 1 .. 2 : m[i][j] = CoeffScale * truth[i][j]
                BY <3>1, SolvedIsMatrix, ExactIsRecovered DEF Matrices
            <4>2. \A r : FlawOf(r)' = FlawOf(r)
                BY <2>1 DEF FlawOf
            <4>3. ASSUME NEW r \in DOMAIN recon', FlawOf(r - 1)' \in {"none", "omitted"}
                  PROVE  \A i, j \in 1 .. 2 : recon'[r][i][j] = CoeffScale * truth[i][j]
                <5>1. CASE r = row + 1
                    <6>1. r - 1 = row
                        BY <3>3, <5>1
                    <6> QED BY <3>1, <3>4, <4>1, <4>2, <4>3, <5>1, <6>1
                <5>2. CASE r # row + 1
                    <6>1. r \in 1 .. row
                        BY <3>3, <3>4, <4>3, <5>2
                    <6> QED BY <1>1, <3>4, <4>2, <4>3, <6>1 DEF CleanRowsAreExact
                <5> QED BY <5>1, <5>2
            <4> QED BY <2>1, <4>3 DEF CleanRowsAreExact
        <3> QED BY <2>2, <3>5, <3>6 DEF PipeInv
    <2> QED BY <2>1, <2>3, <2>4
<1>5. CASE Certify
    <2>1. /\ stage = "solved" /\ UNCHANGED <<truth, input, flaws, recon>>
          /\ \/ stage' = "CERT_FAILED" /\ UNCHANGED <<region, row>>
             \/ /\ stage' = "certified" /\ row' = row + 1
                /\ \E b \in certify_impl(input.cells) : region' = Append(region, b)
        BY <1>5 DEF Certify
    <2>2. Inputs(input)' /\ RowIsAccepted' /\ CleanRowsAreExact'
        BY <1>1, <2>1 DEF Inputs, Exact, RowIsAccepted, CleanRowsAreExact, FlawOf
    <2>3. CASE stage' = "CERT_FAILED" /\ UNCHANGED <<region, row>>
        <3>1. ProgressIsTyped' /\ FlawsAreOfRows' /\ RegionIsTested'
            BY <1>1, <2>1, <2>3
            DEF ProgressIsTyped, FlawsAreOfRows, RegionIsTested, InProgress, Failed, FlawOf
        <3> QED BY <2>2, <3>1 DEF PipeInv
    <2>4. ASSUME NEW b \in certify_impl(input.cells),
                 stage' = "certified", row' = row + 1, region' = Append(region, b)
          PROVE  PipeInv'
        <3>1. Tested(b, input.cells) /\ b \in Boxes
            BY <1>1, CertifiedIsTested DEF Inputs
        <3>2. region \in Seq(Boxes) /\ Len(region) = row /\ row \in 0 .. 11 /\ row \in Nat
            BY <1>1, <2>1 DEF ProgressIsTyped, InProgress, Rows
        <3>3. region' \in Seq(Boxes) /\ Len(region') = row + 1 /\ region'[row + 1] = b
            BY <2>4, <3>1, <3>2, AppendProperties
        <3>4. ProgressIsTyped'
            BY <1>1, <2>1, <2>4, <3>2, <3>3 DEF ProgressIsTyped, InProgress
        <3>5. FlawsAreOfRows'
            <4>1. \A r \in DOMAIN flaws : r \in Rows /\ r <= row
                BY <1>1 DEF FlawsAreOfRows
            <4>2. \A r \in DOMAIN flaws : r \in Rows /\ r <= row + 1 /\ r < row + 1
                BY <3>2, <4>1 DEF Rows
            <4> QED BY <2>1, <2>4, <4>2 DEF FlawsAreOfRows, InProgress
        <3>6. RegionIsTested'
            BY <2>1, <2>4, <3>1, <3>2, <3>3 DEF RegionIsTested, Tested, ValidCells, inside
        <3> QED BY <2>2, <3>4, <3>5, <3>6 DEF PipeInv
    <2> QED BY <2>1, <2>3, <2>4
<1>6. CASE Emit
    <2>1. /\ stage = "certified" /\ stage' \in {"LOAD_FAILED", "emitted"}
          /\ UNCHANGED <<truth, row, input, flaws, recon, region>>
        BY <1>6 DEF Emit
    <2>2. /\ ProgressIsTyped' /\ Inputs(input)' /\ FlawsAreOfRows' /\ RowIsAccepted'
          /\ RegionIsTested'
        BY <1>1, <2>1
        DEF ProgressIsTyped, Inputs, Exact, FlawsAreOfRows, RowIsAccepted, RegionIsTested, InProgress,
            Failed, FlawOf
    <2>3. CleanRowsAreExact'
        BY <1>1, <2>1 DEF CleanRowsAreExact, FlawOf
    <2> QED BY <2>2, <2>3 DEF PipeInv
<1>7. CASE UNCHANGED vars
    BY <1>1, <1>7
    DEF PipeInv, ProgressIsTyped, Inputs, Exact, FlawsAreOfRows, RowIsAccepted, RegionIsTested,
        CleanRowsAreExact, FlawOf, vars
<1> QED BY <1>2, <1>3, <1>4, <1>5, <1>6, <1>7 DEF PipeNext

LEMMA PipeInvariant == PipeSpec => []PipeInv
BY PipeInitInv, PipeNextInv, PTL DEF PipeSpec

\* A region that was certified has, along each phase, valid cells on both sides of
\* it, no closer than the guard, and no listed cell in it that is not valid, for
\* every grid of points, guard and number of cells (map_region_certifier.c:136-151).
THEOREM RegionsAreTested == PipeSpec => []BoxIsTested
<1>1. PipeInv => BoxIsTested
    BY DEF PipeInv, RegionIsTested, Tested, BoxIsTested
<1> QED BY <1>1, PipeInvariant, PTL

\* No frame counts twice in a row that was accepted, wherever its two samples
\* stand (map_measurement_accumulator.c:153-159).
THEOREM NoFrameCountsTwice == PipeSpec => []NoFrameTwice
<1>1. PipeInv => NoFrameTwice
    BY DEF PipeInv, RowIsAccepted, NoFrameTwice
<1> QED BY <1>1, PipeInvariant, PTL

\* For every matrix, every currents and every pulses left out: a row whose
\* references are exact gives that matrix to the last unit of its scale, and keeps
\* it while other rows are solved (map_measurement_solver.c:95-147).
THEOREM CleanRowsRecoverTheMatrix == PipeSpec => []CleanRowsAreExact
<1>1. PipeInv => CleanRowsAreExact
    BY DEF PipeInv
<1> QED BY <1>1, PipeInvariant, PTL
=============================================================================
