------------------------------- MODULE MapRow -------------------------------
(* What the host does with one row, a pair of a sector and a window: it collects *)
(* samples (map_measurement_accumulator.c), solves the reconstruction matrix     *)
(* (map_measurement_solver.c) and certifies the region from the tested cells     *)
(* (map_region_certifier.c, the statistical bounds).                             *)
(*                                                                               *)
(* A sample has the number of its frame, the two shunt currents x, the reference *)
(* currents y of the three phases, the aperture margin, and whether it has the   *)
(* settled and the scope claim. A cell has a modulation vector, a margin and a   *)
(* status. The other fields of a sample are set by map_artifact_pipeline_cli.c   *)
(* from the identity of the dataset and always fit the row.                      *)
EXTENDS Integers, Sequences, FiniteSets, TLC

CONSTANTS
    MinSamples, MaxSamples,       \* of a row: min_samples, MAP_ACCUM_MAX_SAMPLES_PER_ROW
    MadLimit, KclLimit,           \* mad_limit_ma, kcl_limit_ma
    MinMargin,                    \* min_margin_ticks
    Holdout,                      \* holdout_samples
    RmsLimit, MaxLimit, BiasLimit, HoldoutLimit, KclRmsLimit,
    MaxCondition, MinDeterminant, MinDiagonal,
    CoeffScale,                   \* CURRENT_RECON_COEFF_SCALE
    DetScale,                     \* the scale of the relative determinant
    MinValidCells, Guard          \* min_valid_cells, guard_q15

ASSUME RowAssumption ==
    /\ MinSamples \in Nat /\ Holdout \in 1 .. (MinSamples - 1)
    /\ {MadLimit, KclLimit, MinMargin, MinValidCells, CoeffScale} \subseteq Nat \ {0}
    /\ Guard \in Nat

\* C division, by a positive number: towards zero.
TDiv(a, b) == IF a >= 0 THEN a \div b ELSE - ((- a) \div b)

INT32_MAX == 2147483647
Int32 == (- INT32_MAX - 1) .. INT32_MAX
clamp_i32(v) == IF v > INT32_MAX THEN INT32_MAX
                ELSE IF v < - INT32_MAX - 1 THEN - INT32_MAX - 1 ELSE v

Abs(v) == IF v >= 0 THEN v ELSE - v
Sorted(s) == SortSeq(s, <)
isqrt(n) == CHOOSE r \in 0 .. n : r * r <= n /\ (r + 1) * (r + 1) > n

\* The sum of f over the first n indices.
Total(f, n) == LET sum[i \in 0 .. n] == IF i = 0 THEN 0 ELSE sum[i - 1] + f[i] IN sum[n]

Kcl(s) == Abs(s.y[1] + s.y[2] + s.y[3])

-----------------------------------------------------------------------------
(* The accumulator.                                                             *)

\* Mutant: only the sample before is looked at.
AddUnlessNext(taken, s) ==
    IF ~ s.claims \/ s.margin < MinMargin \/ Kcl(s) > KclLimit THEN "SAMPLE_INVALID"
    ELSE IF taken # << >> /\ taken[Len(taken)].seq = s.seq THEN "SAMPLE_DUPLICATE"
    ELSE IF Len(taken) >= MaxSamples THEN "ROW_FULL"
    ELSE "OK"

\* The verdict on a sample after those taken.
MapMeasurementAccumulator_Add(taken, s) ==
    IF ~ s.claims \/ s.margin < MinMargin \/ Kcl(s) > KclLimit THEN "SAMPLE_INVALID"
    ELSE IF \E i \in DOMAIN taken : taken[i].seq = s.seq THEN "SAMPLE_DUPLICATE"
    ELSE IF Len(taken) >= MaxSamples THEN "ROW_FULL"
    ELSE "OK"

\* Every sample of the row is accepted; the pipeline stops at the first that is not.
AllAdded(samples) ==
    \A i \in DOMAIN samples :
        MapMeasurementAccumulator_Add(SubSeq(samples, 1, i - 1), samples[i]) = "OK"

\* An even count takes the halves of the middle values and one more if both
\* are odd.
median_i32(s) ==
    LET n == Len(s)
        v == Sorted(s)
        low == v[n \div 2]
        high == v[n \div 2 + 1]
    IN  IF n % 2 = 1 THEN v[n \div 2 + 1]
        ELSE TDiv(low, 2) + TDiv(high, 2) + (IF low % 2 = 1 /\ high % 2 = 1 THEN 1 ELSE 0)

Values(samples, phase) == [i \in DOMAIN samples |-> samples[i].y[phase]]
Deviations(s) == LET m == median_i32(s) IN [i \in DOMAIN s |-> Abs(s[i] - m)]
OutlierLimit(s) == MadLimit + 3 * median_i32(Deviations(s))

\* The places of the outliers. median_i32 has sorted the values of each phase,
\* so that a place is a rank, not a sample.
OutlierRanks(samples) ==
    {i \in DOMAIN samples :
        \E phase \in 1 .. 3 :
            LET s == Sorted(Values(samples, phase))
            IN  Deviations(s)[i] > OutlierLimit(s)}

\* The sums of the residuals of Kirchhoff's law are those of the samples at the
\* places that are left.
MapMeasurementAccumulator_FinalizeRow(samples) ==
    LET inliers == DOMAIN samples \ OutlierRanks(samples)
        kcl == [i \in DOMAIN samples |-> IF i \in inliers THEN Kcl(samples[i]) ELSE 0]
        square == [i \in DOMAIN samples |-> kcl[i] * kcl[i]]
    IN  IF Len(samples) < MinSamples THEN "NOT_ENOUGH_SAMPLES"
        ELSE IF Cardinality(inliers) < MinSamples THEN "NOISE_TOO_HIGH"
        ELSE IF \/ \E i \in inliers : kcl[i] > KclLimit
                \/ isqrt(Total(square, Len(samples)) \div Cardinality(inliers)) > KclLimit
        THEN "KCL_ERROR"
        ELSE "OK"

-----------------------------------------------------------------------------
(* The solver: ordinary least squares over the samples but the last Holdout.    *)

\* The sums of products over the first n samples.
Moments(samples, n) ==
    LET SumXX(i, j) == Total([k \in 1 .. n |-> samples[k].x[i] * samples[k].x[j]], n)
        SumYX(i, j) == Total([k \in 1 .. n |-> samples[k].y[i] * samples[k].x[j]], n)
    IN  [s00 |-> SumXX(1, 1), s01 |-> SumXX(1, 2), s11 |-> SumXX(2, 2),
         t00 |-> SumYX(1, 1), t01 |-> SumYX(1, 2),
         t10 |-> SumYX(2, 1), t11 |-> SumYX(2, 2)]

Determinant(m) == m.s00 * m.s11 - m.s01 * m.s01

WellPosed(m) ==
    /\ Determinant(m) > 0
    /\ TDiv(Determinant(m) * DetScale, m.s00 * m.s11) >= MinDeterminant
    /\ TDiv((m.s00 + m.s11) * (m.s00 + m.s11), Determinant(m)) <= MaxCondition

\* Mutant: the two cross sums are swapped.
SwappedSums(m) ==
    LET Gain(a, b) == clamp_i32(TDiv((a * m.s11 - b * m.s01) * CoeffScale, Determinant(m)))
        Cross(a, b) == clamp_i32(TDiv((b * m.s00 - a * m.s01) * CoeffScale, Determinant(m)))
    IN  << <<Gain(m.t00, m.t10), Cross(m.t00, m.t10)>>,
           <<Gain(m.t01, m.t11), Cross(m.t01, m.t11)>> >>

\* The matrix, scaled, truncated towards zero. The sums are wide enough for any
\* currents a shunt shows; the matrix is of 32 bits.
LeastSquares(m) ==
    LET Gain(a, b) == clamp_i32(TDiv((a * m.s11 - b * m.s01) * CoeffScale, Determinant(m)))
        Cross(a, b) == clamp_i32(TDiv((b * m.s00 - a * m.s01) * CoeffScale, Determinant(m)))
    IN  << <<Gain(m.t00, m.t01), Cross(m.t00, m.t01)>>,
           <<Gain(m.t10, m.t11), Cross(m.t10, m.t11)>> >>

\* The currents a matrix predicts. The division truncates to the unit of the instance,
\* which may be coarser than the 1 mA of the code; a residual then seems smaller by
\* less than that unit, and more matrices pass than in the code.
predict_scaled(matrix, phase, x) ==
    clamp_i32(TDiv(matrix[phase][1] * x[1] + matrix[phase][2] * x[2], CoeffScale))

Residual(matrix, s, phase) == predict_scaled(matrix, phase, s.x) - s.y[phase]

Worst(matrix, s) ==
    LET e0 == Abs(Residual(matrix, s, 1))
        e1 == Abs(Residual(matrix, s, 2))
    IN  IF e0 > e1 THEN e0 ELSE e1

\* Mutant: only the root mean square of the residuals is looked at.
FitByRms(matrix, samples) ==
    LET fit == Len(samples) - Holdout
        square == [i \in DOMAIN samples |-> Worst(matrix, samples[i]) * Worst(matrix, samples[i])]
    IN  isqrt(Total(square, fit) \div fit) <= RmsLimit

\* The residuals of the fit, of the samples held out, and of Kirchhoff's law.
ResidualsGood(matrix, samples) ==
    LET n == Len(samples)
        fit == n - Holdout
        square == [i \in DOMAIN samples |-> Worst(matrix, samples[i]) * Worst(matrix, samples[i])]
        bias == [i \in DOMAIN samples |->
                    Residual(matrix, samples[i], 1) + Residual(matrix, samples[i], 2)]
        kcl == [i \in DOMAIN samples |-> Kcl(samples[i]) * Kcl(samples[i])]
    IN  /\ isqrt(Total(square, fit) \div fit) <= RmsLimit
        /\ \A i \in 1 .. fit : Worst(matrix, samples[i]) <= MaxLimit
        /\ Abs(TDiv(Total(bias, fit), 2 * fit)) <= BiasLimit
        /\ isqrt((Total(square, n) - Total(square, fit)) \div Holdout) <= HoldoutLimit
        /\ isqrt(Total(kcl, n) \div n) <= KclRmsLimit

\* The matrix of the row, or none.
MapMeasurement_SolveM(samples) ==
    LET m == Moments(samples, Len(samples) - Holdout)
    IN  {matrix \in IF WellPosed(m) THEN {LeastSquares(m)} ELSE {} :
            /\ Abs(matrix[1][1]) >= MinDiagonal /\ Abs(matrix[2][2]) >= MinDiagonal
            /\ ResidualsGood(matrix, samples)}

-----------------------------------------------------------------------------
(* The certifier.                                                               *)

Least(S) == CHOOSE v \in S : \A u \in S : v <= u
Greatest(S) == CHOOSE v \in S : \A u \in S : u <= v

\* The cells are a sequence: a point measured twice counts twice.
ValidCells(cells) == {i \in DOMAIN cells : cells[i].status = "VALID"}

inside(box, c) == \A i \in 1 .. 3 : box.min[i] <= c.at[i] /\ c.at[i] <= box.max[i]

\* Mutant: the guard is added outside the tested cells.
GuardOutside(cells) ==
    LET Along(i) == {cells[k].at[i] : k \in ValidCells(cells)}
    IN  [min |-> [i \in 1 .. 3 |-> Least(Along(i)) - Guard],
         max |-> [i \in 1 .. 3 |-> Greatest(Along(i)) + Guard],
         margin |-> Least({cells[k].margin : k \in ValidCells(cells)}), valid |-> TRUE]

\* The box of the valid cells less the guard.
Box(cells) ==
    LET Along(i) == {cells[k].at[i] : k \in ValidCells(cells)}
    IN  [min |-> [i \in 1 .. 3 |-> Least(Along(i)) + Guard],
         max |-> [i \in 1 .. 3 |-> Greatest(Along(i)) - Guard],
         margin |-> Least({cells[k].margin : k \in ValidCells(cells)}), valid |-> TRUE]

NoneInside(box, cells) == \A k \in DOMAIN cells : inside(box, cells[k]) => cells[k].status = "VALID"

\* The region of the row, or none.
certify_impl(cells) ==
    {box \in IF Cardinality(ValidCells(cells)) >= MinValidCells THEN {Box(cells)} ELSE {} :
        /\ box.margin >= MinMargin
        /\ \A i \in 1 .. 3 : box.min[i] <= box.max[i]
        /\ NoneInside(box, cells)}
=============================================================================
