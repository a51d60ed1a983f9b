-------------------------- MODULE MapPipelineProps --------------------------
(* What must hold of a campaign and of the map made of it.                      *)
EXTENDS MapPipeline

PipeSpec == PipeInit /\ [][PipeNext]_vars

PipeTypeOK ==
    /\ truth \in Truths /\ start \in StartVectors
    /\ row \in 0 .. 12
    /\ stage \in {"start", "read", "accumulated", "solved", "certified", "emitted"} \cup Failed
    /\ DOMAIN flaws \subseteq Rows
    /\ Len(region) = row
    /\ Len(recon) = row + (IF stage \in {"solved", "CERT_FAILED"} THEN 1 ELSE 0)
    /\ \A r \in 1 .. row : \A i \in Phases :
           region[r].min[i] \in -32768 .. 32767 /\ region[r].max[i] \in -32768 .. 32767
    /\ (gMap = NoMap) = (table = NoMap)

\* The rows so far have no flaw but pulses the scope left out at the edge of a
\* burst, which the host allows.
CleanSoFar == \A r \in DOMAIN flaws : flaws[r] = "omitted"

\* The tables of the firmware and of the host, the grid, the shift of the second
\* window, the guard and the limits fit one another: a campaign of the board
\* profile without flaws goes through, for each matrix of Truths, to a map that the
\* firmware loads; in particular no two of its twelve regions share a vector,
\* and the startup vector lies in the first (map_capture_profiles.c:223-269,
\* map_scope_ingest.py:183-198, current_map_selector.c:99-129).
CleanCampaignLoads ==
    CleanSoFar /\ start = BOAR_MOD_Q15[1] => stage \notin Failed

\* A region that was certified has, along each phase taken by itself, valid cells
\* on both sides of it, no closer than the guard, and no failed or untested cell
\* inside it (map_region_certifier.c:136-151).
BoxIsTested ==
    stage = "certified" =>
        LET box == region[row]
            at == {input.cells[k].at : k \in ValidCells(input.cells)}
        IN  /\ \A i \in Phases :
                   /\ \E c \in at : c[i] + Guard <= box.min[i]
                   /\ \E c \in at : box.max[i] <= c[i] - Guard
            /\ \A k \in DOMAIN input.cells :
                   inside(box, input.cells[k]) => input.cells[k].status = "VALID"

\* No frame counts twice in a row, wherever its two samples stand
\* (map_measurement_accumulator.c:153-159).
NoFrameTwice ==
    stage = "accumulated" =>
        \A i, j \in DOMAIN input.samples :
            i # j => input.samples[i].seq # input.samples[j].seq

\* The flaw of a row, if it has one.
FlawOf(r) == IF r \in DOMAIN flaws THEN flaws[r] ELSE "none"

\* From exact references the solver recovers the matrix itself, to the last unit of
\* its scale, whatever pulses were left out; and it is still that of its row when
\* later rows, flawed or not, have been solved (map_measurement_solver.c:95-147,
\* map_artifact_pipeline.c:79-90).
CleanRowsAreExact ==
    \A r \in DOMAIN recon :
        FlawOf(r - 1) \in {"none", "omitted"} =>
            \A i, j \in 1 .. 2 : recon[r][i][j] = CoeffScale * truth[i][j]

\* How far a matrix that was solved may be from the true one, in units of its
\* scale: bound of the instance. It is loose for the grain of predict_scaled, which
\* lets larger errors through than the code does.
CONSTANT Tolerance

\* One wrong reference cannot carry a row far: either the residuals give it away,
\* or each coefficient stays near the true one
\* (map_measurement_solver.c:149-194).
MatrixIsNearTruth ==
    stage = "solved" /\ input.flaw = "wrong" =>
        \A i, j \in 1 .. 2 : Abs(recon[row + 1][i][j] - CoeffScale * truth[i][j]) <= Tolerance

-----------------------------------------------------------------------------
(* What documents say and the code does not do.                                 *)

\* The sample at a place is far from the median of a phase.
Outliers(samples) ==
    {k \in DOMAIN samples :
        \E phase \in Phases :
            LET s == Values(samples, phase) IN Deviations(s)[k] > OutlierLimit(s)}

\* "Before OLS ... median/MAD outlier rejection" (docs/MAP_ACCUMULATOR_SPEC.md,
\* 6.2): the solver reads the samples of the accumulator, outliers too.
FitUsesInliersOnly ==
    stage = "solved" /\ Outliers(input.samples) # {} =>
        LET kept == SelectSeq(input.samples, LAMBDA s :
                        \A k \in Outliers(input.samples) : input.samples[k] # s)
        IN  recon[row + 1] = LeastSquares(Moments(kept, Len(kept) - Holdout))

\* "Discard only samples beyond K_MAD and keep the number of those discarded"
\* (docs/MAP_ACCUMULATOR_SPEC.md, 6.2): the values of each phase are sorted
\* apart, and one sample that is off on two sides is counted as two.
OutliersCounted ==
    stage = "read" =>
        Cardinality(OutlierRanks(input.samples)) = Cardinality(Outliers(input.samples))

\* "Sign and range of each coefficient correspond to the board profile"
\* (docs/MAP_ACCUMULATOR_SPEC.md, 6.1): only the magnitude of the diagonal is
\* looked at, and a shunt the wrong way round fits as well.
PolarityIsChecked == stage = "solved" => input.flaw # "reversed"

\* The vectors "stay inside ... the row region bounds (+-2048 Q15)"
\* (map_capture_profiles.c:242-244): the comment is of the smaller grid.
VectorsInRowRegion ==
    row \in Rows =>
        \A p \in Points : \A i \in Phases :
            MapMeasurement_CcrToQ15(Record(row, p).tim1[i])
                \in BuildQualification(row \div 2)[i]

\* q15_from_ccr is a "mirror" of MapMeasurement_CcrToQ15 (map_bench_dataset.py:80):
\* the one rounds negative quotients down, the other towards zero.
HostMirrorsFirmware ==
    \A k \in DOMAIN input.samples :
        LET record == Record(row, input.samples[k].point)
            ccr == dataset_ccr_from_pair(record.tim1, record.tim8)
        IN  stage = "read" =>
                \A i \in Phases : q15_from_ccr(ccr[i]) = MapMeasurement_CcrToQ15(ccr[i])
=============================================================================
