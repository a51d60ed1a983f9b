---------------------------- MODULE MapPipeline ----------------------------
(* One campaign from its records to a map the firmware can load: the dataset    *)
(* the host assembles (tools/map_scope_ingest.py, tools/map_bench_dataset.py),  *)
(* the pipeline over its twelve rows (tools/map_artifact_pipeline.c), the       *)
(* artifact (tools/map_artifact_writer.c) and the loader of the firmware that   *)
(* the tool runs before it writes the file (tools/map_artifact_pipeline_cli.c). *)
(*                                                                              *)
(* The dataset is complete before the pipeline starts; each of its rows is      *)
(* chosen when the pipeline comes to it. A row is what a campaign without flaws *)
(* gives, or has one flaw.                                                      *)
EXTENDS MapProfile, MapRow

CONSTANTS
    Truths,          \* the matrices that may relate shunts and phases
    Excitation,      \* the shunt currents of each point, one pair for each pulse
    StartVectors,    \* the startup vectors a dataset may name
    Errors,          \* by how much a wrong reference is off
    FlawedSamples,   \* the samples of a row that may have a flaw
    FlawedCells,     \* the sets of points whose cells may not be valid
    MaxFlaws,        \* bound: flawed rows
    NoMap            \* the firmware's loader has no map

\* The currents of the eight points: as many pulses for each of them. A coefficient
\* of a matrix, scaled, is a number of 32 bits.
ASSUME PipelineAssumption ==
    /\ Len(Excitation[1]) \in Nat \ {0}
    /\ Excitation \in [1 .. 8 -> [1 .. Len(Excitation[1]) -> [1 .. 2 -> Int]]]
    /\ Truths \subseteq [1 .. 2 -> [1 .. 2 -> Int]]
    /\ \A m \in Truths : \A i, j \in 1 .. 2 : CoeffScale * m[i][j] \in Int32
    /\ Errors \subseteq Int
    /\ FlawedSamples \subseteq 1 .. 8 * Len(Excitation[1])

VARIABLES
    truth,     \* the matrix of this campaign, in whole units
    start,     \* the startup vector of the dataset
    row,       \* the row the pipeline is at, 0 to 11, then 12
    stage,     \* what was done last: with that row, or with all
    input,     \* the samples and the cells of that row
    flaws,     \* the flaws of the rows so far
    recon,     \* the matrices solved
    region,    \* the boxes certified
    gMap,      \* the loader of the tool: its map
    table      \* and its reconstruction table

vars == <<truth, start, row, stage, input, flaws, recon, region, gMap, table>>

\* Twice the sector and the window.
Rows == 0 .. 11
Failed == {"EVIDENCE", "ACCUM_FAILED", "SOLVER_FAILED", "CERT_FAILED", "LOAD_FAILED"}

Firmware == INSTANCE CurrentMap WITH
    Axes <- 1 .. 3, Coords <- -32768 .. 32767, DeadTimes <- {0}, Uploads <- {},
    ShrinkSteps <- 0, recon <- table, live <- [deadtime |-> 0, calibration |-> TRUE],
    mode <- "idle", fault <- FALSE, context <- 0, vector <- start

-----------------------------------------------------------------------------
(* The dataset.                                                                 *)

\* A reference measures what the shunts saw; the third phase is made from the
\* other two.
Reference(x) ==
    LET u == truth[1][1] * x[1] + truth[1][2] * x[2]
        v == truth[2][1] * x[1] + truth[2][2] * x[2]
    IN  <<u, v, - u - v>>

\* The pulses of a point, less those the scope did not qualify.
PointSamples(point, pulses) ==
    [k \in DOMAIN pulses |->
        [seq |-> 10 * point + pulses[k], x |-> Excitation[point + 1][pulses[k]],
         y |-> Reference(Excitation[point + 1][pulses[k]]),
         margin |-> MinMargin, claims |-> TRUE, point |-> point]]

\* The samples of the points of a row, in the order of their frames.
RowSamples(points, pulsesOf) ==
    LET Part(p) == IF p \in points THEN PointSamples(p, pulsesOf[p]) ELSE << >>
    IN  Part(0) \o Part(1) \o Part(2) \o Part(3) \o Part(4) \o Part(5) \o Part(6) \o Part(7)

\* What the firmware drove for a point of a row, as its record says.
Record(r, point) == MapCaptureProfile_BuildRequest(8 * r + point)

\* The cell of a sample: the difference of the two inverters.
Cell(r, s) ==
    LET ccr == dataset_ccr_from_pair(Record(r, s.point).tim1, Record(r, s.point).tim8)
    IN  [at |-> [i \in Phases |-> q15_from_ccr(ccr[i])], margin |-> s.margin,
         status |-> "VALID"]

Entry(r, samples, flaw) ==
    [samples |-> samples, cells |-> [k \in DOMAIN samples |-> Cell(r, samples[k])], flaw |-> flaw]

AllPulses == [p \in Points |-> [k \in DOMAIN Excitation[1] |-> k]]
Clean == RowSamples(Points, AllPulses)

\* The first or the last pulse of one point is not on the plateau.
Fewer == {Tail(AllPulses[0]), SubSeq(AllPulses[0], 1, Len(AllPulses[0]) - 1)}
Without(p, pulses) == RowSamples(Points, [AllPulses EXCEPT ![p] = pulses])
Omitted(r) == {Entry(r, Without(p, pulses), "omitted") : p \in Points, pulses \in Fewer}

\* The layout with the one point of the centre.
SinglePoint(r) == {Entry(r, RowSamples({0}, AllPulses), "single")}

\* A frame number met twice. The converter of the repository sorts by the number,
\* so that the two are neighbours; in another dataset they may stand anywhere.
Duplicated(r) ==
    {Entry(r, [Clean EXCEPT ![k].seq = Clean[j].seq], "duplicate") :
        k \in FlawedSamples, j \in FlawedSamples}

Unqualified(r) ==
    {Entry(r, [Clean EXCEPT ![k].claims = FALSE], "unqualified") : k \in FlawedSamples}
    \cup {Entry(r, [Clean EXCEPT ![k].margin = MinMargin - 1], "unqualified") : k \in FlawedSamples}

\* The scope data is not the program's: it may give a phase a reference that is off,
\* alone or with the phase that is made of it, or a shunt the wrong sign.
OffAlone(k, e) == [Clean EXCEPT ![k].y[1] = @ + e]
OffWithThird(k, e) == [Clean EXCEPT ![k].y[1] = @ + e, ![k].y[3] = @ - e]

WrongReference(r) ==
    {Entry(r, OffAlone(k, e), "kcl") : k \in FlawedSamples, e \in Errors}
    \cup {Entry(r, OffWithThird(k, e), "wrong") : k \in FlawedSamples, e \in Errors}

\* The first shunt is connected the wrong way round in this row.
Reversed(r) ==
    {Entry(r, [k \in DOMAIN Clean |-> [Clean[k] EXCEPT !.x[1] = - @]], "reversed")}

\* A dataset may say of a point that it failed, or that nobody tested it.
NotValid(r) ==
    {[Entry(r, Clean, "cells") EXCEPT !.cells =
         [k \in DOMAIN Clean |->
             [Cell(r, Clean[k]) EXCEPT !.status = IF Clean[k].point \in ps THEN st ELSE "VALID"]]] :
        ps \in FlawedCells, st \in {"INVALID", "UNTESTED"}}

FlawedRows(r) ==
    Omitted(r) \cup SinglePoint(r) \cup Duplicated(r) \cup Unqualified(r)
    \cup WrongReference(r) \cup Reversed(r) \cup NotValid(r)

\* The firmware arms a session for the request only if its profile has it, and
\* the patterns of the records are those the host expects: else there is no
\* dataset.
check_evidence(r) ==
    \A p \in Points :
        /\ MapCaptureProfile_IsApproved(Record(r, p))
        /\ PairExpected(r \div 2, r % 2, p, Record(r, p).tim1, Record(r, p).tim8)

ReadRow ==
    /\ stage \in {"start", "certified"} /\ row \in Rows
    /\ \/ input' = Entry(row, Clean, "none") /\ flaws' = flaws
       \/ /\ Cardinality(DOMAIN flaws) < MaxFlaws
          /\ input' \in FlawedRows(row)
          /\ flaws' = [r \in DOMAIN flaws \cup {row} |-> IF r = row THEN input'.flaw ELSE flaws[r]]
    /\ stage' = IF check_evidence(row) THEN "read" ELSE "EVIDENCE"
    /\ UNCHANGED <<truth, start, row, recon, region, gMap, table>>

-----------------------------------------------------------------------------
(* map_artifact_pipeline.c: the three stages of a row; the first that fails     *)
(* ends the run.                                                                *)

Accumulate ==
    /\ stage = "read"
    /\ stage' = IF /\ AllAdded(input.samples)
                   /\ MapMeasurementAccumulator_FinalizeRow(input.samples) = "OK"
                THEN "accumulated" ELSE "ACCUM_FAILED"
    /\ UNCHANGED <<truth, start, row, input, flaws, recon, region, gMap, table>>

Solve ==
    /\ stage = "accumulated"
    /\ LET solved == MapMeasurement_SolveM(input.samples)
       IN  IF solved = {}
           THEN stage' = "SOLVER_FAILED" /\ UNCHANGED recon
           ELSE /\ stage' = "solved"
                /\ recon' \in {Append(recon, m) : m \in solved}
    /\ UNCHANGED <<truth, start, row, input, flaws, region, gMap, table>>

Certify ==
    /\ stage = "solved"
    /\ LET certified == certify_impl(input.cells)
       IN  IF certified = {}
           THEN stage' = "CERT_FAILED" /\ UNCHANGED <<region, row>>
           ELSE /\ stage' = "certified"
                /\ region' \in {Append(region, b) : b \in certified}
                /\ row' = row + 1
    /\ UNCHANGED <<truth, start, input, flaws, recon, gMap, table>>

-----------------------------------------------------------------------------
(* The artifact and its loader.                                                 *)

\* current_reconstruct.c.
CURRENT_RECON_MAX_COEFF == 10 * CoeffScale

entry_is_sane(m) ==
    /\ \A i, j \in 1 .. 2 : Abs(m[i][j]) <= CURRENT_RECON_MAX_COEFF
    /\ m[1][1] * m[2][2] # m[1][2] * m[2][1]

\* MapArtifactWriter_Build: the identity and the provenance of the dataset are
\* whole, the startup row is 0/0 for one cycle.
MapArtifactWriter_Build ==
    [text |-> "good", identity |-> [deadtime |-> 0, calibration |-> TRUE], provenance |-> TRUE,
     start |-> 0, startVector |-> start, hold |-> 1,
     recon |-> [r \in Rows |-> IF entry_is_sane(recon[r + 1]) THEN "sane" ELSE "insane"],
     region |-> [r \in Rows |-> region[r + 1]]]

\* The tool writes the file only after the loader took the artifact.
Emit ==
    /\ stage = "certified" /\ row = 12
    /\ Firmware!CurrentMap_LoadMeasured(MapArtifactWriter_Build, [deadtime |-> 0, calibration |-> TRUE])
    /\ stage' = IF gMap' = NoMap THEN "LOAD_FAILED" ELSE "emitted"
    /\ UNCHANGED <<truth, start, row, input, flaws, recon, region>>

-----------------------------------------------------------------------------
PipeInit ==
    /\ truth \in Truths
    /\ start \in StartVectors
    /\ row = 0 /\ stage = "start"
    /\ input = [samples |-> << >>, cells |-> << >>, flaw |-> "none"]
    /\ flaws = << >>
    /\ recon = << >> /\ region = << >>
    /\ gMap = NoMap /\ table = NoMap

PipeNext == ReadRow \/ Accumulate \/ Solve \/ Certify \/ Emit
=============================================================================
