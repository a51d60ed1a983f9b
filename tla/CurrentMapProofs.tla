-------------------------- MODULE CurrentMapProofs --------------------------
(* Proofs about CurrentMap, for every number of rows and phases, every set of   *)
(* artifacts and every number of shrink steps.                                  *)
EXTENDS CurrentMapProps, FiniteSetTheorems, TLAPS

\* No two rows of the map share a vector.
Disjoint(m) ==
    \A row, other \in Rows :
        row # other => ~ regions_overlap(m.region[row], m.region[other])

\* What the safety of the map rests on: a map in force is complete, and the
\* vector in the timers of a running FOC is the active row's alone.
MapInv ==
    /\ gMap \in Uploads \cup {NoMap}
    /\ TablesOfOneMap
    /\ gMap # NoMap => CompleteMap(gMap) /\ Disjoint(gMap)
    /\ mode = "foc" => gMap # NoMap /\ Selected(vector) = {context}

-----------------------------------------------------------------------------
(* The regions of a map.                                                        *)

\* Two rows that both contain a vector overlap in every phase.
LEMMA OneRow ==
    ASSUME NEW m \in Uploads, Disjoint(m), NEW v \in [Axes -> Int],
           NEW row \in Rows, NEW other \in Rows,
           region_contains(m.region[row], v), region_contains(m.region[other], v)
    PROVE  row = other
<1> SUFFICES ASSUME row # other PROVE FALSE
    OBVIOUS
<1>1. m.region[row] \in Regions /\ m.region[other] \in Regions
    BY MapAssumption DEF Uploaded
<1>2. \A a \in Axes : /\ m.region[row].min[a] <= m.region[other].max[a]
                      /\ m.region[other].min[a] <= m.region[row].max[a]
    <2> TAKE a \in Axes
    <2>1. /\ m.region[row].min[a] \in Int /\ m.region[row].max[a] \in Int
          /\ m.region[other].min[a] \in Int /\ m.region[other].max[a] \in Int
          /\ v[a] \in Int
        BY <1>1 DEF Regions
    <2>2. /\ v[a] \in m.region[row].min[a] .. m.region[row].max[a]
          /\ v[a] \in m.region[other].min[a] .. m.region[other].max[a]
        BY DEF region_contains
    <2> QED BY <2>1, <2>2
<1> QED BY <1>2 DEF Disjoint, regions_overlap

\* A set of rows with at most one member.
LEMMA AtMostOne ==
    ASSUME NEW S \in SUBSET Rows, \A x, y \in S : x = y
    PROVE  Cardinality(S) <= 1
<1>1. CASE S = {} BY <1>1, FS_EmptySet
<1>2. CASE S # {}
    <2>1. PICK x \in S : S = {x} BY <1>2
    <2>2. Cardinality({x}) = 1 BY FS_Singleton
    <2> QED BY <2>1, <2>2
<1> QED BY <1>1, <1>2

\* One row, if the selector counts one.
LEMMA ExactlyOne ==
    ASSUME NEW S \in SUBSET Rows, Cardinality(S) = 1
    PROVE  \E x \in S : S = {x}
<1>1. IsFiniteSet(S) BY MapAssumption, FS_Subset
<1> QED BY <1>1, FS_Singleton

\* What the admission demands of an upload is all that FOC relies on.
LEMMA AdmittedIsComplete ==
    ASSUME NEW m \in Uploads, NEW id, NEW manifest,
           m.text \notin {"length", "digits"}, MapArtifact_DecodeBinary(m),
           MapCandidate_IsCanonical(m, id, manifest),
           Loadable(m, id), CurrentRecon_LoadMap(m)
    PROVE  CompleteMap(m) /\ Disjoint(m)
<1>1. m \in Uploaded /\ m # NoMap BY MapAssumption
<1>2. m.text = "good"
    BY <1>1 DEF Uploaded, Texts, MapArtifact_DecodeBinary
<1>3. /\ m.provenance /\ m.start \in Rows
      /\ \A row \in Rows : region_is_sane(m.region[row]) /\ m.recon[row] = "sane"
      /\ region_contains(m.region[m.start], m.startVector)
    BY DEF Loadable, map_regions_sane, CurrentRecon_LoadMap
<1>4. Disjoint(m)
    BY DEF Loadable, map_regions_sane, Disjoint
<1>5. ASSUME NEW v \in Vectors
      PROVE  Cardinality({row \in Rows : region_contains(m.region[row], v)}) <= 1
    <2> DEFINE S == {row \in Rows : region_contains(m.region[row], v)}
    <2>1. v \in [Axes -> Int] BY MapAssumption DEF Vectors
    <2>2. \A x, y \in S : x = y BY <1>4, <2>1, OneRow
    <2> QED BY <2>2, AtMostOne
<1> QED BY <1>1, <1>2, <1>3, <1>4, <1>5 DEF CompleteMap

-----------------------------------------------------------------------------
(* The invariant.                                                               *)

LEMMA InitEstablishes == MapInit => MapInv
BY DEF MapInit, MapInv, TablesOfOneMap

\* An upload replaces the map by a complete one, withdraws it or leaves it, and
\* touches nothing while FOC runs.
LEMMA LoadChanges ==
    ASSUME MapInv, NEW m \in Uploads, MapLoad(m)
    PROVE  \/ UNCHANGED mapVars
           \/ mode = "idle" /\ gMap' = NoMap /\ recon' = NoMap
           \/ /\ mode = "idle" /\ gMap' = m /\ recon' = m.recon
              /\ CompleteMap(m) /\ Disjoint(m)
<1> DEFINE manifest == BuildUploadManifest(live)
<1>1. CASE ~ (/\ m.text \notin {"length", "digits"} /\ MapArtifact_DecodeBinary(m)
              /\ mode = "idle" /\ ~ fault /\ MapCandidate_IsCanonical(m, live, manifest))
    BY <1>1 DEF MapLoad, MapCommissioning_LoadMeasured
<1>2. CASE /\ m.text \notin {"length", "digits"} /\ MapArtifact_DecodeBinary(m)
           /\ mode = "idle" /\ ~ fault /\ MapCandidate_IsCanonical(m, live, manifest)
    <2>1. CurrentMap_LoadMeasured(m, live)
        BY <1>2 DEF MapLoad, MapCommissioning_LoadMeasured
    <2>2. CASE Loadable(m, live) /\ CurrentRecon_LoadMap(m)
        BY <1>2, <2>1, <2>2, AdmittedIsComplete DEF CurrentMap_LoadMeasured
    <2>3. CASE ~ (Loadable(m, live) /\ CurrentRecon_LoadMap(m))
        BY <1>2, <2>1, <2>3 DEF CurrentMap_LoadMeasured, current_map_reject_candidate
    <2> QED BY <2>2, <2>3
<1> QED BY <1>1, <1>2

LEMMA LoadPreserves == ASSUME MapInv, NEW m \in Uploads, MapLoad(m) PROVE MapInv'
<1>0. UNCHANGED <<mode, context, vector>> BY DEF MapLoad
<1>1. CASE UNCHANGED mapVars
    BY <1>0, <1>1 DEF MapInv, mapVars, TablesOfOneMap, CompleteMap, Disjoint, Selected
<1>2. CASE mode = "idle" /\ gMap' = NoMap /\ recon' = NoMap
    BY <1>0, <1>2 DEF MapInv, TablesOfOneMap
<1>3. CASE /\ mode = "idle" /\ gMap' = m /\ recon' = m.recon
           /\ CompleteMap(m) /\ Disjoint(m)
    <2>1. m # NoMap BY MapAssumption
    <2> QED BY <1>0, <1>3, <2>1 DEF MapInv, TablesOfOneMap
<1> QED BY <1>1, <1>2, <1>3, LoadChanges

\* FOC starts on the vector of the row that the map starts with.
LEMMA StartPreserves ==
    ASSUME MapInv, NEW calibrated \in BOOLEAN, FOC_Start(calibrated) PROVE MapInv'
<1>1. gMap # NoMap /\ gMap \in Uploads /\ CompleteMap(gMap) /\ Disjoint(gMap)
    BY DEF FOC_Start, StartupContextReady, CurrentMap_IsReady, MapInv
<1>2. /\ gMap.start \in Rows
      /\ region_contains(gMap.region[gMap.start], gMap.startVector)
    BY <1>1 DEF CompleteMap
<1>3. gMap.startVector \in [Axes -> Int]
    BY <1>1, MapAssumption DEF Uploaded
<1>4. Selected(gMap.startVector) = {gMap.start}
    BY <1>1, <1>2, <1>3, OneRow DEF Selected
<1>5. Selected(vector)' = {context'}
    BY <1>4 DEF FOC_Start, Selected
<1> QED BY <1>1, <1>5 DEF FOC_Start, MapInv, TablesOfOneMap, CompleteMap, Disjoint

\* FOC emits a vector that exactly one row has, and names that row, or stops.
LEMMA EmitPreserves ==
    ASSUME MapInv, NEW v \in Vectors, FOC_EmitVector(v) PROVE MapInv'
<1> DEFINE admitted == {i \in 0 .. ShrinkSteps : Cardinality(Selected(Shrunk(v)[i])) = 1}
<1>1. mode = "foc" /\ UNCHANGED <<gMap, recon>> BY DEF FOC_EmitVector
<1>2. mode' = "idle" \/ Selected(vector)' = {context'}
    <2>1. CASE admitted = {} /\ mode' = "idle" BY <2>1
    <2>2. CASE \E first \in admitted : vector' = Shrunk(v)[first] /\ context' \in Selected(vector')
        <3>1. PICK first \in admitted :
                    vector' = Shrunk(v)[first] /\ context' \in Selected(vector')
            BY <2>2
        <3>2. Cardinality(Selected(vector')) = 1 BY <3>1
        <3>3. Selected(vector') \in SUBSET Rows BY DEF Selected
        <3>4. PICK x \in Selected(vector') : Selected(vector') = {x} BY <3>2, <3>3, ExactlyOne
        <3>5. Selected(vector') = {context'} BY <3>1, <3>4
        <3> QED BY <1>1, <3>5 DEF Selected
    <2> QED BY <2>1, <2>2 DEF FOC_EmitVector
<1> QED BY <1>1, <1>2 DEF MapInv, TablesOfOneMap, CompleteMap, Disjoint

\* Every other action leaves the map alone and starts no FOC.
LEMMA OthersPreserve ==
    ASSUME MapInv, UNCHANGED <<gMap, recon, context, vector>>, mode' = "foc" => mode = "foc"
    PROVE  MapInv'
BY DEF MapInv, TablesOfOneMap, CompleteMap, Disjoint, Selected

LEMMA StepPreserves == MapInv /\ [MapNext]_vars => MapInv'
<1> SUFFICES ASSUME MapInv, [MapNext]_vars PROVE MapInv'
    OBVIOUS
<1>1. CASE UNCHANGED vars BY <1>1, OthersPreserve DEF vars
<1>2. CASE \E m \in Uploads : MapLoad(m) BY <1>2, LoadPreserves
<1>3. CASE \E d \in DeadTimes : PWM_SetDeadTime_ns(d)
    BY <1>3, OthersPreserve DEF PWM_SetDeadTime_ns
<1>4. CASE \E ok \in BOOLEAN : ADC_CalibrateOffsets(ok)
    BY <1>4, OthersPreserve DEF ADC_CalibrateOffsets
<1>5. CASE \E ok \in BOOLEAN : FOC_Start(ok) BY <1>5, StartPreserves
<1>6. CASE OtherMode \/ LatchFault \/ ClearFault \/ FOC_Stop
    BY <1>6, OthersPreserve DEF OtherMode, LatchFault, ClearFault, FOC_Stop
<1>7. CASE \E v \in Vectors : FOC_EmitVector(v) BY <1>7, EmitPreserves
<1> QED BY <1>1, <1>2, <1>3, <1>4, <1>5, <1>6, <1>7 DEF MapNext

\* The invariant holds in every reachable state.
THEOREM MapInvariance == MapSpec => []MapInv
<1>1. MapInit => MapInv BY InitEstablishes
<1>2. MapInv /\ [MapNext]_vars => MapInv' BY StepPreserves
<1> QED BY <1>1, <1>2, PTL DEF MapSpec

-----------------------------------------------------------------------------
(* The properties.                                                              *)

\* The selector and the reconstruction table are of the same upload whatever was
\* loaded, refused or withdrawn (current_map_selector.c, CurrentMap_LoadMeasured).
THEOREM OneMap == MapSpec => []TablesOfOneMap
<1>1. MapInv => TablesOfOneMap BY DEF MapInv
<1> QED BY <1>1, MapInvariance, PTL

\* The vector in the timers of a running FOC belongs to exactly the active row,
\* which can be reconstructed (foc.c, the end of FOC_RunFrame).
THEOREM OnlyMeasuredVectors == MapSpec => []VectorIsMeasured
<1>1. MapInv => VectorIsMeasured
    <2> SUFFICES ASSUME MapInv, mode = "foc"
                 PROVE  Selected(vector) = {context} /\ Current_Reconstruct(context)
        BY DEF VectorIsMeasured
    <2>1. gMap \in Uploads /\ CompleteMap(gMap) /\ recon = gMap.recon
        BY DEF MapInv, TablesOfOneMap
    <2>2. Selected(vector) = {context} BY DEF MapInv
    <2>3. context \in Rows BY <2>2 DEF Selected
    <2>4. recon # NoMap BY <2>1, MapAssumption
    <2>5. recon[context] = "sane" BY <2>1, <2>3 DEF CompleteMap
    <2> QED BY <2>2, <2>4, <2>5 DEF Current_Reconstruct
<1> QED BY <1>1, MapInvariance, PTL

\* A refused upload does not take a matching map along
\* (current_map_reject_candidate): a map of the present hardware stays, or an
\* accepted one takes its place.
THEOREM RefusalIsHarmless == MapSpec => RefusedUploadIsHarmless
<1>1. ASSUME MapInv, [MapNext]_vars PROVE [MatchingMapStays]_vars
    <2> SUFFICES ASSUME gMap # NoMap, identity_matches(gMap, live), gMap' = NoMap
                 PROVE  FALSE
        BY DEF MatchingMapStays
    <2>1. PICK m \in Uploads : MapLoad(m)
        BY <1>1 DEF MapNext, vars, PWM_SetDeadTime_ns, ADC_CalibrateOffsets, FOC_Start,
           OtherMode, LatchFault, ClearFault, FOC_Stop, FOC_EmitVector
    <2>2. m # NoMap BY MapAssumption
    <2> QED BY <2>1, <2>2 DEF MapLoad, MapCommissioning_LoadMeasured,
           CurrentMap_LoadMeasured, current_map_reject_candidate, mapVars
<1> QED BY <1>1, MapInvariance, PTL DEF MapSpec, RefusedUploadIsHarmless

\* The component implements MapInForce: FOC runs on a complete map and its table,
\* which stay until it stops (map_commissioning.c, foc.c).
THEOREM ImplementsMapInForce == MapSpec => MapInForceSpec
<1>1. MapInit => Abstract!Init
    BY DEF MapInit, Abstract!Init
<1>2. ASSUME MapInv, [MapNext]_vars
      PROVE  [Abstract!Next]_<<gMap, recon, mode = "foc">>
    <2> USE DEF Abstract!Next, Abstract!Install, Abstract!Withdraw, Abstract!Start, Abstract!Stop
    <2>1. CASE UNCHANGED vars BY <2>1 DEF vars
    <2>2. ASSUME NEW m \in Uploads, MapLoad(m)
          PROVE  [Abstract!Next]_<<gMap, recon, mode = "foc">>
        <3>1. mode' = mode BY <2>2 DEF MapLoad
        <3> QED BY <1>2, <2>2, <3>1, LoadChanges DEF mapVars, TableOfMap
    <2>3. CASE \E ok \in BOOLEAN : FOC_Start(ok)
        BY <2>3 DEF FOC_Start, StartupContextReady, CurrentMap_IsReady
    <2>4. CASE \E v \in Vectors : FOC_EmitVector(v)
        BY <2>4 DEF FOC_EmitVector
    <2>5. CASE \/ \E d \in DeadTimes : PWM_SetDeadTime_ns(d)
               \/ \E ok \in BOOLEAN : ADC_CalibrateOffsets(ok)
               \/ OtherMode \/ LatchFault \/ ClearFault \/ FOC_Stop
        BY <2>5 DEF PWM_SetDeadTime_ns, ADC_CalibrateOffsets, OtherMode, LatchFault,
           ClearFault, FOC_Stop
    <2> QED BY <1>2, <2>1, <2>2, <2>3, <2>4, <2>5 DEF MapNext
<1> QED BY <1>1, <1>2, MapInvariance, PTL DEF MapSpec, MapInForceSpec, Abstract!Spec
=============================================================================
