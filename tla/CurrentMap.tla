----------------------------- MODULE CurrentMap -----------------------------
(* The current map of the drive: the selector (current_map_selector.c), the     *)
(* reconstruction table (current_reconstruct.c), the admission of a candidate   *)
(* (map_commissioning.c, map_candidate.c) by the command `mapload` (main.c),    *)
(* and the use FOC makes of the map: its start and its frames (foc.c).          *)
(*                                                                              *)
(* A row is a pair of a sector and a window. An axis is one of the phases       *)
(* mu, mv, mw. Of the eleven fields of an identity two can change while the     *)
(* firmware runs: the dead time, by a command, and the calibration signature,   *)
(* by a calibration that succeeds or fails; `deadtime` stands for the eight     *)
(* fields that a manifest repeats, `calibration` for the three that it does     *)
(* not.                                                                         *)
EXTENDS Integers, FiniteSets, Functions

CONSTANTS
    Rows,          \* the pairs of a sector and a window
    Axes,          \* the phases of a modulation vector
    Coords,        \* the values of one phase
    DeadTimes,     \* the dead times the drive can be set to
    Uploads,       \* the artifacts that `mapload` can bring
    ShrinkSteps,   \* FOC_MAP_SHRINK_STEPS
    NoMap          \* the zeroed g_map

Texts == {"good", "length", "digits", "magic", "revision", "crc"}
Regions == [valid : BOOLEAN, margin : Nat, min : [Axes -> Int], max : [Axes -> Int]]
Uploaded ==
    [text : Texts, identity : [deadtime : Int, calibration : BOOLEAN],
     provenance : BOOLEAN, start : Rows \cup {"none"}, startVector : [Axes -> Int],
     hold : Nat, recon : [Rows -> {"sane", "invalid", "insane"}],
     region : [Rows -> Regions]]

\* NoMap is neither an artifact nor a reconstruction table.
ASSUME MapAssumption ==
    /\ IsFiniteSet(Rows)
    /\ Coords \subseteq Int
    /\ Uploads \subseteq Uploaded
    /\ NoMap \notin Uploads \cup {m.recon : m \in Uploads}

VARIABLES
    gMap,      \* current_map_selector.c: g_map, NoMap while g_ready is 0
    recon,     \* current_reconstruct.c: g_map, NoMap while its g_ready is 0
    live,      \* what MapCapturePort_GetMapIdentity reads from the registers
    mode,      \* "idle", "foc", or "busy": capture, V/f, autotune, align
    fault,     \* PROTECT_IsFault
    context,   \* foc_active_context
    vector     \* the modulation vector last given to the timers

mapVars == <<gMap, recon>>
vars == <<gMap, recon, live, mode, fault, context, vector>>

Vectors == [Axes -> Coords]
Identity == [deadtime : DeadTimes, calibration : BOOLEAN]

-----------------------------------------------------------------------------
(* Regions. A reconstruction entry is "sane", "invalid" (its valid byte is 0) or *)
(* "insane" (its phases, its gains or its determinant).                         *)

region_is_sane(r) ==
    /\ r.valid
    /\ r.margin # 0
    /\ \A a \in Axes : r.min[a] <= r.max[a]

region_contains(r, v) ==
    /\ region_is_sane(r)
    /\ \A a \in Axes : v[a] \in r.min[a] .. r.max[a]

regions_overlap(r, q) ==
    \A a \in Axes : r.min[a] <= q.max[a] /\ q.min[a] <= r.max[a]

-----------------------------------------------------------------------------
(* Admission of a candidate.                                                    *)

identity_matches(m, id) == m.identity = id

\* The manifest of an upload is made from the live identity, so that what
\* MapReferenceManifest_IsValid compares are eight fields of that identity with
\* themselves; a manifest that comes with a map may be of another dead time.
MapReferenceManifest_IsValid(manifest, id) ==
    manifest.valid /\ manifest.deadtime = id.deadtime

BuildUploadManifest(id) == [valid |-> TRUE, deadtime |-> id.deadtime]

map_structure_valid(m) ==
    /\ m.start \in Rows
    /\ m.hold # 0
    /\ \A row \in Rows : m.recon[row] = "sane" /\ region_is_sane(m.region[row])
    /\ region_contains(m.region[m.start], m.startVector)

MapCandidate_IsCanonical(m, id, manifest) ==
    /\ MapReferenceManifest_IsValid(manifest, id)
    /\ m.provenance
    /\ identity_matches(m, id)
    /\ map_structure_valid(m)

\* Mutant: any two rows may share vectors (the second loop is gone).
RegionsMayOverlap(m) ==
    \A row \in Rows : region_is_sane(m.region[row]) /\ m.recon[row] # "invalid"

map_regions_sane(m) ==
    \A row \in Rows :
        /\ region_is_sane(m.region[row])
        /\ m.recon[row] # "invalid"
        /\ \A other \in Rows \ {row} :
               ~ regions_overlap(m.region[row], m.region[other])

\* What CurrentMap_LoadMeasured demands before it calls CurrentRecon_LoadMap.
Loadable(m, id) ==
    /\ identity_matches(m, id)
    /\ m.provenance
    /\ m.start \in Rows
    /\ m.hold # 0
    /\ map_regions_sane(m)
    /\ region_contains(m.region[m.start], m.startVector)

\* Every entry is valid and passes entry_is_sane.
CurrentRecon_LoadMap(m) ==
    \A row \in Rows : m.recon[row] = "sane"

\* Mutant: a refused candidate always takes the map in force with it.
ResetOnRefusal(id) == gMap' = NoMap /\ recon' = NoMap

current_map_reject_candidate(id) ==
    IF gMap = NoMap \/ identity_matches(gMap, id)
    THEN UNCHANGED mapVars
    ELSE gMap' = NoMap /\ recon' = NoMap

\* Mutant: the reconstruction table is written before the regions are looked at.
TableBeforeRegions(m, id) ==
    IF Loadable(m, id) /\ CurrentRecon_LoadMap(m)
    THEN gMap' = m /\ recon' = m.recon
    ELSE /\ recon' = IF CurrentRecon_LoadMap(m) THEN m.recon ELSE recon
         /\ gMap' = gMap

CurrentMap_LoadMeasured(m, id) ==
    IF Loadable(m, id) /\ CurrentRecon_LoadMap(m)
    THEN gMap' = m /\ recon' = m.recon
    ELSE current_map_reject_candidate(id)

CurrentMap_IsReady == gMap # NoMap /\ recon # NoMap

\* Mutant: a candidate is admitted under a running FOC.
AdmitUnderFoc(m, manifest) ==
    IF mode # "busy" /\ ~ fault /\ MapCandidate_IsCanonical(m, live, manifest)
    THEN CurrentMap_LoadMeasured(m, live)
    ELSE UNCHANGED mapVars

\* The seven `active` checks are true of a drive that is not idle or has a fault
\* latched. Nothing but a fault can come between a check and the load, and the
\* load does not depend on it.
MapCommissioning_LoadMeasured(m, manifest) ==
    IF mode = "idle" /\ ~ fault /\ MapCandidate_IsCanonical(m, live, manifest)
    THEN CurrentMap_LoadMeasured(m, live)
    ELSE UNCHANGED mapVars

-----------------------------------------------------------------------------
(* The commands.                                                                *)

\* The artifact carries the magic and the revision, and its CRC is that of what
\* was decoded.
MapArtifact_DecodeBinary(m) == m.text \notin {"magic", "revision", "crc"}

\* `mapload <hex>`: a text of a wrong length, with other characters than hex
\* digits, or that does not decode, goes no further.
MapLoad(m) ==
    /\ IF m.text \notin {"length", "digits"} /\ MapArtifact_DecodeBinary(m)
       THEN MapCommissioning_LoadMeasured(m, BuildUploadManifest(live))
       ELSE UNCHANGED mapVars
    /\ UNCHANGED <<live, mode, fault, context, vector>>

\* `deadtime=`: refused while PWM is enabled or the ADC is armed.
PWM_SetDeadTime_ns(d) ==
    /\ mode = "idle"
    /\ live' = [live EXCEPT !.deadtime = d]
    /\ UNCHANGED <<gMap, recon, mode, fault, context, vector>>

\* `cal`: the offsets, and with them the signature, are valid after a success only.
ADC_CalibrateOffsets(ok) ==
    /\ mode = "idle"
    /\ live' = [live EXCEPT !.calibration = ok]
    /\ UNCHANGED <<gMap, recon, mode, fault, context, vector>>

\* Capture, V/f, autotune or align begins or ends.
OtherMode ==
    /\ \/ mode = "idle" /\ ~ fault /\ mode' = "busy"
       \/ mode = "busy" /\ mode' = "idle"
    /\ UNCHANGED <<gMap, recon, live, fault, context, vector>>

\* The latch stops whatever runs.
LatchFault ==
    /\ ~ fault
    /\ fault' = TRUE
    /\ mode' = "idle"
    /\ UNCHANGED <<gMap, recon, live, context, vector>>

ClearFault ==
    /\ fault
    /\ fault' = FALSE
    /\ UNCHANGED <<gMap, recon, live, mode, context, vector>>

-----------------------------------------------------------------------------
(* FOC.                                                                         *)

\* CurrentMap_SelectInitialStartupContext succeeds.
StartupContextReady ==
    /\ CurrentMap_IsReady
    /\ region_contains(gMap.region[gMap.start], gMap.startVector)

\* FOC_Start up to the calibration: the startup vector is in the timers even
\* when the offsets cannot be calibrated and FOC does not start.
FOC_Start(calibrated) ==
    /\ mode = "idle" /\ ~ fault
    /\ recon # NoMap
    /\ StartupContextReady
    /\ live.calibration => calibrated
    /\ vector' = gMap.startVector
    /\ context' = gMap.start
    /\ live' = [live EXCEPT !.calibration = calibrated]
    /\ mode' = IF calibrated THEN "foc" ELSE "idle"
    /\ UNCHANGED <<gMap, recon, fault>>

FOC_Stop ==
    /\ mode = "foc"
    /\ mode' = "idle"
    /\ UNCHANGED <<gMap, recon, live, fault, context, vector>>

\* CurrentMap_SelectNextContext: the rows whose region has the vector; it
\* succeeds if there is exactly one.
Selected(v) == {row \in Rows : region_contains(gMap.region[row], v)}

\* C division: towards zero.
Half(x) == IF x >= 0 THEN x \div 2 ELSE - ((- x) \div 2)

\* The i-th step of the shrink towards the centre of the active region.
Shrunk(v) ==
    LET r == gMap.region[context]
        centre == [a \in Axes |-> Half(r.min[a] + r.max[a])]
        step[i \in 0 .. ShrinkSteps] ==
            IF i = 0 THEN v
            ELSE [a \in Axes |-> centre[a] + Half(step[i - 1][a] - centre[a])]
    IN  step

\* Mutant: a vector that no row has is emitted as requested.
EmitAsRequested(v) ==
    /\ mode = "foc"
    /\ vector' = v
    /\ context' = IF Cardinality(Selected(v)) = 1
                  THEN CHOOSE row \in Selected(v) : TRUE ELSE context
    /\ UNCHANGED <<gMap, recon, live, mode, fault>>

\* The end of FOC_RunFrame: the requested vector, or the first of its shrunk
\* forms that exactly one row has, goes to the timers with that row; if there is
\* none, FOC stops.
FOC_EmitVector(v) ==
    LET admitted == {i \in 0 .. ShrinkSteps : Cardinality(Selected(Shrunk(v)[i])) = 1}
    IN  /\ mode = "foc"
        /\ \/ /\ admitted = {}
              /\ mode' = "idle"
              /\ UNCHANGED <<context, vector>>
           \/ \E first \in admitted :
              /\ \A i \in admitted : first <= i
              /\ vector' = Shrunk(v)[first]
              /\ context' \in Selected(vector')
              /\ UNCHANGED mode
        /\ UNCHANGED <<gMap, recon, live, fault>>

\* Current_Reconstruct on a frame of the row `context`.
Current_Reconstruct(row) == recon # NoMap /\ recon[row] = "sane"

-----------------------------------------------------------------------------
MapInit ==
    /\ gMap = NoMap /\ recon = NoMap
    /\ live \in Identity
    /\ mode = "idle" /\ fault = FALSE
    /\ context \in Rows
    /\ vector = [a \in Axes |-> 0]

MapNext ==
    \/ \E m \in Uploads : MapLoad(m)
    \/ \E d \in DeadTimes : PWM_SetDeadTime_ns(d)
    \/ \E ok \in BOOLEAN : ADC_CalibrateOffsets(ok) \/ FOC_Start(ok)
    \/ OtherMode \/ LatchFault \/ ClearFault \/ FOC_Stop
    \/ \E v \in Vectors : FOC_EmitVector(v)
=============================================================================
