--------------------------- MODULE CurrentMapProps ---------------------------
(* What must hold of the current map of the drive.                              *)
EXTENDS CurrentMap

MapSpec == MapInit /\ [][MapNext]_vars

MapTypeOK ==
    /\ gMap \in Uploads \cup {NoMap}
    /\ recon \in {m.recon : m \in Uploads} \cup {NoMap}
    /\ live \in Identity
    /\ mode \in {"idle", "foc", "busy"}
    /\ fault \in BOOLEAN
    /\ context \in Rows
    /\ vector \in [Axes -> Int]

\* A map with everything FOC relies on: every row measured, no vector in two
\* rows, and a startup vector in the row it starts with.
CompleteMap(m) ==
    /\ m # NoMap
    /\ m.text = "good" /\ m.provenance /\ m.start \in Rows
    /\ \A row \in Rows : region_is_sane(m.region[row]) /\ m.recon[row] = "sane"
    /\ \A v \in Vectors :
           Cardinality({row \in Rows : region_contains(m.region[row], v)}) <= 1
    /\ region_contains(m.region[m.start], m.startVector)

\* The map is kept in two modules, the regions in the selector and the table in
\* the reconstruction, and FOC takes the row from the one and its gains from the
\* other: they are of the same upload at every moment, whatever was refused in
\* between (current_map_selector.c, CurrentMap_LoadMeasured).
TablesOfOneMap == recon = IF gMap = NoMap THEN NoMap ELSE gMap.recon

\* While FOC runs, the vector in the timers is one that exactly the active row
\* was measured for, and the row can be reconstructed: the next frame finds
\* phase currents (foc.c, FOC_RunFrame, the shrink to the active region).
VectorIsMeasured ==
    mode = "foc" => Selected(vector) = {context} /\ Current_Reconstruct(context)

\* A map of the present hardware is given up for a complete one only: a refused
\* upload does not take it along (current_map_selector.c,
\* current_map_reject_candidate).
MatchingMapStays ==
    gMap # NoMap /\ identity_matches(gMap, live) => gMap' # NoMap

RefusedUploadIsHarmless == [][MatchingMapStays]_vars

\* The table of the reconstruction is a part of the artifact.
TableOfMap(m) == m.recon

\* The map is complete whenever FOC can see it, the table of the reconstruction
\* is that map's, and neither is touched while FOC runs: this component
\* implements MapInForce (current_map_selector.c, CurrentMap_LoadMeasured).
Abstract == INSTANCE MapInForce WITH
    Complete <- CompleteMap,
    TableOf <- TableOfMap,
    None <- NoMap,
    map <- gMap,
    table <- recon,
    running <- mode = "foc"

MapInForceSpec == Abstract!Spec

-----------------------------------------------------------------------------
(* What a comment says and the code does not do.                                *)

\* A map "whose identity no longer matches the live hardware is not in force"
\* (current_map_selector.c:138-140): nothing drops the map when the dead time or
\* the calibration changes, and neither CurrentMap_IsReady nor FOC_Start compares.
InForceMatchesLive == mode = "foc" => identity_matches(gMap, live)
=============================================================================
