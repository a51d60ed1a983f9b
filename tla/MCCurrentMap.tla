---------------------------- MODULE MCCurrentMap ----------------------------
(* Two rows, two phases of small values. An upload is the good map with one or  *)
(* two parts of it replaced.                                                    *)
EXTENDS CurrentMapProps

MCRows == {"w0", "w1"}
MCAxes == {"u", "v"}
MCCoords == -1 .. 4
MCDeadTimes == {1, 2}
MCShrinkSteps == 2

Box(u0, u1) == [valid |-> TRUE, margin |-> 1,
                min |-> [a \in MCAxes |-> IF a = "u" THEN u0 ELSE -1],
                max |-> [a \in MCAxes |-> IF a = "u" THEN u1 ELSE 1]]

Left == Box(-1, 0)
Wide == Box(0, 2)
Right == Box(3, 4)
Boxes == {Left, Wide, Right}

Point(x) == [a \in MCAxes |-> IF a = "u" THEN x ELSE 0]

Good == [text |-> "good", identity |-> [deadtime |-> 1, calibration |-> TRUE],
         provenance |-> TRUE, start |-> "w0", startVector |-> Point(0), hold |-> 1,
         recon |-> [row \in MCRows |-> "sane"],
         region |-> [row \in MCRows |-> IF row = "w0" THEN Left ELSE Right]]

MCUploads ==
    {[Good EXCEPT !.identity = i, !.region = r] :
        i \in [deadtime : MCDeadTimes, calibration : BOOLEAN], r \in [MCRows -> Boxes]}
    \cup {[Good EXCEPT !.start = "w1"], [Good EXCEPT !.startVector = Point(3)],
          [Good EXCEPT !.start = "w1", !.startVector = Point(3)]}
    \cup {[Good EXCEPT !.text = t] : t \in {"length", "digits", "magic", "revision", "crc"}}
    \cup {[Good EXCEPT !.provenance = FALSE],
          [Good EXCEPT !.start = "none"], [Good EXCEPT !.hold = 0]}
    \cup {[Good EXCEPT !.region = [Good.region EXCEPT !["w1"] = r]] :
              r \in {[Right EXCEPT !.valid = FALSE], [Right EXCEPT !.margin = 0], Box(4, 3)}}
    \cup {[Good EXCEPT !.recon = r] : r \in [MCRows -> {"sane", "invalid", "insane"}]}
=============================================================================
