----------------------------- MODULE MapProfile -----------------------------
(* The vectors a capture campaign drives and what the host makes of them: the   *)
(* board profile of the firmware (map_capture_profiles.c), the same tables of   *)
(* the host (tools/map_scope_ingest.py), and the modulation cell of a record    *)
(* (tools/map_bench_dataset.py). The numbers are those of the code.             *)
EXTENDS Integers, FiniteSets

Sectors == 0 .. 5
Windows == 0 .. 1
Points == 0 .. 7       \* MAP_CAPTURE_BOARD_POINTS
Phases == 1 .. 3

Middle == 500          \* (ARR + 1) / 2, with ARR = 999

\* C division: towards zero.
TruncDiv(a, b) == IF a >= 0 THEN a \div b ELSE - ((- a) \div b)

\* The phase whose value the inverter at the other end of the winding gets.
Shifted(i) == (i % 3) + 1

-----------------------------------------------------------------------------
(* Firmware: map_capture_profiles.c.                                            *)

MAP_CAPTURE_BOARD_MOD ==
    << <<8192, 0, -8192>>, <<8192, -8192, 0>>, <<0, 8192, -8192>>,
       <<-8192, 8192, 0>>, <<0, -8192, 8192>>, <<-8192, 0, 8192>> >>

MAP_CAPTURE_BOARD_GRID ==
    << <<0, 0, 0>>, <<4, -4, 0>>, <<0, 4, -4>>, <<-4, 0, 4>>,
       <<8, -8, 0>>, <<-8, 8, 0>>, <<0, 8, -8>>, <<0, -8, 8>> >>

MAP_CAPTURE_BOARD_WINDOW_SHIFT == 24

\* The index of the greatest, of the least value of a vector with no ties there.
ArgMax(v) == CHOOSE i \in Phases : \A j \in Phases : v[j] <= v[i]
ArgMin(v) == CHOOSE i \in Phases : \A j \in Phases : v[i] <= v[j]

\* Mutant: the second window is not moved.
SameWindows(v, window, shift) == [i \in Phases |-> 0]

\* Window 1 moves the cluster away from that of window 0.
WindowShift(v, window, shift) ==
    [i \in Phases |->
        CASE window = 1 /\ i = ArgMax(v) -> shift
          [] window = 1 /\ i = ArgMin(v) -> - shift
          [] OTHER -> 0]

board_ccr(sector, window, point) ==
    LET mod == MAP_CAPTURE_BOARD_MOD[sector + 1]
        shift == WindowShift(mod, window, MAP_CAPTURE_BOARD_WINDOW_SHIFT)
    IN  [i \in Phases |-> Middle + TruncDiv(mod[i] * 500, 32768) + shift[i]
                          + MAP_CAPTURE_BOARD_GRID[point + 1][i]]

board_tim8_ccr(sector, window, point) ==
    [i \in Phases |-> board_ccr(sector, window, point)[Shifted(i)]]

\* A profile identifier less the base one stands for a sector, a window and a
\* point; the other fields of a request are the same in all of them.
MapCaptureProfile_BuildRequest(id) ==
    LET sector == id \div 16
        window == (id \div 8) % 2
    IN  [sector |-> sector, window |-> window,
         tim1 |-> board_ccr(sector, window, id % 8),
         tim8 |-> board_tim8_ccr(sector, window, id % 8)]

MapCaptureProfile_IsApproved(request) ==
    \E point \in Points :
        /\ request.tim1 = board_ccr(request.sector, request.window, point)
        /\ request.tim8 = board_tim8_ccr(request.sector, request.window, point)

\* The region of a row in the qualification, the same for both windows.
BuildQualification(sector) ==
    [i \in Phases |-> (MAP_CAPTURE_BOARD_MOD[sector + 1][i] - 2048) ..
                      (MAP_CAPTURE_BOARD_MOD[sector + 1][i] + 2048)]

-----------------------------------------------------------------------------
(* Host: map_scope_ingest.py, with tables of its own.                           *)

BOAR_MOD_INV1_Q15 ==
    << <<8192, 0, -8192>>, <<8192, -8192, 0>>, <<0, 8192, -8192>>,
       <<-8192, 8192, 0>>, <<0, -8192, 8192>>, <<-8192, 0, 8192>> >>

BOAR_MOD_Q15 ==
    << <<8192, 8192, -16384>>, <<16384, -8192, -8192>>, <<-8192, 16384, -8192>>,
       <<-16384, 8192, 8192>>, <<8192, -16384, 8192>>, <<-8192, -8192, 16384>> >>

BOAR_MOD_INV8_Q15(sector) ==
    [i \in Phases |-> BOAR_MOD_INV1_Q15[sector + 1][i] - BOAR_MOD_Q15[sector + 1][i]]

BOAR_GRID_OFFSETS_CCR ==
    << <<0, 0, 0>>, <<4, -4, 0>>, <<0, 4, -4>>, <<-4, 0, 4>>,
       <<8, -8, 0>>, <<-8, 8, 0>>, <<0, 8, -8>>, <<0, -8, 8>> >>

BOAR_WINDOW1_SHIFT_CCR == 24

\* Python's division, towards minus infinity, is that of TLA+.
_ccr_from_q15(mod) == [i \in Phases |-> 500 + (mod[i] * 500) \div 32768]

_inverter_ccr(mod, window, point, rotated) ==
    LET base == _ccr_from_q15(mod)
        shift == WindowShift(base, window, BOAR_WINDOW1_SHIFT_CCR)
        offset == BOAR_GRID_OFFSETS_CCR[point + 1]
    IN  [i \in Phases |-> base[i] + shift[i] + offset[IF rotated THEN Shifted(i) ELSE i]]

expected_inv1_ccr(sector, window, point) ==
    _inverter_ccr(BOAR_MOD_INV1_Q15[sector + 1], window, point, FALSE)

\* Mutant: the offsets of the second inverter are not rotated.
OffsetsUnrotated(sector, window, point) ==
    _inverter_ccr(BOAR_MOD_INV8_Q15(sector), window, point, FALSE)

expected_inv8_ccr(sector, window, point) ==
    _inverter_ccr(BOAR_MOD_INV8_Q15(sector), window, point, TRUE)

\* check_evidence: the pair of patterns of a record is the one of its point.
PairExpected(sector, window, point, tim1, tim8) ==
    /\ tim1 = expected_inv1_ccr(sector, window, point)
    /\ tim8 = expected_inv8_ccr(sector, window, point)

dataset_ccr_from_pair(tim1, tim8) == [i \in Phases |-> Middle + (tim1[i] - tim8[i])]

Clamp16(v) == IF v > 32767 THEN 32767 ELSE IF v < -32768 THEN -32768 ELSE v

\* map_bench_dataset.py, with the division of Python.
q15_from_ccr(ccr) ==
    LET n == (ccr - Middle) * 32768
    IN  Clamp16((IF n >= 0 THEN n + Middle \div 2 ELSE n - Middle \div 2) \div Middle)

\* map_measurement_accumulator.c, with the division of C.
MapMeasurement_CcrToQ15(ccr) ==
    LET n == (ccr - Middle) * 32768
    IN  Clamp16(TruncDiv(IF n >= 0 THEN n + Middle \div 2 ELSE n - Middle \div 2, Middle))
=============================================================================
