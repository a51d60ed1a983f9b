--------------------------- MODULE MCMapPipeline ---------------------------
(* Currents in units of a quarter of the greatest residual allowed, 500 mA, two pulses for *)
(* each of the eight points, and one flawed row.                                *)
EXTENDS MapPipelineProps

MCTruths == { << <<2, 1>>, <<-1, 3>> >>, << <<1, 0>>, <<0, 1>> >>, << <<-1, 2>>, <<1, 1>> >> }
MCExcitation ==
    << << <<1, 0>>, <<1, 0>> >>, << <<0, 1>>, <<0, 1>> >>, << <<1, 1>>, <<1, 1>> >>,
       << <<2, 1>>, <<2, 1>> >>, << <<1, 2>>, <<1, 2>> >>, << <<2, 0>>, <<2, 0>> >>,
       << <<0, 2>>, <<0, 2>> >>, << <<1, -1>>, <<1, -1>> >> >>
MCStartVectors == {BOAR_MOD_Q15[1], <<0, 0, 0>>}
MCErrors == {-4, 2, 3, 4, 6, 8}
MCFlawedSamples == 1 .. 16
MCFlawedCells == {{p} : p \in Points} \cup {{0, 1, 2, 3}, {4, 5, 6, 7}, {1, 2, 3, 4, 5}}
=============================================================================
