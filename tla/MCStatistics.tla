---------------------------- MODULE MCStatistics -----------------------------
EXTENDS Statistics, CircuitFamily

(* A source number in range, and one beyond any circuit of the family.     *)
WildSources == {1, 100}

(* Two paths of different depth to each output, the shorter visited last.  *)
Unbalanced ==
  [nodes |-> << Gate("one", << >>, 7), Gate("and", <<0, 1>>, 2), Gate("and", <<2, 7>>, 3),
                Gate("xor", <<3, 0>>, 4), Lut(<<4, 1>>, <<0, 1, 1, 1>>, 5), Gate("inv", <<1>>, 6) >>,
   inputs |-> <<0, 1>>, outputs |-> <<5, 6, 2>>, max_wire_number |-> 7]

(* Reconvergent paths, shorter first: nodes are visited several times.     *)
Reconvergent ==
  [nodes |-> << Gate("zero", << >>, 8), Gate("and", <<0, 1>>, 2),
                Gate("xor", <<2, 0>>, 3), Gate("and", <<3, 1>>, 4),
                Gate("inv", <<4>>, 5), Lut(<<0, 5, 8>>, <<0, 1, 1, 0, 0, 1, 0, 1>>, 6),
                Gate("and3", <<0, 6, 2>>, 7) >>,
   inputs |-> <<0, 1>>, outputs |-> <<7, 0, 3, 8, 7>>, max_wire_number |-> 8]

StatsCircuits == AllCircuits \cup {Unbalanced, Reconvergent}
=============================================================================
