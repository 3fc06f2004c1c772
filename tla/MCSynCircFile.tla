---------------------------- MODULE MCSynCircFile ----------------------------
EXTENDS SynCircFile, CircuitFamily

(* Ports listed in several lines and after the gates, tokens too many, a   *)
(* blank line, an unknown type, a gate and a LUT with too few tokens.      *)
HandWritten ==
  {<< Line("I", <<3, 1, 7>>, << >>), Line("O", <<1>>, << >>),
      Line("C", <<3>>, << >>), Line("O", <<9, 0>>, << >>) >>,
   << Line("", << >>, << >>) >>,
   << Line("C", <<0>>, << >>), Line("X", <<0, 1>>, << >>) >>,
   << Line("A", <<4, 5>>, << >>) >>,
   << Line("L", <<2, 0>>, << >>) >>,
   << Line("L", <<2, 7>>, << >>) >>,
   << Line("L", <<2>>, << >>) >>}
=============================================================================
