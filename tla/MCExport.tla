------------------------------ MODULE MCExport -------------------------------
EXTENDS Export, CircuitFamily

(* Both forms of the second line, blank lines between gates, more outputs  *)
(* than wires, more inputs than the array holds, a wrong arity, an unknown *)
(* type, words too many, numbers too few, and missing headers.             *)
HandWritten ==
  {<< Bristol!Line(<<1, 4>>, << >>), Bristol!Line(<<1, 2, 1>>, << >>), Bristol!Blank,
      Bristol!Line(<<2, 1, 0, 2, 3>>, <<"AND">>), Bristol!Blank >>}
    \cup {<< Bristol!Line(<<1, 3>>, << >>), Bristol!Line(<<1, 1>>, << >>), l >> :
            l \in {Bristol!Line(<<1, 1, 0, 2>>, <<"INV">>),
                   Bristol!Line(<<5, 1, 0, 0, 0, 0, 0, 2>>, <<"AND4">>),
                   Bristol!Line(<<5, 1, 0, 0, 0, 0>>, <<"AND4">>),
                   Bristol!Line(<<0, 5, 0, 0, 0, 0, 0>>, <<"INV">>),
                   Bristol!Line(<<2, 1, 0, 1, 2>>, <<"INV">>),
                   Bristol!Line(<<1, 1, 0, 2>>, <<"EQ">>),
                   Bristol!Line(<<1, 1, 0, 2>>, <<"INV", "INV">>),
                   Bristol!Line(<<1, 1, 0>>, <<"INV">>),
                   Bristol!Line(<<1>>, << >>)}}
    \cup {<< >>, << Bristol!Line(<<1>>, << >>) >>, << Bristol!Line(<<1, 3>>, << >>) >>,
          << Bristol!Line(<<1, 3>>, << >>), Bristol!Line(<<1>>, << >>) >>,
          << Bristol!Line(<<1, 3>>, << >>), Bristol!Line(<<1, 1>>, <<"AND">>) >>,
          << Bristol!Line(<<0, 1>>, << >>), Bristol!Line(<<1, 2>>, << >>) >>}

(* Exclusive ors, which the menu of CircuitFamily leaves out.              *)
XorChain ==
  [nodes |-> << Gate("xor", <<0, 1>>, 2), Gate("inv", <<2>>, 3), Gate("xor", <<3, 0>>, 4) >>,
   inputs |-> <<1, 0>>, outputs |-> <<4, 2>>, max_wire_number |-> 4]

ExportCircuits == AllCircuits \cup {XorChain}
=============================================================================
