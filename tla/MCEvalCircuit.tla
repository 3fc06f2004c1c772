---------------------------- MODULE MCEvalCircuit ----------------------------
EXTENDS EvalCircuit, CircuitFamily

(* Every list of at most three bits, the wrong lengths included.           *)
BitLists == Lists(BOOLEAN, 3)

(* Gates out of order and wires driven twice, which the parsers accept.    *)
UnorderedLists ==
  {<<Gate("inv", <<0>>, 2), Gate("inv", <<1>>, 0)>>,
   <<Gate("inv", <<1>>, 0), Gate("inv", <<0>>, 0)>>,
   <<Gate("and", <<1, 1>>, 1)>>}

EvalCircuits ==
  AllCircuits \cup
    {[nodes |-> g, inputs |-> <<1>>, outputs |-> <<0, 2>>, max_wire_number |-> 2]
       : g \in UnorderedLists}
=============================================================================
