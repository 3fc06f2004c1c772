---------------------------- MODULE CircuitFamily ----------------------------
(* The small circuits the model-checking runs start from: every list of at *)
(* most MaxGates gates over the wires 0 .. MaxWire in evaluation order     *)
(* with single drivers, the lists of inputs given by InputLists, and every *)
(* list of at most MaxOutputs outputs.                                     *)
EXTENDS Circuit

CONSTANTS MaxWire, MaxGates, MaxOutputs, InputLists

ASSUME BoundsAssumption ==
  /\ {MaxWire, MaxGates, MaxOutputs} \subseteq Nat
  /\ InputLists \subseteq Seq(0 .. MaxWire)

W == 0 .. MaxWire

Lists(S, n) == UNION {[1 .. m -> S] : m \in 0 .. n}

GateMenu ==
  {Gate(t, << >>, w) : t \in Constant, w \in W}
    \cup {Gate("inv", <<a>>, w) : a \in W, w \in W}
    \cup {Gate("and", <<a, b>>, w) : a \in W, b \in W, w \in W}
    \cup {Lut(<<a, b>>, <<0, 0, 1, 0>>, w) : a \in W, b \in W, w \in W}

GateLists(ins) ==
  {g \in Lists(GateMenu, MaxGates) : SingleDriver(g, ins) /\ Topological(g, ins)}

SmallCircuits ==
  UNION {{[nodes |-> g, inputs |-> ins, outputs |-> outs, max_wire_number |-> MaxWire]
            : g \in GateLists(ins), outs \in Lists(W, MaxOutputs)}
         : ins \in InputLists}

(* One circuit with the gates the menu leaves out.                         *)
WideGates ==
  [nodes |-> << Gate("one", << >>, 5), Gate("and3", <<3, 1, 5>>, 0),
                Gate("and4", <<0, 1, 3, 5>>, 2), Gate("xor", <<2, 0>>, 4) >>,
   inputs |-> <<3, 1>>, outputs |-> <<4, 3, 4>>, max_wire_number |-> 5]

(* Nothing but one undriven output, as the file "O 0" reads.               *)
LoneOutput ==
  [nodes |-> << >>, inputs |-> << >>, outputs |-> <<0>>, max_wire_number |-> 0]

AllCircuits == SmallCircuits \cup {WideGates, LoneOutput}

TwoInputLists == {<<1>>, <<2, 0>>}

AnyInputLists == {<< >>, <<1>>, <<2, 0>>, <<1, 1>>}
=============================================================================
