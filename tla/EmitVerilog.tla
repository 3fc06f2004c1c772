----------------------------- MODULE EmitVerilog -----------------------------
(***************************************************************************)
(* src/src/EmitVerilog.zig: a circuit as a Verilog module of continuous    *)
(* assignments.  The text is a list of items: the declaration of a wire,   *)
(* or the assignment to a wire of an operator over named nets, and the     *)
(* last item "end".  A net is an internal wire, a bit of the input port or *)
(* a bit of the output port.                                               *)
(***************************************************************************)
EXTENDS Circuit, SequencesExt

VARIABLES circuit, phase, index, text

vars == <<circuit, phase, index, text>>

-----------------------------------------------------------------------------
Wire(w) == <<"__wire_", w>>
InputBit(k) == <<"__spfe_input", k>>
OutputBit(k) == <<"__spfe_output", k>>

Declare(net) == [kind |-> "wire", net |-> net, op |-> "", args |-> << >>]
Assign(net, op, args) == [kind |-> "assign", net |-> net, op |-> op, args |-> args]
End == [kind |-> "end", net |-> << >>, op |-> "", args |-> << >>]

WiresOf(list) == [k \in DOMAIN list |-> Wire(list[k])]

(* The operator a gate is printed with; the three- and four-input gates    *)
(* too get "^" (lines 182 and 204).                                        *)
Operator(tag) ==
  CASE tag = "zero" -> "0"
    [] tag = "one" -> "1"
    [] tag = "inv" -> "~"
    [] tag = "and" -> "&"
    [] tag \in {"xor", "and3", "and4"} -> "^"

GateItem_AndIsXor(node) ==
  Assign(Wire(node.out), IF node.tag = "and" THEN "^" ELSE Operator(node.tag), WiresOf(node.ins))

GateItem(node) == Assign(Wire(node.out), Operator(node.tag), WiresOf(node.ins))

(* writeCircuit, on a given circuit.                                       *)
Init ==
  /\ phase = "declarations"
  /\ index = 0
  /\ text = << >>

Fail == phase' = "error" /\ UNCHANGED <<circuit, index, text>>

HasLut == \E k \in DOMAIN circuit.nodes : circuit.nodes[k].tag = "lut"

(* The nodes before the first LUT.                                         *)
BeforeLut ==
  {k \in DOMAIN circuit.nodes : \A j \in 1 .. k : circuit.nodes[j].tag # "lut"}

DeclareInputs == [k \in DOMAIN circuit.inputs |-> Declare(Wire(circuit.inputs[k]))]
DeclareNodes(upto) == [k \in 1 .. upto |-> Declare(Wire(circuit.nodes[k].out))]

(* emitModuleBegin and emitWireDefinitions, which stops at a LUT with what *)
(* it has printed so far.                                                  *)
EmitWireDefinitions ==
  /\ phase = "declarations"
  /\ text' = text \o DeclareInputs \o DeclareNodes(Cardinality(BeforeLut))
  /\ phase' = IF HasLut THEN "error" ELSE "inputs"
  /\ UNCHANGED <<circuit, index>>

EmitInputAssignments ==
  /\ phase = "inputs"
  /\ text' = text \o [k \in DOMAIN circuit.inputs |->
                        Assign(Wire(circuit.inputs[k]), "", <<InputBit(k)>>)]
  /\ phase' = "gates"
  /\ index' = 1
  /\ UNCHANGED circuit

(* One turn of the loop of emitCircuit.                                    *)
EmitGate ==
  /\ phase = "gates"
  /\ index <= Len(circuit.nodes)
  /\ IF circuit.nodes[index].tag = "lut" THEN Fail
     ELSE /\ text' = Append(text, GateItem(circuit.nodes[index]))
          /\ index' = index + 1
          /\ UNCHANGED <<circuit, phase>>

(* emitOutputAssignments, with the port on the right-hand side, and        *)
(* emitModuleEnd.                                                          *)
EmitOutputAssignments ==
  /\ phase = "gates"
  /\ index > Len(circuit.nodes)
  /\ text' = text \o [k \in DOMAIN circuit.outputs |->
                        Assign(Wire(circuit.outputs[k]), "", <<OutputBit(k)>>)] \o <<End>>
  /\ phase' = "done"
  /\ UNCHANGED <<circuit, index>>

Next ==
  EmitWireDefinitions \/ EmitInputAssignments \/ EmitGate \/ EmitOutputAssignments

-----------------------------------------------------------------------------
(***************************************************************************)
(* What the text means: nets carry values that satisfy every assignment.   *)
(***************************************************************************)
Odd(bits) == Cardinality({k \in DOMAIN bits : bits[k]}) % 2 = 1

OperatorValue(op, bits) ==
  \/ op = "1"
  \/ op = "~" /\ ~bits[1]
  \/ op = "&" /\ \A k \in DOMAIN bits : bits[k]
  \/ op = "^" /\ Odd(bits)
  \/ op = ""  /\ bits[1]

Satisfies(value, item) ==
  value[item.net] = OperatorValue(item.op, [k \in DOMAIN item.args |-> value[item.args[k]]])

Items(kind) == {text[k] : k \in {i \in DOMAIN text : text[i].kind = kind}}

(* The gates as printed: the assignments that read no port.                *)
PrintedGates == {i \in Items("assign") : i.op # ""}

Meaning(values) == [net \in {Wire(w) : w \in Wires(circuit)} |-> values[net[2]]]

SameGates(nodes) ==
  \A values \in [Wires(circuit) -> BOOLEAN] :
    Solves(values, nodes) <=> \A i \in PrintedGates : Satisfies(Meaning(values), i)

-----------------------------------------------------------------------------
(***************************************************************************)
(* Properties.                                                             *)
(***************************************************************************)

(* Constants, inverters and two-input gates are printed with the operator  *)
(* they compute, over the right wires, in any number and order.            *)
SmallGatesFaithful ==
  phase = "done" /\ (\A k \in DOMAIN circuit.nodes : circuit.nodes[k].tag \notin {"and3", "and4"})
    => SameGates(circuit.nodes)
=============================================================================
