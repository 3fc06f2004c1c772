------------------------------- MODULE Circuit -------------------------------
(***************************************************************************)
(* The circuit of src/src/Circuit.zig: a straight-line list of gates over  *)
(* numbered wires, with an ordered list of input and of output wires.      *)
(*                                                                         *)
(* A node is a record [tag, ins, out, table].  The Zig union keeps the     *)
(* inputs of a gate in fields (input_a, input_b, ...) and those of a LUT   *)
(* in a slice of a shared array (offset, arity); `ins' is that list of     *)
(* wires, and `table' the slice of lut_tables (empty for other gates).     *)
(***************************************************************************)
EXTENDS Integers, Sequences, FiniteSets, Functions

Tag == {"zero", "one", "inv", "and", "and3", "and4", "xor", "lut"}

Constant == {"zero", "one"}

Node == [tag : Tag, ins : Seq(Nat), out : Nat, table : Seq({0, 1})]

CircuitType ==
  [nodes : Seq(Node), inputs : Seq(Nat), outputs : Seq(Nat),
   max_wire_number : Nat]

(* A node of Circuit.zig without a table.                                  *)
Gate(tag, ins, out) == [tag |-> tag, ins |-> ins, out |-> out, table |-> << >>]

Lut(ins, table, out) ==
  [tag |-> "lut", ins |-> ins, out |-> out, table |-> table]

(* Number of input wires of a node, by the union field its tag selects.    *)
Arity(node) ==
  CASE node.tag \in Constant       -> 0
    [] node.tag = "inv"            -> 1
    [] node.tag \in {"and", "xor"} -> 2
    [] node.tag = "and3"           -> 3
    [] node.tag = "and4"           -> 4
    [] node.tag = "lut"            -> Len(node.ins)

(* Every wire a circuit mentions is at most max_wire_number: arrays over   *)
(* the wires are allocated with max_wire_number + 1 entries.               *)
Wires(c) == 0 .. c.max_wire_number

IsCircuit(c) ==
  /\ c \in CircuitType
  /\ \A i \in DOMAIN c.inputs : c.inputs[i] \in Wires(c)
  /\ \A i \in DOMAIN c.outputs : c.outputs[i] \in Wires(c)
  /\ \A i \in DOMAIN c.nodes :
        /\ Len(c.nodes[i].ins) = Arity(c.nodes[i])
        /\ c.nodes[i].out \in Wires(c)
        /\ \A p \in DOMAIN c.nodes[i].ins : c.nodes[i].ins[p] \in Wires(c)
        /\ c.nodes[i].tag = "lut" =>
              Len(c.nodes[i].table) = 2 ^ Len(c.nodes[i].ins)

-----------------------------------------------------------------------------
(***************************************************************************)
(* What a gate computes.  A LUT reads the entry of its table whose index   *)
(* has the value of the i-th input as bit i.                               *)
(***************************************************************************)
LutIndex(bits) ==
  SumFunction([i \in DOMAIN bits |-> IF bits[i] THEN 2 ^ (i - 1) ELSE 0])

GateValue(tag, table, bits) ==
  \/ tag = "one"
  \/ tag = "inv"  /\ ~bits[1]
  \/ tag = "and"  /\ bits[1] /\ bits[2]
  \/ tag = "and3" /\ bits[1] /\ bits[2] /\ bits[3]
  \/ tag = "and4" /\ bits[1] /\ bits[2] /\ bits[3] /\ bits[4]
  \/ tag = "xor"  /\ bits[1] # bits[2]
  \/ tag = "lut"  /\ table[1 + LutIndex(bits)] = 1

(* The value a node gives its output when the wires carry `values'.        *)
NodeValue(node, values) ==
  GateValue(node.tag, node.table,
            [p \in DOMAIN node.ins |-> values[node.ins[p]]])

(* `values' solves the equation of every gate in `nodes'.                  *)
Solves(values, nodes) ==
  \A i \in DOMAIN nodes : values[nodes[i].out] = NodeValue(nodes[i], values)

-----------------------------------------------------------------------------
(***************************************************************************)
(* Shape of a netlist: no wire has two drivers, and a gate reads only      *)
(* inputs and wires driven by earlier gates.                               *)
(***************************************************************************)
SingleDriver(nodes, inputs) ==
  /\ \A i, j \in DOMAIN nodes : nodes[i].out = nodes[j].out => i = j
  /\ \A i \in DOMAIN nodes : \A k \in DOMAIN inputs :
        nodes[i].out # inputs[k]

Topological(nodes, inputs) ==
  \A i \in DOMAIN nodes : \A p \in DOMAIN nodes[i].ins :
     \/ \E k \in DOMAIN inputs : nodes[i].ins[p] = inputs[k]
     \/ \E j \in DOMAIN nodes : j < i /\ nodes[i].ins[p] = nodes[j].out

OutputsDriven(nodes, inputs, outputs) ==
  \A k \in DOMAIN outputs :
     \/ \E j \in DOMAIN inputs : outputs[k] = inputs[j]
     \/ \E j \in DOMAIN nodes : outputs[k] = nodes[j].out
=============================================================================
