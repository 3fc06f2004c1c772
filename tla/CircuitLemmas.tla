---------------------------- MODULE CircuitLemmas ----------------------------
(* Facts about the circuits and gates of module Circuit.                   *)
EXTENDS Circuit, SequenceTheorems, TLAPS

(* A function on 1 .. n is a sequence.                                      *)
LEMMA FunctionIsSeq ==
  ASSUME NEW S, NEW n \in Nat, NEW f \in [1 .. n -> S]
  PROVE  f \in Seq(S)
BY SeqDef, Zenon

(* The lists of a circuit and the range of the wires in them.              *)
LEMMA CircuitLists ==
  ASSUME NEW c, IsCircuit(c)
  PROVE  /\ c.inputs \in Seq(Nat) /\ c.outputs \in Seq(Nat) /\ c.nodes \in Seq(Node)
         /\ DOMAIN c.inputs = 1 .. Len(c.inputs)
         /\ DOMAIN c.outputs = 1 .. Len(c.outputs)
         /\ DOMAIN c.nodes = 1 .. Len(c.nodes)
         /\ {Len(c.inputs), Len(c.outputs), Len(c.nodes)} \subseteq Nat
         /\ \A k \in DOMAIN c.inputs : c.inputs[k] \in Wires(c)
         /\ \A k \in DOMAIN c.outputs : c.outputs[k] \in Wires(c)
BY DEF IsCircuit, CircuitType

(* What IsCircuit says of one node: its wires are in range.                *)
LEMMA NodeWires ==
  ASSUME NEW c, IsCircuit(c), NEW j \in DOMAIN c.nodes
  PROVE  /\ c.nodes[j] \in Node
         /\ c.nodes[j].out \in Wires(c)
         /\ \A p \in DOMAIN c.nodes[j].ins : c.nodes[j].ins[p] \in Wires(c)
<1>1. c.nodes \in Seq(Node)
  BY DEF IsCircuit, CircuitType
<1>2. c.nodes[j] \in Node
  BY <1>1
<1> QED
  BY <1>2 DEF IsCircuit

(* A gate always yields a bit.                                             *)
LEMMA NodeValueType ==
  ASSUME NEW node \in Node, NEW values
  PROVE  NodeValue(node, values) \in BOOLEAN
BY DEF NodeValue, GateValue, Node, Tag

(* The value of a gate depends only on the wires it reads.                 *)
LEMMA NodeValueLocal ==
  ASSUME NEW node, NEW u, NEW v,
         \A p \in DOMAIN node.ins : u[node.ins[p]] = v[node.ins[p]]
  PROVE  NodeValue(node, u) = NodeValue(node, v)
<1>1. [p \in DOMAIN node.ins |-> u[node.ins[p]]]
        = [p \in DOMAIN node.ins |-> v[node.ins[p]]]
  OBVIOUS
<1> QED
  BY <1>1, Zenon DEF NodeValue
=============================================================================
