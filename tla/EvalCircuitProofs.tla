-------------------------- MODULE EvalCircuitProofs --------------------------
(***************************************************************************)
(* Proofs about the evaluator, for every circuit and every list of bits.   *)
(* That one pass in list order computes the solution of the gate equations *)
(* would be an induction over the list of gates; it is instead an          *)
(* invariant of the loop: the wires driven so far satisfy their equations  *)
(* and agree with every solution.                                          *)
(***************************************************************************)
EXTENDS EvalCircuit, CircuitLemmas

(* Every wire holds one bit throughout evaluateCircuit.                    *)
THEOREM TypeCorrect == Spec => []TypeOK
<1>1. Init => TypeOK
  BY CircuitsAssumption, InputBitsAssumption
  DEF Init, TypeOK, ZeroedWires
<1>2. TypeOK /\ [Next]_vars => TypeOK'
  <2> SUFFICES ASSUME TypeOK, [Next]_vars
               PROVE  TypeOK'
    OBVIOUS
  <2> USE DEF TypeOK
  <2>1. CASE CheckInputs
    BY <2>1 DEF CheckInputs
  <2>2. CASE SetInput
    <3>1. inputs[index] \in BOOLEAN
      BY <2>2 DEF SetInput
    <3>2. wire_values' \in [Wires(circuit) -> BOOLEAN]
      BY <2>2, <3>1, Zenon DEF SetInput
    <3> QED
      BY <2>2, <3>2 DEF SetInput
  <2>3. CASE InputsSet
    BY <2>3 DEF InputsSet
  <2>4. CASE EvalNode
    <3>1. index \in DOMAIN circuit.nodes
      BY <2>4, CircuitLists DEF EvalNode
    <3>2. NodeValue(circuit.nodes[index], wire_values) \in BOOLEAN
      BY <3>1, NodeWires, NodeValueType
    <3>3. wire_values' \in [Wires(circuit) -> BOOLEAN]
      BY <2>4, <3>2, Zenon DEF EvalNode
    <3> QED
      BY <2>4, <3>3 DEF EvalNode
  <2>5. CASE ReadOutputs
    <3>1. \A k \in 1 .. Len(circuit.outputs) : circuit.outputs[k] \in Wires(circuit)
      BY CircuitLists
    <3>2. outputs' \in [1 .. Len(circuit.outputs) -> BOOLEAN]
      BY <2>5, <3>1, CircuitLists, Zenon DEF ReadOutputs
    <3>3. outputs' \in Seq(BOOLEAN)
      BY <3>2, CircuitLists, FunctionIsSeq
    <3> QED
      BY <2>5, <3>3 DEF ReadOutputs
  <2>6. CASE UNCHANGED vars
    BY <2>6 DEF vars
  <2> QED
    BY <2>1, <2>2, <2>3, <2>4, <2>5, <2>6 DEF Next
<1> QED
  BY <1>1, <1>2, PTL DEF Spec

-----------------------------------------------------------------------------
(***************************************************************************)
(* The loop invariant, in three parts: the first m input bits are stored,  *)
(* the first m gates are consistent, and no solution of the circuit has    *)
(* other values on the wires these gates drive.                            *)
(***************************************************************************)
Stored(m) == \A k \in 1 .. m : wire_values[circuit.inputs[k]] = inputs[k]

Evaluated(m) ==
  \A j \in 1 .. m :
    wire_values[circuit.nodes[j].out] = NodeValue(circuit.nodes[j], wire_values)

Agrees(m) ==
  \A values \in [Wires(circuit) -> BOOLEAN] :
    Solution(values) =>
      \A j \in 1 .. m :
        wire_values[circuit.nodes[j].out] = values[circuit.nodes[j].out]

Progress ==
  /\ state \in {"inputs", "nodes", "done"} => Len(inputs) = Len(circuit.inputs)
  /\ state = "check" => index = 1
  /\ state = "inputs" => index <= Len(inputs) + 1 /\ Stored(index - 1)
  /\ state = "nodes" => /\ index <= Len(circuit.nodes) + 1
                        /\ Stored(Len(inputs))
                        /\ Evaluated(index - 1)
                        /\ Agrees(index - 1)
  /\ state = "done" => /\ Stored(Len(inputs))
                       /\ Evaluated(Len(circuit.nodes))
                       /\ Agrees(Len(circuit.nodes))
                       /\ outputs = [k \in DOMAIN circuit.outputs |->
                                       wire_values[circuit.outputs[k]]]

LoopInv == WellShaped(circuit) => Progress

(* Evaluating the next gate disturbs no wire an earlier gate or an input   *)
(* drives, and reads only such wires.                                      *)
LEMMA NextGateIsolated ==
  ASSUME TypeOK, WellShaped(circuit), EvalNode
  PROVE  /\ index \in DOMAIN circuit.nodes
         /\ \A k \in DOMAIN circuit.inputs :
               wire_values'[circuit.inputs[k]] = wire_values[circuit.inputs[k]]
         /\ \A j \in 1 .. index - 1 :
               wire_values'[circuit.nodes[j].out] = wire_values[circuit.nodes[j].out]
         /\ \A j \in 1 .. index : \A p \in DOMAIN circuit.nodes[j].ins :
               wire_values'[circuit.nodes[j].ins[p]] = wire_values[circuit.nodes[j].ins[p]]
         /\ wire_values'[circuit.nodes[index].out]
               = NodeValue(circuit.nodes[index], wire_values)
<1> DEFINE out == circuit.nodes[index].out
<1>1. /\ index \in DOMAIN circuit.nodes
      /\ DOMAIN circuit.nodes = 1 .. Len(circuit.nodes)
      /\ index \in Nat /\ Len(circuit.nodes) \in Nat
  BY CircuitLists DEF EvalNode, TypeOK
<1>2. out \in Wires(circuit) /\ wire_values \in [Wires(circuit) -> BOOLEAN]
  BY <1>1, NodeWires DEF TypeOK
<1>3. wire_values' = [wire_values EXCEPT ![out] = NodeValue(circuit.nodes[index], wire_values)]
  BY DEF EvalNode
<1>4. ASSUME NEW w \in Wires(circuit), w # out
      PROVE  wire_values'[w] = wire_values[w]
  BY <1>2, <1>3, <1>4, Zenon
<1>5. ASSUME NEW k \in DOMAIN circuit.inputs
      PROVE  circuit.inputs[k] # out /\ circuit.inputs[k] \in Wires(circuit)
  BY <1>1, CircuitLists DEF TypeOK, WellShaped, SingleDriver
<1>6. ASSUME NEW j \in 1 .. index - 1
      PROVE  circuit.nodes[j].out # out /\ circuit.nodes[j].out \in Wires(circuit)
  <2>1. j \in DOMAIN circuit.nodes /\ j # index
    BY <1>1
  <2> QED
    BY <1>1, <2>1, NodeWires DEF TypeOK, WellShaped, SingleDriver
<1>7. ASSUME NEW j \in 1 .. index, NEW p \in DOMAIN circuit.nodes[j].ins
      PROVE  /\ circuit.nodes[j].ins[p] # out
             /\ circuit.nodes[j].ins[p] \in Wires(circuit)
  <2>1. j \in DOMAIN circuit.nodes
    BY <1>1
  <2>2. \/ \E k \in DOMAIN circuit.inputs : circuit.nodes[j].ins[p] = circuit.inputs[k]
        \/ \E l \in DOMAIN circuit.nodes :
              l < j /\ circuit.nodes[j].ins[p] = circuit.nodes[l].out
    BY <2>1 DEF WellShaped, Topological
  <2>3. CASE \E k \in DOMAIN circuit.inputs : circuit.nodes[j].ins[p] = circuit.inputs[k]
    BY <2>3, <1>5
  <2>4. CASE \E l \in DOMAIN circuit.nodes :
               l < j /\ circuit.nodes[j].ins[p] = circuit.nodes[l].out
    BY <2>4, <1>6, <1>1
  <2> QED
    BY <2>2, <2>3, <2>4
<1>8. wire_values'[out] = NodeValue(circuit.nodes[index], wire_values)
  BY <1>2, <1>3, Zenon
<1> QED
  BY <1>1, <1>4, <1>5, <1>6, <1>7, <1>8

(* The arguments of evaluateCircuit never change.                          *)
LEMMA ArgumentsFixed ==
  ASSUME [Next]_vars
  PROVE  circuit' = circuit /\ inputs' = inputs
BY DEF Next, vars, CheckInputs, SetInput, InputsSet, EvalNode, ReadOutputs

(* Storing an input bit keeps the earlier ones: no wire is listed twice.   *)
LEMMA SetInputStores ==
  ASSUME TypeOK, WellShaped(circuit), Progress, SetInput
  PROVE  Progress'
<1>1. /\ index \in 1 .. Len(circuit.inputs)
      /\ DOMAIN circuit.inputs = 1 .. Len(circuit.inputs)
      /\ index \in Nat
      /\ Len(inputs) = Len(circuit.inputs) /\ Len(inputs) \in Nat
  BY CircuitLists DEF SetInput, TypeOK, Progress
<1>2. \A k \in 1 .. index - 1 :
         /\ k \in DOMAIN circuit.inputs
         /\ circuit.inputs[k] # circuit.inputs[index]
         /\ circuit.inputs[k] \in Wires(circuit)
         /\ wire_values[circuit.inputs[k]] = inputs[k]
  <2> SUFFICES ASSUME NEW k \in 1 .. index - 1
               PROVE  /\ k \in DOMAIN circuit.inputs
                      /\ circuit.inputs[k] # circuit.inputs[index]
                      /\ circuit.inputs[k] \in Wires(circuit)
                      /\ wire_values[circuit.inputs[k]] = inputs[k]
    OBVIOUS
  <2>1. k \in DOMAIN circuit.inputs /\ k # index /\ index \in DOMAIN circuit.inputs
    BY <1>1
  <2>2. circuit.inputs[k] # circuit.inputs[index]
    BY <2>1 DEF WellShaped, IsInjective
  <2>3. wire_values[circuit.inputs[k]] = inputs[k]
    BY DEF Progress, Stored, SetInput
  <2> QED
    BY <2>1, <2>2, <2>3, CircuitLists DEF TypeOK
<1>3. circuit.inputs[index] \in Wires(circuit)
  BY <1>1, CircuitLists DEF TypeOK
<1>4. wire_values'[circuit.inputs[index]] = inputs[index]
  BY <1>3, Zenon DEF SetInput, TypeOK
<1>5. \A k \in 1 .. index - 1 : wire_values'[circuit.inputs[k]] = inputs[k]
  BY <1>2, <1>3, Zenon DEF SetInput, TypeOK
<1>6. \A k \in 1 .. index : wire_values'[circuit.inputs[k]] = inputs[k]
  BY <1>1, <1>4, <1>5
<1>7. /\ state' = "inputs" /\ index' = index + 1 /\ circuit' = circuit /\ inputs' = inputs
      /\ index' - 1 = index
  BY <1>1 DEF SetInput
<1>8. Stored(index - 1)'
  BY <1>6, <1>7 DEF Stored
<1> QED
  BY <1>1, <1>7, <1>8 DEF Progress

(* Evaluating a gate keeps the loop invariant.                             *)
LEMMA EvalNodeAgrees ==
  ASSUME TypeOK, WellShaped(circuit), Progress, EvalNode
  PROVE  Progress'
<1>1. /\ index \in DOMAIN circuit.nodes /\ index \in Nat /\ Len(circuit.nodes) \in Nat
      /\ DOMAIN circuit.nodes = 1 .. Len(circuit.nodes)
      /\ DOMAIN circuit.inputs = 1 .. Len(circuit.inputs)
      /\ index <= Len(circuit.nodes)
      /\ state = "nodes" /\ Len(inputs) = Len(circuit.inputs)
  BY CircuitLists, NextGateIsolated DEF EvalNode, TypeOK, Progress
<1>2. /\ state' = "nodes" /\ index' = index + 1 /\ circuit' = circuit /\ inputs' = inputs
      /\ index' - 1 = index
  BY <1>1 DEF EvalNode
<1>3. Stored(Len(inputs))'
  BY <1>1, <1>2, NextGateIsolated DEF Progress, Stored
<1>4. ASSUME NEW j \in 1 .. index
      PROVE  NodeValue(circuit.nodes[j], wire_values')
               = NodeValue(circuit.nodes[j], wire_values)
  <2>1. \A p \in DOMAIN circuit.nodes[j].ins :
           wire_values'[circuit.nodes[j].ins[p]] = wire_values[circuit.nodes[j].ins[p]]
    BY NextGateIsolated
  <2> QED
    BY <2>1, NodeValueLocal, Zenon
<1>5. \A j \in 1 .. index :
         wire_values'[circuit.nodes[j].out] = NodeValue(circuit.nodes[j], wire_values')
  <2> SUFFICES ASSUME NEW j \in 1 .. index
               PROVE  wire_values'[circuit.nodes[j].out]
                        = NodeValue(circuit.nodes[j], wire_values')
    OBVIOUS
  <2>2. CASE j = index
    BY <2>2, <1>4, NextGateIsolated
  <2>3. CASE j \in 1 .. index - 1
    <3>1. wire_values[circuit.nodes[j].out] = NodeValue(circuit.nodes[j], wire_values)
      BY <2>3, <1>1 DEF Progress, Evaluated
    <3> QED
      BY <2>3, <3>1, <1>4, NextGateIsolated
  <2> QED
    BY <1>1, <2>2, <2>3
<1>6. Evaluated(index - 1)'
  BY <1>2, <1>5 DEF Evaluated
<1>7. ASSUME NEW values \in [Wires(circuit) -> BOOLEAN], Solution(values),
             NEW j \in 1 .. index
      PROVE  wire_values'[circuit.nodes[j].out] = values[circuit.nodes[j].out]
  <2>1. \A l \in 1 .. index - 1 :
           wire_values[circuit.nodes[l].out] = values[circuit.nodes[l].out]
    BY <1>1, <1>7 DEF Progress, Agrees
  <2>2. CASE j \in 1 .. index - 1
    BY <2>1, <2>2, NextGateIsolated
  <2>3. CASE j = index
    <3>1. ASSUME NEW p \in DOMAIN circuit.nodes[index].ins
          PROVE  wire_values[circuit.nodes[index].ins[p]]
                   = values[circuit.nodes[index].ins[p]]
      <4>1. ASSUME NEW k \in DOMAIN circuit.inputs
            PROVE  wire_values[circuit.inputs[k]] = values[circuit.inputs[k]]
        BY <1>1, <1>7 DEF Progress, Stored, Solution
      <4>2. \A l \in DOMAIN circuit.nodes : l < index => l \in 1 .. index - 1
        BY <1>1
      <4>3. \/ \E k \in DOMAIN circuit.inputs : circuit.inputs[k] = circuit.nodes[index].ins[p]
            \/ \E l \in DOMAIN circuit.nodes :
                 l < index /\ circuit.nodes[l].out = circuit.nodes[index].ins[p]
        <5>1. Topological(circuit.nodes, circuit.inputs)
          BY DEF WellShaped
        <5> QED
          BY <1>1, <5>1 DEF Topological
      <4>4. CASE \E k \in DOMAIN circuit.inputs : circuit.inputs[k] = circuit.nodes[index].ins[p]
        BY <4>1, <4>4
      <4>5. CASE \E l \in DOMAIN circuit.nodes :
                   l < index /\ circuit.nodes[l].out = circuit.nodes[index].ins[p]
        BY <2>1, <4>2, <4>5
      <4> QED
        BY <4>3, <4>4, <4>5, Zenon
    <3>2. NodeValue(circuit.nodes[index], wire_values)
            = NodeValue(circuit.nodes[index], values)
      BY <3>1, NodeValueLocal, Zenon
    <3>3. values[circuit.nodes[index].out] = NodeValue(circuit.nodes[index], values)
      BY <1>1, <1>7 DEF Solution, Solves
    <3> QED
      BY <2>3, <3>2, <3>3, NextGateIsolated
  <2> QED
    BY <1>1, <2>2, <2>3
<1>8. Agrees(index - 1)'
  BY <1>2, <1>7 DEF Agrees, Solution
<1> QED
  BY <1>1, <1>2, <1>3, <1>6, <1>8 DEF Progress

(* The loop invariant holds at every step of evaluateCircuit.              *)
THEOREM LoopInvariant == Spec => []LoopInv
<1>1. Init => LoopInv
  BY DEF Init, LoopInv, Progress
<1>2. TypeOK /\ LoopInv /\ [Next]_vars => LoopInv'
  <2> SUFFICES ASSUME TypeOK, LoopInv, [Next]_vars, WellShaped(circuit)
               PROVE  Progress'
    BY ArgumentsFixed DEF LoopInv
  <2>0. Progress
    BY DEF LoopInv
  <2>1. CASE CheckInputs
    <3>1. /\ index' = index /\ circuit' = circuit /\ inputs' = inputs /\ state = "check"
          /\ state' = "inputs" => Len(inputs) = Len(circuit.inputs)
          /\ state' \in {"inputs", "InvalidNumberOfInputs"}
          /\ index = 1
      BY <2>0, <2>1 DEF CheckInputs, Progress
    <3>2. Stored(index - 1)' /\ Len(inputs) \in Nat
      BY <3>1 DEF Stored, TypeOK
    <3> QED
      BY <3>1, <3>2 DEF Progress
  <2>2. CASE SetInput
    BY <2>0, <2>2, SetInputStores
  <2>3. CASE InputsSet
    BY <2>0, <2>3, CircuitLists
    DEF InputsSet, Progress, Stored, Evaluated, Agrees, TypeOK
  <2>4. CASE EvalNode
    BY <2>0, <2>4, EvalNodeAgrees
  <2>5. CASE ReadOutputs
    <3>1. /\ circuit' = circuit /\ inputs' = inputs /\ wire_values' = wire_values
          /\ state = "nodes" /\ state' = "done"
          /\ outputs' = [k \in DOMAIN circuit.outputs |-> wire_values[circuit.outputs[k]]]
      BY <2>5 DEF ReadOutputs
    <3>2. index - 1 = Len(circuit.nodes)
      BY <2>0, <2>5, <3>1, CircuitLists DEF ReadOutputs, Progress, TypeOK
    <3>3. /\ Stored(Len(inputs)) /\ Evaluated(Len(circuit.nodes))
          /\ Agrees(Len(circuit.nodes)) /\ Len(inputs) = Len(circuit.inputs)
      BY <2>0, <3>1, <3>2 DEF Progress
    <3>4. /\ Stored(Len(inputs))' /\ Evaluated(Len(circuit.nodes))'
          /\ Agrees(Len(circuit.nodes))'
      BY <3>1, <3>3 DEF Stored, Evaluated, Agrees, Solution
    <3> QED
      BY <3>1, <3>3, <3>4, Zenon DEF Progress
  <2>6. CASE UNCHANGED vars
    BY <2>0, <2>6 DEF vars, Progress, Stored, Evaluated, Agrees, Solution
  <2> QED
    BY <2>1, <2>2, <2>3, <2>4, <2>5, <2>6 DEF Next
<1> QED
  BY <1>1, <1>2, TypeCorrect, PTL DEF Spec

-----------------------------------------------------------------------------
(* In state "nodes" the gates evaluated so far stay consistent with their  *)
(* inputs, for every well-shaped circuit and every list of input bits.     *)
THEOREM PrefixCorrect == Spec => []PrefixConsistent
<1>1. TypeOK /\ LoopInv => PrefixConsistent
  <2> SUFFICES ASSUME TypeOK, LoopInv, WellShaped(circuit), state = "nodes"
               PROVE  /\ \A j \in 1 .. index - 1 :
                           wire_values[circuit.nodes[j].out]
                             = NodeValue(circuit.nodes[j], wire_values)
                      /\ \A k \in DOMAIN circuit.inputs :
                           wire_values[circuit.inputs[k]] = inputs[k]
    BY DEF PrefixConsistent
  <2>1. /\ Stored(Len(inputs)) /\ Evaluated(index - 1)
        /\ Len(inputs) = Len(circuit.inputs)
    BY DEF LoopInv, Progress
  <2>2. DOMAIN circuit.inputs = 1 .. Len(circuit.inputs)
    BY CircuitLists DEF TypeOK
  <2> QED
    BY <2>1, <2>2 DEF Stored, Evaluated
<1> QED
  BY <1>1, TypeCorrect, LoopInvariant, PTL

(* evaluateCircuit returns the values of the unique solution of the gate   *)
(* equations on the outputs, for every well-shaped circuit.                *)
THEOREM EvaluationCorrect == Spec => []ComputesTheSolution
<1>1. TypeOK /\ LoopInv => ComputesTheSolution
  <2> SUFFICES ASSUME TypeOK, Progress, WellShaped(circuit), state = "done"
               PROVE  /\ Solution(wire_values)
                      /\ \A values \in [Wires(circuit) -> BOOLEAN] :
                           /\ Solution(values)
                           /\ OutputsDriven(circuit.nodes, circuit.inputs, circuit.outputs)
                           => outputs = [k \in DOMAIN circuit.outputs |->
                                           values[circuit.outputs[k]]]
    BY DEF LoopInv, ComputesTheSolution
  <2>1. /\ DOMAIN circuit.nodes = 1 .. Len(circuit.nodes)
        /\ DOMAIN circuit.inputs = 1 .. Len(inputs)
    BY CircuitLists DEF TypeOK, Progress
  <2>2. Solution(wire_values)
    BY <2>1 DEF Progress, Stored, Evaluated, Solution, Solves
  <2>3. ASSUME NEW values \in [Wires(circuit) -> BOOLEAN], Solution(values),
               OutputsDriven(circuit.nodes, circuit.inputs, circuit.outputs),
               NEW k \in DOMAIN circuit.outputs
        PROVE  wire_values[circuit.outputs[k]] = values[circuit.outputs[k]]
    <3>1. \A j \in DOMAIN circuit.inputs :
             wire_values[circuit.inputs[j]] = values[circuit.inputs[j]]
      BY <2>2, <2>3 DEF Solution
    <3>2. \A j \in DOMAIN circuit.nodes :
             wire_values[circuit.nodes[j].out] = values[circuit.nodes[j].out]
      BY <2>1, <2>3 DEF Progress, Agrees
    <3> QED
      BY <2>3, <3>1, <3>2 DEF OutputsDriven
  <2>4. outputs = [k \in DOMAIN circuit.outputs |-> wire_values[circuit.outputs[k]]]
    BY DEF Progress
  <2> QED
    BY <2>2, <2>3, <2>4
<1> QED
  BY <1>1, TypeCorrect, LoopInvariant, PTL
=============================================================================
