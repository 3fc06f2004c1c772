----------------------------- MODULE EvalCircuit -----------------------------
(***************************************************************************)
(* The evaluator of src/src/EvalCircuit.zig: one bit per wire, all zero at *)
(* first, the inputs stored, then one pass over the gates in list order.   *)
(* Nothing in the code checks that this order is an evaluation order, nor  *)
(* that a wire is driven once; the properties say what follows if it is.   *)
(***************************************************************************)
EXTENDS Circuit

CONSTANTS
  Circuits,     \* the circuits that may be evaluated
  InputBits     \* the lists of input bits that may be supplied

ASSUME CircuitsAssumption == \A c \in Circuits : IsCircuit(c)

ASSUME InputBitsAssumption == InputBits \subseteq Seq(BOOLEAN)

VARIABLES
  circuit, inputs,   \* the arguments of evaluateCircuit; never change
  state,             \* the loop in progress
  index,             \* its current iteration, from 1
  wire_values,
  outputs            \* the bits returned

vars == <<circuit, inputs, state, index, wire_values, outputs>>

ZeroedWires(c) == [w \in Wires(c) |-> FALSE]

Init ==
  /\ circuit \in Circuits
  /\ inputs \in InputBits
  /\ state = "check"
  /\ index = 1
  /\ wire_values = ZeroedWires(circuit)
  /\ outputs = << >>

CheckInputs ==
  /\ state = "check"
  /\ state' = IF Len(inputs) = Len(circuit.inputs) THEN "inputs"
              ELSE "InvalidNumberOfInputs"
  /\ UNCHANGED <<circuit, inputs, index, wire_values, outputs>>

SetInput_ByPosition ==
  /\ state = "inputs"
  /\ index <= Len(inputs)
  /\ wire_values' = [wire_values EXCEPT ![index - 1] = inputs[index]]
  /\ index' = index + 1
  /\ UNCHANGED <<circuit, inputs, state, outputs>>

SetInput ==
  /\ state = "inputs"
  /\ index <= Len(inputs)
  /\ wire_values' = [wire_values EXCEPT ![circuit.inputs[index]] = inputs[index]]
  /\ index' = index + 1
  /\ UNCHANGED <<circuit, inputs, state, outputs>>

InputsSet ==
  /\ state = "inputs"
  /\ index > Len(inputs)
  /\ state' = "nodes"
  /\ index' = 1
  /\ UNCHANGED <<circuit, inputs, wire_values, outputs>>

EvalNode ==
  /\ state = "nodes"
  /\ index <= Len(circuit.nodes)
  /\ wire_values' = [wire_values EXCEPT ![circuit.nodes[index].out] =
                        NodeValue(circuit.nodes[index], wire_values)]
  /\ index' = index + 1
  /\ UNCHANGED <<circuit, inputs, state, outputs>>

ReadOutputs_LastWires ==
  /\ state = "nodes"
  /\ index > Len(circuit.nodes)
  /\ outputs' = [k \in DOMAIN circuit.outputs |->
                    wire_values[circuit.max_wire_number - Len(circuit.outputs) + k]]
  /\ state' = "done"
  /\ UNCHANGED <<circuit, inputs, index, wire_values>>

ReadOutputs ==
  /\ state = "nodes"
  /\ index > Len(circuit.nodes)
  /\ outputs' = [k \in DOMAIN circuit.outputs |-> wire_values[circuit.outputs[k]]]
  /\ state' = "done"
  /\ UNCHANGED <<circuit, inputs, index, wire_values>>

Next == CheckInputs \/ SetInput \/ InputsSet \/ EvalNode \/ ReadOutputs

Spec == Init /\ [][Next]_vars

-----------------------------------------------------------------------------
(***************************************************************************)
(* Properties.                                                             *)
(***************************************************************************)

(* Every wire holds one bit; the evaluator stays within its loops.         *)
TypeOK ==
  /\ IsCircuit(circuit)
  /\ inputs \in Seq(BOOLEAN)
  /\ state \in {"check", "InvalidNumberOfInputs", "inputs", "nodes", "done"}
  /\ index \in Nat \ {0}
  /\ wire_values \in [Wires(circuit) -> BOOLEAN]
  /\ outputs \in Seq(BOOLEAN)

(* A circuit evaluation can make sense of.                                 *)
WellShaped(c) ==
  /\ IsInjective(c.inputs)
  /\ SingleDriver(c.nodes, c.inputs)
  /\ Topological(c.nodes, c.inputs)

(* `values' is a solution of the circuit for the bits supplied.            *)
Solution(values) ==
  /\ \A k \in DOMAIN circuit.inputs : values[circuit.inputs[k]] = inputs[k]
  /\ Solves(values, circuit.nodes)

(* One pass in list order is enough: a gate that has been evaluated stays  *)
(* consistent with its inputs while the later ones are, and the input bits *)
(* survive.                                                                *)
PrefixConsistent ==
  WellShaped(circuit) /\ state = "nodes" =>
    /\ \A j \in 1 .. index - 1 :
         wire_values[circuit.nodes[j].out] = NodeValue(circuit.nodes[j], wire_values)
    /\ \A k \in DOMAIN circuit.inputs : wire_values[circuit.inputs[k]] = inputs[k]

(* evaluateCircuit returns the solution of the gate equations: its wires   *)
(* form one, and every other has the same bits on the outputs that an      *)
(* input or a gate drives.                                                 *)
ComputesTheSolution ==
  WellShaped(circuit) /\ state = "done" =>
    /\ Solution(wire_values)
    /\ \A values \in [Wires(circuit) -> BOOLEAN] :
         Solution(values) /\ OutputsDriven(circuit.nodes, circuit.inputs, circuit.outputs)
           => outputs = [k \in DOMAIN circuit.outputs |-> values[circuit.outputs[k]]]
=============================================================================
