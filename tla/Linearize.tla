------------------------------ MODULE Linearize ------------------------------
(***************************************************************************)
(* The pass of src/src/Linearize.zig, which renumbers the wires of a       *)
(* circuit for the Bristol format: inputs first, outputs last, no constant *)
(* gate, every other wire numbered in order of first use.                  *)
(*                                                                         *)
(* A step is one iteration of one of the four loops of `run', except that  *)
(* an iteration over a gate is cut at each wire number it allocates.  A    *)
(* failing assertion or out-of-bounds access the pass can really reach is  *)
(* the phase "panic"; the assertions it must never fail are invariants     *)
(* (FreshWireAvailable, OutputMappedOnce).                                 *)
(***************************************************************************)
EXTENDS Circuit

CONSTANT Circuits    \* the circuits the pass may be given

ASSUME CircuitsAssumption == \A c \in Circuits : IsCircuit(c)

VARIABLES
  circuit,                  \* the circuit to linearize; never changes
  phase,                    \* the loop of `run' in progress
  i,                        \* index of its current iteration, from 1
  permutation,              \* new number of each old wire mapped so far
  next_free_wire_number,
  tmp_wire,                 \* the extra wire of the constant in progress
  circuit_nodes, circuit_inputs, circuit_outputs,
  circuit_max_wire_number

vars == <<circuit, phase, i, permutation, next_free_wire_number, tmp_wire,
          circuit_nodes, circuit_inputs, circuit_outputs,
          circuit_max_wire_number>>

Phase == {"run", "inputs", "outputs_begin", "gates", "constant",
          "outputs_end", "done", "panic"}

-----------------------------------------------------------------------------
(* The position k of the outputs names an input wire.                      *)
FromInput(c, k) == \E j \in DOMAIN c.inputs : c.inputs[j] = c.outputs[k]

Repeated_SkipsPrevious(c, k) == \E j \in 1 .. k - 2 : c.outputs[j] = c.outputs[k]

(* The position k of the outputs names a wire already named before.        *)
Repeated(c, k) == \E j \in 1 .. k - 1 : c.outputs[j] = c.outputs[k]

ConstantGates(c) == {j \in DOMAIN c.nodes : c.nodes[j].tag \in Constant}

ForwardedInputs_ByPosition(c) ==
  {k \in DOMAIN c.outputs : FromInput(c, k)}

ForwardedInputs(c) ==
  {j \in DOMAIN c.inputs : \E k \in DOMAIN c.outputs : c.outputs[k] = c.inputs[j]}

RepeatedOutputs(c) == {k \in DOMAIN c.outputs : Repeated(c, k)}

MaxWireNumber_OnePerCopy(c) ==
  c.max_wire_number + Cardinality(ConstantGates(c))
    + 2 * Cardinality(ForwardedInputs(c)) + Cardinality(RepeatedOutputs(c))

(* The accounting of `run': one extra wire per constant gate, and for each *)
(* copy one extra wire and one extra output slot.                          *)
MaxWireNumber(c) ==
  c.max_wire_number + Cardinality(ConstantGates(c))
    + 2 * Cardinality(ForwardedInputs(c)) + 2 * Cardinality(RepeatedOutputs(c))

OutputSlot(k) == circuit_max_wire_number - Len(circuit.outputs) + k

(* addMapping *)
WithMapping(old, new) ==
  [w \in DOMAIN permutation \cup {old} |-> IF w = old THEN new ELSE permutation[w]]

(* The wires of a gate in the order getMapping is asked for them.          *)
Pins(node) == Append(node.ins, node.out)

Unmapped_Always(node, p) == Pins(node)[p] \in Wires(circuit)

Unmapped(node, p) == Pins(node)[p] \notin DOMAIN permutation

AllMapped(node) == \A p \in DOMAIN Pins(node) : ~Unmapped(node, p)

Renumbered(node) ==
  [tag |-> node.tag,
   ins |-> [p \in DOMAIN node.ins |-> permutation[node.ins[p]]],
   out |-> permutation[node.out],
   table |-> node.table]

CopyNodes(input_wire, tmp, output_wire) ==
  << Gate("inv", <<input_wire>>, tmp), Gate("inv", <<tmp>>, output_wire) >>

ConstantNodes_TagsSwapped(tag, input_wire, tmp, output_wire) ==
  << Gate("inv", <<input_wire>>, tmp),
     Gate(IF tag = "zero" THEN "xor" ELSE "and", <<input_wire, tmp>>, output_wire) >>

(* 0 = x AND (NOT x), 1 = x XOR (NOT x) *)
ConstantNodes(tag, input_wire, tmp, output_wire) ==
  << Gate("inv", <<input_wire>>, tmp),
     Gate(IF tag = "zero" THEN "and" ELSE "xor", <<input_wire, tmp>>, output_wire) >>

-----------------------------------------------------------------------------
Init ==
  /\ circuit \in Circuits
  /\ phase = "run"
  /\ i = 1
  /\ permutation = << >>
  /\ next_free_wire_number = 0
  /\ tmp_wire = 0
  /\ circuit_nodes = << >>
  /\ circuit_inputs = << >>
  /\ circuit_outputs = << >>
  /\ circuit_max_wire_number = 0

SetUp ==
  /\ phase = "run"
  /\ circuit_max_wire_number' = MaxWireNumber(circuit)
  /\ phase' = "inputs"
  /\ UNCHANGED <<circuit, i, permutation, next_free_wire_number, tmp_wire,
                 circuit_nodes, circuit_inputs, circuit_outputs>>

ProcessInput ==
  /\ phase = "inputs"
  /\ i <= Len(circuit.inputs)
  /\ circuit.inputs[i] \notin DOMAIN permutation
  /\ circuit_inputs' = Append(circuit_inputs, i - 1)
  /\ permutation' = WithMapping(circuit.inputs[i], i - 1)
  /\ i' = i + 1
  /\ UNCHANGED <<circuit, phase, next_free_wire_number, tmp_wire,
                 circuit_nodes, circuit_outputs, circuit_max_wire_number>>

Panic ==
  /\ phase' = "panic"
  /\ UNCHANGED <<circuit, i, permutation, next_free_wire_number, tmp_wire,
                 circuit_nodes, circuit_inputs, circuit_outputs,
                 circuit_max_wire_number>>

(* The assertion of addMapping, reached by a wire listed twice as input.   *)
DuplicateInput ==
  /\ phase = "inputs"
  /\ i <= Len(circuit.inputs)
  /\ circuit.inputs[i] \in DOMAIN permutation
  /\ Panic

(* circuit_max_wire_number - num_outputs is computed in u64.               *)
SlotUnderflow ==
  /\ phase = "outputs_begin"
  /\ i <= Len(circuit.outputs)
  /\ circuit_max_wire_number < Len(circuit.outputs)
  /\ Panic

ProcessOutputBegin ==
  /\ phase = "outputs_begin"
  /\ i <= Len(circuit.outputs)
  /\ circuit_max_wire_number >= Len(circuit.outputs)
  /\ permutation' = IF FromInput(circuit, i) \/ Repeated(circuit, i)
                    THEN permutation
                    ELSE WithMapping(circuit.outputs[i], OutputSlot(i))
  /\ i' = i + 1
  /\ UNCHANGED <<circuit, phase, next_free_wire_number, tmp_wire,
                 circuit_nodes, circuit_inputs, circuit_outputs,
                 circuit_max_wire_number>>

-----------------------------------------------------------------------------
(* getMapping of the first wire of the gate that has no number yet.        *)
AllocatePin ==
  /\ i <= Len(circuit.nodes)
  /\ \/ phase = "gates" /\ circuit.nodes[i].tag \notin Constant
     \/ phase = "constant"
  /\ \E p \in DOMAIN Pins(circuit.nodes[i]) :
        /\ Unmapped(circuit.nodes[i], p)
        /\ \A q \in 1 .. p - 1 : ~Unmapped(circuit.nodes[i], q)
        /\ permutation' = WithMapping(Pins(circuit.nodes[i])[p], next_free_wire_number)
  /\ next_free_wire_number' = next_free_wire_number + 1
  /\ UNCHANGED <<circuit, phase, i, tmp_wire, circuit_nodes, circuit_inputs,
                 circuit_outputs, circuit_max_wire_number>>

EmitGate ==
  /\ phase = "gates"
  /\ i <= Len(circuit.nodes)
  /\ circuit.nodes[i].tag \notin Constant
  /\ AllMapped(circuit.nodes[i])
  /\ circuit_nodes' = Append(circuit_nodes, Renumbered(circuit.nodes[i]))
  /\ i' = i + 1
  /\ UNCHANGED <<circuit, phase, permutation, next_free_wire_number, tmp_wire,
                 circuit_inputs, circuit_outputs, circuit_max_wire_number>>

(* The extra wire of a constant is taken before its output is mapped.      *)
BeginConstant ==
  /\ phase = "gates"
  /\ i <= Len(circuit.nodes)
  /\ circuit.nodes[i].tag \in Constant
  /\ tmp_wire' = next_free_wire_number
  /\ next_free_wire_number' = next_free_wire_number + 1
  /\ phase' = "constant"
  /\ UNCHANGED <<circuit, i, permutation, circuit_nodes, circuit_inputs,
                 circuit_outputs, circuit_max_wire_number>>

EmitConstant ==
  /\ phase = "constant"
  /\ AllMapped(circuit.nodes[i])
  /\ circuit.inputs # << >>
  /\ circuit_nodes' = circuit_nodes \o
        ConstantNodes(circuit.nodes[i].tag, permutation[circuit.inputs[1]],
                      tmp_wire, permutation[circuit.nodes[i].out])
  /\ phase' = "gates"
  /\ i' = i + 1
  /\ UNCHANGED <<circuit, permutation, next_free_wire_number, tmp_wire,
                 circuit_inputs, circuit_outputs, circuit_max_wire_number>>

(* inputs[0] is read although the circuit has no input.                    *)
ConstantWithoutInput ==
  /\ phase = "constant"
  /\ AllMapped(circuit.nodes[i])
  /\ circuit.inputs = << >>
  /\ Panic

-----------------------------------------------------------------------------
(* The wire copied is an input or an earlier output: it has a number.      *)
CopyOutput ==
  /\ phase = "outputs_end"
  /\ i <= Len(circuit.outputs)
  /\ FromInput(circuit, i) \/ Repeated(circuit, i)
  /\ circuit_nodes' = circuit_nodes \o
        CopyNodes(permutation[circuit.outputs[i]], next_free_wire_number, OutputSlot(i))
  /\ next_free_wire_number' = next_free_wire_number + 1
  /\ circuit_outputs' = Append(circuit_outputs, OutputSlot(i))
  /\ i' = i + 1
  /\ UNCHANGED <<circuit, phase, permutation, tmp_wire, circuit_inputs,
                 circuit_max_wire_number>>

KeepOutput ==
  /\ phase = "outputs_end"
  /\ i <= Len(circuit.outputs)
  /\ ~FromInput(circuit, i) /\ ~Repeated(circuit, i)
  /\ circuit_outputs' = Append(circuit_outputs, OutputSlot(i))
  /\ i' = i + 1
  /\ UNCHANGED <<circuit, phase, permutation, next_free_wire_number, tmp_wire,
                 circuit_nodes, circuit_inputs, circuit_max_wire_number>>

(* The end of each loop; processInputs then sets the first free number.    *)
EndLoop(from, length, to) ==
  /\ phase = from
  /\ i > length
  /\ phase' = to
  /\ i' = 1
  /\ next_free_wire_number' = IF from = "inputs" THEN Len(circuit.inputs)
                              ELSE next_free_wire_number
  /\ UNCHANGED <<circuit, permutation, tmp_wire, circuit_nodes,
                 circuit_inputs, circuit_outputs, circuit_max_wire_number>>

EndInputs == EndLoop("inputs", Len(circuit.inputs), "outputs_begin")

EndOutputsBegin == EndLoop("outputs_begin", Len(circuit.outputs), "gates")

EndGates == EndLoop("gates", Len(circuit.nodes), "outputs_end")

Return == EndLoop("outputs_end", Len(circuit.outputs), "done")

Next ==
  \/ SetUp
  \/ ProcessInput \/ DuplicateInput \/ EndInputs
  \/ ProcessOutputBegin \/ SlotUnderflow \/ EndOutputsBegin
  \/ AllocatePin \/ EmitGate
  \/ BeginConstant \/ EmitConstant \/ ConstantWithoutInput \/ EndGates
  \/ CopyOutput \/ KeepOutput \/ Return

Spec == Init /\ [][Next]_vars

-----------------------------------------------------------------------------
(***************************************************************************)
(* Properties.                                                             *)
(***************************************************************************)

(* Every variable stays in its type; only wires of the source are mapped.  *)
TypeOK ==
  /\ IsCircuit(circuit)
  /\ phase \in Phase
  /\ i \in Nat \ {0}
  /\ DOMAIN permutation \subseteq Wires(circuit)
  /\ permutation \in [DOMAIN permutation -> Nat]
  /\ next_free_wire_number \in Nat
  /\ tmp_wire \in Nat
  /\ circuit_nodes \in Seq(Node)
  /\ circuit_inputs \in Seq(Nat)
  /\ circuit_outputs \in Seq(Int)
  /\ circuit_max_wire_number \in Nat

(* The next step calls getFreshWireNumber.                                 *)
AwaitsWire ==
  \/ /\ phase = "gates"
     /\ i <= Len(circuit.nodes)
     /\ circuit.nodes[i].tag \in Constant \/ ~AllMapped(circuit.nodes[i])
  \/ /\ phase = "constant"
     /\ ~AllMapped(circuit.nodes[i])
  \/ /\ phase = "outputs_end"
     /\ i <= Len(circuit.outputs)
     /\ FromInput(circuit, i) \/ Repeated(circuit, i)

(* The assertion of getFreshWireNumber (Linearize.zig:123) never fails: a  *)
(* fresh number is always below the slots reserved for the outputs.        *)
FreshWireAvailable ==
  AwaitsWire => next_free_wire_number <= circuit_max_wire_number - Len(circuit.outputs)

(* The assertion of addMapping (Linearize.zig:116) never fails when a slot *)
(* is given to an output: the wire has no number yet.                      *)
OutputMappedOnce ==
  /\ phase = "outputs_begin"
  /\ i <= Len(circuit.outputs)
  /\ ~FromInput(circuit, i) /\ ~Repeated(circuit, i)
  => circuit.outputs[i] \notin DOMAIN permutation

(* The wires set aside by the accounting of `run' are exactly used up: the *)
(* numbers left over are those of source wires that nothing mentions.      *)
AccountingExact ==
  phase = "done" =>
    circuit_max_wire_number + 1 =
      next_free_wire_number + Len(circuit.outputs)
        + Cardinality(Wires(circuit) \ DOMAIN permutation)

(* The values the source wires take when the new wires carry nv.           *)
PulledBack(nv) ==
  [w \in Wires(circuit) |->
     IF w \in DOMAIN permutation THEN nv[permutation[w]] ELSE FALSE]

(* The new circuit computes what the source computes: any values that      *)
(* satisfy the new gates satisfy, read through the permutation, the source *)
(* gates, and the two circuits then agree on every input and output.       *)
SemanticsPreserved ==
  phase = "done" =>
    \A nv \in [0 .. circuit_max_wire_number -> BOOLEAN] :
      Solves(nv, circuit_nodes) =>
        /\ Solves(PulledBack(nv), circuit.nodes)
        /\ \A k \in DOMAIN circuit.inputs :
              nv[circuit_inputs[k]] = PulledBack(nv)[circuit.inputs[k]]
        /\ \A k \in DOMAIN circuit.outputs :
              nv[circuit_outputs[k]] = PulledBack(nv)[circuit.outputs[k]]

(* A wire keeps its new number: gates emitted earlier refer to it.         *)
MappingStable ==
  [][\A w \in DOMAIN permutation :
       w \in DOMAIN permutation' /\ permutation'[w] = permutation[w]]_vars
=============================================================================
