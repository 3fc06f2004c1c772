--------------------------- MODULE LinearizeProofs ---------------------------
(***************************************************************************)
(* Proofs about the renumbering pass, for every set of circuits.           *)
(***************************************************************************)
EXTENDS Linearize, CircuitLemmas, FiniteSetTheorems

(* Giving a wire of the source a number keeps permutation a partial        *)
(* function from the wires of the source to wire numbers.                  *)
LEMMA WithMappingType ==
  ASSUME TypeOK, NEW old \in Wires(circuit), NEW new \in Nat
  PROVE  /\ DOMAIN WithMapping(old, new) = DOMAIN permutation \cup {old}
         /\ DOMAIN WithMapping(old, new) \subseteq Wires(circuit)
         /\ WithMapping(old, new) \in [DOMAIN WithMapping(old, new) -> Nat]
         /\ WithMapping(old, new)[old] = new
         /\ \A w \in DOMAIN permutation :
               w # old => WithMapping(old, new)[w] = permutation[w]
<1>1. DOMAIN WithMapping(old, new) = DOMAIN permutation \cup {old}
  BY DEF WithMapping
<1>2. /\ WithMapping(old, new)[old] = new
      /\ \A w \in DOMAIN permutation :
            w # old => WithMapping(old, new)[w] = permutation[w]
  BY DEF WithMapping
<1>3. \A w \in DOMAIN permutation \cup {old} : WithMapping(old, new)[w] \in Nat
  BY <1>2 DEF TypeOK
<1>4. WithMapping(old, new)
        = [w \in DOMAIN permutation \cup {old} |-> WithMapping(old, new)[w]]
  BY <1>1 DEF WithMapping
<1>5. WithMapping(old, new) \in [DOMAIN permutation \cup {old} -> Nat]
  BY <1>3, <1>4
<1> QED
  BY <1>1, <1>2, <1>5 DEF TypeOK

(* The same for a step that numbers a wire without a number.               *)
LEMMA NewMapping ==
  ASSUME TypeOK, NEW old \in Wires(circuit), NEW new \in Nat,
         old \notin DOMAIN permutation, permutation' = WithMapping(old, new)
  PROVE  /\ DOMAIN permutation' = DOMAIN permutation \cup {old}
         /\ DOMAIN permutation' \subseteq Wires(circuit)
         /\ permutation' \in [DOMAIN permutation' -> Nat]
         /\ permutation'[old] = new
         /\ \A w \in DOMAIN permutation : permutation'[w] = permutation[w]
<1> DEFINE new_permutation == WithMapping(old, new)
<1>1. /\ DOMAIN new_permutation = DOMAIN permutation \cup {old}
      /\ DOMAIN new_permutation \subseteq Wires(circuit)
      /\ new_permutation \in [DOMAIN new_permutation -> Nat]
      /\ new_permutation[old] = new
      /\ \A w \in DOMAIN permutation :
            w # old => new_permutation[w] = permutation[w]
  BY WithMappingType
<1>2. permutation' = new_permutation
  OBVIOUS
<1> HIDE DEF new_permutation
<1> QED
  BY <1>1, <1>2, Zenon

(* The ports of the source.                                                *)
LEMMA Ports ==
  ASSUME TypeOK
  PROVE  /\ DOMAIN circuit.inputs = 1 .. Len(circuit.inputs)
         /\ DOMAIN circuit.outputs = 1 .. Len(circuit.outputs)
         /\ DOMAIN circuit.nodes = 1 .. Len(circuit.nodes)
         /\ Len(circuit.inputs) \in Nat /\ Len(circuit.outputs) \in Nat
         /\ Len(circuit.nodes) \in Nat
         /\ \A k \in 1 .. Len(circuit.inputs) : circuit.inputs[k] \in Wires(circuit)
         /\ \A k \in 1 .. Len(circuit.outputs) : circuit.outputs[k] \in Wires(circuit)
BY CircuitLists DEF TypeOK

(* The wires of the gates of the source are wires of the source.           *)
LEMMA PinsType ==
  ASSUME IsCircuit(circuit), NEW j \in DOMAIN circuit.nodes
  PROVE  /\ DOMAIN Pins(circuit.nodes[j]) = 1 .. Len(circuit.nodes[j].ins) + 1
         /\ Len(circuit.nodes[j].ins) \in Nat
         /\ DOMAIN circuit.nodes[j].ins = 1 .. Len(circuit.nodes[j].ins)
         /\ \A p \in DOMAIN circuit.nodes[j].ins :
               Pins(circuit.nodes[j])[p] = circuit.nodes[j].ins[p]
         /\ Pins(circuit.nodes[j])[Len(circuit.nodes[j].ins) + 1] = circuit.nodes[j].out
         /\ \A p \in DOMAIN Pins(circuit.nodes[j]) :
               Pins(circuit.nodes[j])[p] \in Wires(circuit)
<1>1. /\ circuit.nodes[j].ins \in Seq(Nat)
      /\ circuit.nodes[j].out \in Nat /\ circuit.nodes[j].out \in Wires(circuit)
      /\ \A p \in DOMAIN circuit.nodes[j].ins : circuit.nodes[j].ins[p] \in Wires(circuit)
  BY NodeWires DEF Node
<1>2. /\ Len(Pins(circuit.nodes[j])) = Len(circuit.nodes[j].ins) + 1
      /\ Pins(circuit.nodes[j]) \in Seq(Nat)
      /\ \A p \in 1 .. Len(circuit.nodes[j].ins) :
            Pins(circuit.nodes[j])[p] = circuit.nodes[j].ins[p]
      /\ Pins(circuit.nodes[j])[Len(circuit.nodes[j].ins) + 1] = circuit.nodes[j].out
  BY <1>1, AppendProperties DEF Pins
<1>3. /\ DOMAIN Pins(circuit.nodes[j]) = 1 .. Len(circuit.nodes[j].ins) + 1
      /\ Len(circuit.nodes[j].ins) \in Nat
      /\ DOMAIN circuit.nodes[j].ins = 1 .. Len(circuit.nodes[j].ins)
  BY <1>1, <1>2
<1>4. ASSUME NEW p \in DOMAIN Pins(circuit.nodes[j])
      PROVE  Pins(circuit.nodes[j])[p] \in Wires(circuit)
  <2>1. CASE p \in 1 .. Len(circuit.nodes[j].ins)
    BY <2>1, <1>1, <1>2, <1>3
  <2>2. CASE p = Len(circuit.nodes[j].ins) + 1
    BY <2>2, <1>1, <1>2
  <2> QED
    BY <1>3, <2>1, <2>2
<1> QED
  BY <1>1, <1>2, <1>3, <1>4

(* A gate that needs no wire number has all of them.                       *)
LEMMA MappedWires ==
  ASSUME TypeOK, NEW j \in DOMAIN circuit.nodes, AllMapped(circuit.nodes[j])
  PROVE  /\ \A p \in DOMAIN circuit.nodes[j].ins :
               circuit.nodes[j].ins[p] \in DOMAIN permutation
         /\ circuit.nodes[j].out \in DOMAIN permutation
         /\ DOMAIN circuit.nodes[j].ins = 1 .. Len(circuit.nodes[j].ins)
         /\ Len(circuit.nodes[j].ins) \in Nat
<1> DEFINE node == circuit.nodes[j]
<1>1. \A p \in DOMAIN Pins(node) : Pins(node)[p] \in DOMAIN permutation
  BY DEF AllMapped, Unmapped
<1>2. /\ DOMAIN Pins(node) = 1 .. Len(node.ins) + 1
      /\ Len(node.ins) \in Nat
      /\ DOMAIN node.ins = 1 .. Len(node.ins)
      /\ \A p \in DOMAIN node.ins : Pins(node)[p] = node.ins[p]
      /\ Pins(node)[Len(node.ins) + 1] = node.out
  BY PinsType DEF TypeOK
<1> HIDE DEF node
<1>3. /\ \A p \in DOMAIN node.ins : node.ins[p] \in DOMAIN permutation
      /\ node.out \in DOMAIN permutation
  BY <1>1, <1>2
<1> QED
  BY <1>2, <1>3 DEF node

(* Once all its wires have a number, a renumbered gate is a node.          *)
LEMMA RenumberedType ==
  ASSUME TypeOK, NEW j \in DOMAIN circuit.nodes, AllMapped(circuit.nodes[j])
  PROVE  Renumbered(circuit.nodes[j]) \in Node
<1> DEFINE node == circuit.nodes[j]
           ins == [p \in DOMAIN node.ins |-> permutation[node.ins[p]]]
<1>1. node \in Node
  BY NodeWires DEF TypeOK
<1>2. /\ \A p \in DOMAIN node.ins : node.ins[p] \in DOMAIN permutation
      /\ node.out \in DOMAIN permutation
      /\ DOMAIN node.ins = 1 .. Len(node.ins) /\ Len(node.ins) \in Nat
  BY MappedWires
<1>3. ins \in [1 .. Len(node.ins) -> Nat] /\ permutation[node.out] \in Nat
  BY <1>2, Zenon DEF TypeOK
<1>4. ins \in Seq(Nat)
  BY <1>2, <1>3, FunctionIsSeq
<1> QED
  BY <1>1, <1>3, <1>4 DEF Node, Renumbered

-----------------------------------------------------------------------------
(***************************************************************************)
(* The wires that have a number in each phase, and the range of the loop   *)
(* index.  TypeOK is not inductive without it: a copy reads the number of  *)
(* an output, a constant that of the first input, and an output slot is a  *)
(* natural number only because SlotUnderflow did not happen.               *)
(***************************************************************************)
Later == {"gates", "constant", "outputs_end", "done"}

InputsMapped(m) == \A k \in 1 .. m : circuit.inputs[k] \in DOMAIN permutation

OutputsMapped(m) ==
  \A k \in 1 .. m : /\ circuit.outputs[k] \in DOMAIN permutation
                     /\ circuit_max_wire_number >= Len(circuit.outputs)

(* Before the gates, nothing but inputs and outputs has a number.          *)
OnlyPorts(m, n) ==
  \A w \in DOMAIN permutation : \/ \E k \in 1 .. m : w = circuit.inputs[k]
                                \/ \E k \in 1 .. n : w = circuit.outputs[k]

Mapped ==
  /\ phase = "run" => i = 1 /\ OnlyPorts(0, 0)
  /\ phase = "inputs" => OnlyPorts(i - 1, 0)
  /\ phase = "outputs_begin" => OnlyPorts(Len(circuit.inputs), i - 1)
  /\ phase = "inputs" => i <= Len(circuit.inputs) + 1 /\ InputsMapped(i - 1)
  /\ phase \in Later \cup {"outputs_begin"} => InputsMapped(Len(circuit.inputs))
  /\ phase = "outputs_begin" =>
        i <= Len(circuit.outputs) + 1 /\ OutputsMapped(i - 1)
  /\ phase \in Later => OutputsMapped(Len(circuit.outputs))
  /\ phase = "gates" => i <= Len(circuit.nodes) + 1
  /\ phase = "constant" =>
        i <= Len(circuit.nodes) /\ circuit.nodes[i].tag \in Constant
  /\ phase = "outputs_end" => i <= Len(circuit.outputs) + 1

TypeInv == TypeOK /\ Mapped

(* The wire given a number by AllocatePin.                                 *)
LEMMA AllocatePinMaps ==
  ASSUME TypeOK, AllocatePin
  PROVE  \E w \in Wires(circuit) :
            /\ w \notin DOMAIN permutation
            /\ permutation' = WithMapping(w, next_free_wire_number)
<1>1. i \in DOMAIN circuit.nodes
  BY CircuitLists DEF TypeOK, AllocatePin
<1>2. PICK p \in DOMAIN Pins(circuit.nodes[i]) :
         /\ Unmapped(circuit.nodes[i], p)
         /\ permutation' = WithMapping(Pins(circuit.nodes[i])[p], next_free_wire_number)
  BY DEF AllocatePin
<1> QED
  BY <1>1, <1>2, PinsType DEF TypeOK, Unmapped

(* Every step leaves the source alone, and extends permutation or keeps    *)
(* it: a wire never loses or changes its number.                           *)
LEMMA StepExtends ==
  ASSUME TypeInv, [Next]_vars
  PROVE  /\ circuit' = circuit
         /\ DOMAIN permutation \subseteq DOMAIN permutation'
         /\ \A w \in DOMAIN permutation : permutation'[w] = permutation[w]
<1>0. TypeOK /\ Mapped /\ i \in Nat \ {0}
  BY DEF TypeInv, TypeOK
<1>1. CASE SetUp
  BY <1>1 DEF SetUp
<1>2. CASE ProcessInput
  <2>1. circuit.inputs[i] \in Wires(circuit) /\ i - 1 \in Nat
    BY <1>0, <1>2, Ports DEF ProcessInput
  <2>2. /\ circuit.inputs[i] \notin DOMAIN permutation
        /\ permutation' = WithMapping(circuit.inputs[i], i - 1)
        /\ circuit' = circuit
    BY <1>2 DEF ProcessInput
  <2>3. /\ DOMAIN permutation' = DOMAIN permutation \cup {circuit.inputs[i]}
        /\ \A w \in DOMAIN permutation : permutation'[w] = permutation[w]
    BY <1>0, <2>1, <2>2, NewMapping, Zenon
  <2> QED
    BY <2>2, <2>3
<1>3. CASE ProcessOutputBegin
  <2>1. circuit.outputs[i] \in Wires(circuit) /\ OutputSlot(i) \in Nat
    <3>1. /\ i <= Len(circuit.outputs) /\ circuit_max_wire_number \in Nat
          /\ circuit_max_wire_number >= Len(circuit.outputs)
      BY <1>0, <1>3 DEF ProcessOutputBegin, TypeOK
    <3> QED
      BY <1>0, <3>1, Ports DEF OutputSlot
  <2>2. CASE FromInput(circuit, i) \/ Repeated(circuit, i)
    BY <1>3, <2>2 DEF ProcessOutputBegin
  <2>3. CASE ~(FromInput(circuit, i) \/ Repeated(circuit, i))
    <3>1. circuit.outputs[i] \notin DOMAIN permutation
      BY <1>0, <1>3, <2>3, Ports
      DEF ProcessOutputBegin, Mapped, OnlyPorts, FromInput, Repeated
    <3>2. permutation' = WithMapping(circuit.outputs[i], OutputSlot(i))
      BY <1>3, <2>3 DEF ProcessOutputBegin
    <3> QED
      BY <1>0, <1>3, <2>1, <3>1, <3>2, NewMapping DEF ProcessOutputBegin
  <2> QED
    BY <2>2, <2>3
<1>4. CASE AllocatePin
  <2>1. PICK w \in Wires(circuit) :
           /\ w \notin DOMAIN permutation
           /\ permutation' = WithMapping(w, next_free_wire_number)
    BY <1>0, <1>4, AllocatePinMaps
  <2>2. next_free_wire_number \in Nat /\ circuit' = circuit
    BY <1>0, <1>4 DEF AllocatePin, TypeOK
  <2> QED
    BY <1>0, <2>1, <2>2, NewMapping
<1>5. CASE \/ DuplicateInput \/ SlotUnderflow \/ ConstantWithoutInput
           \/ EmitGate \/ BeginConstant \/ EmitConstant \/ CopyOutput \/ KeepOutput
  BY <1>5
  DEF DuplicateInput, SlotUnderflow, ConstantWithoutInput, Panic, EmitGate,
      BeginConstant, EmitConstant, CopyOutput, KeepOutput
<1>6. CASE EndInputs \/ EndOutputsBegin \/ EndGates \/ Return
  BY <1>6 DEF EndInputs, EndOutputsBegin, EndGates, Return, EndLoop
<1>7. CASE UNCHANGED vars
  BY <1>7 DEF vars
<1> QED
  BY <1>1, <1>2, <1>3, <1>4, <1>5, <1>6, <1>7 DEF Next

(* What is mapped stays mapped.                                            *)
LEMMA MappedStays ==
  ASSUME TypeInv, [Next]_vars, circuit_max_wire_number' = circuit_max_wire_number,
         NEW m
  PROVE  /\ InputsMapped(m) => InputsMapped(m)'
         /\ OutputsMapped(m) => OutputsMapped(m)'
  BY StepExtends DEF InputsMapped, OutputsMapped

(* The sets counted by `run' are finite.                                   *)
LEMMA Accounts ==
  ASSUME TypeOK
  PROVE  /\ IsFiniteSet(ConstantGates(circuit)) /\ Cardinality(ConstantGates(circuit)) \in Nat
         /\ IsFiniteSet(ForwardedInputs(circuit)) /\ Cardinality(ForwardedInputs(circuit)) \in Nat
         /\ IsFiniteSet(RepeatedOutputs(circuit)) /\ Cardinality(RepeatedOutputs(circuit)) \in Nat
<1>1. ASSUME NEW n \in Nat, NEW S \in SUBSET (1 .. n)
      PROVE  IsFiniteSet(S) /\ Cardinality(S) \in Nat
  <2>1. IsFiniteSet(1 .. n)
    BY FS_Interval
  <2>2. IsFiniteSet(S)
    BY <2>1, FS_Subset
  <2> QED
    BY <2>2, FS_CardinalityType
<1>2. /\ ConstantGates(circuit) \in SUBSET (1 .. Len(circuit.nodes))
      /\ ForwardedInputs(circuit) \in SUBSET (1 .. Len(circuit.inputs))
      /\ RepeatedOutputs(circuit) \in SUBSET (1 .. Len(circuit.outputs))
  BY Ports DEF ConstantGates, ForwardedInputs, RepeatedOutputs
<1> QED
  BY <1>1, <1>2, Ports

-----------------------------------------------------------------------------
(* The pass keeps its variables in their types and numbers the ports       *)
(* before anything reads their number.                                     *)
THEOREM TypeInvariant == Spec => []TypeInv
<1>1. Init => TypeInv
  <2> SUFFICES ASSUME Init PROVE TypeInv
    OBVIOUS
  <2>1. IsCircuit(circuit)
    BY CircuitsAssumption DEF Init
  <2>2. DOMAIN permutation = {} /\ permutation \in [DOMAIN permutation -> Nat]
    BY DEF Init
  <2> QED
    BY <2>1, <2>2 DEF Init, TypeInv, TypeOK, Phase, Mapped, OnlyPorts, Later
<1>2. TypeInv /\ [Next]_vars => TypeInv'
  <2> SUFFICES ASSUME TypeInv, [Next]_vars
               PROVE  TypeOK' /\ Mapped'
    BY DEF TypeInv
  <2>0. TypeOK /\ Mapped /\ i \in Nat \ {0}
    BY DEF TypeInv, TypeOK
  <2>a. circuit' = circuit
    BY StepExtends
  <2>1. CASE SetUp
    <3>1. MaxWireNumber(circuit) \in Nat
      <4>1. circuit.max_wire_number \in Nat
        BY <2>0 DEF TypeOK, IsCircuit, CircuitType
      <4> QED
        BY <2>0, <4>1, Accounts DEF MaxWireNumber
    <3>2. TypeOK'
      BY <2>0, <2>1, <3>1 DEF SetUp, TypeOK, Phase
    <3>3. Mapped'
      BY <2>0, <2>1 DEF SetUp, Mapped, Later, InputsMapped, OnlyPorts
    <3> QED
      BY <3>2, <3>3
  <2>2. CASE ProcessInput
    <3>1. circuit.inputs[i] \in Wires(circuit) /\ i - 1 \in Nat
      BY <2>0, <2>2, Ports DEF ProcessInput
    <3>2. /\ circuit.inputs[i] \notin DOMAIN permutation
          /\ permutation' = WithMapping(circuit.inputs[i], i - 1)
      BY <2>2 DEF ProcessInput
    <3>3. /\ DOMAIN permutation' = DOMAIN permutation \cup {circuit.inputs[i]}
          /\ DOMAIN permutation' \subseteq Wires(circuit)
          /\ permutation' \in [DOMAIN permutation' -> Nat]
      BY <2>0, <3>1, <3>2, NewMapping, Zenon
    <3>4. TypeOK'
      <4>1. circuit_inputs' \in Seq(Nat)
        BY <2>0, <2>2, <3>1 DEF ProcessInput, TypeOK
      <4>2. /\ i' = i + 1
            /\ UNCHANGED <<circuit, phase, next_free_wire_number, tmp_wire,
                           circuit_nodes, circuit_outputs, circuit_max_wire_number>>
        BY <2>2 DEF ProcessInput
      <4> QED
        BY <2>0, <3>3, <4>1, <4>2 DEF TypeOK
    <3>5. phase = "inputs" /\ phase' = phase /\ i' = i + 1 /\ i <= Len(circuit.inputs)
      BY <2>2 DEF ProcessInput
    <3>6. InputsMapped(i - 1)' /\ OnlyPorts(i - 1, 0)'
      <4>1. InputsMapped(i - 1) /\ OnlyPorts(i - 1, 0)
        BY <2>0, <3>5 DEF Mapped
      <4>2. i' - 1 = i
        BY <2>0, <3>5
      <4>3. \A k \in 1 .. i : k = i \/ k \in 1 .. i - 1
        BY <2>0
      <4>4. \A k \in 1 .. i : circuit.inputs[k] \in DOMAIN permutation'
        BY <3>3, <4>1, <4>3 DEF InputsMapped
      <4>5. ASSUME NEW w \in DOMAIN permutation'
            PROVE  \E k \in 1 .. i : w = circuit.inputs[k]
        <5>1. CASE w = circuit.inputs[i]
          BY <2>0, <5>1
        <5>2. CASE w \in DOMAIN permutation
          BY <2>0, <4>1, <5>2 DEF OnlyPorts
        <5> QED
          BY <3>3, <5>1, <5>2
      <4> QED
        BY <2>a, <4>2, <4>4, <4>5 DEF InputsMapped, OnlyPorts
    <3>7. Mapped'
      BY <2>0, <2>a, <3>5, <3>6, Ports DEF Mapped, Later
    <3> QED
      BY <3>4, <3>7
  <2>3. CASE ProcessOutputBegin
    <3>1. /\ phase = "outputs_begin" /\ phase' = phase /\ i' = i + 1
          /\ i <= Len(circuit.outputs)
          /\ circuit_max_wire_number >= Len(circuit.outputs)
          /\ circuit_max_wire_number' = circuit_max_wire_number
      BY <2>3 DEF ProcessOutputBegin
    <3>2. circuit.outputs[i] \in Wires(circuit) /\ OutputSlot(i) \in Nat
      <4>1. circuit_max_wire_number \in Nat
        BY <2>0 DEF TypeOK
      <4> QED
        BY <2>0, <3>1, <4>1, Ports DEF OutputSlot
    <3>3. /\ DOMAIN permutation' = DOMAIN permutation \cup {circuit.outputs[i]}
          /\ DOMAIN permutation' \subseteq Wires(circuit)
          /\ permutation' \in [DOMAIN permutation' -> Nat]
      <4>1. CASE FromInput(circuit, i) \/ Repeated(circuit, i)
        <5>1. permutation' = permutation
          BY <2>3, <4>1 DEF ProcessOutputBegin
        <5>2. CASE FromInput(circuit, i)
          BY <2>0, <3>1, <5>1, <5>2, Ports
          DEF Mapped, InputsMapped, FromInput, TypeOK, Later
        <5>3. CASE Repeated(circuit, i)
          BY <2>0, <3>1, <5>1, <5>3, Ports DEF Mapped, OutputsMapped, Repeated, TypeOK
        <5> QED
          BY <4>1, <5>2, <5>3
      <4>2. CASE ~(FromInput(circuit, i) \/ Repeated(circuit, i))
        <5>1. permutation' = WithMapping(circuit.outputs[i], OutputSlot(i))
          BY <2>3, <4>2 DEF ProcessOutputBegin
        <5> QED
          BY <2>0, <3>2, <5>1, WithMappingType
      <4> QED
        BY <4>1, <4>2
    <3>4. TypeOK'
      BY <2>0, <2>3, <3>3 DEF ProcessOutputBegin, TypeOK
    <3>5. OutputsMapped(i - 1)' /\ OnlyPorts(Len(circuit.inputs), i - 1)'
      <4>1. OutputsMapped(i - 1) /\ OnlyPorts(Len(circuit.inputs), i - 1)
        BY <2>0, <3>1 DEF Mapped
      <4>2. i' - 1 = i
        BY <2>0, <3>1
      <4>3. \A k \in 1 .. i : k = i \/ k \in 1 .. i - 1
        BY <2>0
      <4>4. \A k \in 1 .. i : /\ circuit.outputs[k] \in DOMAIN permutation'
                              /\ circuit_max_wire_number >= Len(circuit.outputs)
        BY <3>1, <3>3, <4>1, <4>3 DEF OutputsMapped
      <4>5. ASSUME NEW w \in DOMAIN permutation'
            PROVE  \/ \E k \in 1 .. Len(circuit.inputs) : w = circuit.inputs[k]
                   \/ \E k \in 1 .. i : w = circuit.outputs[k]
        <5>1. CASE w = circuit.outputs[i]
          BY <2>0, <5>1
        <5>2. CASE w \in DOMAIN permutation
          BY <2>0, <4>1, <5>2 DEF OnlyPorts
        <5> QED
          BY <3>3, <5>1, <5>2
      <4> QED
        BY <2>a, <3>1, <4>2, <4>4, <4>5 DEF OutputsMapped, OnlyPorts
    <3>6. InputsMapped(Len(circuit.inputs))'
      BY <2>0, <2>a, <3>1, <3>3 DEF Mapped, InputsMapped
    <3>7. Mapped'
      BY <2>0, <2>a, <3>1, <3>5, <3>6, Ports DEF Mapped, Later
    <3> QED
      BY <3>4, <3>7
  <2>4. CASE AllocatePin
    <3>1. PICK w \in Wires(circuit) :
             /\ w \notin DOMAIN permutation
             /\ permutation' = WithMapping(w, next_free_wire_number)
      BY <2>0, <2>4, AllocatePinMaps
    <3>2. next_free_wire_number \in Nat
      BY <2>0 DEF TypeOK
    <3>3. TypeOK'
      <4>1. /\ DOMAIN permutation' \subseteq Wires(circuit)
            /\ permutation' \in [DOMAIN permutation' -> Nat]
        BY <2>0, <3>1, <3>2, NewMapping
      <4> QED
        BY <2>0, <2>4, <4>1 DEF AllocatePin, TypeOK
    <3>4. /\ InputsMapped(Len(circuit.inputs)) => InputsMapped(Len(circuit.inputs))'
          /\ OutputsMapped(Len(circuit.outputs)) => OutputsMapped(Len(circuit.outputs))'
      BY <2>4, <2>a, StepExtends DEF AllocatePin, InputsMapped, OutputsMapped
    <3>5. Mapped'
      BY <2>0, <2>4, <3>4 DEF AllocatePin, Mapped, Later
    <3> QED
      BY <3>3, <3>5
  <2>5. CASE EmitGate
    <3>1. i \in DOMAIN circuit.nodes
      BY <2>0, <2>5, Ports DEF EmitGate
    <3>2. Renumbered(circuit.nodes[i]) \in Node
      BY <2>0, <2>5, <3>1, RenumberedType DEF EmitGate
    <3>3. TypeOK'
      <4>1. circuit_nodes' \in Seq(Node)
        <5>1. /\ circuit_nodes \in Seq(Node)
              /\ circuit_nodes' = Append(circuit_nodes, Renumbered(circuit.nodes[i]))
          BY <2>0, <2>5 DEF EmitGate, TypeOK
        <5> QED
          BY <3>2, <5>1, AppendProperties
      <4>2. /\ i' = i + 1
            /\ UNCHANGED <<circuit, phase, permutation, next_free_wire_number, tmp_wire,
                           circuit_inputs, circuit_outputs, circuit_max_wire_number>>
        BY <2>5 DEF EmitGate
      <4> QED
        BY <2>0, <4>1, <4>2 DEF TypeOK
    <3>4. Mapped'
      BY <2>0, <2>5, Ports DEF EmitGate, Mapped, Later, InputsMapped, OutputsMapped
    <3> QED
      BY <3>3, <3>4
  <2>6. CASE BeginConstant
    <3>1. TypeOK'
      BY <2>0, <2>6 DEF BeginConstant, TypeOK, Phase
    <3>2. Mapped'
      BY <2>0, <2>6 DEF BeginConstant, Mapped, Later, InputsMapped, OutputsMapped
    <3> QED
      BY <3>1, <3>2
  <2>7. CASE EmitConstant
    <3>1. i \in DOMAIN circuit.nodes /\ 1 \in 1 .. Len(circuit.inputs)
      <4>1. phase = "constant" /\ circuit.inputs # << >>
        BY <2>7 DEF EmitConstant
      <4>2. i <= Len(circuit.nodes)
        BY <2>0, <4>1 DEF Mapped
      <4>3. circuit.inputs \in Seq(Nat)
        BY <2>0 DEF TypeOK, IsCircuit, CircuitType
      <4> QED
        BY <2>0, <4>1, <4>2, <4>3, Ports
    <3>2. /\ circuit.inputs[1] \in DOMAIN permutation
          /\ circuit.nodes[i].out \in DOMAIN permutation
      <4>1. circuit.inputs[1] \in DOMAIN permutation
        BY <2>0, <2>7, <3>1 DEF EmitConstant, Mapped, InputsMapped, Later
      <4> QED
        BY <2>0, <2>7, <3>1, <4>1, MappedWires DEF EmitConstant
    <3>3. permutation[circuit.inputs[1]] \in Nat /\ permutation[circuit.nodes[i].out] \in Nat
      BY <2>0, <3>2 DEF TypeOK
    <3>4. ConstantNodes(circuit.nodes[i].tag, permutation[circuit.inputs[1]],
                        tmp_wire, permutation[circuit.nodes[i].out]) \in Seq(Node)
      BY <2>0, <3>3 DEF ConstantNodes, Gate, Node, Tag, TypeOK
    <3>5. TypeOK'
      <4>1. circuit_nodes' \in Seq(Node)
        <5>1. /\ circuit_nodes \in Seq(Node)
              /\ circuit_nodes' = circuit_nodes \o
                   ConstantNodes(circuit.nodes[i].tag, permutation[circuit.inputs[1]],
                                 tmp_wire, permutation[circuit.nodes[i].out])
          BY <2>0, <2>7 DEF EmitConstant, TypeOK
        <5> QED
          BY <3>4, <5>1, ConcatProperties
      <4>2. /\ phase' = "gates" /\ i' = i + 1
            /\ UNCHANGED <<circuit, permutation, next_free_wire_number, tmp_wire,
                           circuit_inputs, circuit_outputs, circuit_max_wire_number>>
        BY <2>7 DEF EmitConstant
      <4> QED
        BY <2>0, <4>1, <4>2 DEF TypeOK, Phase
    <3>6. Mapped'
      <4>1. /\ phase = "constant" /\ phase' = "gates" /\ i' = i + 1
            /\ UNCHANGED <<circuit, permutation, circuit_max_wire_number>>
        BY <2>7 DEF EmitConstant
      <4>2. /\ InputsMapped(Len(circuit.inputs)) /\ OutputsMapped(Len(circuit.outputs))
            /\ i <= Len(circuit.nodes)
        BY <2>0, <4>1 DEF Mapped, Later
      <4>3. InputsMapped(Len(circuit.inputs))' /\ OutputsMapped(Len(circuit.outputs))'
        BY <4>1, <4>2 DEF InputsMapped, OutputsMapped
      <4>4. i' <= Len(circuit'.nodes) + 1
        BY <2>0, <4>1, <4>2, Ports
      <4> QED
        BY <4>1, <4>3, <4>4 DEF Mapped, Later
    <3> QED
      BY <3>5, <3>6
  <2>8. CASE CopyOutput
    <3>1. /\ i \in 1 .. Len(circuit.outputs)
          /\ circuit.outputs[i] \in DOMAIN permutation
          /\ circuit_max_wire_number >= Len(circuit.outputs)
      BY <2>0, <2>8, Ports DEF CopyOutput, Mapped, OutputsMapped, Later
    <3>2. OutputSlot(i) \in Nat /\ permutation[circuit.outputs[i]] \in Nat
      <4>1. circuit_max_wire_number \in Nat /\ Len(circuit.outputs) \in Nat
        BY <2>0, Ports DEF TypeOK
      <4>2. OutputSlot(i) \in Nat
        BY <3>1, <4>1 DEF OutputSlot
      <4>3. permutation[circuit.outputs[i]] \in Nat
        <5>1. permutation \in [DOMAIN permutation -> Nat]
          BY <2>0 DEF TypeOK
        <5> QED
          BY <3>1, <5>1
      <4> QED
        BY <4>2, <4>3
    <3>3. CopyNodes(permutation[circuit.outputs[i]], next_free_wire_number,
                    OutputSlot(i)) \in Seq(Node)
      BY <2>0, <3>2 DEF CopyNodes, Gate, Node, Tag, TypeOK
    <3>4. TypeOK'
      <4>1. circuit_nodes' \in Seq(Node)
        <5>1. /\ circuit_nodes \in Seq(Node)
              /\ circuit_nodes' = circuit_nodes \o
                   CopyNodes(permutation[circuit.outputs[i]], next_free_wire_number,
                             OutputSlot(i))
          BY <2>0, <2>8 DEF CopyOutput, TypeOK
        <5> QED
          BY <3>3, <5>1, ConcatProperties
      <4>2. circuit_outputs' \in Seq(Int)
        BY <2>0, <2>8, <3>2 DEF CopyOutput, TypeOK
      <4>3. /\ next_free_wire_number' = next_free_wire_number + 1
            /\ i' = i + 1
            /\ UNCHANGED <<circuit, phase, permutation, tmp_wire, circuit_inputs,
                           circuit_max_wire_number>>
        BY <2>8 DEF CopyOutput
      <4> QED
        BY <2>0, <4>1, <4>2, <4>3 DEF TypeOK
    <3>5. Mapped'
      BY <2>0, <2>8, Ports DEF CopyOutput, Mapped, Later, InputsMapped, OutputsMapped
    <3> QED
      BY <3>4, <3>5
  <2>9. CASE KeepOutput
    <3>1. OutputSlot(i) \in Int
      BY <2>0, Ports DEF OutputSlot, TypeOK
    <3>2. TypeOK'
      BY <2>0, <2>9, <3>1 DEF KeepOutput, TypeOK
    <3>3. Mapped'
      BY <2>0, <2>9, Ports DEF KeepOutput, Mapped, Later, InputsMapped, OutputsMapped
    <3> QED
      BY <3>2, <3>3
  <2>10. CASE DuplicateInput \/ SlotUnderflow \/ ConstantWithoutInput
    BY <2>0, <2>10
    DEF DuplicateInput, SlotUnderflow, ConstantWithoutInput, Panic, TypeOK, Phase,
        Mapped, Later
  <2>11. CASE EndInputs \/ EndOutputsBegin \/ EndGates \/ Return
    <3>1. TypeOK'
      BY <2>0, <2>11, Ports
      DEF EndInputs, EndOutputsBegin, EndGates, Return, EndLoop, TypeOK, Phase
    <3>2. CASE EndInputs
      BY <2>0, <3>1, <3>2, Ports
      DEF EndInputs, EndLoop, Mapped, Later, InputsMapped, OutputsMapped, OnlyPorts
    <3>3. CASE EndOutputsBegin
      BY <2>0, <3>1, <3>3, Ports
      DEF EndOutputsBegin, EndLoop, Mapped, Later, InputsMapped, OutputsMapped
    <3>4. CASE EndGates
      BY <2>0, <3>1, <3>4, Ports
      DEF EndGates, EndLoop, Mapped, Later, InputsMapped, OutputsMapped
    <3>5. CASE Return
      BY <2>0, <3>1, <3>5, Ports
      DEF Return, EndLoop, Mapped, Later, InputsMapped, OutputsMapped
    <3> QED
      BY <2>11, <3>1, <3>2, <3>3, <3>4, <3>5
  <2>12. CASE UNCHANGED vars
    BY <2>0, <2>12
    DEF vars, TypeOK, Mapped, InputsMapped, OutputsMapped, OnlyPorts
  <2> QED
    BY <2>1, <2>2, <2>3, <2>4, <2>5, <2>6, <2>7, <2>8, <2>9, <2>10, <2>11, <2>12
    DEF Next
<1> QED
  BY <1>1, <1>2, PTL DEF Spec

(* The variables of the pass stay in their types.                          *)
THEOREM TypeCorrect == Spec => []TypeOK
BY TypeInvariant, PTL DEF TypeInv

(* A wire never loses or changes its new number.                           *)
THEOREM NumbersStable == Spec => MappingStable
<1>1. TypeInv /\ [Next]_vars =>
        [\A w \in DOMAIN permutation :
           w \in DOMAIN permutation' /\ permutation'[w] = permutation[w]]_vars
  BY StepExtends
<1> QED
  BY <1>1, TypeInvariant, PTL DEF Spec, MappingStable

(* The assertion of addMapping never fails for an output.                  *)
THEOREM OutputsMappedOnce == Spec => []OutputMappedOnce
<1>1. TypeInv => OutputMappedOnce
  BY Ports DEF TypeInv, Mapped, OnlyPorts, FromInput, Repeated, OutputMappedOnce
<1> QED
  BY <1>1, TypeInvariant, PTL
=============================================================================
