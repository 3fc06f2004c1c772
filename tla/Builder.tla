------------------------------- MODULE Builder -------------------------------
(***************************************************************************)
(* src/src/Builder.zig: from the netlist Yosys writes to one flat circuit. *)
(* A cell that instantiates another module suspends the current module;    *)
(* the wires of an instance are its labels plus an offset, except that the *)
(* ports are translated to the wires of the parent they connect to.        *)
(* "panic" is the failed safety check of a debug build.                    *)
(*                                                                         *)
(* A netlist gives, for each module, the bits of its input and output      *)
(* ports and its cells; the name of a cell is its place.  A bit is a label *)
(* or one of the constants Zero, One and X ("0", "1", "x" in the JSON).    *)
(* torder lists the cells of each module in the order to visit them.       *)
(***************************************************************************)
EXTENDS Circuit

CONSTANT Netlists

Zero == -1
One == -2
X == -3

IsLabel(b) == b >= 0

(* Labels 0 and 1 are never used by Yosys: Builder.zig wires the constants *)
(* to them.                                                                *)
ConstantWire(b) == IF b = One THEN 1 ELSE 0

VARIABLES
  netlist,
  torder,                  \* module name -> names of its cells, in order
  phase,                   \* "start", "cells", "ports", "done", "fail", "panic"
  stack,                   \* modules in progress, the current one last
  sub,                     \* the instance whose ports are being connected
  bit,                     \* the output bit of it to connect next, from 1
  next_free_wire_number,
  circuit                  \* what has been built

vars == <<netlist, torder, phase, stack, sub, bit, next_free_wire_number, circuit>>

-----------------------------------------------------------------------------
Current == stack[Len(stack)]
Module(frame) == netlist.modules[frame.module]
Ordered == Current.module \in DOMAIN torder
CellsLeft == Ordered /\ Current.index <= Len(torder[Current.module])
AllBuilt == Ordered /\ Current.index > Len(torder[Current.module])
CellName == torder[Current.module][Current.index]
KnownCell == CellsLeft /\ CellName \in DOMAIN Module(Current).cells
Cell == Module(Current).cells[CellName]
IsInstance(cell) == cell.type \in DOMAIN netlist.modules

LabelsOf(bits) == {b \in Range(bits) : IsLabel(b)}

(* findMaxWireLabel *)
MaxWireLabel(m) ==
  LET labels == {0} \cup LabelsOf(m.inputs) \cup LabelsOf(m.outputs)
                  \cup UNION {LabelsOf(m.cells[k].ins) \cup LabelsOf(m.cells[k].outs)
                                : k \in DOMAIN m.cells}
  IN  CHOOSE l \in labels : \A k \in labels : k <= l

(* translateWireNumber: one look-up, of the number with the offset.        *)
TranslateWireNumber(frame, label) ==
  LET adjusted == label + frame.offset
  IN  IF adjusted \in DOMAIN frame.translations
      THEN frame.translations[adjusted] ELSE adjusted

(* translateConnectionBit: "x" becomes the constant 0.                     *)
TranslateBit(frame, b) ==
  IF IsLabel(b) THEN TranslateWireNumber(frame, b) ELSE ConstantWire(b)

Put(translations, from, to) ==
  [w \in DOMAIN translations \cup {from} |-> IF w = from THEN to ELSE translations[w]]

WithTranslation(from, to) ==
  [stack EXCEPT ![Len(stack)].translations = Put(@, from, to)]

Reversed_AsWritten(table) == table

(* Yosys writes a LUT table with the entry of the largest index first.     *)
Reversed(table) == [k \in DOMAIN table |-> table[Len(table) + 1 - k]]

Built(frame, cell) ==
  [tag |-> cell.type,
   ins |-> [p \in DOMAIN cell.ins |-> TranslateBit(frame, cell.ins[p])],
   out |-> TranslateWireNumber(frame, cell.outs[1]),
   table |-> Reversed(cell.table)]

-----------------------------------------------------------------------------
(* torder is whatever has been read.                                       *)
Init ==
  /\ netlist \in Netlists
  /\ phase = "start"
  /\ stack = << >>
  /\ sub = [module |-> netlist.top, offset |-> 0, translations |-> << >>, index |-> 1]
  /\ bit = 1
  /\ next_free_wire_number = 0
  /\ circuit = [nodes |-> << >>, inputs |-> << >>, outputs |-> << >>,
                max_wire_number |-> 0]

Stop(how) ==
  /\ phase' = how
  /\ UNCHANGED <<netlist, torder, stack, sub, bit, next_free_wire_number, circuit>>

(* buildInputs: the bits of the input ports, in the order of the ports.    *)
TopInputs == netlist.modules[netlist.top].inputs

(* The inputs, the two constant gates, and the top module on the stack.    *)
BuildTopModule ==
  /\ phase = "start"
  /\ circuit' = [circuit EXCEPT !.inputs = TopInputs,
                   !.nodes = <<Gate("zero", << >>, 0), Gate("one", << >>, 1)>>]
  /\ stack' = <<sub>>
  /\ next_free_wire_number' = MaxWireLabel(netlist.modules[netlist.top]) + 1
  /\ phase' = "cells"
  /\ UNCHANGED <<netlist, torder, sub, bit>>

(* buildOneInput, buildTwoInput, buildThreeInput, buildFourInput, buildLut *)
BuildGate ==
  /\ phase = "cells"
  /\ KnownCell
  /\ Cell.type \in Tag \ Constant
  /\ \A p \in DOMAIN Cell.ins :
       IsLabel(Cell.ins[p]) \/ (Cell.type = "lut" /\ Cell.ins[p] # X)
  /\ circuit' = [circuit EXCEPT !.nodes = Append(@, Built(Current, Cell))]
  /\ stack' = [stack EXCEPT ![Len(stack)].index = @ + 1]
  /\ UNCHANGED <<netlist, torder, phase, sub, bit, next_free_wire_number>>

(* Only a LUT may read a constant, and not "x".                            *)
BadGateInput ==
  /\ phase = "cells"
  /\ KnownCell
  /\ Cell.type \in Tag \ Constant
  /\ \E p \in DOMAIN Cell.ins : ~IsLabel(Cell.ins[p])
  /\ \/ Cell.type # "lut" /\ Stop("panic")
     \/ Cell.type = "lut" /\ X \in Range(Cell.ins) /\ Stop("fail")

(* The order file lists nothing for a module, or a cell of no such name.   *)
NoOrder == phase = "cells" /\ ~Ordered /\ Stop("fail")

UnknownCell == phase = "cells" /\ CellsLeft /\ ~KnownCell /\ Stop("panic")

UnsupportedCell ==
  /\ phase = "cells"
  /\ KnownCell
  /\ Cell.type \notin Tag \ Constant
  /\ ~IsInstance(Cell)
  /\ Stop("fail")

Offset_AfterParent == Current.offset + MaxWireLabel(Module(Current)) + 1

Offset == next_free_wire_number

(* A fresh range of wires, and the inputs of the instance translated.      *)
EnterModule ==
  LET ports == netlist.modules[Cell.type].inputs
      offset == Offset
  IN  /\ phase = "cells"
      /\ KnownCell
      /\ IsInstance(Cell)
      /\ sub' = [module |-> Cell.type, offset |-> offset, index |-> 1,
                 translations |->
                   [w \in {ports[j] + offset : j \in DOMAIN Cell.ins} |->
                      LET j == CHOOSE j \in DOMAIN Cell.ins : ports[j] + offset = w
                      IN  TranslateBit(Current, Cell.ins[j])]]
      /\ bit' = 1
      /\ phase' = "ports"
      /\ UNCHANGED <<netlist, torder, stack, next_free_wire_number, circuit>>

Port == Module(sub).outputs[bit]
PortWire == Port + sub.offset
Connection == TranslateBit(Current, Cell.outs[bit])

(* An output bit that is a constant, an input forwarded verbatim or a wire *)
(* already seen redirects the parent's wire; otherwise the instance drives *)
(* the parent's wire.                                                      *)
ConnectOutput ==
  /\ phase = "ports"
  /\ bit <= Len(Cell.outs)
  /\ IF ~IsLabel(Port)
     THEN stack' = WithTranslation(Connection, ConstantWire(Port)) /\ UNCHANGED sub
     ELSE IF PortWire \in DOMAIN sub.translations
     THEN stack' = WithTranslation(Connection, sub.translations[PortWire]) /\ UNCHANGED sub
     ELSE /\ sub' = [sub EXCEPT !.translations = Put(@, PortWire, Connection)]
          /\ UNCHANGED stack
  /\ bit' = bit + 1
  /\ UNCHANGED <<netlist, torder, phase, next_free_wire_number, circuit>>

(* The current module is saved and the instance started.                   *)
PushModule ==
  /\ phase = "ports"
  /\ bit > Len(Cell.outs)
  /\ stack' = Append([stack EXCEPT ![Len(stack)].index = @ + 1], sub)
  /\ next_free_wire_number' = next_free_wire_number + MaxWireLabel(Module(sub)) + 1
  /\ phase' = "cells"
  /\ UNCHANGED <<netlist, torder, sub, bit, circuit>>

LeaveModule ==
  /\ phase = "cells"
  /\ AllBuilt
  /\ Len(stack) > 1
  /\ stack' = SubSeq(stack, 1, Len(stack) - 1)
  /\ UNCHANGED <<netlist, torder, phase, sub, bit, next_free_wire_number, circuit>>

BuildOutputs ==
  /\ phase = "cells"
  /\ AllBuilt
  /\ Len(stack) = 1
  /\ X \notin Range(Module(Current).outputs)
  /\ circuit' = [circuit EXCEPT
        !.outputs = [k \in DOMAIN Module(Current).outputs |->
                       TranslateBit(Current, Module(Current).outputs[k])],
        !.max_wire_number = next_free_wire_number - 1]
  /\ phase' = "done"
  /\ UNCHANGED <<netlist, torder, stack, sub, bit, next_free_wire_number>>

UndefinedOutput ==
  /\ phase = "cells"
  /\ AllBuilt
  /\ Len(stack) = 1
  /\ X \in Range(Module(Current).outputs)
  /\ Stop("fail")

Next ==
  \/ BuildTopModule \/ BuildGate \/ BadGateInput \/ UnsupportedCell
  \/ NoOrder \/ UnknownCell
  \/ EnterModule \/ ConnectOutput \/ PushModule \/ LeaveModule
  \/ BuildOutputs \/ UndefinedOutput

-----------------------------------------------------------------------------
(***************************************************************************)
(* Netlists that make sense: within each module every label has one driver *)
(* and is read after it, as Yosys and its torder pass promise.             *)
(***************************************************************************)
DrivenBefore(m, k) ==
  Range(m.inputs) \cup UNION {Range(m.cells[j].outs) : j \in 1 .. k - 1}

SoundModule(m) ==
  /\ IsInjective(m.inputs)
  /\ \A k \in DOMAIN m.cells :
       /\ LabelsOf(m.cells[k].ins) \subseteq DrivenBefore(m, k)
       /\ IsInjective(m.cells[k].outs)
       /\ Range(m.cells[k].outs) \cap DrivenBefore(m, k) = {}
  /\ LabelsOf(m.outputs) \subseteq DrivenBefore(m, Len(m.cells) + 1)

SoundNetlist(n) == \A name \in DOMAIN n.modules : SoundModule(n.modules[name])

(* Output k of module m is not driven by the module itself: a constant, an *)
(* input or a repetition.                                                  *)
Redirected(m, k) ==
  \/ ~IsLabel(m.outputs[k])
  \/ m.outputs[k] \in Range(m.inputs)
  \/ \E j \in 1 .. k - 1 : m.outputs[j] = m.outputs[k]

(* Some module below the top hands a redirected output of an instance on   *)
(* as an output of its own.                                                *)
PassesOn(n) ==
  \E name \in DOMAIN n.modules \ {n.top} :
    LET m == n.modules[name]
    IN  \E c \in {m.cells[k] : k \in DOMAIN m.cells} :
          /\ c.type \in DOMAIN n.modules
          /\ \E k \in DOMAIN c.outs :
               /\ c.outs[k] \in Range(m.outputs)
               /\ Redirected(n.modules[c.type], k)

-----------------------------------------------------------------------------
(***************************************************************************)
(* Properties.                                                             *)
(***************************************************************************)

(* The wires of two instances never collide, nor with the constants or the *)
(* ports: what has been built never drives a wire twice.                   *)
InstancesDisjoint ==
  SoundNetlist(netlist) => SingleDriver(circuit.nodes, circuit.inputs)
=============================================================================
