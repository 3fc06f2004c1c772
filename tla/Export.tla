------------------------------- MODULE Export --------------------------------
(***************************************************************************)
(* The commands around a circuit, as src/src/main.zig and                  *)
(* src/src/convert.zig have them: an export to Bristol is Linearize, then  *)
(* EmitBristol, and a later command reads the file back; an export to      *)
(* Verilog prints the circuit as it is; a Bristol file written by hand is  *)
(* read.                                                                   *)
(***************************************************************************)
EXTENDS Linearize

CONSTANT Files     \* Bristol files written by hand

VARIABLES
  command,     \* "bristol", "verilog" or "read"
  exported,    \* circuit2: what Linearize returned
  writer, index, text, file, reader, line, num_wires, parsed

file_vars == <<exported, writer, index, text, file, reader, line, num_wires, parsed>>

Bristol == INSTANCE BristolFile WITH circuit <- exported
Verilog == INSTANCE EmitVerilog WITH phase <- writer

AllVars == <<vars, command, file_vars>>

-----------------------------------------------------------------------------
(* A command that reads has no circuit to export: an empty one stands for  *)
(* it.                                                                     *)
NoCircuit(c) == c.nodes = << >> /\ c.inputs = << >> /\ c.outputs = << >>

ExportInit ==
  /\ Init
  /\ exported = Bristol!Empty
  /\ \/ command = "bristol" /\ Bristol!Init /\ writer = "waiting" /\ file = << >>
     \/ /\ command = "read" /\ Bristol!Init /\ writer = "none"
        /\ NoCircuit(circuit)
        /\ file \in Files
     \/ /\ command = "verilog" /\ Verilog!Init /\ file = << >>
        /\ reader = "closed" /\ line = 1 /\ num_wires = 0 /\ parsed = Bristol!Empty

Returned_OldMaximum ==
  [nodes |-> circuit_nodes, inputs |-> circuit_inputs,
   outputs |-> circuit_outputs, max_wire_number |-> circuit.max_wire_number]

(* The circuit that `run' of Linearize.zig returns.                        *)
Returned ==
  [nodes |-> circuit_nodes, inputs |-> circuit_inputs,
   outputs |-> circuit_outputs, max_wire_number |-> circuit_max_wire_number]

LinearizeStep ==
  /\ command = "bristol"
  /\ Next
  /\ UNCHANGED <<command, file_vars>>

WriteCircuit ==
  /\ phase = "done"
  /\ writer = "waiting"
  /\ exported' = Returned
  /\ writer' = "start"
  /\ UNCHANGED <<vars, command, index, text, file, reader, line, num_wires, parsed>>

BristolStep ==
  /\ command \in {"bristol", "read"}
  /\ Bristol!Next
  /\ UNCHANGED <<vars, command>>

VerilogStep ==
  /\ command = "verilog"
  /\ Verilog!Next
  /\ UNCHANGED <<vars, command, exported, file, reader, line, num_wires, parsed>>

ExportNext == LinearizeStep \/ WriteCircuit \/ BristolStep \/ VerilogStep

ExportSpec == ExportInit /\ [][ExportNext]_AllVars

-----------------------------------------------------------------------------
(***************************************************************************)
(* Properties.                                                             *)
(***************************************************************************)

WellFormed(c) ==
  /\ SingleDriver(c.nodes, c.inputs)
  /\ Topological(c.nodes, c.inputs)
  /\ OutputsDriven(c.nodes, c.inputs, c.outputs)

(* The circuit Linearize hands to EmitBristol computes what the source     *)
(* computes, LUTs, which no later step accepts, included.                  *)
LinearizedFaithful == writer = "waiting" => SemanticsPreserved

(* Whoever reads the file of a completed export gets a circuit that can be *)
(* evaluated in list order within its own arrays and computes, input by    *)
(* input and output by output, what the source computes.  The only gates   *)
(* that stop an export are LUTs: constants are gone when EmitBristol meets *)
(* the circuit.  Linearize panics only if there is no input or one comes   *)
(* twice.                                                                  *)
ExportFaithful ==
  command = "bristol" /\ WellFormed(circuit) /\ circuit.outputs # << >> =>
    /\ circuit.inputs # << >> /\ IsInjective(circuit.inputs) => phase # "panic"
    /\ writer = "nodes" /\ index <= Len(exported.nodes)
         => exported.nodes[index].tag \in DOMAIN Bristol!Postfix \cup {"lut"}
    /\ writer = "done" =>
         /\ reader \notin {"error", "panic"}
         /\ reader = "done" =>
              /\ IsCircuit(parsed)
              /\ WellFormed(parsed)
              /\ Len(parsed.inputs) = Len(circuit.inputs)
              /\ Len(parsed.outputs) = Len(circuit.outputs)
              /\ \A nv \in [Wires(parsed) -> BOOLEAN] :
                   Solves(nv, parsed.nodes) =>
                     /\ Solves(PulledBack(nv), circuit.nodes)
                     /\ \A k \in DOMAIN circuit.inputs :
                          nv[parsed.inputs[k]] = PulledBack(nv)[circuit.inputs[k]]
                     /\ \A k \in DOMAIN circuit.outputs :
                          nv[parsed.outputs[k]] = PulledBack(nv)[circuit.outputs[k]]

(* A failed EmitBristol leaves a file cut anywhere: what BristolParser     *)
(* reads of it may lack gates at the end but never changes or reorders any.*)
TruncationKeepsOrder == command = "bristol" => Bristol!GatesInOrder

(* A module that EmitVerilog completes computes the circuit's constants,   *)
(* inverters and two-input gates, over the right wires.                    *)
VerilogFaithful == command = "verilog" => Verilog!SmallGatesFaithful
=============================================================================
