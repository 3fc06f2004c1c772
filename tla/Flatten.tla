------------------------------- MODULE Flatten --------------------------------
(***************************************************************************)
(* src/src/main.zig, compile, from the files Yosys leaves to one circuit:  *)
(* Torder.zig reads the order of the cells, then Builder.zig visits        *)
(* exactly the cells it was given.  The order file has no end marker, and  *)
(* the writer may have been killed or the disk full.                       *)
(***************************************************************************)
EXTENDS Builder

CONSTANTS CutModules, CutCells

VARIABLES
  order,                \* the modules as Yosys lists them, with their cells
  file,                 \* lines of the order file not read yet
  whole,                \* whether the order file is complete
  reader,               \* how far Torder.parse is
  current_module_name,
  current_cell_list

order_vars == <<order, file, whole, reader, torder, current_module_name, current_cell_list>>
all_vars == <<vars, order_vars>>

Order == INSTANCE Torder WITH phase <- reader, modules <- torder

-----------------------------------------------------------------------------
(* The modules in any order, each with its cells in evaluation order.      *)
Listings(n) ==
  LET names == DOMAIN n.modules
      Cells(name) == [k \in DOMAIN n.modules[name].cells |-> k]
  IN  {[k \in DOMAIN f |-> [module |-> f[k], cells |-> Cells(f[k])]] :
         f \in {g \in [1 .. Cardinality(names) -> names] : IsInjective(g)}}

FlattenInit ==
  /\ Init
  /\ order \in Listings(netlist)
  /\ Order!Init

ReadOrder ==
  /\ Order!Next
  /\ UNCHANGED <<netlist, phase, stack, sub, bit, next_free_wire_number, circuit>>

(* An error of Torder.parse ends the compilation before build.             *)
Build ==
  /\ reader = "done"
  /\ Next
  /\ UNCHANGED <<order, file, whole, reader, current_module_name, current_cell_list>>

FlattenNext == ReadOrder \/ Build

FlattenSpec == FlattenInit /\ [][FlattenNext]_all_vars

-----------------------------------------------------------------------------
(***************************************************************************)
(* Properties.                                                             *)
(***************************************************************************)

(* A circuit built from a cut order file (nothing marks its end, so        *)
(* Torder.parse may accept one) lacks gates of one module at most, the     *)
(* last one listed: every other module that was visited is complete.       *)
OnlyLastModuleCut ==
  phase = "done" =>
    \A k \in DOMAIN order :
      order[k].module \in DOMAIN torder \ {current_module_name}
        => torder[order[k].module] = order[k].cells

(* What ConnectOutput is there for (comments at Builder.zig:325 and 335):  *)
(* an output forwarded from an input, repeated or constant is connected,   *)
(* at every level of the hierarchy.                                        *)
RedirectedOutputsConnected ==
  phase = "done" /\ whole /\ SoundNetlist(netlist) =>
    OutputsDriven(circuit.nodes, circuit.inputs, circuit.outputs)
=============================================================================
