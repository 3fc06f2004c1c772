------------------------------- MODULE Torder --------------------------------
(***************************************************************************)
(* src/src/Torder.zig: the reader of the file in which Yosys lists the     *)
(* cells of each module in topological order.  The builder visits exactly  *)
(* the cells this reader returns, so a cell that is lost here is a gate    *)
(* missing from the circuit.                                               *)
(*                                                                         *)
(* A line is a pair of a kind and a name.  "panic" is the unwrapping of a  *)
(* line that is not there.                                                 *)
(***************************************************************************)
EXTENDS Integers, Sequences, SequencesExt, Functions

CONSTANTS
  CutModules,  \* what may be left of the name of a module at the end of a cut file
  CutCells     \* what may be left of the name of a cell

VARIABLES
  order,                \* what Yosys lists: records [module, cells]
  file,                 \* lines not read yet
  whole,                \* whether the file was cut
  phase,                \* "empty", "debug", "first", "body", "done", "error", "panic"
  modules,              \* what has been put in the map
  current_module_name,
  current_cell_list

vars == <<order, file, whole, phase, modules, current_module_name, current_cell_list>>

-----------------------------------------------------------------------------
(* The text Yosys writes (tee -o ... torder).                              *)
Lines(o) ==
  <<<<"empty", "">>, <<"debug", "">>>>
    \o FoldLeft(LAMBDA text, m :
                  text \o <<<<"module", m.module>>>>
                       \o [k \in DOMAIN m.cells |-> <<"cell", m.cells[k]>>],
                << >>, o)

(* What may be left of a line: nothing recognizable, or a shorter name.    *)
CutLines(line) ==
  {<<"other", "">>} \cup
    CASE line[1] = "module" -> {<<"module", n>> : n \in CutModules}
      [] line[1] = "cell" -> {<<"cell", n>> : n \in CutCells}
      [] OTHER -> {}

(* What is left when the disk is full or the writer is killed.             *)
CutFiles(text) ==
  {SubSeq(text, 1, n) : n \in 0 .. Len(text) - 1}
    \cup UNION {{Append(SubSeq(text, 1, n - 1), l) : l \in CutLines(text[n])} : n \in DOMAIN text}

(* parse, on the file of a given order.                                    *)
Init ==
  /\ whole \in BOOLEAN
  /\ IF whole THEN file = Lines(order) ELSE file \in CutFiles(Lines(order))
  /\ phase = "empty"
  /\ modules = [m \in {} |-> << >>]
  /\ current_module_name = ""
  /\ current_cell_list = << >>

Stop(how) == phase' = how /\ UNCHANGED <<order, file, whole, modules, current_module_name, current_cell_list>>

(* modules.put: a name that comes again replaces its list.                 *)
Put(name, cells) ==
  [m \in DOMAIN modules \cup {name} |-> IF m = name THEN cells ELSE modules[m]]

ReadHeader(at, kind, next) ==
  /\ phase = at
  /\ IF file = << >> THEN Stop("panic")
     ELSE IF Head(file)[1] # kind THEN Stop("error")
     ELSE /\ phase' = next
          /\ file' = Tail(file)
          /\ UNCHANGED <<order, whole, modules, current_module_name, current_cell_list>>

EmptyLine == ReadHeader("empty", "empty", "debug")
DebugLine == ReadHeader("debug", "debug", "first")

FirstModule ==
  /\ phase = "first"
  /\ IF file = << >> THEN Stop("panic")
     ELSE IF Head(file)[1] # "module" THEN Stop("error")
     ELSE /\ phase' = "body"
          /\ current_module_name' = Head(file)[2]
          /\ file' = Tail(file)
          /\ UNCHANGED <<order, whole, modules, current_cell_list>>

ModuleLine_KeepsCells ==
  /\ phase = "body"
  /\ file # << >>
  /\ Head(file)[1] = "module"
  /\ modules' = Put(current_module_name, current_cell_list)
  /\ current_module_name' = Head(file)[2]
  /\ file' = Tail(file)
  /\ UNCHANGED <<order, whole, phase, current_cell_list>>

(* The current module is finished; toOwnedSlice empties the list.          *)
ModuleLine ==
  /\ phase = "body"
  /\ file # << >>
  /\ Head(file)[1] = "module"
  /\ modules' = Put(current_module_name, current_cell_list)
  /\ current_cell_list' = << >>
  /\ current_module_name' = Head(file)[2]
  /\ file' = Tail(file)
  /\ UNCHANGED <<order, whole, phase>>

CellLine ==
  /\ phase = "body"
  /\ file # << >>
  /\ Head(file)[1] = "cell"
  /\ current_cell_list' = Append(current_cell_list, Head(file)[2])
  /\ file' = Tail(file)
  /\ UNCHANGED <<order, whole, phase, modules, current_module_name>>

BadLine ==
  /\ phase = "body"
  /\ file # << >>
  /\ Head(file)[1] \notin {"module", "cell"}
  /\ Stop("error")

(* The last module is finished.                                            *)
EndOfFile ==
  /\ phase = "body"
  /\ file = << >>
  /\ modules' = Put(current_module_name, current_cell_list)
  /\ phase' = "done"
  /\ UNCHANGED <<order, file, whole, current_module_name, current_cell_list>>

Next ==
  EmptyLine \/ DebugLine \/ FirstModule \/ ModuleLine \/ CellLine \/ BadLine \/ EndOfFile
=============================================================================
