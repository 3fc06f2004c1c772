----------------------------- MODULE SynCircFile -----------------------------
(***************************************************************************)
(* A .syncirc file, its writer (src/src/Emit.zig) and its reader           *)
(* (src/src/Parser.zig).                                                   *)
(*                                                                         *)
(* A line is its type, the wire numbers after it and, for a LUT, the       *)
(* digits of its table.  The writer is buffered: what reaches the disk     *)
(* before the last flush is some beginning of the text, possibly cut       *)
(* inside a line.  Wire numbers are taken to have one digit, so that a cut *)
(* removes whole numbers.  The reader is a later command: it may find the  *)
(* file of a writer that succeeded or failed, or one written by hand.      *)
(***************************************************************************)
EXTENDS Circuit

CONSTANTS
  Circuits,    \* the circuits to be written
  Files        \* files written by hand

ASSUME CircuitsAssumption == \A c \in Circuits : IsCircuit(c)

VARIABLES
  circuit,     \* the circuit to be written
  writer,      \* where the writer is; "none" for a file written by hand
  index,       \* its current node, from 1
  text,        \* the lines it has printed
  file,        \* the lines on disk
  reader,      \* where the reader is
  line,        \* its current line, from 1
  parsed       \* the circuit read so far

vars == <<circuit, writer, index, text, file, reader, line, parsed>>

-----------------------------------------------------------------------------
(* The lines the writer prints.                                            *)
Prefix ==
  [zero |-> "0", one |-> "1", inv |-> "I", and |-> "A", xor |-> "E",
   and3 |-> "3", and4 |-> "4", lut |-> "L"]

Line(type, nums, table) == [type |-> type, nums |-> nums, table |-> table]

NodeLine_OutputFirst(node) ==
  Line(Prefix[node.tag], <<node.out>> \o node.ins, node.table)

NodeLine(node) ==
  Line(Prefix[node.tag], Append(node.ins, node.out), node.table)

(* emitInputs and emitOutputs print nothing for an empty list.             *)
PortLine(type, wires) == IF wires = << >> THEN << >> ELSE <<Line(type, wires, << >>)>>

(* What a failure can leave of the lines t.                                *)
Cut(l) ==
  {[l EXCEPT !.nums = SubSeq(l.nums, 1, k), !.table = << >>] : k \in 0 .. Len(l.nums)}
    \cup {[l EXCEPT !.table = SubSeq(l.table, 1, k)] : k \in 0 .. Len(l.table)}

Beginnings(t) ==
  {SubSeq(t, 1, m) : m \in 0 .. Len(t)}
    \cup UNION {{Append(SubSeq(t, 1, m - 1), l) : l \in Cut(t[m])} : m \in DOMAIN t}

-----------------------------------------------------------------------------
(* What the reader makes of a line.                                        *)
TagOf(type) == CHOOSE tag \in Tag : Prefix[tag] = type

(* The last token of a LUT line is its table, whatever it is.              *)
Splits(l) ==
  IF l.table # << >> THEN [nums |-> l.nums, table |-> l.table]
  ELSE [nums |-> SubSeq(l.nums, 1, Len(l.nums) - 1), table |-> <<l.nums[Len(l.nums)]>>]

GoodLut(l) ==
  /\ Len(l.nums) + (IF l.table = << >> THEN 0 ELSE 1) >= 2
  /\ \A k \in DOMAIN Splits(l).table : Splits(l).table[k] \in {0, 1}

Pins(type) == Arity(Gate(TagOf(type), << >>, 0)) + 1

(* Tokens beyond those a gate needs are ignored.                           *)
Accepted(l) ==
  \/ l.type \in {"C", "O"}
  \/ l.type = "L" /\ GoodLut(l)
  \/ l.type \in Range(Prefix) \ {"L"} /\ Len(l.nums) >= Pins(l.type)

LutOf(l) ==
  LET s == Splits(l)
      n == Len(s.nums)
  IN  Lut(SubSeq(s.nums, 1, n - 1), s.table, s.nums[n])

GateOf(l) ==
  LET n == Pins(l.type)
  IN  Gate(TagOf(l.type), SubSeq(l.nums, 1, n - 1), l.nums[n])

NodeOf(l) == IF l.type = "L" THEN LutOf(l) ELSE GateOf(l)

Raised_NotByPorts(m, l) ==
  LET wires == IF l.type \in {"C", "O"} THEN {}
               ELSE Range(NodeOf(l).ins) \cup {NodeOf(l).out}
  IN  CHOOSE w \in wires \cup {m} : \A v \in wires \cup {m} : v <= w

(* adjustMaxWireNumber with the wires of the line.                         *)
Raised(m, l) ==
  LET wires == IF l.type \in {"C", "O"} THEN Range(l.nums)
               ELSE Range(NodeOf(l).ins) \cup {NodeOf(l).out}
  IN  CHOOSE w \in wires \cup {m} : \A v \in wires \cup {m} : v <= w

WithLine(c, l) ==
  [nodes   |-> IF l.type \in {"C", "O"} THEN c.nodes ELSE Append(c.nodes, NodeOf(l)),
   inputs  |-> IF l.type = "C" THEN c.inputs \o l.nums ELSE c.inputs,
   outputs |-> IF l.type = "O" THEN c.outputs \o l.nums ELSE c.outputs,
   max_wire_number |-> Raised(c.max_wire_number, l)]

Empty == [nodes |-> << >>, inputs |-> << >>, outputs |-> << >>, max_wire_number |-> 0]

-----------------------------------------------------------------------------
Init ==
  /\ circuit \in Circuits
  /\ \/ writer = "start" /\ file = << >>
     \/ writer = "none" /\ file \in Files
  /\ index = 1
  /\ text = << >>
  /\ reader = "closed"
  /\ line = 1
  /\ parsed = Empty

CreateFile_OutputsFirst ==
  /\ writer = "start"
  /\ file' = << >>
  /\ text' = PortLine("O", circuit.outputs) \o PortLine("C", circuit.inputs)
  /\ writer' = "nodes"
  /\ UNCHANGED <<circuit, index, reader, line, parsed>>

CreateFile ==
  /\ writer = "start"
  /\ file' = << >>
  /\ text' = PortLine("C", circuit.inputs)
  /\ writer' = "nodes"
  /\ UNCHANGED <<circuit, index, reader, line, parsed>>

EmitNode ==
  /\ writer = "nodes"
  /\ index <= Len(circuit.nodes)
  /\ text' = Append(text, NodeLine(circuit.nodes[index]))
  /\ index' = index + 1
  /\ UNCHANGED <<circuit, writer, file, reader, line, parsed>>

EmitOutputs ==
  /\ writer = "nodes"
  /\ index > Len(circuit.nodes)
  /\ text' = text \o PortLine("O", circuit.outputs)
  /\ writer' = "flush"
  /\ UNCHANGED <<circuit, index, file, reader, line, parsed>>

Flush ==
  /\ writer = "flush"
  /\ file' = text
  /\ writer' = "done"
  /\ UNCHANGED <<circuit, index, text, reader, line, parsed>>

(* The disk is full, or the command is killed.                             *)
WriteError ==
  /\ writer \in {"nodes", "flush"}
  /\ file' \in Beginnings(text)
  /\ writer' = "failed"
  /\ UNCHANGED <<circuit, index, text, reader, line, parsed>>

-----------------------------------------------------------------------------
OpenFile ==
  /\ writer \in {"none", "done", "failed"}
  /\ reader = "closed"
  /\ reader' = "lines"
  /\ UNCHANGED <<circuit, writer, index, text, file, line, parsed>>

ParseLine ==
  /\ reader = "lines"
  /\ line <= Len(file)
  /\ Accepted(file[line])
  /\ parsed' = WithLine(parsed, file[line])
  /\ line' = line + 1
  /\ UNCHANGED <<circuit, writer, index, text, file, reader>>

ParseError ==
  /\ reader = "lines"
  /\ line <= Len(file)
  /\ ~Accepted(file[line])
  /\ reader' = "error"
  /\ UNCHANGED <<circuit, writer, index, text, file, line, parsed>>

EndOfFile ==
  /\ reader = "lines"
  /\ line > Len(file)
  /\ reader' = "done"
  /\ UNCHANGED <<circuit, writer, index, text, file, line, parsed>>

Next ==
  \/ CreateFile \/ EmitNode \/ EmitOutputs \/ Flush \/ WriteError
  \/ OpenFile \/ ParseLine \/ ParseError \/ EndOfFile

Spec == Init /\ [][Next]_vars

-----------------------------------------------------------------------------
(***************************************************************************)
(* Properties.                                                             *)
(***************************************************************************)

(* Whatever the file, every wire of the circuit read is at most its        *)
(* max_wire_number, by which the evaluator, the renumbering and the depth  *)
(* analysis size their arrays.                                             *)
WiresBounded ==
  /\ Range(parsed.inputs) \cup Range(parsed.outputs) \subseteq Wires(parsed)
  /\ \A j \in DOMAIN parsed.nodes :
       Range(parsed.nodes[j].ins) \cup {parsed.nodes[j].out} \subseteq Wires(parsed)

(* A file written completely is read back, never refused: the same gates   *)
(* in the same order and the same ports.  Only max_wire_number may shrink, *)
(* to the largest wire mentioned.                                          *)
RoundTrip ==
  writer = "done" =>
    /\ reader # "error"
    /\ reader = "done" =>
         /\ parsed.nodes = circuit.nodes
         /\ parsed.inputs = circuit.inputs
         /\ parsed.outputs = circuit.outputs
         /\ parsed.max_wire_number <= circuit.max_wire_number

(* The outputs come last: if the file of a failed writer can be read and   *)
(* has all of them, nothing is missing from it.                            *)
TruncationVisible ==
  /\ writer = "failed"
  /\ reader = "done"
  /\ circuit.outputs # << >>
  /\ parsed.outputs = circuit.outputs
  => parsed.nodes = circuit.nodes /\ parsed.inputs = circuit.inputs
=============================================================================
