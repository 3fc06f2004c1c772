----------------------------- MODULE BristolFile -----------------------------
(***************************************************************************)
(* A .bristol file, its writer (src/src/EmitBristol.zig) and its reader    *)
(* (src/src/BristolParser.zig).                                            *)
(*                                                                         *)
(* A line is the numbers it starts with and the words after them.  There   *)
(* is no list of inputs and outputs: the reader takes the first and the    *)
(* last wires, counted by the header.  As with .syncirc files, a failed    *)
(* writer leaves some beginning of its text, cut between two numbers or    *)
(* before the type of a gate.                                              *)
(***************************************************************************)
EXTENDS Circuit

VARIABLES
  circuit,     \* the circuit to be written
  writer,      \* where the writer is; "none" for a file written by hand
  index,       \* its current node, from 1
  text,        \* the lines it has printed
  file,        \* the lines on disk
  reader,      \* where the reader is
  line,        \* its current line, from 1
  num_wires,   \* what the first line says
  parsed       \* the circuit read so far

vars == <<circuit, writer, index, text, file, reader, line, num_wires, parsed>>

-----------------------------------------------------------------------------
Line(nums, words) == [nums |-> nums, words |-> words]

Blank == Line(<< >>, << >>)

(* The types that both sides know; the writer refuses the other tags.      *)
Postfix == [inv |-> "INV", and |-> "AND", xor |-> "XOR", and3 |-> "AND3", and4 |-> "AND4"]

Header(c) ==
  << Line(<<Len(c.nodes), c.max_wire_number + 1>>, << >>),
     Line(<<Len(c.inputs), Len(c.outputs)>>, << >>),
     Blank >>

NodeLine(node) ==
  Line(<<Len(node.ins), 1>> \o node.ins \o <<node.out>>, <<Postfix[node.tag]>>)

(* What a failure can leave of the lines t.                                *)
Beginnings(t) ==
  {SubSeq(t, 1, m) : m \in 0 .. Len(t)}
    \cup UNION {{Append(SubSeq(t, 1, m - 1), Line(SubSeq(t[m].nums, 1, k), << >>))
                   : k \in 0 .. Len(t[m].nums)} : m \in DOMAIN t}

-----------------------------------------------------------------------------
(***************************************************************************)
(* A gate line: two counts, that many inputs and outputs, and the type.    *)
(* The inputs and the outputs go to arrays of ArraySize entries before the *)
(* counts are compared with the type.                                      *)
(***************************************************************************)
ArraySize == 4

NumInputs(l) == l.nums[1]
NumOutputs(l) == l.nums[2]

(* How many numbers follow the counts.                                     *)
Operands(l) == Len(l.nums) - 2

BeyondArray(l) ==
  /\ Len(l.nums) >= 2
  /\ \/ NumInputs(l) > ArraySize /\ Operands(l) > ArraySize
     \/ NumOutputs(l) > ArraySize /\ Operands(l) - NumInputs(l) > ArraySize

GoodGate(l) ==
  /\ Len(l.nums) >= 2
  /\ Operands(l) = NumInputs(l) + NumOutputs(l)
  /\ NumOutputs(l) = 1
  /\ Len(l.words) = 1
  /\ \E tag \in DOMAIN Postfix :
       Postfix[tag] = l.words[1] /\ NumInputs(l) = Arity(Gate(tag, << >>, 0))

GateOf(l) ==
  Gate(CHOOSE tag \in DOMAIN Postfix : Postfix[tag] = l.words[1],
       SubSeq(l.nums, 3, 2 + NumInputs(l)), l.nums[3 + NumInputs(l)])

Raised(m, l) ==
  LET wires == {l.nums[k] : k \in 3 .. Len(l.nums)}
  IN  CHOOSE w \in wires \cup {m} : \A v \in wires \cup {m} : v <= w

-----------------------------------------------------------------------------
Empty == [nodes |-> << >>, inputs |-> << >>, outputs |-> << >>, max_wire_number |-> 0]

(* The circuit, the writer and the file are set by the command.            *)
Init ==
  /\ index = 1
  /\ text = << >>
  /\ reader = "closed"
  /\ line = 1
  /\ num_wires = 0
  /\ parsed = Empty

CreateFile ==
  /\ writer = "start"
  /\ file' = << >>
  /\ text' = Header(circuit)
  /\ writer' = "nodes"
  /\ UNCHANGED <<circuit, index, reader, line, num_wires, parsed>>

EmitNode ==
  /\ writer = "nodes"
  /\ index <= Len(circuit.nodes)
  /\ circuit.nodes[index].tag \in DOMAIN Postfix
  /\ text' = Append(text, NodeLine(circuit.nodes[index]))
  /\ index' = index + 1
  /\ UNCHANGED <<circuit, writer, file, reader, line, num_wires, parsed>>

(* A constant or a LUT, a full disk or a killed command.                   *)
WriteError ==
  /\ writer = "nodes"
  /\ file' \in Beginnings(text)
  /\ writer' = "failed"
  /\ UNCHANGED <<circuit, index, text, reader, line, num_wires, parsed>>

Flush ==
  /\ writer = "nodes"
  /\ index > Len(circuit.nodes)
  /\ file' = text
  /\ writer' = "done"
  /\ UNCHANGED <<circuit, index, text, reader, line, num_wires, parsed>>

-----------------------------------------------------------------------------
OpenFile ==
  /\ writer \in {"none", "done", "failed"}
  /\ reader = "closed"
  /\ reader' = "first"
  /\ UNCHANGED <<circuit, writer, index, text, file, line, num_wires, parsed>>

(* The number of gates is not looked at.                                   *)
ParseFirstLine ==
  /\ reader = "first"
  /\ IF file # << >> /\ Len(file[1].nums) >= 2
     THEN num_wires' = file[1].nums[2] /\ reader' = "second" /\ line' = 2
     ELSE reader' = "error" /\ UNCHANGED <<num_wires, line>>
  /\ UNCHANGED <<circuit, writer, index, text, file, parsed>>

FirstOutput(num_outputs) == num_wires - num_outputs

(* The inputs of both parties are the first wires, the outputs the last;   *)
(* more outputs than wires is an overflow.                                 *)
ParseSecondLine ==
  LET fields == file[2].nums
      n == Len(fields)
      num_inputs == IF n >= 3 THEN fields[1] + fields[2] ELSE fields[1]
      num_outputs == IF n >= 3 THEN fields[3] ELSE fields[2]
  IN  /\ reader = "second"
      /\ IF Len(file) < 2 \/ n < 2 \/ (n = 2 /\ file[2].words # << >>)
         THEN reader' = "error" /\ UNCHANGED <<parsed, line>>
         ELSE IF num_outputs > num_wires
         THEN reader' = "panic" /\ UNCHANGED <<parsed, line>>
         ELSE /\ parsed' = [Empty EXCEPT
                    !.inputs = [k \in 1 .. num_inputs |-> k - 1],
                    !.outputs = [k \in 1 .. num_outputs |->
                                   FirstOutput(num_outputs) + k - 1]]
              /\ reader' = "gates"
              /\ line' = 3
      /\ UNCHANGED <<circuit, writer, index, text, file, num_wires>>

SkipBlank ==
  /\ reader = "gates"
  /\ line <= Len(file)
  /\ file[line] = Blank
  /\ line' = line + 1
  /\ UNCHANGED <<circuit, writer, index, text, file, reader, num_wires, parsed>>

ParseGate_Prepends ==
  /\ reader = "gates"
  /\ line <= Len(file)
  /\ GoodGate(file[line]) /\ ~BeyondArray(file[line])
  /\ parsed' = [parsed EXCEPT
        !.nodes = <<GateOf(file[line])>> \o @,
        !.max_wire_number = Raised(@, file[line])]
  /\ line' = line + 1
  /\ UNCHANGED <<circuit, writer, index, text, file, reader, num_wires>>

ParseGate ==
  /\ reader = "gates"
  /\ line <= Len(file)
  /\ GoodGate(file[line]) /\ ~BeyondArray(file[line])
  /\ parsed' = [parsed EXCEPT
        !.nodes = Append(@, GateOf(file[line])),
        !.max_wire_number = Raised(@, file[line])]
  /\ line' = line + 1
  /\ UNCHANGED <<circuit, writer, index, text, file, reader, num_wires>>

ParseError ==
  /\ reader = "gates"
  /\ line <= Len(file)
  /\ file[line] # Blank
  /\ \/ BeyondArray(file[line]) /\ reader' = "panic"
     \/ ~BeyondArray(file[line]) /\ ~GoodGate(file[line]) /\ reader' = "error"
  /\ UNCHANGED <<circuit, writer, index, text, file, line, num_wires, parsed>>

EndOfFile ==
  /\ reader = "gates"
  /\ line > Len(file)
  /\ reader' = "done"
  /\ UNCHANGED <<circuit, writer, index, text, file, line, num_wires, parsed>>

Next ==
  \/ CreateFile \/ EmitNode \/ WriteError \/ Flush
  \/ OpenFile \/ ParseFirstLine \/ ParseSecondLine \/ SkipBlank \/ ParseGate
  \/ ParseError \/ EndOfFile

-----------------------------------------------------------------------------
(***************************************************************************)
(* Properties.                                                             *)
(***************************************************************************)

(* Gates that are read are beginnings of those written: a truncated file   *)
(* may lose gates at its end but never changes or reorders any.            *)
GatesInOrder ==
  writer # "none" =>
    /\ Len(parsed.nodes) <= Len(circuit.nodes)
    /\ parsed.nodes = SubSeq(circuit.nodes, 1, Len(parsed.nodes))
=============================================================================
