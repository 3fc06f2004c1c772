----------------------------- MODULE Statistics ------------------------------
(***************************************************************************)
(* src/src/stats.zig: counts the gates of a circuit, runs DepthAnalysis on *)
(* it and prints the depth of the deepest output.                          *)
(***************************************************************************)
EXTENDS DepthAnalysis

VARIABLE report      \* what is printed

statsVars == <<vars, report>>

(* countGateTypes: constants are not counted.                              *)
CountOf(tag) == Cardinality({k \in Nodes : circuit.nodes[k].tag = tag})

(* lut_input_sizes, an array indexed by the arity, a u8; only the entries  *)
(* that are not 0 are printed.                                             *)
LutSizes == {Len(circuit.nodes[k].ins) : k \in {j \in Nodes : circuit.nodes[j].tag = "lut"}}

LutsOfSize(size) ==
  Cardinality({k \in Nodes : circuit.nodes[k].tag = "lut" /\ Len(circuit.nodes[k].ins) = size})

Nothing == [state |-> "none", counts |-> << >>, sizes |-> << >>, total |-> 0]

StatsInit == Init /\ report = Nothing

Analyze == Next /\ UNCHANGED report

TotalDepth_LastOutput == output_depth[Len(circuit.outputs)]

(* std.mem.max                                                             *)
TotalDepth == LET d == Range(output_depth) IN CHOOSE m \in d : \A l \in d : l <= m

(* main after analyzeDepth: the maximum of an empty slice is a failed      *)
(* assertion.                                                              *)
PrintReport ==
  /\ stage = "done"
  /\ report = Nothing
  /\ report' = IF circuit.outputs = << >> THEN [Nothing EXCEPT !.state = "panic"]
               ELSE [state |-> "printed",
                     counts |-> [tag \in Tag \ Constant |-> CountOf(tag)],
                     sizes |-> [s \in LutSizes |-> LutsOfSize(s)],
                     total |-> TotalDepth]
  /\ UNCHANGED vars

StatsNext == Analyze \/ PrintReport

StatsSpec == StatsInit /\ [][StatsNext]_statsVars

-----------------------------------------------------------------------------
(* The number of AND and LUT gates on a path, by walking back from wire w; *)
(* a path that ends in a constant counts nothing.                          *)
Paths[w \in Nat] ==
  IF \E j \in Inputs : circuit.inputs[j] = w THEN {0}
  ELSE LET node == circuit.nodes[CHOOSE j \in Nodes : circuit.nodes[j].out = w]
           step == IF node.tag \in {"inv", "xor", "zero", "one"} THEN 0 ELSE 1
       IN  {step + d : d \in UNION {Paths[node.ins[q]] : q \in DOMAIN node.ins}}

(* Every depth is that of the longest path, the printed total is the       *)
(* number of AND and LUT gates on the longest path from an input to any    *)
(* output, and the counts and the constants add up to the gates of the     *)
(* circuit.  Only a circuit without outputs makes std.mem.max fail.        *)
ReportCorrect ==
  /\ DepthIsLongestPath
  /\ report.state = "panic" => circuit.outputs = << >>
  /\ report.state = "printed" /\ FullyDriven(circuit)
       /\ SingleDriver(circuit.nodes, circuit.inputs)
    => LET depths == {0} \cup UNION {Paths[circuit.outputs[k]] : k \in Outputs}
           constants == Cardinality({k \in Nodes : circuit.nodes[k].tag \in Constant})
       IN  /\ report.total \in depths
           /\ \A d \in depths : d <= report.total
           /\ constants + SumFunction(report.counts) = NodeLen
           /\ SumFunction(report.sizes) = report.counts["lut"]
=============================================================================
