---------------------------- MODULE DepthAnalysis ----------------------------
(***************************************************************************)
(* src/src/DepthAnalysis.zig: the multiplicative depth of every gate and   *)
(* output.  The pass turns the circuit into a forward graph, one edge per  *)
(* gate input and per output, and relaxes it by depth-first search from    *)
(* each input in turn.  A depth is 1 too high while the search runs, 0     *)
(* meaning "not visited"; the last step corrects it.                       *)
(*                                                                         *)
(* Numbers start from 1: the sources are the inputs, then the nodes; the   *)
(* sinks are the nodes, then the outputs.  The recursion of visitSink is   *)
(* the list of the visits still to be made, the innermost first.           *)
(***************************************************************************)
EXTENDS Circuit

CONSTANTS
  Circuits,
  Garbage      \* what an uninitialized entry of wire_source_map may hold

ASSUME CircuitsAssumption == \A c \in Circuits : IsCircuit(c)

ASSUME GarbageAssumption == Garbage \subseteq Nat \ {0}

VARIABLES
  circuit,
  stage,             \* "map", "connect", "outputs", "visit", "done", "panic"
  n, p,              \* current node (or output, or input) and input of it
  wire_source_map,
  out_edges,         \* the sinks each source leads to
  pending,           \* visits to be made
  node_depth, output_depth

vars == <<circuit, stage, n, p, wire_source_map, out_edges, pending,
          node_depth, output_depth>>

Inputs == DOMAIN circuit.inputs
Nodes == DOMAIN circuit.nodes
Outputs == DOMAIN circuit.outputs
InputLen == Len(circuit.inputs)
NodeLen == Len(circuit.nodes)

Sources == 1 .. InputLen + NodeLen

(* The depth of the output of a gate whose deepest input has depth d.      *)
OutputDepth(tag, d) == IF tag \in {"and", "and3", "and4", "lut"} THEN d + 1 ELSE d

Visits(source, d) ==
  [k \in DOMAIN out_edges[source] |-> [sink |-> out_edges[source][k], depth |-> d]]

-----------------------------------------------------------------------------
Init ==
  /\ circuit \in Circuits
  /\ stage = "map"
  /\ n = 1
  /\ p = 1
  /\ wire_source_map \in [Wires(circuit) -> Garbage]
  /\ out_edges = [s \in Sources |-> << >>]
  /\ pending = << >>
  /\ node_depth = [k \in Nodes |-> 0]
  /\ output_depth = [k \in Outputs |-> 0]

BuildWireSourceMap_NodesOnly ==
  /\ stage = "map"
  /\ wire_source_map' =
       [w \in Wires(circuit) |->
          LET drivers == {k \in Nodes : circuit.nodes[k].out = w}
          IN  IF drivers # {} THEN InputLen + CHOOSE k \in drivers : TRUE
              ELSE wire_source_map[w]]
  /\ stage' = "connect"
  /\ UNCHANGED <<circuit, n, p, out_edges, pending, node_depth, output_depth>>

(* Stage 1: inputs first, then nodes, a later source of a wire overwriting *)
(* an earlier one; a wire without a source keeps what the memory held.     *)
BuildWireSourceMap ==
  /\ stage = "map"
  /\ wire_source_map' =
       [w \in Wires(circuit) |->
          LET drivers == {k \in Nodes : circuit.nodes[k].out = w}
              ports == {k \in Inputs : circuit.inputs[k] = w}
              Last(S) == CHOOSE k \in S : \A l \in S : l <= k
          IN  IF drivers # {} THEN InputLen + Last(drivers)
              ELSE IF ports # {} THEN Last(ports)
              ELSE wire_source_map[w]]
  /\ stage' = "connect"
  /\ UNCHANGED <<circuit, n, p, out_edges, pending, node_depth, output_depth>>

(* connect: an edge from the source of a wire to a sink; a source that is  *)
(* no input or node is an index out of bounds.                             *)
Connect(wire, sink) ==
  LET source == wire_source_map[wire]
  IN  IF source \in Sources
      THEN /\ out_edges' = [out_edges EXCEPT ![source] = Append(@, sink)]
           /\ UNCHANGED stage
      ELSE /\ stage' = "panic"
           /\ UNCHANGED out_edges

ConnectInput ==
  /\ stage = "connect"
  /\ n <= NodeLen
  /\ p <= Len(circuit.nodes[n].ins)
  /\ Connect(circuit.nodes[n].ins[p], n)
  /\ p' = p + 1
  /\ UNCHANGED <<circuit, n, wire_source_map, pending, node_depth, output_depth>>

NextNode ==
  /\ stage = "connect"
  /\ n <= NodeLen
  /\ p > Len(circuit.nodes[n].ins)
  /\ n' = n + 1
  /\ p' = 1
  /\ UNCHANGED <<circuit, stage, wire_source_map, out_edges, pending,
                 node_depth, output_depth>>

NodesConnected ==
  /\ stage = "connect"
  /\ n > NodeLen
  /\ stage' = "outputs"
  /\ n' = 1
  /\ UNCHANGED <<circuit, p, wire_source_map, out_edges, pending,
                 node_depth, output_depth>>

ConnectOutput ==
  /\ stage = "outputs"
  /\ n <= Len(circuit.outputs)
  /\ Connect(circuit.outputs[n], NodeLen + n)
  /\ n' = n + 1
  /\ UNCHANGED <<circuit, p, wire_source_map, pending, node_depth, output_depth>>

OutputsConnected ==
  /\ stage = "outputs"
  /\ n > Len(circuit.outputs)
  /\ stage' = "visit"
  /\ n' = 1
  /\ UNCHANGED <<circuit, p, wire_source_map, out_edges, pending,
                 node_depth, output_depth>>

-----------------------------------------------------------------------------
VisitInput ==
  /\ stage = "visit"
  /\ pending = << >>
  /\ n <= InputLen
  /\ pending' = Visits(n, 1)
  /\ n' = n + 1
  /\ UNCHANGED <<circuit, stage, p, wire_source_map, out_edges, node_depth,
                 output_depth>>

VisitNode_DropsRest ==
  /\ stage = "visit"
  /\ pending # << >>
  /\ LET k == Head(pending).sink
         d == Head(pending).depth
     IN  /\ k <= NodeLen
         /\ IF d > node_depth[k]
            THEN /\ node_depth' = [node_depth EXCEPT ![k] = d]
                 /\ pending' = Visits(InputLen + k, OutputDepth(circuit.nodes[k].tag, d))
            ELSE /\ pending' = Tail(pending)
                 /\ UNCHANGED node_depth
  /\ UNCHANGED <<circuit, stage, n, p, wire_source_map, out_edges, output_depth>>

VisitNode ==
  /\ stage = "visit"
  /\ pending # << >>
  /\ LET k == Head(pending).sink
         d == Head(pending).depth
     IN  /\ k <= NodeLen
         /\ IF d > node_depth[k]
            THEN /\ node_depth' = [node_depth EXCEPT ![k] = d]
                 /\ pending' = Visits(InputLen + k, OutputDepth(circuit.nodes[k].tag, d))
                                 \o Tail(pending)
            ELSE /\ pending' = Tail(pending)
                 /\ UNCHANGED node_depth
  /\ UNCHANGED <<circuit, stage, n, p, wire_source_map, out_edges, output_depth>>

VisitOutput ==
  /\ stage = "visit"
  /\ pending # << >>
  /\ LET k == Head(pending).sink - NodeLen
         d == Head(pending).depth
     IN  /\ k >= 1
         /\ output_depth' = [output_depth EXCEPT ![k] = IF d > @ THEN d ELSE @]
  /\ pending' = Tail(pending)
  /\ UNCHANGED <<circuit, stage, n, p, wire_source_map, out_edges, node_depth>>

(* The saturating subtraction that makes the smallest depth 0.             *)
Corrected(depth) == [k \in DOMAIN depth |-> IF depth[k] = 0 THEN 0 ELSE depth[k] - 1]

CorrectDepth ==
  /\ stage = "visit"
  /\ pending = << >>
  /\ n > InputLen
  /\ node_depth' = Corrected(node_depth)
  /\ output_depth' = Corrected(output_depth)
  /\ stage' = "done"
  /\ UNCHANGED <<circuit, n, p, wire_source_map, out_edges, pending>>

Next ==
  \/ BuildWireSourceMap
  \/ ConnectInput \/ NextNode \/ NodesConnected
  \/ ConnectOutput \/ OutputsConnected
  \/ VisitInput \/ VisitNode \/ VisitOutput \/ CorrectDepth

Spec == Init /\ [][Next]_vars

-----------------------------------------------------------------------------
(***************************************************************************)
(* Properties.                                                             *)
(***************************************************************************)

(* A circuit whose gates and outputs all read wires that have a source.    *)
FullyDriven(c) ==
  /\ Topological(c.nodes, c.inputs)
  /\ OutputsDriven(c.nodes, c.inputs, c.outputs)

(* Uninitialized entries of wire_source_map are never used as an index,    *)
(* whatever they hold, when every wire read has a source.                  *)
NoWildSource == FullyDriven(circuit) => stage # "panic"

(* The current depth of a sink, and what a visited source leads it to.     *)
SinkDepth(s) == IF s <= NodeLen THEN node_depth[s] ELSE output_depth[s - NodeLen]

Promised(source) ==
  IF source <= InputLen
  THEN IF source < n THEN 1 ELSE 0
  ELSE LET d == node_depth[source - InputLen]
       IN  IF d = 0 THEN 0 ELSE OutputDepth(circuit.nodes[source - InputLen].tag, d)

(* No update is lost: a sink is as deep as each visited source makes it,   *)
(* or a visit that will make it so is still pending.                       *)
RelaxedOrPending ==
  stage = "visit" =>
    \A source \in Sources : \A k \in DOMAIN out_edges[source] :
      \/ SinkDepth(out_edges[source][k]) >= Promised(source)
      \/ \E v \in DOMAIN pending : /\ pending[v].sink = out_edges[source][k]
                                   /\ pending[v].depth >= Promised(source)

(* The reference, by recursion on the gates: the largest number of AND and *)
(* LUT gates before node k on a path from an input, plus 1, or 0 when no   *)
(* input reaches it.                                                       *)
PastGate(node, reach) ==
  IF reach # 0 /\ node.tag \notin {"inv", "xor"} THEN reach + 1 ELSE reach

Reach[k \in Nat] ==
  IF k \notin Nodes THEN 0
  ELSE LET node == circuit.nodes[k]
           From(w) ==
             IF \E j \in Inputs : circuit.inputs[j] = w THEN 1
             ELSE LET j == CHOOSE j \in 1 .. k - 1 : circuit.nodes[j].out = w
                  IN  PastGate(circuit.nodes[j], Reach[j])
           reached == {From(node.ins[q]) : q \in DOMAIN node.ins} \cup {0}
       IN  CHOOSE m \in reached : \A l \in reached : l <= m

WireReach(w) ==
  IF \E j \in Inputs : circuit.inputs[j] = w THEN 1
  ELSE LET j == CHOOSE j \in Nodes : circuit.nodes[j].out = w
       IN  PastGate(circuit.nodes[j], Reach[j])

(* The result is the multiplicative depth: for each gate and output the    *)
(* number of AND and LUT gates on the longest path from an input to it.    *)
DepthIsLongestPath ==
  /\ stage = "done"
  /\ FullyDriven(circuit)
  /\ SingleDriver(circuit.nodes, circuit.inputs)
  => LET Saturated(d) == IF d = 0 THEN 0 ELSE d - 1
     IN  /\ \A k \in Nodes : node_depth[k] = Saturated(Reach[k])
         /\ \A k \in Outputs :
               output_depth[k] = Saturated(WireReach(circuit.outputs[k]))
=============================================================================
