# SynCirc in TLA+

SynCirc compiles C/C++ or Verilog to Boolean circuits for secure computation.
XLS and Yosys, run as external tools, produce a gate netlist; the code in
`src/src` turns the netlist into a circuit, renumbers, prints, reads, evaluates
and analyses it. The repository carries a copy of XLS in `src/xls`. This
directory holds TLA+ models of SynCirc's own code and of those parts of XLS
whose correctness depends on the order of steps, the TLC configurations that
check them on small instances, and TLAPS proofs of what holds for circuits of
every size.

## Inventory

| part | source | modules | state |
|---|---|---|---|
| circuit data structure | `src/src/Circuit.zig` | `Circuit` | modelled |
| renumbering for Bristol | `Linearize.zig` | `Linearize` | modelled |
| evaluation | `EvalCircuit.zig` | `EvalCircuit` | modelled |
| multiplicative depth | `DepthAnalysis.zig` | `DepthAnalysis` | modelled |
| statistics | `stats.zig`, `count_gate_types.zig` | `Statistics` | modelled |
| `.syncirc` files | `Emit.zig`, `Parser.zig` | `SynCircFile` | modelled |
| `.bristol` files | `EmitBristol.zig`, `BristolParser.zig` | `BristolFile` | modelled |
| Verilog export | `EmitVerilog.zig` | `EmitVerilog` | modelled |
| export commands, converter | `main.zig`, `convert.zig` | `Export` | partly |
| cell order file | `Torder.zig` | `Torder`, `Flatten` | modelled |
| netlist builder | `Builder.zig` | `Builder`, `Flatten` | modelled |
| compiler driver | `main.zig` | `Driver`, `Compiler` | modelled |
| external tools | `external/*.zig` | `Driver` | partly |
| `eval` command, test harness, dead node elimination, technology maps | `eval.zig`, `test.zig`, `dead_node_elimination.zig`, `src/lib` | | not modelled |
| proc network interpreter | `src/xls/xls/interpreter` | `ProcNetwork`, `ProcNodes` | modelled |
| channel queues | `interpreter/channel_queue.*` | `ProcNodes` | partly |
| network-on-chip simulator | `noc/simulation/sim_objects.*` | `NocSimulator` | modelled |
| proc to RTL block | `codegen/block_conversion.cc` | `StreamBuffer`, `BufferedStream`, `BoundedFifo`, `PipelinedBlock` | partly |
| IR graph and interpreter | `ir/`, `interpreter/ir_interpreter.cc` | `IrNodes` | partly |
| simplification passes | `passes/` | `ArithSimplification`, `Canonicalization`, `ComparisonSimplification`, `BitSliceSimplification`, `ConcatSimplification`, `Reassociation`, `CleanupPasses`, `SimplificationPass` | partly |
| the rest of XLS | `src/xls` | | not modelled |

How the parts interact. The driver runs XLS (for C/C++), then Yosys, which
leaves a JSON netlist and a cell order. `Torder` reads the order and `Builder`
flattens the netlist into a `Circuit`. The circuit is written as it is (`Emit`),
printed as Verilog, or goes through `Linearize` to `EmitBristol`. `convert`,
`eval` and `stats` start from a file, through one of the two readers. These
passes run one after another in one thread; what persists between commands is
files. Their hard behaviours are number ranges counted in advance and consumed
later, modules suspended and resumed, forward references, uninitialized memory,
graph nodes visited again, and files left by something that failed half-way.
Between commands there is real concurrency: intermediate files have fixed names,
and the Yosys script has one name per directory.

In XLS the driver uses `xlscc`, `opt_main` and `codegen_main`. Of these the
optimizer's fixed point of passes and the conversion of procs to pipelined
blocks are modelled; beside them the interpreter of proc networks, which defines
what such a block should do, and the network simulator.

## Modules and code

**`Circuit`**. A node is `[tag, ins, out, table]`. The Zig union and the shared
arrays `luts` and `lut_tables` become one list of wires and one table per node.
`GateValue` is what `EvalCircuit.zig` computes per gate; `IsCircuit` says that
no wire exceeds `max_wire_number`, by which all arrays are sized.
`SingleDriver`, `Topological` and `OutputsDriven` describe sensible netlists;
the code checks none of them, so properties use them as hypotheses.

**`Linearize`**. `permutation` is the pair of Zig arrays `permutation` and
`permutation_set`, as a function on the wires mapped so far. One action per
iteration of the four loops of `run`; a gate is cut at each wire number it
allocates (`AllocatePin` is one call of `getMapping` that allocates), because the
assertion of `getFreshWireNumber` is evaluated there. Reachable failures are the
phase `panic`: an input listed twice, a constant in a circuit without inputs, an
output slot below zero.

**`EvalCircuit`**. Length check, one action per input stored, one per gate, one
for the outputs.

**`DepthAnalysis`, `Statistics`**. `wire_source_map` starts with arbitrary
values (`Garbage`), as the uninitialized allocation does. The recursion of
`visitSink` is the list `pending`, innermost visit first, so each visit is a
step. `Statistics` adds the counting of gates and the report.

**`SynCircFile`, `BristolFile`**. Writer and reader of one file. A line is its
type and its numbers. The writer is buffered, so a failure (`WriteError`: full
disk, kill, unsupported gate) leaves any beginning of the text, cut between
lines or between two numbers of a line; numbers have one digit, so no cut leaves
a different number. The reader then runs as a later command on a complete, a
truncated or a hand-written file. The readers' silent tolerances are in the
model: surplus tokens in a `.syncirc` gate, a table of any length, the ignored
gate count of a `.bristol` file.

**`EmitVerilog`**. The module text as a list of declarations and assignments,
written one loop iteration at a time.

**`Export`** extends `Linearize` and instantiates `BristolFile` and
`EmitVerilog`: a command exports a circuit to Bristol, and a later one reads the
file; or it prints Verilog; or it reads a hand-written Bristol file.

**`Torder`, `Builder`, `Flatten`**. `Torder` reads the order file line by line; a
file may be cut anywhere. In `Builder` a frame `[module, offset, translations,
index]` is a `ModuleProgress` with its `ModuleInstantiation`. `BuildTopModule`
starts; `BuildGate` builds one cell; an instance takes `EnterModule` (input
ports), one `ConnectOutput` per output bit (each may change the parent's
translations, which the next one reads) and `PushModule`; `LeaveModule` resumes
the parent; `BuildOutputs` ends. Refused cells, a module the order does not list
(`NoOrder`) and a cell the netlist does not have (`UnknownCell`) have actions of
their own. A bit is a label or `Zero`, `One`, `X`. `Flatten` composes the two.

**`Driver`, `Compiler`**. A file holds what it was made from: root and version of
the source, whether it has LUTs, whether it is whole. Each step of a command, and
each file Yosys reads or writes, is an action; a tool may fail and leave its
output as it was or damaged, a command may be killed at any step (the tool goes
with it), and the user may save a new version at any time. `overlapped` records
whether two commands ever ran together. `Compiler` is the abstract
specification: a command that succeeds leaves the output of a version the source
had while it ran, one that fails leaves the output as it was, damaged or new.

**`ProcNodes`, `ProcNetwork`**. `ProcNodes` has the networks, their nodes and
queues, and `Dataflow`, the reference: any node whose operands are there
may fire, once per iteration. `ProcNetwork` is the interpreter, one action per
node passed, run, round and tick, with its three methods and `ResetState`.

**`NocSimulator`**. One action per cycle started and per tick; in a tick each
component tries to bring flits forward and credits backward. Cycle numbers are
only compared with the current one, so they become the flags ready and done.

**`StreamBuffer`, `BufferedStream`, `PipelinedBlock`**. `StreamBuffer` has the
registers of a flop, a skid buffer and a zero-latency buffer and what a clock
edge does to them. `BufferedStream` puts one between a producer and a consumer;
`BoundedFifo` is what it promises. `PipelinedBlock` is the block made of a proc,
one action per clock cycle; its signals are operators named after the functions
that add the logic. `Ref` is the proc executed one activation after the other.

**`IrNodes` and the passes**. A function is a set of numbered nodes with
operands, width and a data field. Each pattern of `MatchArithPatterns`,
`CanonicalizeNode` and the like is an operator that yields the rewritten graph
or nothing. `SimplificationPass` runs the passes in rounds as
`FixedPointCompoundPassBase` does; the sweeps of canonicalization and arithmetic
simplification go node by node, the other passes are one step each.

**`CircuitFamily`** holds the small circuits the `MC` modules start from.
Definitions named `X_Something` are deliberately wrong variants of `X`. Replacing
`X` by one shows that the property listed with it in `PROJECT.json` fails.

## Runs

| run | what it asks | distinct states |
|---|---|---|
| `export` | wire accounting of `Linearize`, meaning of what is read back, cut files, Verilog | 876 896 |
| `eval_circuit` | one pass solves the gate equations | 60 844 |
| `statistics` | longest path, nothing lost, no wild index, counts | 13 833 |
| `syncirc_file` | round trip, sized arrays, visible truncation | 99 644 |
| `builder` | disjoint instances, meaning, cut order files | 1 009 246 |
| `driver` | leftovers, sources, refinement of `Compiler` | 236 910 |
| `proc_network` | deadlock reports, schedule, refinement of `Dataflow`, calls return | 315 516 |
| `noc_simulator` | credits, order, arrival | 261 879 |
| `stream_buffer` | refinement of `BoundedFifo`, flushing | 2 984 |
| `pipelined_block` | the block carries out the proc, handshake, delivery | 13 260 |
| `simplification` | meaning, no failure, nothing redundant, end of the rounds | 101 217 |

`builder_nested` is expected to fail. When a module below the top has as its own
output a forwarded, repeated or constant output of an instance in it, the
redirection is stored under a key no look-up uses, and the output stays
undriven. `FlatteningFaithful` leaves out exactly these netlists (`PassesOn`).
All Yosys scripts of the repository flatten the design first, so the compiler
itself rarely hands the builder a hierarchy.

What the runs say:

- *Export.* The assertions of `Linearize` hold, the numbers set aside are those
  used, and whoever reads a completed export gets a circuit that computes what
  the source does. A cut Bristol file loses gates at its end only.
- *Flattening.* From a whole order file the flat circuit computes what the
  hierarchy does. The order file has no end marker: a cut one may be accepted,
  and then gates of the last module it lists, and of no other, are missing.
- *Driver.* Commands one after the other never suffer from leftovers and keep
  the promise of `Compiler`. Commands that overlap in a directory can run each
  other's script and end with an old output or one without all of its gates;
  what still holds is that no source is harmed (`SourcesKept`) and that no
  output is that of another source (`OwnSource`). A root with both a C and a
  Verilog source is left out: its `.v` file is overwritten and removed.
- *Procs.* The interpreter implements the dataflow network, reports deadlock
  only when every proc waits for data, and its schedule does not show; the
  hardware block delivers what the proc sends under every pattern of valid and
  ready. The two are separate models with the same kind of reference.
- *Optimizer.* No sequence of rewritings changes a function or goes on for ever,
  outside the inputs listed under the deviations.

### Bounds

`MaxWire = 2`, `MaxGates = 2` and one or two outputs give every circuit of up to
two gates over three wires: a constant, an inverter, an AND and a LUT feeding
one another, inputs and gates as outputs, repeated outputs, unused wires, and no
inputs or duplicate inputs. Fixed circuits add the three- and four-input gates,
XOR, five wires, an undriven output, and paths of different length that meet
again. Renumbering and evaluation treat gates one at a time, so two gates are
enough for a gate to depend on an earlier one, to reserve a number for a later
one and to collide with it. Netlists have two and three levels and a leaf used up
to three times at two depths.

`MaxVersion = 2`, `MaxRuns = 2` in `driver`: two commands, in sequence or
overlapping, and one edit of each source. A third command would show nothing new
unless two leftovers combined; each file is overwritten before it is read, which
is what `LeftoversHarmless` checks. `MaxFed`, `MaxCalls`, `MaxTicks`,
`MaxResets` in `proc_network` allow three calls with values fed and drained
between them, which is enough to leave and resume an iteration twice. In
`noc_simulator` two flits per flow fill buffers of one; `MaxTicks = 13` is above
what any of the networks needs to converge. `MaxItems` (3 and 4) exceeds the
places in a buffer and in two stages. `MaxId = 60` is never reached in
`simplification`: a function that reached it could not go on, and deadlock is
checked.

**Deadlock** is checked in the five XLS runs. It is off in the others: each of
those models is a program that ends.

**Fairness.** `ProcNetwork`: weak fairness of `Step`, a call in progress goes on,
as the interpreter is one thread. `NocSimulator`: weak fairness of
`RunCycle \/ Tick`, the caller keeps simulating. `BufferedStream` and
`PipelinedBlock`: the clock runs, consumers are ready again and again and
producers offer all they have; ready need not stay. `SimplificationPass`: the
sequential code keeps running. The other models claim no liveness.

## Deviations

Where the code and what is said of it part, apart from `builder_nested`:

- `Linearize.zig:5-6` places the first output one number lower than line 159.
- `BristolParser.zig:55` documents the number of gates and line 59 skips it, so a
  Bristol file that lost its last gates is accepted. The outputs of a `.syncirc`
  file come last, so such files do not have this problem (`TruncationVisible`).
- `EmitVerilog.zig:182` and `:204` print three- and four-input ANDs with `^`, and
  line 117 assigns from the output port instead of to it. `VerilogFaithful` is
  about the other gates.
- The loop bound is documented as 1000 by default (`main.zig:42`) and is 10 000
  (line 87); one above 255 is refused, being parsed as `u8` (line 122).
- `arith_simplification_pass.cc:393` turns a signed division by 2^k into an
  arithmetic shift, which rounds down; `src/xls/docs_src/ir_semantics.md:286`
  says division rounds toward zero. Line 77 asks a select for its second case
  without a look at their number. Line 633 slices the sign bit of a zero-width
  value. With `Functions0 <- Halves`, `OneCase` or `Signless` in
  `MCSimplification.cfg` TLC finds `SemanticsPreserved`, `NeverFails` and
  `NeverFails` violated.
- `block_conversion.cc:1855`: a combinational block with two inputs accepts a
  value from one while the other has none, and loses it. Line 2196: a receive
  whose predicate is false yields the data pins, where
  `ir_semantics.md:444` says zero. With `Blocks <- Combinational` or `Unguarded`
  in `MCPipelinedBlock.cfg` TLC finds `Accounted` and `InOrder` violated. Line
  2207: a receive that does not wait is looked at in every cycle, so two sends of
  one activation that go through in different cycles may differ.
- `proc_interpreter.cc:129` reads through `visitor_`, null before the first run,
  where `proc_interpreter.h:85` promises a NotFound error; in `ProcNetwork` the
  action `ResolveState` then gives the outcome `null`. Any node executed counts
  as progress (`proc_network_interpreter.cc:169`), so a first `Tick` of two procs
  that wait for each other returns without an error although no iteration is
  complete; `proc_network_interpreter.h:42-44` says that without conditional
  sends and receives exactly one iteration is executed.
- `channel_queue.cc:44` tests for emptiness and removes the front under two
  separate locks, where `channel_queue.h:68` calls the queue thread-safe.
- `sim_objects.cc:268` compares the tick limit before it looks at the result, so a
  cycle that converges in its last allowed tick is reported as one that does not.

## Proofs

| theorem | module | statement |
|---|---|---|
| `TypeCorrect` | `EvalCircuitProofs` | `Spec => []TypeOK` |
| `PrefixCorrect` | `EvalCircuitProofs` | `Spec => []PrefixConsistent` |
| `EvaluationCorrect` | `EvalCircuitProofs` | `Spec => []ComputesTheSolution` |
| `TypeCorrect` | `LinearizeProofs` | `Spec => []TypeOK` |
| `NumbersStable` | `LinearizeProofs` | `Spec => MappingStable` |
| `OutputsMappedOnce` | `LinearizeProofs` | `Spec => []OutputMappedOnce` |

They hold for circuits of any size; the only assumptions are that the circuits
satisfy `IsCircuit` (`CircuitsAssumption`) and that the input bits are lists of
bits (`InputBitsAssumption`). `CircuitLemmas` holds the facts about nodes that
both use, above all that the value of a node depends on its own inputs only
(`NodeValueLocal`). The theorems about `Linearize` are about its `Spec`; the run
`export` checks the same formulas where `Linearize` is part of `Export`.

*Evaluation.* `PrefixConsistent` is not inductive: it is silent while the inputs
are stored, and says nothing of other solutions. `LoopInv` adds which inputs have
been stored, that wires driven so far agree with every solution of the gate
equations, and that the outputs were read from the final wires. The central step
is `NextGateIsolated`: in a well-shaped circuit the wire the next gate writes is
neither an input nor read or driven by an earlier gate, so earlier equations
survive. Agreement with every solution is carried along the loop, gate by gate;
no induction over the list is needed.

*Renumbering.* `TypeOK` is not inductive either: emitting a gate looks up its
wires, and the result is a number only if they are mapped. `Mapped` adds, per
phase, which wires have a number: the inputs passed so far, then all inputs, then
the outputs passed so far; before the gates, only ports have one, which gives
`OutputsMappedOnce`. `StepExtends` shows that each action only adds a
mapping for a wire that has none, which gives `NumbersStable`.

## Only model-checked

- All liveness: fairness is beyond the prover.
- `FreshWireAvailable`, `AccountingExact` and `SemanticsPreserved` of
  `Linearize`.
- Everything about depth, the builder, the files, the export, the driver and
  XLS. The refinements (`Refines`, `RefinesDataflow`, `IsFifo`) are checked by
  TLC.
- `ReportCorrect`, `FlatteningFaithful` and the optimizer's `SemanticsPreserved`
  compare with references defined by recursion, and what a recursive definition
  computes for every input cannot be proved here. The end of the sequential
  passes of `src/src` is not stated as a property; each is a bounded loop.

## Not modelled

- SynCirc: argument parsing apart from the refused combinations, printing,
  allocation failure, wire numbers wider than any real circuit, lines longer than
  the readers' buffers, JSON shape errors, a conversion onto its own input file
  (which nothing prevents). Failed safety checks are a stop (`panic`), which is
  what debug and safe builds do; a build without the checks is not covered.
  `dead_node_elimination.zig` is not called and does not match `Circuit.zig`.
- Tools: what XLS and Yosys compute for the driver, and the technology maps.
- Procs: failing asserts and traces, generated and fixed queues, locks;
  `TickUntilOutput` waits for one channel. Networks: route computation,
  statistics, connections with different or no virtual channels.
- Blocks: functions, single-value channels, reset after the start, idle output.
  Producers keep valid until the transfer, as the handshake demands.
- Optimizer: types other than bits, and the passes that rest on query engines or
  work on arrays, tuples, calls and loops; they are left out with the option
  `skip_passes`. Dead code is removed from a function before it is looked at.
- The rest of XLS. The vendored tree is more than 180 000 lines of C++, most of
  it front ends, JIT compilation, Verilog generation, solvers and netlist tools,
  which translate rich data in one thread; a model of them would be a
  transliteration. The models cover a small share of its lines. Parts that could
  be modelled and are not: the pipeline schedulers, the graph algorithms of
  `data_structures`, the remaining passes.

## Plan

1. Proofs for `Linearize`. A counting invariant: `next_free_wire_number`, the
   unmapped wires and the extra wires still to come add up to the numbers below
   the output slots. It gives `FreshWireAvailable` and `AccountingExact`. Then
   injectivity of the numbers, and a description of the nodes emitted so far,
   for `SemanticsPreserved`.
2. Proofs for the files (`WiresBounded`), for `DepthAnalysis`
   (`RelaxedOrPending`), for `Builder` (`InstancesDisjoint`) and for the
   refinements of `Driver` and `BufferedStream`.
