------------------------------ MODULE MCBuilder ------------------------------
EXTENDS Flatten, SequencesExt

GateCell(tag, ins, out) == [type |-> tag, ins |-> ins, outs |-> <<out>>, table |-> << >>]
Instance(name, ins, outs) == [type |-> name, ins |-> ins, outs |-> outs, table |-> << >>]
LutCell(ins, table, out) == [type |-> "lut", ins |-> ins, outs |-> <<out>>, table |-> table]

Pairs(S) == {<<a>> : a \in S} \cup {<<a, b>> : a \in S, b \in S}

(* A leaf forwards, inverts, repeats or fixes its outputs.                 *)
Leaves ==
  {[inputs |-> <<2>>, outputs |-> outs, cells |-> << >>]
     : outs \in Pairs({2, Zero, X})}
    \cup {[inputs |-> <<2>>, outputs |-> outs, cells |-> <<GateCell("inv", <<2>>, 3)>>]
            : outs \in Pairs({2, 3, One})}
    \cup {[inputs |-> <<2>>, outputs |-> outs,
           cells |-> <<GateCell("inv", <<2>>, 3), GateCell("inv", <<3>>, 4)>>]
            : outs \in {<<4>>, <<4, 3>>, <<2, 4>>}}

(* A module in the middle, or the top: one leaf, and a gate after it.      *)
Around(leaf) ==
  LET wires == [k \in DOMAIN leaf.outputs |-> 3 + k]
  IN  {[inputs |-> <<2, 3>>, outputs |-> outs,
        cells |-> << Instance("leaf", <<b>>, wires), GateCell("and", <<4, 3>>, 7) >>]
         : b \in {3, One}, outs \in {<<7>>, <<7, 2>>, <<4, 7>>}}

(* Two levels, and three with the leaf used again at the top.              *)
TwoLevels == {[top |-> "main", modules |-> [main |-> m, leaf |-> l]] :
                m \in UNION {Around(l) : l \in Leaves}, l \in Leaves}

Fits(n) == \A name \in DOMAIN n.modules : \A k \in DOMAIN n.modules[name].cells :
             LET c == n.modules[name].cells[k]
             IN  c.type \in DOMAIN n.modules =>
                   /\ Len(c.outs) = Len(n.modules[c.type].outputs)
                   /\ Len(c.ins) = Len(n.modules[c.type].inputs)

Top(mid, leaf) ==
  LET outs == [k \in DOMAIN mid.outputs |-> 9 + k]
      wires == [k \in DOMAIN leaf.outputs |-> 3 + k]
  IN  {[inputs |-> <<3, 2>>, outputs |-> <<12, 10, 4>>,
        cells |-> << Instance("mid", <<3, 2>>, outs), Instance("leaf", <<10>>, wires),
                     LutCell(<<4, Zero>>, <<0, 0, 1, 0>>, 12) >>],
       [inputs |-> <<2, 3>>, outputs |-> <<6, 4, 10>>,
        cells |-> << Instance("leaf", <<2>>, wires), Instance("mid", <<3, 4>>, outs),
                     Instance("leaf", <<10>>, [k \in DOMAIN wires |-> 5 + k]) >>],
       [inputs |-> <<2, 3>>, outputs |-> <<4, One, 4>>,
        cells |-> << Instance("leaf", <<2>>, wires), Instance("mid", <<4, 2>>, outs) >>]}

ThreeLevels ==
  UNION {UNION {{[top |-> "main", modules |-> [main |-> m, mid |-> mid, leaf |-> l]]
                   : m \in Top(mid, l)}
                : mid \in Around(l)}
         : l \in Leaves}

Single(m) == [top |-> "main", modules |-> [main |-> m]]

(* A cell of no known type, constants where no gate takes one, an output   *)
(* that is undefined.                                                      *)
Refused ==
  {Single([inputs |-> <<2>>, outputs |-> outs, cells |-> <<c>>]) :
     outs \in {<<3>>, <<X>>},
     c \in {GateCell("$_DFF_", <<2>>, 3), GateCell("and", <<2, One>>, 3),
            LutCell(<<X, 2>>, <<0, 0, 0, 1>>, 3), GateCell("inv", <<2>>, 3)}}

AllNetlists == {n \in TwoLevels \cup ThreeLevels : Fits(n)} \cup Refused

-----------------------------------------------------------------------------
(***************************************************************************)
(* The reference: what a hierarchical netlist computes, module by module.  *)
(* An undefined bit counts as 0.  The first entry of a LUT table is the    *)
(* one for inputs that are all 1, as Yosys prints a parameter.             *)
(***************************************************************************)
BitValue(env, b) == IF IsLabel(b) THEN env[b] ELSE b = One

Extended(env, labels, values) ==
  [l \in DOMAIN env \cup Range(labels) |->
     IF l \in DOMAIN env THEN env[l]
     ELSE values[CHOOSE k \in DOMAIN labels : labels[k] = l]]

RECURSIVE Computes(_, _)
Computes(m, bits) ==
  LET Step(env, cell) ==
        LET args == [p \in DOMAIN cell.ins |-> BitValue(env, cell.ins[p])]
        IN  IF cell.type = "lut"
            THEN Extended(env, cell.outs,
                          <<cell.table[Len(cell.table) - LutIndex(args)] = 1>>)
            ELSE IF cell.type \in Tag
            THEN Extended(env, cell.outs, <<GateValue(cell.type, << >>, args)>>)
            ELSE Extended(env, cell.outs, Computes(netlist.modules[cell.type], args))
      env == FoldLeft(Step, Extended(<< >>, m.inputs, bits), m.cells)
  IN  [k \in DOMAIN m.outputs |-> BitValue(env, m.outputs[k])]

FlatValues(bits) ==
  FoldLeft(LAMBDA env, node : Extended(env, <<node.out>>, <<NodeValue(node, env)>>),
           Extended(<< >>, circuit.inputs, bits), circuit.nodes)

(* Torder.parse accepts every complete order file, and the flat circuit    *)
(* build makes from it computes what the hierarchy of modules computes.    *)
FlatteningFaithful ==
  /\ whole => reader \notin {"error", "panic"}
  /\ phase = "done" /\ whole /\ SoundNetlist(netlist) /\ ~PassesOn(netlist) =>
       \A bits \in [DOMAIN circuit.inputs -> BOOLEAN] :
         [k \in DOMAIN circuit.outputs |-> FlatValues(bits)[circuit.outputs[k]]]
           = Computes(netlist.modules[netlist.top], bits)
=============================================================================
