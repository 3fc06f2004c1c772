-------------------------- MODULE SimplificationPass --------------------------
(***************************************************************************)
(* The SimplificationPass of src/xls/xls/passes/standard_pipeline.cc on    *)
(* one function: a list of passes run again and again until a round        *)
(* changes nothing, without those of the option skip_passes.  The passes   *)
(* that simplify node by node do so in sweeps, to a fixed point of theirs  *)
(* (FunctionBasePass::TransformNodesToFixedPoint); the others are one step.*)
(***************************************************************************)
EXTENDS ArithSimplification, Canonicalization, ComparisonSimplification, BitSliceSimplification,
        ConcatSimplification, Reassociation

CONSTANTS
  Functions0,  \* the graphs the pass is run on
  SkipPasses,  \* PassOptions::skip_passes
  MaxId        \* bound: no rewriting once this many node ids are taken

VARIABLES
  g,           \* the function
  pass,        \* the number in Passes of the pass that runs
  at,          \* the node the sweep has come to, 0 for none left
  simplified,  \* simplified_node_ids of the running pass
  sweepChanged, passChanged, roundChanged,
  status,      \* "running", "done", or "failed" with an error
  meaning      \* history: what the function returned for each argument at first

vars == <<g, pass, at, simplified, sweepChanged, passChanged, roundChanged, status, meaning>>

AllPasses ==
  <<"ident_remove", "const_fold", "dce", "canon", "dce", "arith_simp", "dce",
    "comparison_simp", "dce", "table_switch", "dce", "select_simp", "dce", "cond_spec", "dce",
    "reassociation", "dce", "const_fold", "dce", "bitslice_simp", "dce", "concat_simp", "dce",
    "tuple_simp", "dce", "strength_red", "dce", "array_simp", "dce", "narrow", "dce",
    "arith_simp", "dce", "bool_simp", "dce", "cse">>

Passes == SelectSeq(AllPasses, LAMBDA p : p \notin SkipPasses)

NodePasses == {"canon", "arith_simp"}
SimplifyNode(p, h, n) == IF p = "canon" THEN CanonicalizeNode(h, n) ELSE MatchArithPatterns(h, n)

RunOnFunctionBase(p, h) ==
  CASE p = "ident_remove" -> IdentityRemoval(h)
    [] p = "const_fold" -> ConstantFolding(h)
    [] p = "dce" -> DeadCodeElimination(h)
    [] p = "comparison_simp" -> RunComparisonSimplification(h)
    [] p = "bitslice_simp" -> RunBitSliceSimplification(h)
    [] p = "concat_simp" -> RunConcatSimplification(h)
    [] p = "reassociation" -> RunReassociation(h)
    [] p = "cse" -> RunCse(h)

ParamIds(h) == {n \in DOMAIN h.nodes : Op(h, n) = "param"}
ArgValues(h) ==
  LET widths == [i \in {h.nodes[n].k : n \in ParamIds(h)} |->
                   h.nodes[CHOOSE n \in ParamIds(h) : h.nodes[n].k = i].w]
      most == Max({0} \cup {widths[i] : i \in DOMAIN widths})
  IN {args \in [DOMAIN widths -> 0 .. AllOnes(most)] : \A i \in DOMAIN widths : args[i] <= AllOnes(widths[i])}
Meaning(h) == [args \in ArgValues(h) |-> Interpret(h, args)]

First(h) == Min(DOMAIN h.nodes)
NextNode(h, n) == LET later == {m \in DOMAIN h.nodes : m > n} IN IF later = {} THEN 0 ELSE Min(later)

Init ==
  /\ g \in Functions0
  /\ pass = 1 /\ at = First(g) /\ simplified = {}
  /\ sweepChanged = FALSE /\ passChanged = FALSE /\ roundChanged = FALSE
  /\ status = "running"
  /\ meaning = Meaning(g)

Running == status = "running" /\ pass <= Len(Passes) /\ g.next <= MaxId
Sweeping == Running /\ Passes[pass] \in NodePasses

Skipped(n) == IsDead(g, n) /\ n \in simplified
Rewrites(n) == IF Skipped(n) THEN {} ELSE SimplifyNode(Passes[pass], g, n)

\* The pass over, on to the next one with what it found; a failed check ends
\* everything.
EndPass(h, changed) ==
  /\ g' = h
  /\ status' = IF h.ok THEN "running" ELSE "failed"
  /\ pass' = pass + 1 /\ at' = First(h) /\ simplified' = {}
  /\ sweepChanged' = FALSE /\ passChanged' = FALSE
  /\ roundChanged' = (roundChanged \/ changed)
  /\ UNCHANGED meaning

\* The sweep comes to the next node it changes.  Its successor is taken
\* before the change, so that after the last node the sweep ends, whatever
\* nodes were added.
Simplify ==
  /\ Sweeping /\ at # 0
  /\ LET hits == {n \in DOMAIN g.nodes : n >= at /\ Rewrites(n) # {}}
     IN /\ hits # {}
        /\ LET n == Min(hits)
           IN /\ g' \in Rewrites(n)
              /\ at' = NextNode(g, n)
              /\ simplified' = simplified \cup {n}
        /\ status' = IF g'.ok THEN "running" ELSE "failed"
        /\ sweepChanged' = TRUE /\ passChanged' = TRUE
        /\ UNCHANGED <<pass, roundChanged, meaning>>

SweepOver == Sweeping /\ \A n \in DOMAIN g.nodes : at # 0 /\ n >= at => Rewrites(n) = {}

SweepAgain ==
  /\ SweepOver /\ sweepChanged
  /\ at' = First(g) /\ sweepChanged' = FALSE
  /\ UNCHANGED <<g, pass, simplified, passChanged, roundChanged, status, meaning>>

EndSweeps == SweepOver /\ ~sweepChanged /\ EndPass(g, passChanged)

RunPass ==
  /\ Running /\ Passes[pass] \notin NodePasses
  /\ LET r == RunOnFunctionBase(Passes[pass], g) IN EndPass(r.g, r.changed)

NextRound_Once ==
  /\ status = "running" /\ pass > Len(Passes)
  /\ status' = "done"
  /\ UNCHANGED <<g, pass, at, simplified, sweepChanged, passChanged, roundChanged, meaning>>

\* FixedPointCompoundPassBase::RunNested
NextRound ==
  /\ status = "running" /\ pass > Len(Passes)
  /\ IF roundChanged THEN pass' = 1 /\ roundChanged' = FALSE /\ UNCHANGED status
                     ELSE status' = "done" /\ UNCHANGED <<pass, roundChanged>>
  /\ UNCHANGED <<g, at, simplified, sweepChanged, passChanged, meaning>>

Ended == status # "running" /\ UNCHANGED vars

Next == Simplify \/ SweepAgain \/ EndSweeps \/ RunPass \/ NextRound \/ Ended

\* The passes are a sequential program: it goes on while it runs.  (This is
\* WF_vars(Next), with status = "running" for its ENABLED.)
Fairness == []<>(status # "running") \/ []<><<Next>>_vars

Spec == Init /\ [][Next]_vars /\ Fairness
------------------------------------------------------------------------------
(* Properties *)

\* No rewriting of any pass (MatchArithPatterns, CanonicalizeNode, the range
\* of a comparison, SimplifyBitSlice, ...), after whichever others, changes
\* what the function returns for some argument.
SemanticsPreserved == g.ok => Meaning(g) = meaning

\* No pass ends with an error or trips over its own checks on verified IR.
NeverFails == status # "failed"

\* When the rounds end nothing is left to clean up: no node is dead, none has
\* only literals as operands, no two compute the same.
Irredundant ==
  status = "done" =>
    \A n \in DOMAIN g.nodes \ ParamIds(g) :
      /\ ~IsDead(g, n)
      /\ IsLiteral(g.nodes[n]) \/ \E m \in ToSet(g.nodes[n].a) : ~IsLiteral(g.nodes[m])
      /\ \A m \in DOMAIN g.nodes \ {n} : ~IsDefinitelyEqualTo(g, m, n)

\* The rounds of passes come to an end: no pass undoes what another one does,
\* and none goes on simplifying the same node.
Finishes == <>(status = "done")
==============================================================================
