---------------------------- MODULE CleanupPasses ----------------------------
(***************************************************************************)
(* The passes of src/xls/xls/passes that leave expressions as they are or  *)
(* replace them as wholes: dead code elimination, constant folding, common *)
(* subexpression elimination and identity removal.  A pass is a function   *)
(* of the graph to the graph and whether it says that it changed it.       *)
(* A parameter counts as a node with a side effect: it is never removed,   *)
(* folded or merged.                                                       *)
(***************************************************************************)
EXTENDS IrNodes

OpIsSideEffecting(op) == op = "param"

Result(g, changed) == [g |-> g, changed |-> changed]

IsDeletable(g, n) == g.ret # n /\ ~OpIsSideEffecting(Op(g, n))

RECURSIVE RemoveAll_Shared(_, _)
RemoveAll_Shared(g, worklist) ==
  IF worklist = << >> \/ ~g.ok THEN g
  ELSE LET n == Head(worklist)
       IN RemoveAll_Shared(RemoveNode(g, n), Tail(worklist) \o SelectSeq(Unique(g.nodes[n].a), LAMBDA m : IsDeletable(g, m)))

\* The operands whose only user goes are queued before the node is removed.
RECURSIVE RemoveAll(_, _)
RemoveAll(g, worklist) ==
  IF worklist = << >> \/ ~g.ok THEN g
  ELSE LET n == Head(worklist)
           freed == SelectSeq(Unique(g.nodes[n].a),
                              LAMBDA m : Cardinality(Users(g, m)) = 1 /\ IsDeletable(g, m))
       IN RemoveAll(RemoveNode(g, n), Tail(worklist) \o freed)

DeadCodeElimination(g) ==
  LET dead == SelectSeq(NodeIds(g), LAMBDA n : Users(g, n) = {} /\ IsDeletable(g, n))
  IN Result(RemoveAll(g, dead), dead # << >>)

\* One sweep over the nodes in the given order, fixed beforehand.
Sweep(g, order, Visit(_, _)) ==
  FoldLeft(LAMBDA r, n : IF ~r.g.ok THEN r
                         ELSE LET hit == Visit(r.g, n)
                              IN IF hit = {} THEN r ELSE Result(CHOOSE h \in hit : TRUE, TRUE),
           Result(g, FALSE), order)

\* One round of a worklist of the nodes with the given op: the new ones that
\* a rewriting makes are queued behind the others.
WorkOnHead(r, worklist, op, Simplify(_, _)) ==
  LET hit == Simplify(r.g, Head(worklist))
      h == CHOOSE x \in hit : TRUE
      made == SelectSeq([j \in 1 .. h.next - r.g.next |-> r.g.next + j - 1], LAMBDA m : Op(h, m) = op)
  IN IF hit = {} THEN [r |-> r, rest |-> Tail(worklist)]
     ELSE [r |-> Result(h, TRUE), rest |-> Tail(worklist) \o made]

FoldConstant(g, n) ==
  LET nd == g.nodes[n]
      args == [j \in DOMAIN nd.a |-> g.nodes[nd.a[j]]]
  IN When(/\ ~IsLiteral(nd) /\ ~OpIsSideEffecting(nd.op)
          /\ \A j \in DOMAIN args : IsLiteral(args[j]),
          WithLiteral(g, n, InterpretNode(nd, [j \in DOMAIN args |-> args[j].k], Widths(g, nd.a))))
ConstantFolding(g) == Sweep(g, TopoSort(g), FoldConstant)

RemoveIdentity(g, n) == When(Op(g, n) = "identity", WithOperand(g, n))
IdentityRemoval_Always(g) == Result(Sweep(g, NodeIds(g), RemoveIdentity).g, TRUE)
IdentityRemoval(g) == Sweep(g, NodeIds(g), RemoveIdentity)

\* The operands of a commutative operation are compared sorted by id.
GetOperandsForCse(nd) == IF OpIsCommutative(nd.op) THEN SortSeq(nd.a, <) ELSE nd.a
IsDefinitelyEqualTo(g, m, n) ==
  LET a == g.nodes[m]
      b == g.nodes[n]
  IN /\ a.op = b.op /\ a.w = b.w /\ a.k = b.k
     /\ Len(a.a) = Len(b.a) /\ Widths(g, a.a) = Widths(g, b.a)
     /\ GetOperandsForCse(a) = GetOperandsForCse(b)

\* A node is replaced by the first equal one of those kept so far.
MergeOrKeep(r, n) ==
  IF ~r.g.ok \/ OpIsSideEffecting(Op(r.g, n)) THEN r
  ELSE LET same == SelectSeq(r.kept, LAMBDA m : IsDefinitelyEqualTo(r.g, n, m))
       IN IF same = << >> THEN [r EXCEPT !.kept = Append(@, n)]
          ELSE [r EXCEPT !.g = ReplaceUsesWith(@, n, Head(same)), !.changed = TRUE]
RunCse(g) ==
  LET r == FoldLeft(MergeOrKeep, [g |-> g, changed |-> FALSE, kept |-> << >>], TopoSort(g))
  IN Result(r.g, r.changed)
==============================================================================
