--------------------------- MODULE Canonicalization ---------------------------
(***************************************************************************)
(* src/xls/xls/passes/canonicalization_pass.cc: CanonicalizeNode on node n *)
(* of graph g.                                                             *)
(***************************************************************************)
EXTENDS IrNodes

CompareOpCommuted(op) ==
  CASE op \in {"eq", "ne"} -> op
    [] op = "sge" -> "sle" [] op = "sle" -> "sge" [] op = "sgt" -> "slt" [] op = "slt" -> "sgt"
    [] op = "uge" -> "ule" [] op = "ule" -> "uge" [] op = "ugt" -> "ult" [] op = "ult" -> "ugt"

LiteralOnLeft(g, n) == IsLiteral(ArgNode(g, n, 1)) /\ ~IsLiteral(ArgNode(g, n, 2))

CommuteLiteral(g, n) ==
  LET nd == g.nodes[n]
  IN When(OpIsCommutative(nd.op) /\ Len(nd.a) = 2 /\ LiteralOnLeft(g, n),
          ReplaceUsesWithNew(g, n, <<Node(nd.op, nd.w, <<nd.a[2], nd.a[1]>>, nd.k)>>))

CommuteCompare(g, n) ==
  When(Op(g, n) \in CompareOps /\ LiteralOnLeft(g, n),
       ReplaceUsesWithNew(g, n, <<Node(CompareOpCommuted(Op(g, n)), 1, <<Arg(g, n, 2), Arg(g, n, 1)>>, 0)>>))

\* UGe(x, K) is UGt(x, K - 1), ULe(x, K) is ULt(x, K + 1), where these exist.
StrictCompare(g, n) ==
  LET k == ArgNode(g, n, 2)
      strict(op, v) == ReplaceUsesWithNew(g, n, <<Literal(v, k.w), Node(op, 1, <<Arg(g, n, 1), g.next>>, 0)>>)
  IN IF Op(g, n) \in {"uge", "ule"} /\ IsLiteral(k)
     THEN When(Op(g, n) = "uge" /\ k.k # 0, strict("ugt", k.k - 1))
          \cup When(Op(g, n) = "ule" /\ ~IsLiteralAllOnes(k), strict("ult", k.k + 1))
     ELSE {}

AreSequentialLiterals(m, n) == IsLiteral(m) /\ IsLiteral(n) /\ m.k + 1 = n.k
AreEqualLiterals(m, n) == IsLiteral(m) /\ IsLiteral(n) /\ m.k = n.k

\* a cmp b ? c : d becomes a > K ? K : a (a limit from above) or a < K ? K : a
\* (one from below); in the first of the six forms that fits, K is c or d.
MaybeCanonicalizeClamp(g, n) ==
  LET sel == g.nodes[n]
      cmp == g.nodes[sel.a[1]]
      a == cmp.a[1]
      c == sel.a[3]
      d == sel.a[2]
      lb == g.nodes[cmp.a[2]]
      lc == g.nodes[c]
      ld == g.nodes[d]
      clamp(op, k) == ReplaceUsesWithNew(g, n, <<Node(op, 1, <<a, k>>, 0), Node("sel", sel.w, <<g.next, a, k>>, 2)>>)
  IN IF sel.op = "sel" /\ sel.k = 2 /\ cmp.op \in CompareOps
     THEN FirstOf(<<
            When(cmp.op = "ugt" /\ a = d /\ AreSequentialLiterals(lb, lc), clamp("ugt", c)),
            When(cmp.op = "ult" /\ a = c /\ AreEqualLiterals(lb, ld), clamp("ugt", d)),
            When(cmp.op = "ult" /\ a = c /\ AreSequentialLiterals(ld, lb), clamp("ugt", d)),
            When(cmp.op = "ult" /\ a = d /\ AreSequentialLiterals(lc, lb), clamp("ult", c)),
            When(cmp.op = "ugt" /\ a = c /\ AreEqualLiterals(lb, ld), clamp("ult", d)),
            When(cmp.op = "ugt" /\ a = c /\ AreSequentialLiterals(lb, ld), clamp("ult", d))>>)
     ELSE {}

SubOfLiteral(g, n) ==
  LET k == ArgNode(g, n, 2)
  IN When(Op(g, n) = "sub" /\ IsLiteral(k),
          ReplaceUsesWithNew(g, n, <<Literal((-k.k) % 2^k.w, k.w),
                                     Node("add", Width(g, n), <<Arg(g, n, 1), g.next>>, 0)>>))

UselessExtend(g, n) ==
  When(Op(g, n) \in ExtendOps /\ Width(g, n) = ArgNode(g, n, 1).w, WithOperand(g, n))

ZeroExtend(g, n) ==
  When(Op(g, n) = "zero_ext",
       ReplaceUsesWithNew(g, n, <<Literal(0, Width(g, n) - ArgNode(g, n, 1).w),
                                  Node("concat", Width(g, n), <<g.next, Arg(g, n, 1)>>, 0)>>))

CanonicalizeNode(g, n) ==
  FirstOf(<<CommuteLiteral(g, n), CommuteCompare(g, n), StrictCompare(g, n),
            MaybeCanonicalizeClamp(g, n), SubOfLiteral(g, n), UselessExtend(g, n), ZeroExtend(g, n)>>)
===============================================================================
