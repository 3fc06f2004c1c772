------------------------ MODULE ConcatSimplification ------------------------
(***************************************************************************)
(* src/xls/xls/passes/concat_simplification_pass.cc: SimplifyConcat on the *)
(* concat n of graph g, the rewritings of operations around concats, and   *)
(* the pass.                                                               *)
(***************************************************************************)
EXTENDS CleanupPasses

Concat(g, n, a) == Node("concat", Width(g, n), a, 0)
Positions(a) == [j \in DOMAIN a |-> j]
IsConcat(g, n) == Op(g, n) = "concat"

\* GetOperandSliceData: the lowest bit of the j-th operand.
SliceStart(g, a, j) == MapThenSumSet(LAMBDA i : Width(g, a[i]), {i \in DOMAIN a : i > j})

OneOperand(g, n) == When(Len(g.nodes[n].a) = 1, WithOperand(g, n))

RECURSIVE ConcatLeaves(_, _)
ConcatLeaves(g, n) ==
  IF IsConcat(g, n) THEN FlattenSeq([j \in DOMAIN g.nodes[n].a |-> ConcatLeaves(g, Arg(g, n, j))]) ELSE <<n>>
FlattenConcatTree(g, n) ==
  When(\E m \in ToSet(g.nodes[n].a) : IsConcat(g, m), ReplaceUsesWithNew(g, n, <<Concat(g, n, ConcatLeaves(g, n))>>))

\* Each run of literals of more than one becomes a literal.
ReplaceConsecutiveLiteralOperands(g, n) ==
  LET a == g.nodes[n].a
      lit(j) == j \in DOMAIN a /\ IsLiteral(g.nodes[a[j]])
      heads == SelectSeq(Positions(a), LAMBDA j : ~(lit(j) /\ lit(j - 1)))
      run(j) == SelectSeq(Positions(a), LAMBDA i : i >= j /\ \A k \in j .. i : lit(k))
      merged == SelectSeq(heads, LAMBDA j : lit(j) /\ lit(j + 1))
      literal(j) == LET b == [i \in DOMAIN run(j) |-> a[run(j)[i]]]
                        ws == Widths(g, b)
                    IN Literal(ConcatValue([i \in DOMAIN b |-> g.nodes[b[i]].k], ws),
                               FoldLeft(LAMBDA x, y : x + y, 0, ws))
      id(j) == IF lit(j) /\ lit(j + 1) THEN g.next + (CHOOSE i \in DOMAIN merged : merged[i] = j) - 1 ELSE a[j]
  IN When(merged # << >>,
          ReplaceUsesWithNew(g, n, [i \in DOMAIN merged |-> literal(merged[i])]
                                   \o <<Concat(g, n, [i \in DOMAIN heads |-> id(heads[i])])>>))

EmptyOperands(g, n) ==
  LET a == g.nodes[n].a
  IN When(\E m \in ToSet(a) : Width(g, m) = 0,
          ReplaceUsesWithNew(g, n, <<Concat(g, n, SelectSeq(a, LAMBDA m : Width(g, m) # 0))>>))

\* The one reverse that uses the concat becomes a concat of reverses.
HoistReverse(g, n) ==
  LET reversed == {u \in Users(g, n) : Op(g, u) = "reverse"}
      a == Reverse(g.nodes[n].a)
      nds == [j \in DOMAIN a |-> Node("reverse", Width(g, a[j]), <<a[j]>>, 0)]
  IN When(/\ NarrowingEnabled /\ Cardinality(reversed) = 1
          /\ \A u \in Users(g, n) \ reversed : Op(g, u) \in ReduceOps,
          ReplaceUsesWithNew(g, CHOOSE u \in reversed : TRUE, Append(nds, Concat(g, n, NewIds(g, nds)))))

MergeSlices(g, n) ==
  LET a == g.nodes[n].a
      adjacent(j) ==
        LET hi == g.nodes[a[j]]
            lo == g.nodes[a[j + 1]]
        IN hi.op = "bit_slice" /\ lo.op = "bit_slice" /\ hi.a = lo.a /\ lo.k + lo.w = hi.k
      pairs == {j \in 1 .. Len(a) - 1 : adjacent(j)}
      p == Min(pairs)
      lower == g.nodes[a[p + 1]]
  IN When(pairs # {},
          ReplaceUsesWithNew(g, n,
            <<Node("bit_slice", lower.w + g.nodes[a[p]].w, lower.a, lower.k),
              Concat(g, n, SubSeq(a, 1, p - 1) \o <<g.next>> \o SubSeq(a, p + 2, Len(a)))>>))

SimplifyConcat(g, n) ==
  FirstOf(<<OneOperand(g, n), FlattenConcatTree(g, n), ReplaceConsecutiveLiteralOperands(g, n),
            EmptyOperands(g, n), HoistReverse(g, n), MergeSlices(g, n)>>)

------------------------------------------------------------------------------
(* Around concats *)

\* A bitwise operation on concats becomes a concat of operations on the bits
\* between two places where some operand of the concats begins.
TryHoistBitWiseOperation(g, n) ==
  LET nd == g.nodes[n]
      a == nd.a
      pieces == UNION {{<<c, j>> : j \in DOMAIN g.nodes[c].a} : c \in ToSet(a)}
      begins == SetToSortSeq({SliceStart(g, g.nodes[p[1]].a, p[2]) : p \in pieces}, <)
      end(i) == IF i = Len(begins) THEN nd.w ELSE begins[i + 1]
      w(i) == end(i) - begins[i]
      first(i) == g.next + (i - 1) * (Len(a) + 1)
      part(i) == [j \in DOMAIN a |-> Node("bit_slice", w(i), <<a[j]>>, begins[i])]
                 \o <<Node(nd.op, w(i), [j \in DOMAIN a |-> first(i) + j - 1], 0)>>
      ops == [i \in DOMAIN begins |-> first(i) + Len(a)]
      misshaped == \E c \in ToSet(a) : g.nodes[c].a = << >> \/ \E m \in ToSet(g.nodes[c].a) : Width(g, m) = 0
  IN When(OpIsBitWise(nd.op) /\ a # << >> /\ \A c \in ToSet(a) : IsConcat(g, c),
          IF misshaped THEN Fail(g)
          ELSE ReplaceUsesWithNew(g, n, FlattenSeq([i \in DOMAIN begins |-> part(i)]) \o <<Concat(g, n, Reverse(ops))>>))

\* A concat is equal to a value if each operand is to its slice of the value.
TryDistributeReducibleOperation(g, n) ==
  LET nd == g.nodes[n]
      c == IF IsConcat(g, nd.a[1]) THEN 1 ELSE 2
      a == g.nodes[nd.a[c]].a
      other == nd.a[3 - c]
      first(i) == g.next + (IF i = 1 THEN 0 ELSE 3 * i - 4)
      acc(i) == first(i) + (IF i = 1 THEN 1 ELSE 2)
      part(i) == <<Node("bit_slice", Width(g, a[i]), <<other>>, SliceStart(g, a, i)),
                   Node(nd.op, 1, <<a[i], first(i)>>, 0)>>
                 \o (IF i = 1 THEN << >>
                     ELSE <<Node(IF nd.op = "eq" THEN "and" ELSE "or", 1, <<acc(i - 1), first(i) + 1>>, 0)>>)
  IN IF nd.op \in {"eq", "ne"} /\ \E j \in {1, 2} : IsConcat(g, nd.a[j])
     THEN When(a # << >>, ReplaceUsesWithNew(g, n, FlattenSeq([i \in DOMAIN a |-> part(i)])))
     ELSE {}

OpToNonReductionOp(op) == CASE op = "and_reduce" -> "and" [] op = "or_reduce" -> "or" [] op = "xor_reduce" -> "xor"

TryBypassReductionOfConcatenation(g, n) ==
  LET nd == g.nodes[n]
      a == ArgNode(g, n, 1).a
      nds == [j \in DOMAIN a |-> Node(nd.op, 1, <<a[j]>>, 0)]
  IN When(nd.op \in ReduceOps /\ IsConcat(g, nd.a[1]),
          ReplaceUsesWithNew(g, n, Append(nds, Node(OpToNonReductionOp(nd.op), 1, NewIds(g, nds), 0))))

AroundConcat(g, n) ==
  FirstOf(<<TryHoistBitWiseOperation(g, n), TryDistributeReducibleOperation(g, n),
            TryBypassReductionOfConcatenation(g, n)>>)

RECURSIVE DrainConcats(_, _)
DrainConcats(r, worklist) ==
  IF worklist = << >> \/ ~r.g.ok THEN r
  ELSE LET step == WorkOnHead(r, worklist, "concat", SimplifyConcat) IN DrainConcats(step.r, step.rest)

RunConcatSimplification(g) ==
  LET concats == SelectSeq(NodeIds(g), LAMBDA n : IsConcat(g, n))
      r == DrainConcats(Result(g, FALSE), concats)
      s == Sweep(r.g, TopoSort(r.g), AroundConcat)
  IN IF NarrowingEnabled THEN Result(s.g, r.changed \/ s.changed) ELSE r
=============================================================================
