----------------------- MODULE ComparisonSimplification -----------------------
(***************************************************************************)
(* src/xls/xls/passes/comparison_simplification_pass.cc.  A one-bit node   *)
(* may be equivalent to "node x has a value in a range": the range, an     *)
(* IntervalSet of the code, is the set of its values.                      *)
(***************************************************************************)
EXTENDS CleanupPasses

Values(w) == 0 .. AllOnes(w)
Complement(range, w) == Values(w) \ range

MakeULtRange_Closed(limit) == Values(limit.w) \cap (0 .. limit.k)
MakeULtRange(limit) == Values(limit.w) \cap (0 .. limit.k - 1)
MakeUGtRange(limit) == Values(limit.w) \cap (limit.k + 1 .. AllOnes(limit.w))

\* The equivalence [node, range] as a singleton, {} for none.
ReduceEquivalence(g, eqs, Reduce(_), complement) ==
  LET x == eqs[1].node
      range == Reduce({e.range : e \in ToSet(eqs)})
  IN When(eqs # << >> /\ \A e \in ToSet(eqs) : e.node = x,
          [node |-> x, range |-> IF complement THEN Complement(range, Width(g, x)) ELSE range])

Intersection(sets) == {v \in UNION sets : \A s \in sets : v \in s}

CompareEquivalence(g, nd) ==
  LET onLeft == IsLiteral(g.nodes[nd.a[1]])
      lit == g.nodes[IF onLeft THEN nd.a[1] ELSE nd.a[2]]
      other == IF onLeft THEN nd.a[2] ELSE nd.a[1]
      inRange(S) == {[node |-> other, range |-> S]}
      below == nd.op = "ult"
  IN CASE nd.op = "eq" -> inRange({lit.k})
       [] nd.op = "ne" -> inRange(Complement({lit.k}, lit.w))
       [] nd.op \in {"ult", "ugt"} -> inRange(IF below # onLeft THEN MakeULtRange(lit) ELSE MakeUGtRange(lit))
       [] OTHER -> {}

\* eq maps the nodes before n that have an equivalence to it.
ComputeRangeEquivalence(g, n, eq) ==
  LET nd == g.nodes[n]
      eqs == [j \in DOMAIN nd.a |-> eq[nd.a[j]]]
      union(sets) == UNION sets
  IN IF nd.w # 1 THEN {}
     ELSE IF nd.op \in CompareOps /\ \E j \in {1, 2} : IsLiteral(g.nodes[nd.a[j]])
     THEN CompareEquivalence(g, nd)
     ELSE IF ~ToSet(nd.a) \subseteq DOMAIN eq THEN {}
     ELSE CASE nd.op = "and" -> ReduceEquivalence(g, eqs, Intersection, FALSE)
            [] nd.op = "or" -> ReduceEquivalence(g, eqs, union, FALSE)
            [] nd.op \in {"not", "nand"} -> ReduceEquivalence(g, eqs, Intersection, TRUE)
            [] nd.op = "nor" -> ReduceEquivalence(g, eqs, union, TRUE)
            [] OTHER -> {}

RangeEquivalences(g) ==
  FoldLeft(LAMBDA eq, n :
             LET e == ComputeRangeEquivalence(g, n, eq)
             IN [m \in DOMAIN eq \cup {k \in {n} : e # {}} |-> IF m = n THEN CHOOSE x \in e : TRUE ELSE eq[m]],
           << >>, TopoSort(g))

\* C of x < C, of x > C, if the range is that of one.
GetULtInterval(range, w) == {c \in 1 .. AllOnes(w) : range = 0 .. c - 1}
GetUGtInterval(range, w) == {c \in 0 .. AllOnes(w) - 1 : range = c + 1 .. AllOnes(w)}

\* The node becomes a constant, or the comparison of x that its range stands
\* for unless it already is one.
SimplifyRange(g, n, x, range) ==
  LET w == Width(g, x)
      op == Op(g, n)
      rest == Complement(range, w)
      compare(cmp, c) == ReplaceUsesWithNew(g, n, <<Literal(c, w), Node(cmp, 1, <<x, g.next>>, 0)>>)
      Single(S) == CHOOSE v \in S : TRUE
  IN CASE rest = {} -> {WithLiteral(g, n, 1)}
       [] rest # {} /\ range = {} -> {WithLiteral(g, n, 0)}
       [] rest # {} /\ Cardinality(range) = 1 ->
            When(op \notin {"eq", "ne"}, compare("eq", Single(range)))
       [] Cardinality(rest) = 1 /\ Cardinality(range) > 1 ->
            When(op \notin {"eq", "ne"}, compare("ne", Single(rest)))
       [] OTHER ->
            IF op \in CompareOps THEN {}
            ELSE {compare("ult", c) : c \in GetULtInterval(range, w)}
                 \cup {compare("ugt", c) : c \in GetUGtInterval(range, w)}

\* The ranges are those of the graph the pass began with.
RunComparisonSimplification(g) ==
  LET eq == RangeEquivalences(g)
  IN Sweep(g, TopoSort(g), LAMBDA h, n : IF n \in DOMAIN eq THEN SimplifyRange(h, n, eq[n].node, eq[n].range)
                                                          ELSE {})
===============================================================================
