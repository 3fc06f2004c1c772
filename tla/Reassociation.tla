---------------------------- MODULE Reassociation ----------------------------
(***************************************************************************)
(* src/xls/xls/passes/reassociation_pass.cc: a tree of adds and subtracts  *)
(* becomes one subtract of two sums, and a tree of adds or of multiplies a *)
(* balanced one with its literals together.  Both go over the nodes from   *)
(* the users down and skip the nodes inside a tree they have been at.      *)
(***************************************************************************)
EXTENDS CleanupPasses

NodeAndOperandsSameType(g, n) == \A m \in ToSet(g.nodes[n].a) : Width(g, m) = Width(g, n)

Visit(r, interior) == [r EXCEPT !.visited = @ \cup ToSet(interior)]

------------------------------------------------------------------------------
(* ReassociateSubtracts *)

\* The terms of the sum, those that are subtracted marked, and the nodes
\* inside the tree.
RECURSIVE GatherAddsAndSubtracts(_, _, _)
GatherAddsAndSubtracts(g, n, negated) ==
  IF Op(g, n) \in {"add", "sub"} /\ NodeAndOperandsSameType(g, n)
  THEN LET l == GatherAddsAndSubtracts(g, Arg(g, n, 1), negated)
           r == GatherAddsAndSubtracts(g, Arg(g, n, 2), IF Op(g, n) = "sub" THEN ~negated ELSE negated)
       IN [leaves |-> l.leaves \o r.leaves, interior |-> <<n>> \o l.interior \o r.interior]
  ELSE [leaves |-> <<[negated |-> negated, node |-> n]>>, interior |-> << >>]

\* CreateSum: the nodes of a right-leaning tree of adds, and its root, when
\* the first of the nodes has the given id.
SumNodes(w, s, first) ==
  [i \in 1 .. Len(s) - 1 |-> Node("add", w, <<s[Len(s) - i], IF i = 1 THEN Last(s) ELSE first + i - 2>>, 0)]
SumRoot(s, first) == IF Len(s) = 1 THEN s[1] ELSE first + Len(s) - 2

ReassociateSubtractsAt(r, n) ==
  LET g == r.g
      w == Width(g, n)
      tree == GatherAddsAndSubtracts(g, n, FALSE)
      subtracts == SelectSeq(tree.interior, LAMBDA m : Op(g, m) = "sub")
      isNegatedLiteral(t) == t.negated /\ IsLiteral(g.nodes[t.node])
      literals == SelectSeq(tree.leaves, isNegatedLiteral)
      negate(nd) == Literal((-nd.k) % 2^nd.w, nd.w)
      made == [i \in DOMAIN literals |-> negate(g.nodes[literals[i].node])]
      indices == [i \in DOMAIN tree.leaves |-> i]
      id(i) == IF isNegatedLiteral(tree.leaves[i])
               THEN g.next + Cardinality({j \in 1 .. i - 1 : isNegatedLiteral(tree.leaves[j])})
               ELSE tree.leaves[i].node
      kept == SelectSeq(indices, LAMBDA i : tree.leaves[i].negated => isNegatedLiteral(tree.leaves[i]))
      subtracted == SelectSeq(indices, LAMBDA i : tree.leaves[i].negated /\ ~isNegatedLiteral(tree.leaves[i]))
      nonnegated == [i \in DOMAIN kept |-> id(kept[i])]
      negated == [i \in DOMAIN subtracted |-> id(subtracted[i])]
      first == g.next + Len(made)
      second == first + Len(nonnegated) - 1
      lhs == made \o SumNodes(w, nonnegated, first)
      replacement ==
        IF negated = << >> THEN ReplaceUsesWith(MakeNodes(g, lhs), n, SumRoot(nonnegated, first))
        ELSE ReplaceUsesWithNew(g, n, lhs \o SumNodes(w, negated, second)
               \o <<Node("sub", w, <<SumRoot(nonnegated, first), SumRoot(negated, second)>>, 0)>>)
  IN IF ~g.ok \/ n \in r.visited \/ Op(g, n) \notin {"add", "sub"} THEN r
     ELSE IF subtracts = << >> \/ (Len(subtracts) = 1 /\ literals = << >>) THEN Visit(r, tree.interior)
     ELSE [Visit(r, tree.interior) EXCEPT !.g = replacement, !.changed = TRUE]

------------------------------------------------------------------------------
(* Reassociate *)

\* An operand with more than one user is a leaf.
RECURSIVE GatherExpressionLeaves(_, _, _)
GatherExpressionLeaves(g, op, n) ==
  LET leaf(m) == [leaves |-> <<m>>, interior |-> << >>, depth |-> 0]
      below(m) == IF Cardinality(Users(g, m)) = 1 THEN GatherExpressionLeaves(g, op, m) ELSE leaf(m)
      l == below(Arg(g, n, 1))
      r == below(Arg(g, n, 2))
  IN IF Op(g, n) = op /\ NodeAndOperandsSameType(g, n)
     THEN [leaves |-> l.leaves \o r.leaves, interior |-> <<n>> \o l.interior \o r.interior,
           depth |-> 1 + Max({l.depth, r.depth})]
     ELSE leaf(n)

CeilOfLog2(m) == CHOOSE i \in 0 .. m : 2^i >= m /\ (i > 0 => 2^(i - 1) < m)
FloorOfLog2(m) == CHOOSE i \in 0 .. m : 2^i <= m /\ m < 2^(i + 1)

\* The graph with a balanced tree over the inputs, and the tree's root: first
\* the inputs become a power of two, then each layer has half as many.
RECURSIVE Balance(_, _, _)
Balance(g, nd, inputs) ==
  LET size == Len(inputs)
      excess == size - 2^FloorOfLog2(size)
      pairs == IF excess > 0 THEN excess ELSE size \div 2
      layer == [i \in 1 .. pairs |-> [nd EXCEPT !.a = <<inputs[2 * i - 1], inputs[2 * i]>>]]
  IN IF size = 1 THEN [g |-> g, root |-> inputs[1]]
     ELSE Balance(MakeNodes(g, layer), nd, NewIds(g, layer) \o SubSeq(inputs, 2 * pairs + 1, size))

ReassociateAt(r, n) ==
  LET g == r.g
      nd == g.nodes[n]
      tree == GatherExpressionLeaves(g, nd.op, n)
      isLiteral(m) == IsLiteral(g.nodes[m])
      literals == SelectSeq(tree.leaves, isLiteral)
      inputs == SelectSeq(tree.leaves, LAMBDA m : ~isLiteral(m))
      folded == [i \in 1 .. Len(literals) - 1 |->
                   [nd EXCEPT !.a = IF i = 1 THEN <<literals[1], literals[2]>>
                                    ELSE <<literals[i + 1], g.next + i - 2>>]]
      literal == IF Len(literals) > 1 THEN <<g.next + Len(folded) - 1>> ELSE literals
      balanced == Balance(MakeNodes(g, folded), nd, inputs \o literal)
  IN IF ~g.ok \/ n \in r.visited \/ nd.op \notin {"add"} \cup MulOps THEN r
     ELSE IF \/ Len(tree.interior) <= 1
             \/ tree.depth = CeilOfLog2(Len(tree.leaves)) /\ Len(literals) <= 1
          THEN Visit(r, tree.interior)
     ELSE [Visit(r, tree.interior) EXCEPT !.g = ReplaceUsesWith(balanced.g, n, balanced.root), !.changed = TRUE]

------------------------------------------------------------------------------

FromTheUsersDown(Step(_, _), g) ==
  FoldLeft(Step, [g |-> g, changed |-> FALSE, visited |-> {}], Reverse(TopoSort(g)))

RunReassociation(g) ==
  LET subtracts == FromTheUsersDown(ReassociateSubtractsAt, g)
      trees == FromTheUsersDown(ReassociateAt, subtracts.g)
  IN Result(trees.g, subtracts.changed \/ trees.changed)
=============================================================================
