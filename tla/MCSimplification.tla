-------------------------- MODULE MCSimplification --------------------------
(***************************************************************************)
(* Small functions for SimplificationPass: every operation on parameters   *)
(* and literals, and the nested forms the patterns look for.               *)
(***************************************************************************)
EXTENDS SimplificationPass

\* A function with the given nodes that returns the last, after the dead code
\* elimination that comes before the simplification in the pipeline.
Function0(nds) ==
  DeadCodeElimination([nodes |-> nds, ret |-> Len(nds), next |-> Len(nds) + 1, ok |-> TRUE]).g

ResultWidth(op, w) == IF op \in CompareOps THEN 1 ELSE w
BinaryOps == NaryOps \cup BinOps \cup MulOps \cup ShiftOps \cup CompareOps

\* op(a, b) with a, b among two parameters and a literal of w bits.
Binary(ops, pairs, w, values) ==
  {Function0(<<Param(1, w), Param(2, w), Literal(v, w), Node(op, ResultWidth(op, w), p, 0)>>) :
     op \in ops, p \in pairs, v \in values}

Unliteral == {<<1, 1>>, <<1, 2>>}
OneLiteral == {<<1, 3>>, <<3, 1>>}

SingleOps(w) ==
  Binary(BinaryOps, Unliteral, w, {0})
  \cup Binary(BinaryOps \ {"sdiv"}, OneLiteral, w, 0 .. AllOnes(w))
  \cup Binary({"sdiv"}, {<<3, 1>>}, w, 0 .. AllOnes(w))
  \cup Binary({"sdiv"}, {<<1, 3>>}, w, {0, 1, AllOnes(w)})
  \cup Binary(BinaryOps, {<<3, 3>>}, w, {AllOnes(w)})

\* A logical operation of three, over a parameter, a literal, an inverted
\* parameter and a nested operation that may be shared.
Nested ==
  {Function0(<<Param(1, 2), Param(2, 2), Literal(v, 2), Node("not", 2, <<1>>, 0),
               Node(inner, 2, <<1, 3>>, 0), Node(op, 2, a, 0)>>) :
     v \in {0, 2, 3}, inner \in {"and", "xor"}, op \in NaryOps,
     a \in {<<1>>, <<5>>, <<1, 1, 1>>, <<1, 4, 2>>, <<3, 1, 3>>, <<5, 3, 2>>, <<5, 5, 1>>, <<4, 5, 3>>,
            <<2, 1, 2>>, <<3, 3, 3>>}}

\* One operation on top of another.
Towers ==
  {Function0(<<Param(1, 2), Literal(v, 2), Node(inner, ResultWidth(inner, 2), <<1, 2>>, 0),
               Node(outer, ResultWidth(inner, 2), <<3>>, 0), Node("identity", ResultWidth(inner, 2), <<4>>, 0)>>) :
     v \in 0 .. 3, inner \in CompareOps \cup {"add", "sub"}, outer \in {"not", "neg"}}
  \cup {Function0(<<Param(1, 2), Node(a, 3, <<1>>, 0), Node(b, w, <<2>>, 0)>>) :
          a \in ExtendOps, b \in ExtendOps, w \in {3, 4}}
  \cup {Function0(<<Param(1, 2), Node(a, 2, <<1>>, 0), Node(a, 2, <<2>>, 0)>>) : a \in {"not", "neg", "identity"}}

\* A product wider or narrower than its operands.
Products ==
  {Function0(<<Param(1, 2), Literal(v, 3), Node(op, w, <<1, 2>>, 0)>>) :
     v \in 0 .. 7, op \in MulOps, w \in {1, 2, 4}}

\* Shifts by a zero-extended amount, by a limited one, by a wider one.
Shifts ==
  {Function0(<<Param(1, 2), Param(2, 2), Literal(0, 1), Node("concat", 4, a, 0), Node(op, 2, <<1, 4>>, 0)>>) :
     op \in ShiftOps, a \in {<<3, 3, 2>>}}
  \cup {Function0(<<Param(1, 2), Param(2, 2), Node("zero_ext", 3, <<2>>, 0), Node(op, 2, <<1, 3>>, 0)>>) :
          op \in ShiftOps}
  \cup {Function0(<<Param(1, 2), Param(2, 3), Literal(v, 3), Node("ugt", 1, <<2, 3>>, 0),
                    Node("sel", 3, <<4, 2, 3>>, 2), Node(op, 2, <<1, 5>>, 0)>>) :
          op \in ShiftOps, v \in 0 .. 7}
  \cup {Function0(<<Param(1, 2), Literal(v, 3), Node(op, 2, <<1, 2>>, 0)>>) : op \in ShiftOps, v \in 0 .. 7}

\* a cmp b ? c : d, the forms of a limit and others.
Clamps ==
  {Function0(<<Param(1, 2), Literal(v, 2), Literal(u, 2), Node(op, 1, p, 0), Node("sel", 2, <<4>> \o q, 2)>>) :
     op \in {"ult", "ule", "ugt", "uge"}, v \in 0 .. 3, u \in 0 .. 3,
     p \in {<<1, 2>>, <<2, 1>>}, q \in {<<1, 3>>, <<3, 1>>}}

\* Logical combinations of two comparisons of one value.
Ranges ==
  {Function0(<<Param(1, 2), Literal(v, 2), Literal(u, 2), Node(a, 1, <<1, 2>>, 0), Node(b, 1, <<3, 1>>, 0),
               Node(op, 1, <<4, 5>>, 0)>>) :
     v \in 0 .. 3, u \in 0 .. 3, a \in {"eq", "ult"}, b \in {"ne", "ugt", "ult"}, op \in NaryOps}

\* A slice of the last node, which may have another user.
Sliced(nds, s, w, shared) ==
  LET x == Len(nds)
  IN Function0(nds \o <<Slice(x, s, w)>>
               \o (IF shared THEN <<Node("concat", w + nds[x].w, <<x + 1, x>>, 0)>> ELSE << >>))
Places(w) == {<<s, k>> \in (0 .. w) \X (1 .. w) : s + k <= w}

SlicedNodes ==
  {<<Param(1, 3), Param(2, 3), Node(op, 3, <<1, 2>>, 0)>> :
     op \in {"and", "nor", "add", "sub", "shll", "shrl", "shra", "udiv"}}
  \cup {<<Param(1, 3), Node("neg", 3, <<1>>, 0)>>, <<Param(1, 4), Slice(1, 1, 3)>>,
        <<Param(1, 1), Param(2, 1), Node("concat", 3, <<1, 2, 1>>, 0)>>,
        <<Param(1, 2), Param(2, 3), Node("concat", 5, <<1, 2>>, 0)>>,
        <<Param(1, 2), Node("sign_ext", 4, <<1>>, 0)>>,
        <<Param(1, 1), Param(2, 2), Param(3, 2), Node("sel", 2, <<1, 2, 3>>, 2)>>,
        <<Param(1, 2), Param(2, 2), Param(3, 2), Node("sel", 2, <<1, 2, 3>>, 1)>>}
Slices == UNION {{Sliced(nds, p[1], p[2], b) : p \in Places(nds[Len(nds)].w), b \in BOOLEAN} :
                   nds \in SlicedNodes}

Dynamic ==
  {Function0(<<Param(1, 3), Literal(v, 3), Node("dynamic_bit_slice", w, <<1, 2>>, 0)>>) : v \in 0 .. 7, w \in 1 .. 3}
  \cup {Function0(<<Param(1, 3), Literal(v, 3), Param(2, w), Node("bit_slice_update", 3, <<1, 2, 3>>, 0)>>) :
          v \in 0 .. 7, w \in {1, 2, 4}}

\* A concat of parameters, literals, slices or another concat, and one or
\* more uses of it: reductions, a reverse, an inversion, a comparison or an
\* operation with another concat.
Concats ==
  LET base == <<Param(1, 2), Param(2, 1), Literal(1, 1), Slice(1, 0, 1), Slice(1, 1, 1), Node("concat", 2, <<2, 3>>, 0)>>
      width(a) == FoldLeft(LAMBDA x, j : x + base[j].w, 0, a)
      with(a, uses) == Function0(Append(base, Node("concat", width(a), a, 0)) \o uses)
      unary(w) == {<<Node(op, 1, <<7>>, 0)>> : op \in ReduceOps}
                  \cup {<<Node(op, w, <<7>>, 0)>> : op \in {"reverse", "not"}}
                  \cup {<<Node("reverse", w, <<7>>, 0), Node("or_reduce", 1, <<7>>, 0),
                          Node("concat", w + 1, <<8, 9>>, 0)>>}
  IN UNION {{with(a, uses) : uses \in unary(width(a))} :
              a \in {<<1, 2>>, <<2, 3>>, <<3, 3, 1>>, <<5, 4>>, <<4, 5, 1>>, <<6, 1>>, <<1>>}}
     \cup {with(a, <<Node("concat", 4, <<6, 1>>, 0), Node(op, 4, <<7, 8>>, 0)>>) :
              a \in {<<3, 3, 1>>, <<4, 5, 1>>, <<6, 1>>}, op \in {"xor", "nand"}}
     \cup {with(a, <<y, Node(op, 1, p, 0)>>) :
              a \in {<<1, 2>>, <<2, 1>>, <<6, 3>>}, op \in {"eq", "ne"}, p \in {<<7, 8>>, <<8, 7>>},
              y \in {Param(3, 3), Literal(5, 3), Node("concat", 3, <<2, 1>>, 0)}}

\* A concat of a value and of parameters without bits.
Hollow ==
  {Function0(<<Param(1, 2), Param(2, 0), Node("concat", 2, a, 0),
               Node(op, IF op \in ReduceOps THEN 1 ELSE 2, <<3>>, 0)>>) :
     a \in {<<1, 2>>, <<2, 1>>, <<2, 1, 2>>}, op \in ReduceOps \cup {"not", "reverse"}}

\* Trees of adds, subtracts and multiplies over two parameters and two
\* literals, some with a node that has two users.
Trees ==
  {Function0(<<Param(1, 2), Param(2, 2), Literal(3, 2), Literal(1, 2), Node(x, 2, p, 0), Node(y, 2, q, 0), Node(z, 2, r, 0)>>) :
     x \in {"add", "sub"}, y \in {"add", "sub"}, z \in {"add", "sub"},
     p \in {<<1, 2>>, <<1, 3>>, <<3, 1>>}, q \in {<<5, 2>>, <<4, 5>>, <<2, 4>>}, r \in {<<6, 5>>, <<1, 6>>, <<6, 3>>, <<6, 6>>}}
  \cup {Function0(<<Param(1, 2), Param(2, 2), Literal(3, 2), Node(op, 2, <<1, 2>>, 0), Node(op, 2, p, 0),
                    Node(op, 2, <<5, 1>>, 0), Node(op, 2, <<6, q>>, 0)>>) :
          op \in MulOps \cup {"add"}, p \in {<<4, 2>>, <<3, 4>>, <<4, 4>>}, q \in {2, 3, 4}}

\* Operations on nothing, without the comparisons by sign: see Signless.
ZeroWidth ==
  Binary(BinaryOps \ {"slt", "sge", "sgt", "sle"}, Unliteral \cup OneLiteral, 0, {0})

Narrow == SingleOps(1) \cup SingleOps(2) \cup ZeroWidth \cup Products
Nests == Nested \cup Towers \cup Shifts \cup Clamps \cup Ranges \cup Slices \cup Dynamic \cup Concats \cup Hollow \cup Trees
Patterns == Narrow \cup Nests

\* Inputs kept out of Patterns, on which SemanticsPreserved (the first) or
\* NeverFails (the others) does not hold, see the README: a signed division by
\* two, a shift by a select with one case and a default, a comparison of nothing
\* by sign.
Halves == Binary({"sdiv"}, {<<1, 3>>}, 3, {2})
OneCase ==
  {Function0(<<Param(1, 2), Param(2, 3), Literal(2, 3), Node("ugt", 1, <<2, 3>>, 0),
               Node("sel", 3, <<4, 2, 3>>, 1), Node("shll", 2, <<1, 5>>, 0)>>)}
Signless == Binary({"slt"}, {<<1, 3>>}, 0, {0})

Unmodelled == {"table_switch", "select_simp", "cond_spec", "tuple_simp",
               "strength_red", "array_simp", "narrow", "bool_simp"}
==============================================================================
