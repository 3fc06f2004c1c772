------------------------- MODULE ArithSimplification -------------------------
(***************************************************************************)
(* src/xls/xls/passes/arith_simplification_pass.cc: MatchArithPatterns on  *)
(* node n.  A pattern is the set of the graph it turns g into, empty when  *)
(* it does not match; the first that matches is applied.                   *)
(***************************************************************************)
EXTENDS IrNodes

ArgNodes(g, n) == {g.nodes[m] : m \in ToSet(g.nodes[n].a)}
AnyOperandWhere(g, n, Pred(_)) == \E nd \in ArgNodes(g, n) : Pred(nd)

CompareOpInverse(op) ==
  CASE op = "eq" -> "ne"   [] op = "ne" -> "eq"
    [] op = "sge" -> "slt" [] op = "slt" -> "sge" [] op = "sgt" -> "sle" [] op = "sle" -> "sgt"
    [] op = "uge" -> "ult" [] op = "ult" -> "uge" [] op = "ugt" -> "ule" [] op = "ule" -> "ugt"

WithNary(g, n, a) == ReplaceUsesWithNew(g, n, <<Node(Op(g, n), Width(g, n), a, 0)>>)
WithNot(g, n, x) == ReplaceUsesWithNew(g, n, <<Node("not", Width(g, n), <<x>>, 0)>>)

ZeroOnRhs(g, n) ==
  When(Op(g, n) \in {"add", "sub"} \cup ShiftOps /\ IsLiteralZero(ArgNode(g, n, 2)), WithOperand(g, n))

DuplicateOperands(g, n) ==
  LET a == g.nodes[n].a
  IN When(Op(g, n) \in NaryOps \ {"xor"} /\ Len(Unique(a)) # Len(a), WithNary(g, n, Unique(a)))

SingleOperand(g, n) ==
  When(Op(g, n) \in NaryOps \ {"xor"} /\ Len(g.nodes[n].a) = 1,
       IF Op(g, n) \in {"and", "or"} THEN WithOperand(g, n) ELSE WithNot(g, n, Arg(g, n, 1)))

XorOfTheSame(g, n) ==
  LET a == g.nodes[n].a
  IN When(Op(g, n) = "xor" /\ Cardinality(ToSet(a)) = 1,
          IF Len(a) % 2 = 0 THEN WithLiteral(g, n, 0) ELSE WithOperand(g, n))

EliminateOperandsWhere(g, n, Pred(_)) ==
  LET a == g.nodes[n].a
      kept == SelectSeq(a, LAMBDA m : ~Pred(g.nodes[m]))
      w == Width(g, n)
  IN When(Len(kept) # Len(a),
          IF kept = << >> THEN WithLiteral(g, n, Logical(Op(g, n), w, <<LogicalOpIdentity(Op(g, n), w)>>))
                          ELSE WithNary(g, n, kept))

\* Zeros in or, xor, nor; a one-valued operand of or, nor.
ZeroOperands(g, n) ==
  IF Op(g, n) \in {"or", "xor", "nor"} THEN EliminateOperandsWhere(g, n, IsLiteralZero) ELSE {}
OrWithOnes(g, n) ==
  When(Op(g, n) \in {"or", "nor"} /\ AnyOperandWhere(g, n, IsLiteralAllOnes),
       WithLiteral(g, n, IF Op(g, n) = "or" THEN AllOnes(Width(g, n)) ELSE 0))

\* Ones in and, nand; a zero-valued operand of and, nand.
OnesOperands(g, n) ==
  IF Op(g, n) \in {"and", "nand"} THEN EliminateOperandsWhere(g, n, IsLiteralAllOnes) ELSE {}
AndWithZero(g, n) ==
  When(Op(g, n) \in {"and", "nand"} /\ AnyOperandWhere(g, n, IsLiteralZero),
       WithLiteral(g, n, IF Op(g, n) = "and" THEN 0 ELSE AllOnes(Width(g, n))))

AndOfInverted(g, n) ==
  LET args == ToSet(g.nodes[n].a)
  IN When(Op(g, n) = "and" /\ \E m \in args : Op(g, m) = "not" /\ Arg(g, m, 1) \in args,
          WithLiteral(g, n, 0))

XorWithOnes(g, n) ==
  When(Op(g, n) = "xor" /\ Len(g.nodes[n].a) = 2 /\ IsLiteralAllOnes(ArgNode(g, n, 2)),
       WithNot(g, n, Arg(g, n, 1)))

\* A nested operation is merged only if this is its only user.
FlattenNested(g, n) ==
  LET merge(m) == Op(g, m) = Op(g, n) /\ Cardinality(Users(g, m)) = 1
      a == g.nodes[n].a
      flat == FlattenSeq([j \in DOMAIN a |-> IF merge(a[j]) THEN g.nodes[a[j]].a ELSE <<a[j]>>])
  IN When(Op(g, n) \in NaryOps /\ OpIsAssociative(Op(g, n)) /\ \E m \in ToSet(a) : merge(m),
          WithNary(g, n, flat))

FoldLiterals(g, n) ==
  LET a == g.nodes[n].a
      lits == SelectSeq(a, LAMBDA m : IsLiteral(g.nodes[m]))
      rest == SelectSeq(a, LAMBDA m : ~IsLiteral(g.nodes[m]))
      w == Width(g, n)
      value == Logical(Op(g, n), w, <<LogicalOpIdentity(Op(g, n), w)>> \o [j \in DOMAIN lits |-> g.nodes[lits[j]].k])
  IN When(Op(g, n) \in NaryOps /\ OpIsCommutative(Op(g, n)) /\ OpIsAssociative(Op(g, n)) /\ Len(lits) >= 2,
          ReplaceUsesWithNew(g, n, <<Literal(value, w), Node(Op(g, n), w, Append(rest, g.next), 0)>>))

\* The nodes that bring x to width w, none if it has it; what they end in.
ExtendOrTrunc(g, x, w, isSigned) ==
  IF Width(g, x) = w THEN << >>
  ELSE IF Width(g, x) > w THEN <<Node("bit_slice", w, <<x>>, 0)>>
  ELSE <<Node(IF isSigned THEN "sign_ext" ELSE "zero_ext", w, <<x>>, 0)>>
Extended(g, x, w) == IF Width(g, x) = w THEN x ELSE g.next

MulDivByPowerOfTwo(g, n) ==
  LET op == Op(g, n)
      rhs == ArgNode(g, n, 2)
      isSigned == op \in {"smul", "sdiv"}
      w == Width(g, n)
      x == Arg(g, n, 1)
      adjust == ExtendOrTrunc(g, x, w, isSigned)
      amount == g.next + Len(adjust)
      shift == IF op \in MulOps THEN "shll" ELSE IF isSigned THEN "shra" ELSE "shrl"
  IN IF op \in MulOps \cup {"udiv", "sdiv"}
     THEN When(/\ IsLiteral(rhs) /\ IsPowerOfTwo(rhs.k, rhs.w)
               /\ isSigned => Signed(rhs.k, rhs.w) > 0,
               ReplaceUsesWithNew(g, n, adjust \o
                 <<Literal(CountTrailingZeros(rhs.k, rhs.w), rhs.w),
                   Node(shift, w, <<Extended(g, x, w), amount>>, 0)>>))
     ELSE {}

MulByZero(g, n) ==
  When(Op(g, n) \in MulOps /\ IsLiteralZero(ArgNode(g, n, 2)), WithLiteral(g, n, 0))

UModByPowerOfTwo(g, n) ==
  LET rhs == ArgNode(g, n, 2)
      w == Width(g, n)
      x == Arg(g, n, 1)
      adjust == ExtendOrTrunc(g, x, w, FALSE)
  IN IF Op(g, n) = "umod"
     THEN When(IsLiteral(rhs) /\ IsPowerOfTwo(rhs.k, rhs.w),
               ReplaceUsesWithNew(g, n, adjust \o
                 <<Literal((ShiftLeftLogical(1, CountTrailingZeros(rhs.k, rhs.w), w) - 1) % 2^w, w),
                   Node("and", w, <<Extended(g, x, w), g.next + Len(adjust)>>, 0)>>))
     ELSE {}

\* not(not(x)) and neg(neg(x))
DoubleInverse(g, n, op) ==
  When(Op(g, n) = op /\ ArgNode(g, n, 1).op = op, ReplaceUsesWith(g, n, ArgNode(g, n, 1).a[1]))

LogicalShiftByConstant(g, n) ==
  LET w == Width(g, n)
      s == ArgNode(g, n, 2).k
      x == Arg(g, n, 1)
  IN When(Op(g, n) \in {"shll", "shrl"} /\ IsLiteral(ArgNode(g, n, 2)),
          IF s = 0 THEN WithOperand(g, n)
          ELSE IF s >= w THEN WithLiteral(g, n, 0)
          ELSE ReplaceUsesWithNew(g, n,
                 <<Literal(0, s),
                   Node("bit_slice", w - s, <<x>>, IF Op(g, n) = "shll" THEN 0 ELSE s),
                   Node("concat", w, IF Op(g, n) = "shll" THEN <<g.next + 1, g.next>>
                                                          ELSE <<g.next, g.next + 1>>, 0)>>))

SignExtOfSignExt(g, n) ==
  When(Op(g, n) = "sign_ext" /\ ArgNode(g, n, 1).op = "sign_ext",
       ReplaceUsesWithNew(g, n, <<Node("sign_ext", Width(g, n), ArgNode(g, n, 1).a, 0)>>))

ArithShiftByConstant(g, n) ==
  LET w == Width(g, n)
      s == ArgNode(g, n, 2).k
      sliceWidth == IF s >= w THEN 1 ELSE w - s
  IN When(Op(g, n) = "shra" /\ IsLiteral(ArgNode(g, n, 2)),
          IF s = 0 THEN WithOperand(g, n)
          ELSE ReplaceUsesWithNew(g, n,
                 <<Node("bit_slice", sliceWidth, <<Arg(g, n, 1)>>, w - sliceWidth),
                   Node("sign_ext", w, <<g.next>>, 0)>>))

EqOfOneBit(g, n) ==
  When(Op(g, n) = "eq" /\ ArgNode(g, n, 1).w = 1 /\ IsLiteral(ArgNode(g, n, 2)),
       IF IsLiteralZero(ArgNode(g, n, 2)) THEN WithNot(g, n, Arg(g, n, 1)) ELSE WithOperand(g, n))

\* x << {0, b} becomes x << b, in place.
ZeroExtendedAmount(g, n) ==
  LET amount == ArgNode(g, n, 2)
      rest == Tail(amount.a)
      concat == Node("concat", amount.w - g.nodes[amount.a[1]].w, rest, 0)
  IN When(Op(g, n) \in ShiftOps /\ amount.op = "concat" /\ IsLiteralZero(g.nodes[amount.a[1]]),
          CASE Len(amount.a) = 1 -> ReplaceOperandNumber(g, n, 2, amount.a[1])
            [] Len(amount.a) = 2 -> ReplaceOperandNumber(g, n, 2, amount.a[2])
            [] OTHER -> ReplaceOperandNumber(MakeNode(g, concat), n, 2, g.next))

\* A limit on the shift amount that is not below the width has no effect:
\* MatchClampUpperLimit.  It asks for case 1 whether or not there is one.
GuardedAmount(g, n) ==
  LET sel == ArgNode(g, n, 2)
      cmp == g.nodes[sel.a[1]]
      limit == g.nodes[cmp.a[2]]
  IN IF Op(g, n) \in ShiftOps /\ sel.op = "sel" /\ cmp.op = "ugt" /\ IsLiteral(limit)
     THEN IF sel.k < 2 THEN {Fail(g)}
          ELSE When(cmp.a[2] = sel.a[3] /\ cmp.a[1] = sel.a[2] /\ limit.k >= Width(g, n),
                    ReplaceOperandNumber(g, n, 2, cmp.a[1]))
     ELSE {}

MulOfZeroWidth(g, n) ==
  When(Op(g, n) \in MulOps /\ AnyOperandWhere(g, n, LAMBDA nd : nd.w = 0), WithLiteral(g, n, 0))

SignTest(g, n) ==
  LET sign == Node("bit_slice", 1, <<Arg(g, n, 1)>>, ArgNode(g, n, 1).w - 1)
  IN When(NarrowingEnabled /\ Op(g, n) \in {"slt", "sge"} /\ IsLiteralZero(ArgNode(g, n, 2)),
          ReplaceUsesWithNew(g, n, IF Op(g, n) = "slt" THEN <<sign>>
                                   ELSE <<sign, Node("not", 1, <<g.next>>, 0)>>))

NotOfCompare(g, n) ==
  LET cmp == ArgNode(g, n, 1)
  IN When(Op(g, n) = "not" /\ cmp.op \in CompareOps,
          ReplaceUsesWithNew(g, n, <<Node(CompareOpInverse(cmp.op), 1, cmp.a, 0)>>))

\* One-bit slices of the bits at i \in from .. to of x, then an op over them;
\* a literal if there is none.  first is the id of the first new node.
ReduceBits(op, x, from, to, first) ==
  IF to < from THEN <<Literal(LogicalOpIdentity(op, 1), 1)>>
  ELSE [j \in 1 .. to - from + 1 |-> Node("bit_slice", 1, <<x>>, from + j - 1)]
       \o <<Node(op, 1, [j \in 1 .. to - from + 1 |-> first + j - 1], 0)>>

CompareWithMask(g, n) ==
  LET mask == ArgNode(g, n, 2)
      x == Arg(g, n, 1)
      leading == ReduceBits("or", x, TrailingOnes(mask), mask.w - 1, g.next)
      trailing == ReduceBits("and", x, 0, TrailingOnes(mask) - 1, g.next + Len(leading))
      last == g.next + Len(leading) - 1
  IN When(NarrowingEnabled /\ Op(g, n) \in {"ult", "ugt"} /\ IsLiteralMask(mask),
          ReplaceUsesWithNew(g, n,
            IF Op(g, n) = "ugt" THEN leading
            ELSE leading \o trailing \o <<Node("nor", 1, <<last, last + Len(trailing)>>, 0)>>))

MatchArithPatterns(g, n) ==
  FirstOf(<<ZeroOnRhs(g, n), DuplicateOperands(g, n), SingleOperand(g, n), XorOfTheSame(g, n),
            ZeroOperands(g, n), OrWithOnes(g, n), OnesOperands(g, n), AndWithZero(g, n),
            AndOfInverted(g, n), XorWithOnes(g, n), FlattenNested(g, n), FoldLiterals(g, n),
            MulDivByPowerOfTwo(g, n), MulByZero(g, n), UModByPowerOfTwo(g, n),
            DoubleInverse(g, n, "not"), LogicalShiftByConstant(g, n), SignExtOfSignExt(g, n),
            ArithShiftByConstant(g, n), DoubleInverse(g, n, "neg"), EqOfOneBit(g, n),
            ZeroExtendedAmount(g, n), GuardedAmount(g, n), MulOfZeroWidth(g, n), SignTest(g, n),
            NotOfCompare(g, n), CompareWithMask(g, n)>>)
==============================================================================
