------------------------------- MODULE IrNodes -------------------------------
(***************************************************************************)
(* The graph of a function of src/xls/xls/ir and what its nodes compute.   *)
(* A graph has its nodes by id (the order of FunctionBase::nodes(), ids    *)
(* grow), the node the function returns, the next id, and ok, FALSE after  *)
(* a failed check or verification, which ends the pass with an error.      *)
(* A node has its op, width, operands, and k: the value of a literal, the  *)
(* number of a parameter, the start of a slice, the cases of a select.     *)
(* A Bits value is a number below 2^width.  Tuples, arrays, tokens and     *)
(* calls are left out, as are names and source locations.                  *)
(***************************************************************************)
EXTENDS Integers, Sequences, FiniteSets, SequencesExt, FiniteSetsExt, Functions, TLC

\* The optimization level the passes are made with.
CONSTANT OptLevel
NarrowingEnabled == OptLevel >= 2

Node(op, w, a, k) == [op |-> op, w |-> w, a |-> a, k |-> k]
Literal(v, w) == Node("literal", w, << >>, v)
Param(i, w) == Node("param", w, << >>, i)

NaryOps == {"and", "or", "xor", "nand", "nor"}
BinOps == {"add", "sub", "udiv", "sdiv", "umod", "smod"}
MulOps == {"umul", "smul"}
ShiftOps == {"shll", "shrl", "shra"}
CompareOps == {"eq", "ne", "ult", "ule", "ugt", "uge", "slt", "sle", "sgt", "sge"}
ExtendOps == {"zero_ext", "sign_ext"}
ReduceOps == {"and_reduce", "or_reduce", "xor_reduce"}
OpIsAssociative(op) == op \in {"add", "and", "or", "xor", "umul", "smul"}
OpIsCommutative(op) == op \in {"add", "eq", "ne"} \cup NaryOps \cup MulOps
OpIsBitWise(op) == op \in NaryOps \cup {"not"}

------------------------------------------------------------------------------
(* Bits and bits_ops *)

Bit(v, i) == (v \div 2^i) % 2
AllOnes(w) == 2^w - 1
Signed(v, w) == IF w > 0 /\ Bit(v, w - 1) = 1 THEN v - 2^w ELSE v
FromBits(w, IsSet(_)) == MapThenSumSet(LAMBDA i : 2^i, {i \in 0 .. w - 1 : IsSet(i)})
IsPowerOfTwo(v, w) == \E i \in 0 .. w - 1 : v = 2^i
CountTrailingZeros(v, w) == CHOOSE i \in 0 .. w :
  /\ i = w \/ Bit(v, i) = 1
  /\ \A j \in 0 .. i - 1 : Bit(v, j) = 0

Abs(i) == IF i < 0 THEN -i ELSE i

\* The quotient of BN_div: rounded toward zero.
Quotient(a, b) ==
  LET q == Abs(a) \div Abs(b) IN IF (a < 0) = (b < 0) THEN q ELSE -q

SDiv(a, b, w) ==
  IF b = 0 THEN IF w = 0 THEN 0 ELSE IF Signed(a, w) < 0 THEN 2^(w - 1) ELSE 2^(w - 1) - 1
           ELSE Quotient(Signed(a, w), Signed(b, w)) % 2^w
SMod(a, b, w) ==
  IF b = 0 THEN 0
  ELSE (Signed(a, w) - Signed(b, w) * Quotient(Signed(a, w), Signed(b, w))) % 2^w

\* A shift by more than the width is a shift by the width.
ShiftLeftLogical(v, s, w) == (v * 2^Min({s, w})) % 2^w
ShiftRightLogical(v, s, w) == v \div 2^Min({s, w})
ShiftRightArith(v, s, w) == (Signed(v, w) \div 2^Min({s, w})) % 2^w

Logical(op, w, v) ==
  LET ones(i) == {j \in DOMAIN v : Bit(v[j], i) = 1}
      all(i) == ones(i) = DOMAIN v
      some(i) == ones(i) # {}
      odd(i) == Cardinality(ones(i)) % 2 = 1
  IN CASE op = "and" -> FromBits(w, all)
       [] op = "or" -> FromBits(w, some)
       [] op = "xor" -> FromBits(w, odd)
       [] op = "nand" -> AllOnes(w) - FromBits(w, all)
       [] op = "nor" -> AllOnes(w) - FromBits(w, some)

LogicalOpIdentity(op, w) == IF op \in {"and", "nand"} THEN AllOnes(w) ELSE 0

Compares(op, a, b, w) ==
  LET s == Signed(a, w)
      t == Signed(b, w)
  IN CASE op = "eq" -> a = b  [] op = "ne" -> a # b
       [] op = "ult" -> a < b [] op = "ule" -> a <= b
       [] op = "ugt" -> a > b [] op = "uge" -> a >= b
       [] op = "slt" -> s < t [] op = "sle" -> s <= t
       [] op = "sgt" -> s > t [] op = "sge" -> s >= t

\* The operands from the most significant on, with their widths.
ConcatValue(v, ws) ==
  FoldLeft(LAMBDA acc, j : acc * 2^ws[j] + v[j], 0, [j \in DOMAIN v |-> j])

\* The bits of the value that fit replace those of x from start on.
BitSliceUpdate(x, start, value, w, vw) ==
  FromBits(w, LAMBDA i : Bit(IF i \in start .. start + vw - 1 THEN value \div 2^(i - start)
                                                             ELSE x \div 2^i, 0) = 1)
------------------------------------------------------------------------------
(* IrInterpreter: the value of a node, from the values v and widths ws of  *)
(* its operands                                                            *)

EvalArith(nd, v, ws) ==
  CASE nd.op = "add" -> (v[1] + v[2]) % 2^nd.w
    [] nd.op = "sub" -> (v[1] - v[2]) % 2^nd.w
    [] nd.op = "umul" -> (v[1] * v[2]) % 2^nd.w
    [] nd.op = "smul" -> (Signed(v[1], ws[1]) * Signed(v[2], ws[2])) % 2^nd.w
    [] nd.op = "udiv" -> IF v[2] = 0 THEN AllOnes(nd.w) ELSE v[1] \div v[2]
    [] nd.op = "umod" -> IF v[2] = 0 THEN 0 ELSE v[1] % v[2]
    [] nd.op = "sdiv" -> SDiv(v[1], v[2], nd.w)
    [] nd.op = "smod" -> SMod(v[1], v[2], nd.w)
    [] nd.op = "shll" -> ShiftLeftLogical(v[1], v[2], nd.w)
    [] nd.op = "shrl" -> ShiftRightLogical(v[1], v[2], nd.w)
    [] nd.op = "shra" -> ShiftRightArith(v[1], v[2], nd.w)

EvalOther(nd, v, ws) ==
  CASE nd.op = "literal" -> nd.k
    [] nd.op = "identity" -> v[1]
    [] nd.op = "not" -> AllOnes(nd.w) - v[1]
    [] nd.op = "neg" -> (-v[1]) % 2^nd.w
    [] nd.op = "reverse" -> FromBits(nd.w, LAMBDA i : Bit(v[1], nd.w - 1 - i) = 1)
    [] nd.op = "and_reduce" -> IF v[1] = AllOnes(ws[1]) THEN 1 ELSE 0
    [] nd.op = "or_reduce" -> IF v[1] = 0 THEN 0 ELSE 1
    [] nd.op = "xor_reduce" -> MapThenSumSet(LAMBDA i : Bit(v[1], i), 0 .. ws[1] - 1) % 2
    [] nd.op = "zero_ext" -> v[1]
    [] nd.op = "sign_ext" -> Signed(v[1], ws[1]) % 2^nd.w
    [] nd.op = "bit_slice" -> (v[1] \div 2^nd.k) % 2^nd.w
    [] nd.op = "dynamic_bit_slice" ->
         IF v[2] >= ws[1] THEN 0 ELSE ShiftRightLogical(v[1], v[2], ws[1]) % 2^nd.w
    [] nd.op = "bit_slice_update" ->
         IF v[2] >= ws[1] THEN v[1] ELSE BitSliceUpdate(v[1], v[2], v[3], ws[1], ws[3])
    [] nd.op = "concat" -> ConcatValue(v, ws)
    [] nd.op = "sel" -> IF v[1] > nd.k - 1 THEN v[Len(v)] ELSE v[2 + v[1]]

InterpretNode(nd, v, ws) ==
  CASE nd.op \in NaryOps -> Logical(nd.op, nd.w, v)
    [] nd.op \in CompareOps -> IF Compares(nd.op, v[1], v[2], ws[1]) THEN 1 ELSE 0
    [] nd.op \in BinOps \cup MulOps \cup ShiftOps -> EvalArith(nd, v, ws)
    [] OTHER -> EvalOther(nd, v, ws)

Width(g, n) == g.nodes[n].w
Widths(g, a) == [j \in DOMAIN a |-> Width(g, a[j])]

\* The value the function returns when parameter i is given args[i].
Interpret(g, args) ==
  LET val[n \in DOMAIN g.nodes] ==
        LET nd == g.nodes[n]
        IN IF nd.op = "param" THEN args[nd.k]
           ELSE InterpretNode(nd, [j \in DOMAIN nd.a |-> val[nd.a[j]]], Widths(g, nd.a))
  IN val[g.ret]

------------------------------------------------------------------------------
(* Node and FunctionBase *)

Op(g, n) == g.nodes[n].op
Arg(g, n, i) == g.nodes[n].a[i]
ArgNode(g, n, i) == g.nodes[Arg(g, n, i)]
Users(g, n) == {u \in DOMAIN g.nodes : n \in ToSet(g.nodes[u].a)}
IsDead(g, n) == Users(g, n) = {} /\ g.ret # n
Fail(g) == [g EXCEPT !.ok = FALSE]

IsLiteral(nd) == nd.op = "literal"
IsLiteralZero(nd) == IsLiteral(nd) /\ nd.k = 0
IsLiteralAllOnes(nd) == IsLiteral(nd) /\ nd.k = AllOnes(nd.w)
TrailingOnes(nd) == CHOOSE t \in 0 .. nd.w : nd.k = 2^t - 1
IsLiteralMask(nd) == IsLiteral(nd) /\ \E t \in 1 .. nd.w : nd.k = 2^t - 1

\* The verifier's rules for the widths of a node and its operands.
VerifyNode(g, nd) ==
  LET ws == Widths(g, nd.a)
  IN CASE nd.op \in NaryOps -> ws # << >> /\ \A j \in DOMAIN ws : ws[j] = nd.w
       [] nd.op \in BinOps \cup {"not", "neg", "identity", "reverse"} -> \A j \in DOMAIN ws : ws[j] = nd.w
       [] nd.op \in CompareOps -> ws[1] = ws[2] /\ nd.w = 1
       [] nd.op \in ReduceOps -> nd.w = 1
       [] nd.op \in ShiftOps -> ws[1] = nd.w
       [] nd.op \in ExtendOps -> ws[1] <= nd.w
       [] nd.op = "bit_slice" -> nd.k >= 0 /\ nd.w >= 0 /\ nd.k + nd.w <= ws[1]
       [] nd.op = "dynamic_bit_slice" -> nd.w <= ws[1]
       [] nd.op = "bit_slice_update" -> nd.w = ws[1]
       [] nd.op = "concat" -> nd.w = FoldLeft(LAMBDA a, b : a + b, 0, ws)
       [] nd.op = "sel" -> /\ \A j \in 2 .. 1 + nd.k : ws[j] = nd.w
                           /\ nd.k <= 2^ws[1]
                           /\ Len(ws) = nd.k + (IF nd.k < 2^ws[1] THEN 2 ELSE 1)
       [] OTHER -> TRUE

\* AddNode, then VerifyNode.
MakeNode(g, nd) ==
  [nodes |-> g.nodes @@ (g.next :> nd),
   ret |-> g.ret, next |-> g.next + 1, ok |-> g.ok /\ VerifyNode(g, nd)]

MakeNodes(g, nds) == FoldLeft(MakeNode, g, nds)
NewIds(g, nds) == [j \in DOMAIN nds |-> g.next + j - 1]

Replaced(a, n, r) == LET swap(m) == IF m = n THEN r ELSE m IN [j \in DOMAIN a |-> swap(a[j])]

\* Every use of n, the return value included, becomes one of r.
ReplaceUsesWith(g, n, r) ==
  IF ~g.ok THEN g
  ELSE IF Width(g, n) # Width(g, r) THEN Fail(g)
  ELSE [g EXCEPT !.nodes = [u \in Users(g, n) \ {r} |-> [@[u] EXCEPT !.a = Replaced(@, n, r)]] @@ @,
                 !.ret = IF @ = n THEN r ELSE @]

\* New nodes, the last of which takes the uses of n.
ReplaceUsesWithNew(g, n, nds) == ReplaceUsesWith(MakeNodes(g, nds), n, g.next + Len(nds) - 1)

WithLiteral(g, n, v) == ReplaceUsesWithNew(g, n, <<Literal(v, Width(g, n))>>)
WithOperand(g, n) == ReplaceUsesWith(g, n, Arg(g, n, 1))

ReplaceOperandNumber(g, n, i, r) == [g EXCEPT !.nodes[n].a[i] = r]

RemoveNode(g, n) ==
  IF ~IsDead(g, n) THEN Fail(g) ELSE [g EXCEPT !.nodes = Restrict(@, DOMAIN @ \ {n})]

Unique(s) == FoldLeft(LAMBDA acc, e : IF Contains(acc, e) THEN acc ELSE Append(acc, e), << >>, s)

\* NodeIterator: a node is placed once all its users are, the return value
\* first among those without users; the order is turned round at the end.
RECURSIVE Place(_, _, _)
Place(g, ready, ordered) ==
  IF ready = << >> THEN ordered
  ELSE LET placed == Append(ordered, Head(ready))
           isReady(o) == Users(g, o) \subseteq ToSet(placed)
       IN Place(g, Tail(ready) \o SelectSeq(Unique(Reverse(g.nodes[Head(ready)].a)), isReady), placed)

NodeIds(g) == SelectSeq([n \in 1 .. g.next - 1 |-> n], LAMBDA n : n \in DOMAIN g.nodes)

TopoSort(g) ==
  LET unused == SelectSeq(NodeIds(g), LAMBDA n : Users(g, n) = {} /\ n # g.ret)
      first == IF Users(g, g.ret) = {} THEN <<g.ret>> ELSE << >>
  IN Reverse(Place(g, first \o Reverse(unused), << >>))

\* A pattern is the set of the graphs it turns g into, empty when it does not
\* match; of several, the first that matches is taken.
When(guard, result) == IF guard THEN {result} ELSE {}
FirstOf(alternatives) ==
  LET hits == {i \in DOMAIN alternatives : alternatives[i] # {}}
  IN IF hits = {} THEN {} ELSE alternatives[Min(hits)]
==============================================================================
