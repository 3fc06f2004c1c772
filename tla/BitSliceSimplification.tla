----------------------- MODULE BitSliceSimplification -----------------------
(***************************************************************************)
(* src/xls/xls/passes/bit_slice_simplification_pass.cc: SimplifyBitSlice   *)
(* on the slice n of graph g, and the pass with its worklist of slices.    *)
(***************************************************************************)
EXTENDS CleanupPasses

Slice(x, start, w) == Node("bit_slice", w, <<x>>, start)
SoleUser(g, n) == Cardinality(Users(g, Arg(g, n, 1))) = 1

FullWidth(g, n) == When(g.nodes[n].k = 0 /\ Width(g, n) = ArgNode(g, n, 1).w, WithOperand(g, n))

SliceOfSlice(g, n) ==
  LET x == ArgNode(g, n, 1)
  IN When(x.op = "bit_slice", ReplaceUsesWithNew(g, n, <<Slice(x.a[1], g.nodes[n].k + x.k, Width(g, n))>>))

\* The operands the slice reaches, from the lowest bits on: one that lies
\* within it is used as it is, one that it cuts is sliced.
SliceOfConcat(g, n) ==
  LET a == ArgNode(g, n, 1).a
      from == g.nodes[n].k
      to == from + Width(g, n) - 1
      start(j) == MapThenSumSet(LAMBDA i : Width(g, a[i]), {i \in DOMAIN a : i > j})
      end(j) == start(j) + Width(g, a[j]) - 1
      reached == SelectSeq(Reverse([j \in DOMAIN a |-> j]), LAMBDA j : start(j) <= to /\ from <= end(j))
      within(j) == from <= start(j) /\ to >= end(j)
      cut == SelectSeq(reached, LAMBDA j : ~within(j))
      slice(j) == Slice(a[j], Max({from, start(j)}) - start(j),
                        Min({to, end(j)}) - Max({from, start(j)}) + 1)
      id(j) == IF within(j) THEN a[j] ELSE g.next + (CHOOSE i \in DOMAIN cut : cut[i] = j) - 1
  IN When(NarrowingEnabled /\ ArgNode(g, n, 1).op = "concat",
          ReplaceUsesWithNew(g, n, [i \in DOMAIN cut |-> slice(cut[i])]
            \o <<Node("concat", Width(g, n), Reverse([i \in DOMAIN reached |-> id(reached[i])]), 0)>>))

\* A copy of the operation x over slices of its operands from the first-th on.
OverSlices(g, n, x, first) ==
  LET a == g.nodes[x].a
      new == [j \in 1 .. Len(a) - first + 1 |-> Slice(a[first + j - 1], g.nodes[n].k, Width(g, n))]
      ids == [j \in DOMAIN a |-> IF j < first THEN a[j] ELSE g.next + j - first]
  IN ReplaceUsesWithNew(g, n, Append(new, Node(Op(g, x), Width(g, n), ids, g.nodes[x].k)))

SliceOfOperation(g, n) ==
  LET x == Arg(g, n, 1)
  IN When(/\ NarrowingEnabled /\ SoleUser(g, n)
          /\ \/ OpIsBitWise(Op(g, x))
             \/ g.nodes[n].k = 0 /\ Op(g, x) \in {"add", "sub", "neg"},
          OverSlices(g, n, x, 1))

\* A slice of the extended value, one across its sign bit, one of copies of it.
SliceOfSignExt(g, n) ==
  LET x == ArgNode(g, n, 1).a[1]
      xw == Width(g, x)
      s == g.nodes[n].k
      w == Width(g, n)
      extended(slice) == ReplaceUsesWithNew(g, n, <<slice, Node("sign_ext", w, <<g.next>>, 0)>>)
  IN IF ~NarrowingEnabled \/ ArgNode(g, n, 1).op # "sign_ext" THEN {}
     ELSE IF s + w <= xw THEN {ReplaceUsesWithNew(g, n, <<Slice(x, s, w)>>)}
     ELSE IF ~SoleUser(g, n) THEN {}
     ELSE IF s < xw THEN {extended(Slice(x, s, xw - s))}
     ELSE {extended(Slice(x, xw - 1, 1))}

SliceOfShift(g, n) ==
  LET x == ArgNode(g, n, 1)
      nd == g.nodes[n]
  IN When(/\ \/ nd.k = 0 /\ x.op = "shll"
             \/ nd.k + nd.w = x.w /\ x.op \in {"shrl", "shra"}
          /\ SoleUser(g, n),
          ReplaceUsesWithNew(g, n, <<Slice(x.a[1], nd.k, nd.w), Node(x.op, nd.w, <<g.next, x.a[2]>>, 0)>>))

SliceOfSelect(g, n) ==
  LET x == Arg(g, n, 1)
  IN When(NarrowingEnabled /\ Op(g, x) = "sel" /\ SoleUser(g, n), OverSlices(g, n, x, 2))

SimplifyBitSlice(g, n) ==
  FirstOf(<<FullWidth(g, n), SliceOfSlice(g, n), SliceOfConcat(g, n), SliceOfOperation(g, n),
            SliceOfSignExt(g, n), SliceOfShift(g, n), SliceOfSelect(g, n)>>)

StaticSlice(g, n) ==
  LET nd == g.nodes[n]
      start == ArgNode(g, n, 2)
  IN When(/\ nd.op = "dynamic_bit_slice" /\ IsLiteral(start)
          /\ start.k <= ArgNode(g, n, 1).w - nd.w,
          ReplaceUsesWithNew(g, n, <<Slice(nd.a[1], start.k, nd.w)>>))

\* What lies above the update, the update as far as it fits, what lies below.
StaticUpdate(g, n) ==
  LET w == Width(g, n)
      x == Arg(g, n, 1)
      s == ArgNode(g, n, 2).k
      value == Arg(g, n, 3)
      end == s + Width(g, value)
      above == IF end < w THEN <<Slice(x, end, w - end)>> ELSE << >>
      cut == IF end > w THEN <<Slice(value, 0, w - s)>> ELSE << >>
      below == IF s > 0 THEN <<Slice(x, 0, s)>> ELSE << >>
      new == above \o cut \o below
      ids == [j \in DOMAIN new |-> g.next + j - 1]
      parts == IF cut # << >> THEN ids
               ELSE SubSeq(ids, 1, Len(above)) \o <<value>> \o SubSeq(ids, Len(above) + 1, Len(ids))
  IN When(Op(g, n) = "bit_slice_update" /\ IsLiteral(ArgNode(g, n, 2)),
          IF s >= w THEN WithOperand(g, n)
          ELSE IF Len(parts) = 1 THEN ReplaceUsesWith(MakeNodes(g, new), n, parts[1])
          ELSE ReplaceUsesWithNew(g, n, Append(new, Node("concat", w, parts, 0))))

RECURSIVE DrainSlices(_, _)
DrainSlices(r, worklist) ==
  IF worklist = << >> \/ ~r.g.ok THEN r
  ELSE LET step == WorkOnHead(r, worklist, "bit_slice", SimplifyBitSlice) IN DrainSlices(step.r, step.rest)

RunBitSliceSimplification(g) ==
  LET static == Sweep(g, NodeIds(g), StaticSlice)
      updated == Sweep(static.g, NodeIds(static.g), StaticUpdate)
      slices == SelectSeq(NodeIds(updated.g), LAMBDA n : Op(updated.g, n) = "bit_slice")
  IN DrainSlices(Result(updated.g, static.changed \/ updated.changed), slices)
=============================================================================
