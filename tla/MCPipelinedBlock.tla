-------------------------- MODULE MCPipelinedBlock --------------------------
(***************************************************************************)
(* Small blocks for PipelinedBlock: procs with up to two inputs a and b and *)
(* two outputs x and y.                                                    *)
(***************************************************************************)
EXTENDS PipelinedBlock

Always == {0, 1}

\* A block whose receives and sends are all made, wait and have no buffer.
Plain(stages, recv, send) ==
  [stages |-> stages, recv |-> recv, send |-> send,
   recvIf |-> [c \in DOMAIN recv |-> Always], sendIf |-> [o \in DOMAIN send |-> Always],
   nonblocking |-> {}, unguarded |-> {}, inKind |-> "none", outKind |-> "none", pipelined |-> TRUE]

\* One input and one output over one to three stages, an input and an output
\* in either order, two of each.
Through(n) == Plain(n, [a |-> 0], [x |-> n - 1])
EarlySend == Plain(2, [a |-> 0, b |-> 1], [x |-> 0, y |-> 1])
LateReceive == Plain(2, [b |-> 1], [x |-> 0, y |-> 1])
BothSends == Plain(1, [a |-> 0], [x |-> 0, y |-> 0])
BothSendsLater == Plain(2, [a |-> 0], [x |-> 1, y |-> 1])
Join == Plain(1, [a |-> 0, b |-> 0], [x |-> 0])

\* Receives from a in one state and from b in the other, sends likewise or in
\* one state only.
Alternating(n) ==
  [Plain(n, [a |-> 0, b |-> 0], [x |-> n - 1, y |-> n - 1]) EXCEPT
     !.recvIf = [a |-> {0}, b |-> {1}], !.sendIf = [x |-> {0}, y |-> {1}]]
SometimesBoth ==
  [Plain(2, [a |-> 0], [x |-> 1, y |-> 1]) EXCEPT !.sendIf = [x |-> Always, y |-> {1}]]

Buffered(bs, ins, outs) ==
  {[b EXCEPT !.inKind = i, !.outKind = o] : b \in bs, i \in ins, o \in outs}

Pipelines ==
  Buffered({Through(1), BothSends}, Kinds, Kinds)
  \cup {Through(2), Through(3), EarlySend, LateReceive, BothSendsLater, Join, Alternating(1), Alternating(2),
        SometimesBoth}
  \cup Buffered({EarlySend}, {"skid"}, {"flop"}) \cup Buffered({Alternating(2)}, {"flop"}, {"zero_latency"})

\* Blocks kept out of Pipelines, on which InOrder does not hold, see the README:
\* ProcToCombinationalBlock of a join, and a proc that uses the data of a receive
\* that is not made.
Combinational == {[Join EXCEPT !.pipelined = FALSE]}
Unguarded ==
  {[Plain(1, [a |-> 0, b |-> 0], [x |-> 0]) EXCEPT !.recvIf = [a |-> Always, b |-> {1}], !.unguarded = {"b"}]}
==============================================================================
