--------------------------- MODULE MCProcNetwork -----------------------------
(***************************************************************************)
(* Networks for TLC.  Values count modulo 4; expected streams are written  *)
(* out by hand, longer than any run produces.                              *)
(***************************************************************************)
EXTENDS ProcNetwork

\* Node constructors: operator, operands, predicate, data operand, channel.
N(op, args) == [op |-> op, args |-> args, pred |-> 0, data |-> 0, ch |-> ""]
RecvIf(tok, ch, pred) ==
  [op |-> "recv", args |-> IF pred = 0 THEN <<tok>> ELSE <<tok, pred>>,
   pred |-> pred, data |-> 0, ch |-> ch]
Recv(tok, ch) == RecvIf(tok, ch, 0)
RecvNb(tok, ch) == [Recv(tok, ch) EXCEPT !.op = "recv_nb"]
SendIf(tok, v, ch, pred) ==
  [op |-> "send", args |-> IF pred = 0 THEN <<tok, v>> ELSE <<tok, v, pred>>,
   pred |-> pred, data |-> v, ch |-> ch]
Send(tok, v, ch) == SendIf(tok, v, ch, 0)
P(nodes, token, next, init) ==
  [nodes |-> nodes, next_token |-> token, next_state |-> next, init |-> init]
Fifo(initial) == [single |-> FALSE, initial |-> initial]
Single == [single |-> TRUE, initial |-> << >>]

\* 0, 1, 2, ... on a channel.
Iota(c) == P(<<N("token", <<>>), N("state", <<>>), Send(1, 2, c), N("inc", <<2>>)>>, 3, 4, 0)
\* Running sums of what arrives.
Accum(c, d) ==
  P(<<N("token", <<>>), N("state", <<>>), Recv(1, c), N("add", <<2, 3>>), Send(3, 4, d)>>, 5, 4, 0)
\* Sends, then waits for the answer, plus one.
Ping(c, d) ==
  P(<<N("token", <<>>), N("state", <<>>), Send(1, 2, c), Recv(3, d), N("inc", <<4>>)>>, 4, 5, 0)
\* Hands on what arrives.
Pass(c, d) == P(<<N("token", <<>>), Recv(1, c), Send(2, 2, d)>>, 3, 0, 0)
\* Sums two channels that are received side by side.
Join(a, b, d) ==
  P(<<N("token", <<>>), Recv(1, a), Recv(1, b), N("after_all", <<2, 3>>), N("add", <<2, 3>>),
      Send(4, 5, d)>>, 6, 0, 0)
\* Receives and sends in every second iteration.
Alternate(c, d) ==
  P(<<N("token", <<>>), N("state", <<>>), N("odd", <<2>>), RecvIf(1, c, 3), SendIf(4, 4, d, 3),
      N("inc", <<2>>)>>, 5, 6, 0)
\* Looks at a channel without waiting.
Peek(c, d) == P(<<N("token", <<>>), RecvNb(1, c), Send(2, 2, d)>>, 3, 0, 0)

Net(procs, channels, in, out, expected) ==
  [procs |-> procs, channels |-> channels, in |-> in, out |-> out, expected |-> expected]

Counting == [k \in 1..12 |-> (k - 1) % 4]
CountingFrom1 == [k \in 1..12 |-> k % 4]
Sums == <<0, 1, 3, 2, 2, 3, 1, 0, 0, 1, 3, 2>>

\* Every order in which a package may hold the procs.
Orders(ps) == {<<ps[f[1]], ps[f[2]]>> : f \in {<<1, 2>>, <<2, 1>>}}
Orders3(ps) ==
  {<<ps[f[1]], ps[f[2]], ps[f[3]]>> : f \in {g \in [1..3 -> 1..3] : {g[1], g[2], g[3]} = 1..3}}

AccumNets ==
  {Net(ps, [a |-> Fifo(<<>>), z |-> Fifo(<<>>)], "", "z", [a |-> Counting, z |-> Sums]) :
     ps \in Orders(<<Iota("a"), Accum("a", "z")>>)}
PingNets ==
  {Net(ps, [a |-> Fifo(<<>>), z |-> Fifo(<<>>)], "", "z", [a |-> Counting, z |-> Counting]) :
     ps \in Orders(<<Ping("a", "z"), Pass("a", "z")>>)}
\* Two procs that wait for each other, without and with an initial value.
RingNets ==
  {Net(ps, [a |-> Fifo(i), z |-> Fifo(<<>>)], "", "z",
       [a |-> [k \in 1..12 |-> 3], z |-> [k \in 1..12 |-> 3]]) :
     ps \in Orders(<<Pass("a", "z"), Pass("z", "a")>>), i \in {<<>>, <<3>>}}
\* One input from outside, one from a counter.
JoinNets ==
  {Net(ps, [i |-> Fifo(<<>>), a |-> Fifo(<<>>), b |-> Fifo(<<>>), z |-> Fifo(<<>>)], "i", "z",
       [i |-> CountingFrom1, a |-> CountingFrom1, b |-> Counting,
        z |-> [k \in 1..12 |-> (2 * k - 1) % 4]]) :
     ps \in Orders3(<<Pass("i", "a"), Iota("b"), Join("a", "b", "z")>>)}
AlternateNets ==
  {Net(ps, [i |-> Fifo(<<>>), a |-> Fifo(<<>>), z |-> Fifo(<<>>)], "i", "z",
       [i |-> CountingFrom1, a |-> CountingFrom1, z |-> CountingFrom1]) :
     ps \in Orders(<<Alternate("i", "a"), Pass("a", "z")>>)}
\* Non-blocking and single-value channels: what is read depends on when.
PeekNets ==
  {Net(ps, [a |-> c, z |-> Fifo(<<>>)], "", "z", [a |-> Counting]) :
     ps \in Orders(<<Iota("a"), Peek("a", "z")>>), c \in {Fifo(<<>>), Single}}
SingleNets ==
  {Net(ps, [a |-> Single, z |-> Fifo(<<>>)], "", "z", [a |-> Counting]) :
     ps \in Orders(<<Iota("a"), Pass("a", "z")>>)}

MCNetworks ==
  AccumNets \cup PingNets \cup RingNets \cup JoinNets \cup AlternateNets \cup PeekNets \cup SingleNets
=============================================================================
