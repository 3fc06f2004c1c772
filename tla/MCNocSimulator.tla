--------------------------- MODULE MCNocSimulator ----------------------------
(***************************************************************************)
(* Networks for TLC; components stand in the order of a tick (sources,     *)
(* links, routers, sinks).  Connections are numbered; the depth is that of *)
(* the buffer at the end of the connection.                                *)
(***************************************************************************)
EXTENDS NocSimulator

Source(c) == [kind |-> "source", in |-> << >>, out |-> <<c>>]
Link(a, b, s, r) == [kind |-> "link", in |-> <<a>>, out |-> <<b>>, stages |-> s, rstages |-> r]
Router(in, out, vcmap) == [kind |-> "router", in |-> in, out |-> out, vcmap |-> vcmap]
Sink(c) == [kind |-> "sink", in |-> <<c>>, out |-> << >>]
Flow(s, vc, d) == [src |-> s, vc |-> vc, dest |-> d]

\* Two sources share the output of one router.
Merge(s, r, d) ==
  [comps |-> <<Source(1), Source(2), Link(1, 3, s, r), Link(2, 4, s, 0), Link(5, 6, 1, r),
               Router(<<3, 4>>, <<5>>, <<1>>), Sink(6)>>,
   vcs |-> 1, depth |-> [c \in 1..6 |-> d],
   routes |-> [k \in 6..6 |-> [f \in 1..2 |-> 5]],
   flows |-> <<Flow(1, 1, 7), Flow(2, 1, 7)>>]

\* Two virtual channels from one source, exchanged by the router, to two sinks.
Split(s, d) ==
  [comps |-> <<Source(1), Link(1, 2, s, 1), Link(3, 5, 0, s), Link(4, 6, 1, 0),
               Router(<<2>>, <<3, 4>>, <<2, 1>>), Sink(5), Sink(6)>>,
   vcs |-> 2, depth |-> [c \in 1..6 |-> d],
   routes |-> [k \in 5..5 |-> <<3, 4, 3>>],
   flows |-> <<Flow(1, 1, 6), Flow(1, 2, 7), Flow(1, 2, 6)>>]

\* A ring of two routers; each has a source and a sink.  Links in two orders.
RingLinks(order) ==
  LET l == <<Link(1, 3, 0, 0), Link(2, 4, 0, 1), Link(5, 7, 1, 0), Link(6, 8, 1, 1),
             Link(9, 11, 0, 0), Link(10, 12, 0, 0)>>
  IN  IF order = 1 THEN l ELSE [j \in 1..6 |-> l[7 - j]]
Ring(order, d) ==
  [comps |-> <<Source(1), Source(2)>> \o RingLinks(order) \o
             <<Router(<<3, 8>>, <<5, 9>>, <<1>>), Router(<<4, 7>>, <<6, 10>>, <<1>>),
               Sink(11), Sink(12)>>,
   vcs |-> 1, depth |-> [c \in 1..12 |-> d],
   routes |-> [k \in 9..10 |-> IF k = 9 THEN <<5, 9>> ELSE <<10, 6>>],
   flows |-> <<Flow(1, 1, 12), Flow(2, 1, 11)>>]

MCNetworks ==
  {Merge(0, 1, 1), Merge(1, 0, 2), Merge(1, 1, 1), Split(0, 2), Split(1, 1), Ring(1, 1), Ring(2, 1)}
=============================================================================
