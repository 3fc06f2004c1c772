---------------------------- MODULE NocSimulator -----------------------------
(***************************************************************************)
(* src/xls/xls/noc/simulation/sim_objects.cc: a cycle of the network       *)
(* simulator ticks all components again and again until each has brought   *)
(* flits forward and credits backward; a component that misses an input    *)
(* tries again in the next tick.                                           *)
(*                                                                         *)
(* Cycle numbers are only compared with the current one, so a connection   *)
(* or component is up to date ("ready", "done") or not, and cycle 0 is     *)
(* marked.  A flit to be sent at a later time is one handed over later.    *)
(* Route information and statistics are left out.                          *)
(***************************************************************************)
EXTENDS Integers, Sequences, FiniteSets, FiniteSetsExt, SequencesExt

CONSTANTS
  Networks,    \* comps in the order of a tick, routes, depths, flows
  MaxFlits,    \* flits of each flow
  MaxTicks     \* the limit given to RunCycle

ASSUME NocAssumption == {MaxFlits, MaxTicks} \subseteq Nat

VARIABLES
  net,
  cycle,       \* "none" before the first cycle, "first" is cycle 0, "later"
  at, turn, converged, nticks, outcome,
  fwd, rev,                \* of a connection (and virtual channel)
  fdone, rdone,            \* forward_, reverse_propagated_cycle_ is this one
  stages, rstages,         \* of a link
  internal,                \* internal_..propagated_cycle_ is this one
  data_to_send, credit, credit_update,
  buffers, credit_to_send, \* of an input of a router
  received, handed         \* by a sink; to the source of each flow

tickVars == <<at, turn, converged, nticks, outcome, cycle>>
linkVars == <<stages, rstages>>
creditVars == <<credit, credit_update, credit_to_send>>
vars == <<net, tickVars, fwd, rev, fdone, rdone, linkVars, internal, data_to_send, creditVars,
          buffers, received, handed>>

Comps == DOMAIN net.comps
Kind(k) == net.comps[k].kind
In(k) == net.comps[k].in
Out(k) == net.comps[k].out
Conns == DOMAIN net.depth
VCs == 1 .. net.vcs
Bubble == [flow |-> 0, vc |-> 1, n |-> 0]
PerVC(v) == [c \in Conns |-> [vc \in VCs |-> v]]

Init ==
  /\ net \in Networks
  /\ cycle = "none" /\ at = "idle" /\ turn = 1 /\ converged = TRUE /\ nticks = 0
  /\ outcome = "none"
  /\ fwd = [c \in Conns |-> [ready |-> FALSE, flit |-> Bubble]]
  /\ rev = PerVC([ready |-> FALSE, credit |-> 0])
  /\ fdone = {} /\ rdone = {} /\ internal = {}
  /\ stages = [k \in Comps |-> << >>]
  /\ rstages = [k \in Comps |-> [vc \in VCs |-> << >>]]
  /\ data_to_send = [k \in Comps |-> [vc \in VCs |-> << >>]]
  /\ credit = PerVC(0) /\ credit_to_send = PerVC(0)
  /\ credit_update = PerVC([ready |-> FALSE, credit |-> 0])
  /\ buffers = PerVC(<< >>)
  /\ received = [k \in Comps |-> << >>]
  /\ handed = [f \in DOMAIN net.flows |-> 0]

(* A flit is handed to a source.                                           *)
SendFlitAtTime(f) ==
  /\ at = "idle" /\ outcome # "error" /\ handed[f] < MaxFlits
  /\ handed' = [handed EXCEPT ![f] = @ + 1]
  /\ LET w == net.flows[f]
     IN  data_to_send' = [data_to_send EXCEPT ![w.src][w.vc] =
                            Append(@, [flow |-> f, vc |-> w.vc, n |-> handed[f] + 1])]
  /\ UNCHANGED <<net, tickVars, fwd, rev, fdone, rdone, linkVars, internal, creditVars, buffers,
                 received>>

(* RunCycle up to its first tick: whatever was up to date no longer is.    *)
RunCycle ==
  /\ at = "idle" /\ outcome # "error"
  /\ cycle' = IF cycle = "none" THEN "first" ELSE "later"
  /\ at' = "forward" /\ turn' = 1 /\ converged' = TRUE /\ nticks' = 0 /\ outcome' = "none"
  /\ fwd' = [c \in Conns |-> [fwd[c] EXCEPT !.ready = FALSE]]
  /\ rev' = [c \in Conns |-> [vc \in VCs |-> [rev[c][vc] EXCEPT !.ready = FALSE]]]
  /\ credit_update' =
       [c \in Conns |-> [vc \in VCs |-> [credit_update[c][vc] EXCEPT !.ready = FALSE]]]
  /\ fdone' = {} /\ rdone' = {} /\ internal' = {}
  /\ UNCHANGED <<net, linkVars, data_to_send, credit, credit_to_send, buffers, received, handed>>

-----------------------------------------------------------------------------
(* SimNetworkComponentBase::Tick: forward, then reverse, each until it     *)
(* has succeeded in this cycle.                                            *)
TryForward(kind) == at = "forward" /\ turn \in Comps /\ Kind(turn) = kind /\ turn \notin fdone
TryReverse(kind) == at = "reverse" /\ Kind(turn) = kind /\ turn \notin rdone

ForwardEnds(ok) ==
  /\ at' = "reverse"
  /\ fdone' = IF ok THEN fdone \cup {turn} ELSE fdone
  /\ converged' = (converged /\ ok)
  /\ UNCHANGED <<net, turn, nticks, outcome, cycle, rdone>>

ReverseEnds(ok) ==
  /\ at' = "forward" /\ turn' = turn + 1
  /\ rdone' = IF ok THEN rdone \cup {turn} ELSE rdone
  /\ converged' = (converged /\ ok)
  /\ UNCHANGED <<net, nticks, outcome, cycle, fdone>>

ForwardDone ==
  /\ at = "forward" /\ turn \in Comps /\ turn \in fdone
  /\ ForwardEnds(TRUE)
  /\ UNCHANGED <<fwd, rev, linkVars, internal, data_to_send, creditVars, buffers, received, handed>>

ReverseDone ==
  /\ at = "reverse" /\ turn \in rdone
  /\ ReverseEnds(TRUE)
  /\ UNCHANGED <<fwd, rev, linkVars, internal, data_to_send, creditVars, buffers, received, handed>>

-----------------------------------------------------------------------------
(* Credits received in the last cycle are added.                           *)
WithUpdates(c) == [vc \in VCs |-> credit[c][vc] + credit_update[c][vc].credit]

(* SimNetworkInterfaceSrc: the lowest channel that has a flit and a credit *)
(* is sent.                                                                *)
SourceForward ==
  /\ TryForward("source")
  /\ LET c == Out(turn)[1]
         now == WithUpdates(c)
         able == {vc \in VCs : data_to_send[turn][vc] # << >> /\ now[vc] > 0}
     IN  IF able = {}
         THEN /\ fwd' = [fwd EXCEPT ![c] = [ready |-> TRUE, flit |-> Bubble]]
              /\ credit' = [credit EXCEPT ![c] = now]
              /\ UNCHANGED data_to_send
         ELSE LET vc == Min(able)
              IN  /\ fwd' = [fwd EXCEPT ![c] = [ready |-> TRUE, flit |-> Head(data_to_send[turn][vc])]]
                  /\ credit' = [credit EXCEPT ![c] = [now EXCEPT ![vc] = @ - 1]]
                  /\ data_to_send' = [data_to_send EXCEPT ![turn][vc] = Tail(@)]
  /\ ForwardEnds(TRUE)
  /\ UNCHANGED <<rev, linkVars, internal, credit_update, credit_to_send, buffers, received, handed>>

(* Credits that have arrived on connections cs, kept for the next cycle.   *)
TakeCredits(cs) ==
  credit_update' =
    [c \in Conns |-> [vc \in VCs |->
       IF c \in cs /\ rev[c][vc].ready /\ ~credit_update[c][vc].ready
       THEN rev[c][vc] ELSE credit_update[c][vc]]]

SourceReverse ==
  /\ TryReverse("source")
  /\ TakeCredits({Out(turn)[1]})
  /\ ReverseEnds(\A vc \in VCs : rev[Out(turn)[1]][vc].ready)
  /\ UNCHANGED <<fwd, rev, linkVars, internal, data_to_send, credit, credit_to_send, buffers,
                 received, handed>>

-----------------------------------------------------------------------------
(* SimplePipelineImpl: with stages the output does not wait for the input. *)
TryPropagation(count, from, to, queue, empty) ==
  IF count = 0
  THEN [to |-> IF from.ready THEN from ELSE to, queue |-> queue]
  ELSE LET shift == ~to.ready /\ Len(queue) >= count
           left == IF shift THEN Tail(queue) ELSE queue
       IN  [to |-> IF to.ready THEN to ELSE IF shift THEN Head(queue) ELSE empty,
            queue |-> IF from.ready THEN Append(left, from) ELSE left]

LinkForward ==
  /\ TryForward("link")
  /\ LET from == In(turn)[1] to == Out(turn)[1]
         p == TryPropagation(net.comps[turn].stages, fwd[from], fwd[to], stages[turn],
                             [ready |-> TRUE, flit |-> Bubble])
     IN  /\ fwd' = [fwd EXCEPT ![to] = p.to]
         /\ stages' = [stages EXCEPT ![turn] = p.queue]
         /\ ForwardEnds(fwd[from].ready)
  /\ UNCHANGED <<rev, rstages, internal, data_to_send, creditVars, buffers, received, handed>>

(* A channel that has propagated in this cycle is left alone.              *)
LinkReverse ==
  /\ TryReverse("link")
  /\ LET from == Out(turn)[1] to == In(turn)[1]
         p == [vc \in VCs |->
                 IF <<turn, vc>> \in internal THEN [to |-> rev[to][vc], queue |-> rstages[turn][vc]]
                 ELSE TryPropagation(net.comps[turn].rstages, rev[from][vc], rev[to][vc],
                                     rstages[turn][vc], [ready |-> TRUE, credit |-> 0])]
     IN  /\ rev' = [rev EXCEPT ![to] = [vc \in VCs |-> p[vc].to]]
         /\ rstages' = [rstages EXCEPT ![turn] = [vc \in VCs |-> p[vc].queue]]
         /\ internal' = internal \cup {<<turn, vc>> : vc \in {v \in VCs : rev[from][v].ready}}
         /\ ReverseEnds(\A vc \in VCs : rev[from][vc].ready)
  /\ UNCHANGED <<fwd, stages, data_to_send, creditVars, buffers, received, handed>>

-----------------------------------------------------------------------------
(* The output and channel for the flit at the head of an input buffer.     *)
GetDestinationPortIndexAndVcIndex(k, flit) ==
  [conn |-> net.routes[k][flit.flow], vc |-> net.comps[k].vcmap[flit.vc]]

(* One input and channel in turn; s is what the ones before it left.       *)
Arbitrate_Overwrites(k, s, i, vc) ==
  IF s.buffers[i][vc] = << >> THEN s
  ELSE LET flit == Head(s.buffers[i][vc])
           o == GetDestinationPortIndexAndVcIndex(k, flit)
       IN  IF s.credit[o.conn][o.vc] <= 0 THEN s
           ELSE [fwd |-> [s.fwd EXCEPT ![o.conn] = [ready |-> TRUE, flit |-> [flit EXCEPT !.vc = o.vc]]],
                 credit |-> [s.credit EXCEPT ![o.conn][o.vc] = @ - 1],
                 give |-> [s.give EXCEPT ![i][vc] = @ + 1],
                 buffers |-> [s.buffers EXCEPT ![i][vc] = Tail(@)]]

Arbitrate_LastCreditKept(k, s, i, vc) ==
  IF s.buffers[i][vc] = << >> THEN s
  ELSE LET flit == Head(s.buffers[i][vc])
           o == GetDestinationPortIndexAndVcIndex(k, flit)
       IN  IF s.credit[o.conn][o.vc] <= 1 \/ s.fwd[o.conn].ready THEN s
           ELSE [fwd |-> [s.fwd EXCEPT ![o.conn] = [ready |-> TRUE, flit |-> [flit EXCEPT !.vc = o.vc]]],
                 credit |-> [s.credit EXCEPT ![o.conn][o.vc] = @ - 1],
                 give |-> [s.give EXCEPT ![i][vc] = @ + 1],
                 buffers |-> [s.buffers EXCEPT ![i][vc] = Tail(@)]]

Arbitrate(k, s, i, vc) ==
  IF s.buffers[i][vc] = << >> THEN s
  ELSE LET flit == Head(s.buffers[i][vc])
           o == GetDestinationPortIndexAndVcIndex(k, flit)
       IN  IF s.credit[o.conn][o.vc] <= 0 \/ s.fwd[o.conn].ready THEN s
           ELSE [fwd |-> [s.fwd EXCEPT ![o.conn] = [ready |-> TRUE, flit |-> [flit EXCEPT !.vc = o.vc]]],
                 credit |-> [s.credit EXCEPT ![o.conn][o.vc] = @ - 1],
                 give |-> [s.give EXCEPT ![i][vc] = @ + 1],
                 buffers |-> [s.buffers EXCEPT ![i][vc] = Tail(@)]]

(* Priority goes to the lowest channel, then to the lowest input.          *)
Priority(k) ==
  [j \in 1 .. net.vcs * Len(In(k)) |->
     [vc |-> ((j - 1) \div Len(In(k))) + 1, conn |-> In(k)[((j - 1) % Len(In(k))) + 1]]]

(* Credits are added in the first try of a cycle only.                     *)
RouterCredit(k) ==
  IF <<k, 0>> \in internal THEN credit
  ELSE [c \in Conns |-> IF c \in ToSet(Out(k)) THEN WithUpdates(c) ELSE credit[c]]

(* Buffers and bypass: a flit may leave in the cycle in which it arrives.  *)
(* The push does not look at max_queue_size.                               *)
Pushed(k) ==
  [c \in Conns |-> [vc \in VCs |->
     IF c \in ToSet(In(k)) /\ fwd[c].flit # Bubble /\ fwd[c].flit.vc = vc
     THEN Append(buffers[c][vc], fwd[c].flit) ELSE buffers[c][vc]]]

NoneToSend_Accumulates(k) == credit_to_send

NoneToSend(k) ==
  [c \in Conns |-> IF c \in ToSet(In(k)) THEN [vc \in VCs |-> 0] ELSE credit_to_send[c]]

RouterForward ==
  /\ TryForward("router")
  /\ internal' = internal \cup {<<turn, 0>>}
  /\ IF \A c \in ToSet(In(turn)) : fwd[c].ready
     THEN LET step(s, x) == Arbitrate(turn, s, x.conn, x.vc)
              s == FoldLeft(step, [fwd |-> fwd, credit |-> RouterCredit(turn),
                                   give |-> NoneToSend(turn), buffers |-> Pushed(turn)],
                            Priority(turn))
          IN  /\ fwd' = [c \in Conns |->
                           IF c \in ToSet(Out(turn)) /\ ~s.fwd[c].ready
                           THEN [ready |-> TRUE, flit |-> Bubble] ELSE s.fwd[c]]
              /\ credit' = s.credit /\ credit_to_send' = s.give /\ buffers' = s.buffers
              /\ ForwardEnds(TRUE)
     ELSE /\ credit' = RouterCredit(turn)
          /\ ForwardEnds(FALSE)
          /\ UNCHANGED <<fwd, credit_to_send, buffers>>
  /\ UNCHANGED <<rev, linkVars, data_to_send, credit_update, received, handed>>

(* Credits go upstream after forward propagation, in cycle 0 for the whole *)
(* buffers; then those from downstream are taken.                          *)
RouterReverse ==
  /\ TryReverse("router")
  /\ IF turn \in fdone
     THEN /\ rev' = [c \in Conns |->
                       IF c \in ToSet(In(turn))
                       THEN [vc \in VCs |-> [ready |-> TRUE,
                               credit |-> IF cycle = "first" THEN net.depth[c]
                                          ELSE credit_to_send[c][vc]]]
                       ELSE rev[c]]
          /\ TakeCredits(ToSet(Out(turn)))
          /\ ReverseEnds(\A c \in ToSet(Out(turn)), vc \in VCs : rev[c][vc].ready)
     ELSE ReverseEnds(FALSE) /\ UNCHANGED <<rev, credit_update>>
  /\ UNCHANGED <<fwd, linkVars, internal, data_to_send, credit, credit_to_send, buffers, received,
                 handed>>

-----------------------------------------------------------------------------
(* SimNetworkInterfaceSink: takes every flit and returns its credit.       *)
SinkForward ==
  /\ TryForward("sink")
  /\ LET c == In(turn)[1] flit == fwd[In(turn)[1]].flit
     IN  IF ~fwd[c].ready
         THEN ForwardEnds(FALSE) /\ UNCHANGED <<received, rev>>
         ELSE /\ received' = IF flit = Bubble THEN received
                             ELSE [received EXCEPT ![turn] = Append(@, flit)]
              /\ rev' = [rev EXCEPT ![c] = [vc \in VCs |-> [ready |-> TRUE,
                   credit |-> IF cycle = "first" THEN net.depth[c]
                              ELSE IF flit # Bubble /\ flit.vc = vc THEN 1 ELSE 0]]]
              /\ ForwardEnds(TRUE)
  /\ UNCHANGED <<fwd, linkVars, internal, data_to_send, creditVars, buffers, handed>>

SinkReverse ==
  /\ TryReverse("sink")
  /\ ReverseEnds(TRUE)
  /\ UNCHANGED <<fwd, rev, linkVars, internal, data_to_send, creditVars, buffers, received, handed>>

-----------------------------------------------------------------------------
(* After a tick: the limit is tested first, also when all have converged.  *)
EndTick ==
  /\ at = "forward" /\ turn > Len(net.comps)
  /\ nticks' = nticks + 1
  /\ turn' = 1
  /\ IF nticks + 1 >= MaxTicks THEN at' = "idle" /\ outcome' = "error" /\ UNCHANGED converged
     ELSE IF converged THEN at' = "idle" /\ outcome' = "ok" /\ UNCHANGED converged
     ELSE converged' = TRUE /\ UNCHANGED <<at, outcome>>
  /\ UNCHANGED <<net, cycle, fwd, rev, fdone, rdone, linkVars, internal, data_to_send, creditVars,
                 buffers, received, handed>>

Tick ==
  \/ ForwardDone \/ ReverseDone \/ SourceForward \/ SourceReverse \/ LinkForward \/ LinkReverse
  \/ RouterForward \/ RouterReverse \/ SinkForward \/ SinkReverse \/ EndTick

Next == (\E f \in DOMAIN net.flows : SendFlitAtTime(f)) \/ RunCycle \/ Tick

(* Whoever simulates runs one cycle after the other.                       *)
Spec == Init /\ [][Next]_vars /\ WF_vars(RunCycle \/ Tick)

-----------------------------------------------------------------------------
(***************************************************************************)
(* Properties.                                                             *)
(***************************************************************************)

SumOf(queue) == FoldLeft(LAMBDA sum, x : sum + x.credit, 0, queue)
FlitsOn(queue, vc) ==
  Len(SelectSeq(queue, LAMBDA x : x.flit # Bubble /\ x.flit.vc = vc))

(* Between cycles, over each link and channel, the credits of the sender,  *)
(* those on their way back, the flits on their way and those in the buffer *)
(* add up to the depth of the buffer.                                      *)
CreditsConserved ==
  at = "idle" /\ cycle # "none" /\ outcome = "ok" =>
    \A k \in Comps : Kind(k) = "link" =>
      LET from == In(k)[1] to == Out(k)[1]
      IN  \A vc \in VCs :
            credit[from][vc] + credit_update[from][vc].credit + SumOf(rstages[k][vc])
              + FlitsOn(stages[k], vc) + Len(buffers[to][vc]) = net.depth[to]

FlitsOf(f, k) ==
  LET own == SelectSeq(received[k], LAMBDA x : x.flow = f)
  IN  [j \in DOMAIN own |-> own[j].n]

(* What a sink has received of a flow are its first flits, in order: none  *)
(* is lost, repeated, overtaken or delivered to another sink.              *)
FlowsInOrder ==
  \A f \in DOMAIN net.flows, k \in Comps :
    FlitsOf(f, k) = IF k = net.flows[f].dest THEN [j \in 1 .. Len(FlitsOf(f, k)) |-> j] ELSE << >>

(* As traffic is finite, again and again everything handed to the sources  *)
(* has arrived: no flit waits for ever for a credit, a buffer or its turn. *)
FlitsArrive ==
  []<>(\A f \in DOMAIN net.flows : Len(FlitsOf(f, net.flows[f].dest)) = handed[f])
=============================================================================
