----------------------------- MODULE ProcNodes -------------------------------
(***************************************************************************)
(* What the nodes of a network of procs do, and the network as a plain     *)
(* dataflow machine: any node whose operands have results, and which is    *)
(* not a receive waiting for data, may execute next.  This is the promise  *)
(* the interpreter of ProcNetwork.tla is held against.                     *)
(*                                                                         *)
(* A network has channels and procs.  The nodes of a proc are listed in    *)
(* topological order; args are the operands, pred (0 for none) the operand *)
(* that is the predicate of a send or receive, data that of the value      *)
(* sent.  The token of a result and the valid bit of a non-blocking        *)
(* receive are left out.                                                   *)
(***************************************************************************)
EXTENDS Integers, Sequences, FiniteSets

CONSTANTS Networks, Modulus, MaxFed

ASSUME NodesAssumption == {Modulus, MaxFed} \subseteq Nat /\ Modulus > 0

VARIABLES
  net,
  queues,      \* of each channel
  state,       \* of each proc, during this iteration
  result,      \* of each node of each proc, in this iteration
  sent,        \* every value ever enqueued on a channel
  fed          \* values enqueued on the receive-only channel

netVars == <<net, queues, state, result, sent, fed>>

NoResult == -1
Procs == DOMAIN net.procs
NodesOf(p) == DOMAIN net.procs[p].nodes
Node(p, k) == net.procs[p].nodes[k]
Fresh(p) == [k \in NodesOf(p) |-> NoResult]

IsVisited(p, k) == result[p][k] # NoResult
OperandsVisited(p, k) == \A j \in DOMAIN Node(p, k).args : IsVisited(p, Node(p, k).args[j])

Predicate(p, k) == Node(p, k).pred # 0 => result[p][Node(p, k).pred] = 1

(* A blocking receive that wants data and finds its queue empty.           *)
Blocked(p, k) ==
  Node(p, k).op = "recv" /\ Predicate(p, k) /\ queues[Node(p, k).ch] = << >>

Enqueue(c, v) == [queues EXCEPT ![c] = IF net.channels[c].single THEN <<v>> ELSE Append(@, v)]
Dequeue(c) == [queues EXCEPT ![c] = IF net.channels[c].single THEN @ ELSE Tail(@)]

Arg(p, k, j) == result[p][Node(p, k).args[j]]

(* The value of a node that is neither a send nor a receive.               *)
Computed(p, k) ==
  CASE Node(p, k).op \in {"token", "after_all"} -> 0
    [] Node(p, k).op = "state" -> state[p]
    [] Node(p, k).op = "inc" -> (Arg(p, k, 1) + 1) % Modulus
    [] Node(p, k).op = "add" -> (Arg(p, k, 1) + Arg(p, k, 2)) % Modulus
    [] Node(p, k).op = "odd" -> Arg(p, k, 1) % 2

SetResult(p, k, v) == result' = [result EXCEPT ![p][k] = v]

HandleReceive(p, k) ==
  LET c == Node(p, k).ch
  IN  IF ~Predicate(p, k) \/ queues[c] = << >>
      THEN SetResult(p, k, 0) /\ UNCHANGED <<queues, sent>>
      ELSE /\ SetResult(p, k, Head(queues[c]))
           /\ queues' = Dequeue(c)
           /\ UNCHANGED sent

HandleSend(p, k) ==
  LET v == result[p][Node(p, k).data] c == Node(p, k).ch
  IN  /\ SetResult(p, k, 0)
      /\ IF Predicate(p, k)
         THEN /\ queues' = Enqueue(c, v)
              /\ sent' = [sent EXCEPT ![c] = Append(@, v)]
         ELSE UNCHANGED <<queues, sent>>

VisitSingleNode(p, k) ==
  /\ CASE Node(p, k).op \in {"recv", "recv_nb"} -> HandleReceive(p, k)
       [] Node(p, k).op = "send" -> HandleSend(p, k)
       [] OTHER -> SetResult(p, k, Computed(p, k)) /\ UNCHANGED <<queues, sent>>
  /\ UNCHANGED <<net, state, fed>>

(* The network as it is created: initial values are in the channels.       *)
NetInit ==
  /\ net \in Networks
  /\ queues = [c \in DOMAIN net.channels |-> net.channels[c].initial]
  /\ sent = queues
  /\ state = [p \in Procs |-> net.procs[p].init]
  /\ result = [p \in Procs |-> Fresh(p)]
  /\ fed = 0

(* Something outside enqueues on the receive-only channel, or takes a      *)
(* value from the send-only one.                                           *)
Feed ==
  /\ net.in # ""
  /\ fed < MaxFed
  /\ fed' = fed + 1
  /\ queues' = Enqueue(net.in, (fed + 1) % Modulus)
  /\ sent' = [sent EXCEPT ![net.in] = Append(@, (fed + 1) % Modulus)]
  /\ UNCHANGED <<net, state, result>>

Take ==
  /\ queues[net.out] # << >>
  /\ queues' = Dequeue(net.out)
  /\ UNCHANGED <<net, state, result, sent, fed>>

ResetAll ==
  /\ state' = [p \in Procs |-> net.procs[p].init]
  /\ result' = [p \in Procs |-> Fresh(p)]
  /\ UNCHANGED <<net, queues, sent, fed>>

-----------------------------------------------------------------------------
Fire(p, k) ==
  /\ ~IsVisited(p, k)
  /\ OperandsVisited(p, k)
  /\ ~Blocked(p, k)
  /\ VisitSingleNode(p, k)

(* A new iteration begins when every node of the last one has executed.    *)
NextState(p) == IF net.procs[p].next_state = 0 THEN 0 ELSE result[p][net.procs[p].next_state]

NextIteration(p) ==
  /\ \A k \in NodesOf(p) : IsVisited(p, k)
  /\ state' = [state EXCEPT ![p] = NextState(p)]
  /\ result' = [result EXCEPT ![p] = Fresh(p)]
  /\ UNCHANGED <<net, queues, sent, fed>>

Dataflow ==
  NetInit /\ [][\/ \E p \in Procs : NextIteration(p) \/ \E k \in NodesOf(p) : Fire(p, k)
                \/ Feed \/ Take \/ ResetAll]_netVars
=============================================================================
