---------------------------- MODULE ProcNetwork ------------------------------
(***************************************************************************)
(* src/xls/xls/interpreter/proc_interpreter.cc and                         *)
(* proc_network_interpreter.cc: the procs of a network are run in turn,    *)
(* each until its iteration is complete or it waits for data, and again    *)
(* until a whole round executes nothing.  That is one tick.                *)
(***************************************************************************)
EXTENDS ProcNodes

CONSTANTS MaxCalls, MaxTicks, OutputCount, MaxResets

ASSUME NetworkAssumption == {MaxCalls, MaxTicks, OutputCount, MaxResets} \subseteq Nat

VARIABLES
  live,        \* procs whose visitor_ exists
  iterations,  \* current_iteration_ of each proc
  at,          \* "idle", or in TickInternal before a "proc" or at a "node"
  turn, pos,   \* the proc in turn, the node in turn
  complete, progress,            \* RunResult of the proc in turn
  completed, round, whole,       \* completed_procs, progress_made_this_loop,
                                 \* global_progress_made
  blocked,     \* blocked_channel_set
  call, calls, ticks,            \* which method runs, how many ran
  outcome,     \* of the last call
  begun,       \* iterations of each proc when the tick began
  resets

runVars == <<at, turn, pos, complete, progress>>
tickVars == <<completed, round, whole, blocked, begun>>
callVars == <<call, calls, ticks, outcome, resets>>
vars == <<netVars, live, iterations, runVars, tickVars, callVars>>

Init ==
  /\ NetInit
  /\ live = {} /\ iterations = [p \in Procs |-> 0]
  /\ at = "idle" /\ turn = 1 /\ pos = 1
  /\ complete = TRUE /\ progress = FALSE
  /\ completed = {} /\ round = FALSE /\ whole = FALSE
  /\ blocked = {} /\ begun = iterations
  /\ call = "none" /\ calls = 0 /\ ticks = 0 /\ outcome = "none" /\ resets = 0

-----------------------------------------------------------------------------
(* TickInternal up to its first round.                                     *)
BeginTick ==
  /\ at' = "proc" /\ turn' = 1
  /\ completed' = {} /\ whole' = FALSE
  /\ round' = FALSE /\ blocked' = {}
  /\ begun' = iterations
  /\ UNCHANGED <<netVars, live, iterations, pos, complete, progress>>

NeedsMoreOutput == Len(queues[net.out]) < OutputCount

(* Tick, TickUntilBlocked and TickUntilOutput are called.                  *)
Call(method) ==
  /\ at = "idle" /\ calls < MaxCalls
  /\ call' = method /\ calls' = calls + 1 /\ ticks' = 0
  /\ UNCHANGED resets

Return(how) ==
  /\ at' = "idle" /\ outcome' = how
  /\ UNCHANGED <<netVars, live, iterations, turn, pos, complete, progress, tickVars>>

CallTick == Call("Tick") /\ outcome' = "none" /\ BeginTick

CallUntilBlocked ==
  /\ Call("UntilBlocked")
  /\ IF MaxTicks = 0 THEN Return("deadline") ELSE outcome' = "none" /\ BeginTick

CallUntilOutput ==
  /\ Call("UntilOutput")
  /\ IF ~NeedsMoreOutput THEN Return("ok")
     ELSE IF MaxTicks = 0 THEN Return("deadline")
     ELSE outcome' = "none" /\ BeginTick

-----------------------------------------------------------------------------
SkipCompleted ==
  /\ at = "proc" /\ turn \in completed
  /\ turn' = turn + 1
  /\ UNCHANGED <<netVars, live, iterations, at, pos, complete, progress, tickVars, callVars>>

IsIterationComplete_StateOnly(p) ==
  p \notin live \/ net.procs[p].next_state = 0 \/ IsVisited(p, net.procs[p].next_state)

IsIterationComplete(p) ==
  \/ p \notin live
  \/ /\ net.procs[p].next_state # 0 => IsVisited(p, net.procs[p].next_state)
     /\ IsVisited(p, net.procs[p].next_token)

StartRun_Restarts ==
  /\ at = "proc" /\ turn \in Procs \ completed
  /\ at' = "node" /\ pos' = 1
  /\ complete' = TRUE /\ progress' = FALSE
  /\ live' = live \cup {turn}
  /\ state' = IF IsIterationComplete(turn) /\ turn \in live
              THEN [state EXCEPT ![turn] = NextState(turn)] ELSE state
  /\ result' = [result EXCEPT ![turn] = Fresh(turn)]
  /\ UNCHANGED <<net, queues, sent, fed, iterations, turn, tickVars, callVars>>

(* RunIterationUntilCompleteOrBlocked up to its loop.                      *)
StartRun ==
  /\ at = "proc" /\ turn \in Procs \ completed
  /\ at' = "node" /\ pos' = 1
  /\ complete' = TRUE /\ progress' = FALSE
  /\ live' = live \cup {turn}
  /\ IF IsIterationComplete(turn) /\ turn \in live
     THEN /\ state' = [state EXCEPT ![turn] = NextState(turn)]
          /\ result' = [result EXCEPT ![turn] = Fresh(turn)]
     ELSE UNCHANGED <<state, result>>
  /\ UNCHANGED <<net, queues, sent, fed, iterations, turn, tickVars, callVars>>

AtNode == at = "node" /\ pos \in NodesOf(turn)

(* A node that has a result, or an operand of which has none.              *)
PassNode ==
  /\ AtNode
  /\ ~IsVisited(turn, pos) => ~OperandsVisited(turn, pos)
  /\ pos' = pos + 1
  /\ UNCHANGED <<netVars, live, iterations, at, turn, complete, progress, tickVars, callVars>>

Ready == AtNode /\ ~IsVisited(turn, pos) /\ OperandsVisited(turn, pos)

BlockedReceive_Breaks ==
  /\ Ready /\ Blocked(turn, pos)
  /\ pos' = Cardinality(NodesOf(turn)) + 1
  /\ complete' = FALSE
  /\ blocked' = blocked \cup {Node(turn, pos).ch}
  /\ UNCHANGED <<netVars, live, iterations, at, turn, progress, completed, round, whole, begun,
                 callVars>>

BlockedReceive ==
  /\ Ready /\ Blocked(turn, pos)
  /\ pos' = pos + 1
  /\ complete' = FALSE
  /\ blocked' = blocked \cup {Node(turn, pos).ch}
  /\ UNCHANGED <<netVars, live, iterations, at, turn, progress, completed, round, whole, begun,
                 callVars>>

ExecuteNode ==
  /\ Ready /\ ~Blocked(turn, pos)
  /\ VisitSingleNode(turn, pos)
  /\ pos' = pos + 1 /\ progress' = TRUE
  /\ UNCHANGED <<live, iterations, at, turn, complete, tickVars, callVars>>

(* The run returns to TickInternal.                                        *)
FinishRun ==
  /\ at = "node" /\ pos > Cardinality(NodesOf(turn))
  /\ iterations' = IF complete THEN [iterations EXCEPT ![turn] = @ + 1] ELSE iterations
  /\ completed' = IF complete THEN completed \cup {turn} ELSE completed
  /\ round' = (round \/ progress)
  /\ at' = "proc" /\ turn' = turn + 1
  /\ UNCHANGED <<netVars, live, pos, complete, progress, whole, blocked, begun, callVars>>

RoundOver == at = "proc" /\ turn > Len(net.procs)


NextRound ==
  /\ RoundOver /\ round
  /\ whole' = TRUE /\ round' = FALSE /\ blocked' = {} /\ turn' = 1
  /\ UNCHANGED <<netVars, live, iterations, at, pos, complete, progress, completed, begun, callVars>>

(* The end of a tick, and what the method that asked for it does next.     *)
EndOfTick ==
  /\ RoundOver /\ ~round /\ call = "Tick"
  /\ Return(IF whole THEN "ok" ELSE "deadlock")
  /\ UNCHANGED <<call, calls, ticks, resets>>

EndOfTickUntilBlocked ==
  /\ RoundOver /\ ~round /\ call = "UntilBlocked"
  /\ ticks' = IF whole THEN ticks + 1 ELSE ticks
  /\ IF ~whole THEN Return("blocked")
     ELSE IF ticks + 1 >= MaxTicks THEN Return("deadline")
     ELSE BeginTick /\ UNCHANGED outcome
  /\ UNCHANGED <<call, calls, resets>>

EndOfTickUntilOutput ==
  /\ RoundOver /\ ~round /\ call = "UntilOutput"
  /\ ticks' = IF whole THEN ticks + 1 ELSE ticks
  /\ IF ~whole THEN Return("deadlock")
     ELSE IF ~NeedsMoreOutput THEN Return("ok")
     ELSE IF ticks + 1 >= MaxTicks THEN Return("deadline")
     ELSE BeginTick /\ UNCHANGED outcome
  /\ UNCHANGED <<call, calls, resets>>

(* Between calls: the queues are used from outside, or ResetState.         *)
Outside ==
  /\ at = "idle"
  /\ Feed \/ Take
  /\ outcome' = "none"
  /\ UNCHANGED <<live, iterations, runVars, tickVars, call, calls, ticks, resets>>

ResetState ==
  /\ at = "idle" /\ resets < MaxResets
  /\ ResetAll
  /\ live' = Procs
  /\ resets' = resets + 1 /\ outcome' = "none"
  /\ UNCHANGED <<iterations, runVars, tickVars, call, calls, ticks>>

(* ResolveState of the network asks every proc; one with a state and no    *)
(* visitor_ reads through a null pointer.                                  *)
ResolveState ==
  /\ at = "idle"
  /\ outcome' = IF \E p \in Procs \ live : net.procs[p].next_state # 0
                THEN "null" ELSE "resolved"
  /\ UNCHANGED <<netVars, live, iterations, runVars, tickVars, call, calls, ticks, resets>>

Step ==
  \/ SkipCompleted \/ StartRun \/ PassNode \/ BlockedReceive \/ ExecuteNode \/ FinishRun
  \/ NextRound \/ EndOfTick \/ EndOfTickUntilBlocked \/ EndOfTickUntilOutput

Next == CallTick \/ CallUntilBlocked \/ CallUntilOutput \/ Step \/ Outside \/ ResetState
        \/ ResolveState

(* The interpreter is one thread; a call goes on until it returns.         *)
Spec == Init /\ [][Next]_vars /\ WF_vars(Step)

-----------------------------------------------------------------------------
(***************************************************************************)
(* Properties.                                                             *)
(***************************************************************************)

(* A report of deadlock is right: every proc is in the middle of an        *)
(* iteration, all it could execute next are receives that wait for data,   *)
(* and the channels named are exactly those (TickInternal, "This is        *)
(* necessarily a deadlock").                                               *)
DeadlockSound ==
  at = "idle" /\ outcome \in {"deadlock", "blocked"} =>
    LET waiting == {<<p, k>> \in UNION {{p} \X NodesOf(p) : p \in Procs} :
                      ~IsVisited(p, k) /\ OperandsVisited(p, k)}
    IN  /\ \A p \in Procs : \E w \in waiting : w[1] = p
        /\ \A w \in waiting : Blocked(w[1], w[2])
        /\ blocked = {Node(w[1], w[2]).ch : w \in waiting}

(* In whatever order the procs are run, and however a tick ends in the     *)
(* middle of their iterations, the values on a channel come in one order   *)
(* (given with the network): scheduling does not show.                     *)
ScheduleInvisible ==
  resets = 0 =>
    \A c \in DOMAIN net.expected : \A k \in DOMAIN sent[c] : sent[c][k] = net.expected[c][k]

(* The interpreter executes the network: nodes once per iteration, after   *)
(* their operands, no receive skipped, no iteration begun before the last  *)
(* is over.                                                                *)
RefinesDataflow == Dataflow

=============================================================================
