--------------------------- MODULE PipelinedBlock ---------------------------
(***************************************************************************)
(* The hardware block that src/xls/xls/codegen/block_conversion.cc makes   *)
(* of a proc, clock cycle by clock cycle: the proc's activations go through*)
(* a pipeline of stages, each with receives and sends over ready/valid     *)
(* channels, and the next state is known in the first stage.               *)
(*                                                                         *)
(* A block b has: stages, their number; recv and send, the stage of each   *)
(* receive and send, by channel; recvIf and sendIf, the proc states in     *)
(* which they are made (their predicates); nonblocking, the receives that  *)
(* do not wait; unguarded, those whose data the proc uses even if the      *)
(* predicate is false; inKind and outKind, the buffers at the ports;       *)
(* pipelined, FALSE for the block of ProcToCombinationalBlock, which has   *)
(* one stage and no registers.                                             *)
(* An activation is the proc's state and the values received so far; it    *)
(* stands for all that is computed from them.                              *)
(***************************************************************************)
EXTENDS Naturals, Sequences, FiniteSets, FiniteSetsExt, SequencesExt, StreamBuffer

CONSTANTS
  Blocks,     \* the blocks to look at
  MaxItems    \* bound: the number of values each producer sends

VARIABLES
  blk,               \* the block
  valid, data,       \* of each stage but the first: the register before it holds an activation; which
  st,                \* the state register
  sent,              \* has_been_sent of each output
  inBuf, outBuf,     \* the buffers at the ports
  offer, ready,      \* pins in this cycle: valid at the inputs, ready at the outputs
  taken,             \* history: how many values each producer has handed over
  delivered,         \* history: what each consumer has got
  started            \* history: how many activations have left the first stage

regs == <<valid, data, st, sent, inBuf, outBuf>>
vars == <<blk, regs, offer, ready, taken, delivered, started>>

Ins == DOMAIN blk.recv
Outs == DOMAIN blk.send
Stages == 0 .. blk.stages - 1
LastStage == blk.stages - 1
RecvsAt(s) == {c \in Ins : blk.recv[c] = s}
SendsAt(s) == {o \in Outs : blk.send[o] = s}

\* The n-th value of a producer is n; 0 is what stands for no value.
Fresh(state) == [st |-> state, got |-> [c \in Ins |-> 0]]
NextState(act) ==
  IF blk.pipelined THEN (1 + act.st + MapThenSumSet(LAMBDA c : act.got[c], RecvsAt(0))) % 2 ELSE act.st

------------------------------------------------------------------------------
(* The signals of the block in a cycle *)

\* signal_data and signal_valid of an input.  The data pins have the next
\* value of the producer even before it is valid.
InValid(c) == ToValid(blk.inKind, inBuf[c], offer[c])
InData(c) == ToData(blk.inKind, inBuf[c], taken[c] + 1)

StageValid(s) == s = 0 \/ valid[s]
Before(s) == IF s = 0 THEN Fresh(st) ELSE data[s]
Predicated(s, c) == Before(s).st \in blk.recvIf[c]

\* The activation with what stage s receives.
At(s) ==
  LET receives(c) == Predicated(s, c) /\ (InValid(c) \/ c \notin blk.nonblocking)
      uses(c) == blk.recv[c] = s /\ (receives(c) \/ c \in blk.unguarded)
  IN [Before(s) EXCEPT !.got = [c \in Ins |-> IF uses(c) THEN InData(c) ELSE @[c]]]

RecvsValid(s) == \A c \in RecvsAt(s) : Predicated(s, c) /\ c \notin blk.nonblocking => InValid(c)

OneShot_Never == FALSE

\* AreStreamingOutputsMutuallyExclusive
OneShot == blk.pipelined /\ \E o, p \in Outs : o # p /\ blk.sendIf[o] \cap blk.sendIf[p] # {}

Sends(o) == Before(blk.send[o]).st \in blk.sendIf[o]

\* The valid and ready between the pipeline and an output's buffer, the valid
\* after the one-shot logic, when open says whether the next stage is open.
OutValid_WithOthers(o, open) ==
  LET s == blk.send[o]
  IN RecvsValid(s) /\ StageValid(s) /\ open /\ Sends(o) /\ \A p \in SendsAt(s) \ {o} : ready[p]
OutValid(o, open) ==
  LET s == blk.send[o]
  IN RecvsValid(s) /\ StageValid(s) /\ open /\ Sends(o) /\ ~(OneShot /\ sent[o])
OutReady(o, open) == FromReady(blk.outKind, outBuf[o], OutValid(o, open), ready[o])

SendsReady(s, open) == \A o \in SendsAt(s) : Sends(o) => OutReady(o, open) \/ (OneShot /\ sent[o])
Done(s, open) == StageValid(s) /\ RecvsValid(s) /\ SendsReady(s, open)

\* enable_n, from the last stage to the first: the next stage is empty or
\* about to be.
NextStageOpen ==
  LET open[i \in Stages] ==
        i = 0 \/ LET s == LastStage - i IN ~valid[s + 1] \/ (open[i - 1] /\ Done(s + 1, open[i - 1]))
  IN [s \in Stages |-> open[LastStage - s]]

DataLoadEnable(s) == NextStageOpen[s] /\ Done(s, NextStageOpen[s])

\* In a combinational block the readiness of the outputs is that of the inputs.
StageReady(s) == IF blk.pipelined THEN DataLoadEnable(s) ELSE SendsReady(s, TRUE)

\* The ready of an input, before its buffer.
InReady_Unpredicated(c) == DataLoadEnable(blk.recv[c])
InReady(c) == Predicated(blk.recv[c], c) /\ StageReady(blk.recv[c])

\* The ports.
PortInReady(c) == FromReady(blk.inKind, inBuf[c], offer[c], InReady(c))
PipeOutValid(o) == OutValid(o, NextStageOpen[blk.send[o]])
PortOutValid(o) == ToValid(blk.outKind, outBuf[o], PipeOutValid(o))
PortOutData(o) == ToData(blk.outKind, outBuf[o], At(blk.send[o]))

Transferred(c) == offer[c] /\ PortInReady(c)

------------------------------------------------------------------------------
(* Behaviour *)

\* The data registers have no reset; the others start empty.
Init ==
  /\ blk \in Blocks
  /\ valid = [s \in Stages \ {0} |-> FALSE]
  /\ \E junk \in 0 .. 1 : data = [s \in Stages \ {0} |-> Fresh(junk)]
  /\ st = 0 /\ sent = [o \in Outs |-> FALSE]
  /\ inBuf = [c \in Ins |-> Empty(0)] /\ outBuf = [o \in Outs |-> Empty(Fresh(0))]
  /\ offer \in [Ins -> BOOLEAN] /\ ready \in [Outs -> BOOLEAN]
  /\ taken = [c \in Ins |-> 0] /\ delivered = [o \in Outs |-> << >>] /\ started = 0

\* UpdatePipelineWithBubbleFlowControl: the pipeline and state registers.
ClockPipeline ==
  /\ valid' = [s \in DOMAIN valid |->
                 IF NextStageOpen[s - 1] THEN Done(s - 1, TRUE) ELSE valid[s]]
  /\ data' = [s \in DOMAIN data |-> IF DataLoadEnable(s - 1) THEN At(s - 1) ELSE data[s]]
  /\ st' = IF DataLoadEnable(0) THEN NextState(At(0)) ELSE st
  /\ started' = IF DataLoadEnable(0) THEN started + 1 ELSE started

ClockOneShot_Sticky ==
  LET txfr(o) == PipeOutValid(o) /\ OutReady(o, NextStageOpen[blk.send[o]])
  IN sent' = [o \in Outs |-> sent[o] \/ (OneShot /\ txfr(o))]

\* AddOneShotLogicToRVNodes: set by a transfer, cleared when the stage's sends
\* are all through.
ClockOneShot ==
  LET load(o) == LET s == blk.send[o] IN SendsReady(s, NextStageOpen[s])
      txfr(o) == PipeOutValid(o) /\ OutReady(o, NextStageOpen[blk.send[o]])
  IN sent' = [o \in Outs |-> IF OneShot /\ (txfr(o) \/ load(o)) THEN ~load(o) ELSE sent[o]]

ClockBuffers ==
  /\ inBuf' = [c \in Ins |-> Clocked(blk.inKind, inBuf[c], offer[c], taken[c] + 1, InReady(c))]
  /\ outBuf' = [o \in Outs |-> Clocked(blk.outKind, outBuf[o], PipeOutValid(o), At(blk.send[o]), ready[o])]

\* A producer keeps valid until the transfer; a consumer does as it likes.
Environment ==
  /\ taken' = [c \in Ins |-> IF Transferred(c) THEN taken[c] + 1 ELSE taken[c]]
  /\ delivered' = [o \in Outs |->
       IF PortOutValid(o) /\ ready[o] THEN Append(delivered[o], PortOutData(o)) ELSE delivered[o]]
  /\ offer' \in {f \in [Ins -> BOOLEAN] :
       \A c \in Ins : /\ offer[c] /\ ~Transferred(c) => f[c]
                      /\ f[c] => taken'[c] < MaxItems}
  /\ ready' \in [Outs -> BOOLEAN]

Cycle == UNCHANGED blk /\ ClockPipeline /\ ClockOneShot /\ ClockBuffers /\ Environment

Next == Cycle

\* The clock runs; a producer sends all its values, a consumer is ready again
\* and again.
Fairness ==
  /\ []<><<Cycle>>_vars
  /\ \A c \in UNION {DOMAIN x.recv : x \in Blocks} : []<>(c \notin Ins \/ offer[c] \/ taken[c] = MaxItems)
  /\ \A o \in UNION {DOMAIN x.send : x \in Blocks} : []<>(o \notin Outs \/ ready[o])

Spec == Init /\ [][Next]_vars /\ Fairness
------------------------------------------------------------------------------
(* The proc itself: its activations one after the other, over queues *)

MaxActs == MaxItems * Cardinality(Ins) + blk.stages + 1

\* The k-th activation, and the state and the number of values received after
\* it.  A receive whose predicate is false gives zero.
Ref ==
  LET run[k \in 0 .. MaxActs] ==
        IF k = 0 THEN [act |-> Fresh(0), st |-> 0, taken |-> [c \in Ins |-> 0]]
        ELSE LET p == run[k - 1]
                 act == [st |-> p.st, got |-> [c \in Ins |-> IF p.st \in blk.recvIf[c] THEN p.taken[c] + 1 ELSE 0]]
             IN [act |-> act, st |-> NextState(act), taken |-> [c \in Ins |-> Max({p.taken[c], act.got[c]})]]
  IN run

\* What the first k activations send over o, of what stage send[o] has got.
Expected(o, k) ==
  LET ref == Ref
      seen(act) == [act EXCEPT !.got = [c \in Ins |-> IF blk.recv[c] <= blk.send[o] THEN @[c] ELSE 0]]
      acts == SelectSeq([j \in 1 .. k |-> ref[j].act], LAMBDA act : act.st \in blk.sendIf[o])
  IN [j \in DOMAIN acts |-> seen(acts[j])]

\* How many activations have left stage s.
Past(s) == started - Cardinality({t \in 1 .. s : valid[t]})
------------------------------------------------------------------------------
(* Properties *)

\* Each consumer gets what the proc sends, in order and once, whatever the
\* producers and consumers do: the flow control of the stages (MakePipeline-
\* StagesForValidIO, UpdatePipelineWithBubbleFlowControl) is not seen outside.
InOrder == \A o \in Outs : IsPrefix(delivered[o], Expected(o, started + 1))

\* At every clock edge each value handed over is in an input buffer or has been
\* received by just one activation, and each send of each activation is still
\* to come, in an output buffer or delivered: AddOneShotLogicToRVNodes never
\* repeats or skips a send of a stage that waits for another one.  The state
\* register is that of the activations started.
Accounted ==
  /\ st = Ref[started].st
  /\ \A c \in Ins : taken[c] = Ref[Past(blk.recv[c])].taken[c] + Len(Held(inBuf[c]))
  /\ \A o \in Outs : Len(delivered[o]) + Len(Held(outBuf[o]))
                      = Len(Expected(o, Past(blk.send[o]))) + (IF sent[o] THEN 1 ELSE 0)

\* The outputs keep to the ready/valid handshake: once valid, valid and data
\* stay until the consumer is ready, though valid depends on whether the next
\* stage is open in that cycle.
HoldsOutputs ==
  [][\A o \in Outs : PortOutValid(o) /\ ~ready[o] => PortOutValid(o)' /\ PortOutData(o)' = PortOutData(o)]_vars

\* Every activation whose values are all sent to the block is carried out: no
\* stage, buffer or one-shot register waits for ever for another one.
Delivers ==
  LET full == Max({k \in 0 .. MaxActs : \A c \in Ins : Ref[k].taken[c] <= MaxItems})
  IN <>(\A o \in Outs : Len(delivered[o]) >= Len(Expected(o, full)))
==============================================================================
