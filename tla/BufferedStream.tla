--------------------------- MODULE BufferedStream ---------------------------
(***************************************************************************)
(* One stream buffer between a producer, which keeps valid and data until  *)
(* they are taken, and a consumer that is ready when it likes.             *)
(***************************************************************************)
EXTENDS Naturals, Sequences, StreamBuffer

CONSTANTS
  Values,    \* the data that may be sent
  MaxItems   \* bound: the number of values the producer sends

VARIABLES
  kind,              \* the kind of buffer
  b,                 \* the registers
  fv, fd, rdy,       \* the producer's valid and data and the consumer's ready, this cycle
  accepted, emitted  \* history: the values taken at the one port and at the other

vars == <<kind, b, fv, fd, rdy, accepted, emitted>>

Taken == fv /\ FromReady(kind, b, fv, rdy)
Given == ToValid(kind, b, fv) /\ rdy

Pins(sent) ==
  /\ rdy' \in BOOLEAN
  /\ IF fv /\ ~Taken THEN UNCHANGED <<fv, fd>>
     ELSE fv' \in {v \in BOOLEAN : v => Len(sent) < MaxItems} /\ fd' \in Values

Init ==
  /\ kind \in Kinds /\ b \in {Empty(v) : v \in Values}
  /\ fv \in BOOLEAN /\ fd \in Values /\ rdy \in BOOLEAN
  /\ accepted = << >> /\ emitted = << >>

Cycle ==
  /\ UNCHANGED kind
  /\ b' = Clocked(kind, b, fv, fd, rdy)
  /\ accepted' = IF Taken THEN Append(accepted, fd) ELSE accepted
  /\ emitted' = IF Given THEN Append(emitted, ToData(kind, b, fd)) ELSE emitted
  /\ Pins(accepted')

Next == Cycle

\* The clock runs, and the consumer is ready again and again.
Fairness == []<><<Cycle>>_vars /\ []<>rdy
Spec == Init /\ [][Next]_vars /\ Fairness
------------------------------------------------------------------------------
(* Properties *)

Fifo == INSTANCE BoundedFifo WITH q <- Held(b), Capacity <- 2

\* A flop, a skid buffer and a zero-latency buffer are each a queue: nothing
\* is lost, doubled or overtaken, however valid and ready come and go.
IsFifo == Fifo!FifoSpec

\* What is taken is given, in the end.
Flushes == \A n \in 1 .. MaxItems : Len(accepted) >= n ~> Len(emitted) >= n
==============================================================================
