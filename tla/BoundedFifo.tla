----------------------------- MODULE BoundedFifo -----------------------------
(***************************************************************************)
(* What a stream buffer promises: a first-in first-out queue of at most    *)
(* Capacity values between two ports.  In one clock cycle a value may come *)
(* in, one may leave, or both; one that comes in may leave at once.        *)
(***************************************************************************)
EXTENDS Naturals, Sequences

CONSTANTS Values, Capacity
VARIABLES q, accepted, emitted   \* the queue; what came in and what left, so far

fifoVars == <<q, accepted, emitted>>

FifoInit == q = << >> /\ accepted = << >> /\ emitted = << >>

FifoCycle ==
  \E in \in {<< >>} \cup {<<v>> : v \in Values}, n \in {0, 1} :
    LET all == q \o in
    IN /\ n <= Len(all) /\ Len(all) - n <= Capacity
       /\ q' = SubSeq(all, n + 1, Len(all))
       /\ accepted' = accepted \o in
       /\ emitted' = emitted \o SubSeq(all, 1, n)

FifoSpec == FifoInit /\ [][FifoCycle]_fifoVars
==============================================================================
