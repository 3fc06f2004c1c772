---------------------------- MODULE StreamBuffer ----------------------------
(***************************************************************************)
(* The registers that block conversion (src/xls/xls/codegen/               *)
(* block_conversion.cc) puts on the data, valid and ready signals of a     *)
(* stream, by the kind chosen in CodegenOptions: none, a flop, a skid      *)
(* buffer or a zero-latency buffer.  fv and fd are the valid and the data  *)
(* that come in, rdy the ready that comes back from what the buffer feeds. *)
(***************************************************************************)
EXTENDS Sequences

Kinds == {"none", "flop", "skid", "zero_latency"}

\* The registers after reset: AddRegisterAfterNode gives each a reset to zero.
Empty(zero) == [data |-> zero, valid |-> FALSE, skid |-> zero, skidValid |-> FALSE]

\* What the buffer drives: data and valid onwards, and ready backwards.
ToValid(kind, b, fv) ==
  CASE kind = "none" -> fv
    [] kind = "flop" -> b.valid
    [] kind = "skid" -> b.valid \/ b.skidValid
    [] kind = "zero_latency" -> fv \/ b.skidValid

ToData(kind, b, fd) ==
  CASE kind = "none" -> fd
    [] kind = "flop" -> b.data
    [] kind = "skid" -> IF b.skidValid THEN b.skid ELSE b.data
    [] kind = "zero_latency" -> IF b.skidValid THEN b.skid ELSE fd

FromReady(kind, b, fv, rdy) ==
  CASE kind = "none" -> rdy
    [] kind = "flop" -> fv /\ (rdy \/ ~b.valid)
    [] kind \in {"skid", "zero_latency"} -> ~b.skidValid

\* What the registers hold after the clock edge.
AddRegisterToRDVNodes(b, fv, fd, rdy) ==
  LET validLoadEn == rdy \/ ~b.valid
      dataLoadEn == fv /\ validLoadEn
  IN [b EXCEPT !.data = IF dataLoadEn THEN fd ELSE @,
               !.valid = IF validLoadEn THEN fv ELSE @]

AddSkidBufferToRDVNodes_Drops(b, fv, fd, rdy) ==
  LET inputReadyAndValid == fv /\ ~b.skidValid
      skidDataLoadEn == b.valid /\ inputReadyAndValid /\ ~rdy
  IN [data |-> IF inputReadyAndValid THEN fd ELSE b.data,
      valid |-> IF (b.valid /\ rdy) \/ inputReadyAndValid THEN fv ELSE b.valid,
      skid |-> IF skidDataLoadEn THEN b.data ELSE b.skid,
      skidValid |-> IF skidDataLoadEn \/ (b.skidValid /\ rdy) THEN ~b.skidValid ELSE b.skidValid]

AddSkidBufferToRDVNodes(b, fv, fd, rdy) ==
  LET fromSkidRdy == ~b.skidValid
      inputReadyAndValid == fv /\ fromSkidRdy
      dataIsSentTo == b.valid /\ rdy /\ fromSkidRdy
      skidDataLoadEn == b.valid /\ inputReadyAndValid /\ ~rdy
      skidValidSetZero == b.skidValid /\ rdy
  IN [data |-> IF inputReadyAndValid THEN fd ELSE b.data,
      valid |-> IF dataIsSentTo \/ inputReadyAndValid THEN fv ELSE b.valid,
      skid |-> IF skidDataLoadEn THEN b.data ELSE b.skid,
      skidValid |-> IF skidDataLoadEn \/ skidValidSetZero THEN fromSkidRdy ELSE b.skidValid]

AddZeroLatencyBufferToRDVNodes_Repeats(b, fv, fd, rdy) ==
  LET load == fv /\ ~b.skidValid
  IN [b EXCEPT !.skid = IF load THEN fd ELSE @,
               !.skidValid = IF load \/ (b.skidValid /\ rdy) THEN ~b.skidValid ELSE @]

AddZeroLatencyBufferToRDVNodes(b, fv, fd, rdy) ==
  LET fromSkidRdy == ~b.skidValid
      skidDataLoadEn == fv /\ fromSkidRdy /\ ~rdy
      skidValidSetZero == b.skidValid /\ rdy
  IN [b EXCEPT !.skid = IF skidDataLoadEn THEN fd ELSE @,
               !.skidValid = IF skidDataLoadEn \/ skidValidSetZero THEN fromSkidRdy ELSE @]

Clocked(kind, b, fv, fd, rdy) ==
  CASE kind = "none" -> b
    [] kind = "flop" -> AddRegisterToRDVNodes(b, fv, fd, rdy)
    [] kind = "skid" -> AddSkidBufferToRDVNodes(b, fv, fd, rdy)
    [] kind = "zero_latency" -> AddZeroLatencyBufferToRDVNodes(b, fv, fd, rdy)

\* The values a buffer holds, the oldest first.
Held(b) ==
  (IF b.skidValid THEN <<b.skid>> ELSE << >>) \o (IF b.valid THEN <<b.data>> ELSE << >>)
=============================================================================
