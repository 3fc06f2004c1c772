------------------------------ MODULE MCDriver -------------------------------
(* A C source without and with -k, and a Verilog source with LUTs, in one  *)
(* directory.                                                              *)
EXTENDS Driver

C(root, input, keep, lut, format) ==
  [root |-> root, input |-> input, keep |-> keep, lut |-> lut, format |-> format,
   bound |-> NotGiven]

AllCommands ==
  { C("a", "c", FALSE, FALSE, "bristol"), C("a", "c", TRUE, TRUE, "syncirc"),
    C("b", "v", FALSE, TRUE, "syncirc"), C("b", "v", FALSE, TRUE, "bristol") }
=============================================================================
