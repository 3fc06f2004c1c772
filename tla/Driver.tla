------------------------------- MODULE Driver --------------------------------
(***************************************************************************)
(* src/src/main.zig and src/src/external/*.zig: the commands of the        *)
(* compiler, the tools they start and the intermediate files all of them   *)
(* share in one working directory.                                         *)
(*                                                                         *)
(* A file is named by a root and an extension, as <root>.ir; the Yosys     *)
(* script has one fixed name.  The content of a file is what it was made   *)
(* from: the root and version of the source, whether it holds LUTs, and    *)
(* whether it is whole.  A tool reads its input when it starts; a failing  *)
(* tool leaves its output as it was or damaged.                            *)
(***************************************************************************)
EXTENDS Integers, FiniteSets, Functions

CONSTANTS
  Commands,      \* records [root, input, keep, lut, format, bound]
  MaxVersion,    \* how often a source is edited
  MaxRuns        \* how often a command is started

ASSUME DriverAssumption ==
  /\ \A c \in Commands :
       /\ c.input \in {"c", "v"}
       /\ c.keep \in BOOLEAN
       /\ c.lut \in BOOLEAN
       /\ c.format \in {"syncirc", "bristol"}
       /\ c.bound \in Nat
  /\ {MaxVersion, MaxRuns} \subseteq Nat

VARIABLES
  files,         \* the working directory
  version,       \* of the source of each root
  pc,            \* the step a command takes next
  mem,           \* the file a command, or the tool it runs, has read
  begun,         \* version of the source when a command started
  runs,          \* commands started
  why,           \* what a failed command failed of
  overlapped     \* whether a command was started while another one ran

vars == <<files, version, pc, mem, begun, runs, why, overlapped>>

-----------------------------------------------------------------------------
Roots == {c.root : c \in Commands}
Inputs(r) == {c.input : c \in {d \in Commands : d.root = r}}
Ext == {"c", "ir", "opt.ir", "v", "torder", "json", "syncirc", "bristol"}
Script == <<"tmp", "script">>

FileOf_Fixed(root, ext) == IF ext \in {"json", "torder"} THEN <<"tmp", ext>> ELSE <<root, ext>>

FileOf(root, ext) == <<root, ext>>

Names == {Script} \cup {FileOf(r, e) : r \in Roots, e \in Ext}
           \cup {<<"tmp", e>> : e \in {"json", "torder"}}

Missing == [root |-> "none", version |-> 0, lut |-> FALSE, whole |-> FALSE]
Damaged == [root |-> "none", version |-> 1, lut |-> FALSE, whole |-> FALSE]

Source(r, v) == [root |-> r, version |-> v, lut |-> FALSE, whole |-> TRUE]

Ended == {"idle", "done", "failed"}
Running(c) == pc[c] \notin Ended

OutputOf(c) == FileOf(c.root, c.format)

(* What the command asks of Yosys; each script names its own files.        *)
ScriptFor(c) == [root |-> c.root, version |-> 0, lut |-> c.lut, whole |-> TRUE]

(* --loop-bound is parsed as a u8; 0 stands for an option not given.       *)
NotGiven == 0

BadArguments(c) ==
  \/ c.lut /\ c.format = "bristol"
  \/ c.bound > 255

-----------------------------------------------------------------------------
Init ==
  /\ files = [f \in Names |->
                IF \E r \in Roots, e \in {"c", "v"} : e \in Inputs(r) /\ f = FileOf(r, e)
                THEN Source(f[1], 1) ELSE Missing]
  /\ version = [r \in Roots |-> 1]
  /\ pc = [c \in Commands |-> "idle"]
  /\ mem = [c \in Commands |-> Missing]
  /\ begun = [c \in Commands |-> 0]
  /\ runs = 0
  /\ why = [c \in Commands |-> "none"]
  /\ overlapped = FALSE

(* The user saves a new version of a source.                               *)
Edit(r) ==
  /\ version[r] < MaxVersion
  /\ version' = [version EXCEPT ![r] = @ + 1]
  /\ files' = [f \in Names |-> IF \E e \in Inputs(r) : f = FileOf(r, e)
                               THEN Source(r, version[r] + 1) ELSE files[f]]
  /\ UNCHANGED <<pc, mem, begun, runs, why>>

Goto(c, step) == pc' = [pc EXCEPT ![c] = step]

Fail(c, reason) ==
  /\ Goto(c, "failed")
  /\ why' = [why EXCEPT ![c] = reason]
  /\ mem' = [mem EXCEPT ![c] = Missing]
  /\ UNCHANGED <<version, begun, runs>>

FailAs(c, reason) == Fail(c, reason) /\ UNCHANGED files

(* main up to the working directory: the arguments are checked first.      *)
Start(c) ==
  /\ ~Running(c)
  /\ runs < MaxRuns
  /\ runs' = runs + 1
  /\ begun' = [begun EXCEPT ![c] = version[c.root]]
  /\ mem' = [mem EXCEPT ![c] = Missing]
  /\ IF BadArguments(c)
     THEN Goto(c, "failed") /\ why' = [why EXCEPT ![c] = "arguments"]
     ELSE /\ Goto(c, IF c.input = "c" THEN "xlscc" ELSE "script")
          /\ why' = [why EXCEPT ![c] = "none"]
  /\ UNCHANGED <<files, version>>

-----------------------------------------------------------------------------
(* run: one external tool, from the file `from' to the file `to'.          *)
Tool(c, at, from, to, next) ==
  /\ pc[c] = at
  /\ \/ /\ files[from].whole
        /\ files' = [files EXCEPT ![to] = files[from]]
        /\ Goto(c, next)
        /\ UNCHANGED <<version, mem, begun, runs, why>>
     \/ /\ Fail(c, IF files[from].whole THEN "tool" ELSE "input")
        /\ files' \in {files, [files EXCEPT ![to] = Damaged]}

Xlscc(c) == Tool(c, "xlscc", FileOf(c.root, "c"), FileOf(c.root, "ir"), "opt")
Opt(c) == Tool(c, "opt", FileOf(c.root, "ir"), FileOf(c.root, "opt.ir"), "codegen")
Codegen(c) ==
  Tool(c, "codegen", FileOf(c.root, "opt.ir"), FileOf(c.root, "v"),
       IF c.keep THEN "script" ELSE "rm ir")

(* deleteFile: a file that is not there is an error.                       *)
Delete(c, at, f, next) ==
  /\ pc[c] = at
  /\ IF files[f] = Missing
     THEN FailAs(c, "delete")
     ELSE /\ files' = [files EXCEPT ![f] = Missing]
          /\ Goto(c, next)
          /\ UNCHANGED <<version, mem, begun, runs, why>>

RemoveIr(c) == Delete(c, "rm ir", FileOf(c.root, "ir"), "rm opt.ir")
RemoveOptIr(c) == Delete(c, "rm opt.ir", FileOf(c.root, "opt.ir"), "script")

WriteScript_Exclusive(c) ==
  /\ pc[c] = "script"
  /\ IF files[Script] # Missing
     THEN FailAs(c, "exists")
     ELSE /\ files' = [files EXCEPT ![Script] = ScriptFor(c)]
          /\ Goto(c, "yosys")
          /\ UNCHANGED <<version, mem, begun, runs, why>>

(* runYosysScript: writeFile replaces whatever is there.                   *)
WriteScript(c) ==
  /\ pc[c] = "script"
  /\ files' = [files EXCEPT ![Script] = ScriptFor(c)]
  /\ Goto(c, "yosys")
  /\ UNCHANGED <<version, mem, begun, runs, why>>

YosysRead_ExitIgnored(c) ==
  LET script == files[Script]
      verilog == files[FileOf(script.root, "v")]
  IN  /\ pc[c] = "yosys"
      /\ IF script # Missing /\ verilog.whole
         THEN /\ mem' = [mem EXCEPT ![c] = [verilog EXCEPT !.root = script.root, !.lut = script.lut]]
              /\ \E next \in {"torder", "rm script"} : Goto(c, next)
              /\ UNCHANGED <<files, version, begun, runs, why>>
         ELSE FailAs(c, "input")

(* Yosys reads the script that is there, then the Verilog the script names.*)
YosysRead(c) ==
  LET script == files[Script]
      verilog == files[FileOf(script.root, "v")]
  IN  /\ pc[c] = "yosys"
      /\ IF script # Missing /\ verilog.whole
         THEN \/ /\ mem' = [mem EXCEPT ![c] = [verilog EXCEPT !.root = script.root, !.lut = script.lut]]
                 /\ Goto(c, "torder")
                 /\ UNCHANGED <<files, version, begun, runs, why>>
              \/ FailAs(c, "tool")
         ELSE FailAs(c, "input")

(* tee -o, then write_json: a file is truncated when it is opened.         *)
YosysOpen(c, at, ext, next) ==
  /\ pc[c] = at
  /\ files' = [files EXCEPT ![FileOf(mem[c].root, ext)] = Damaged]
  /\ Goto(c, next)
  /\ UNCHANGED <<version, mem, begun, runs, why>>

YosysWrite(c, at, ext, next) ==
  /\ pc[c] = at
  /\ \/ /\ files' = [files EXCEPT ![FileOf(mem[c].root, ext)] = mem[c]]
        /\ Goto(c, next)
        /\ UNCHANGED <<version, mem, begun, runs, why>>
     \/ FailAs(c, "tool")

YosysTorder(c) ==
  YosysOpen(c, "torder", "torder", "torder text") \/ YosysWrite(c, "torder text", "torder", "json")
YosysJson(c) ==
  YosysOpen(c, "json", "json", "json text") \/ YosysWrite(c, "json text", "json", "rm script")

RemoveScript(c) == Delete(c, "rm script", Script, "read json")

-----------------------------------------------------------------------------
(* parseJson: a cut JSON text does not parse.                              *)
ParseJson(c) ==
  LET json == files[FileOf(c.root, "json")]
  IN  /\ pc[c] = "read json"
      /\ IF json.whole
         THEN /\ mem' = [mem EXCEPT ![c] = json]
              /\ Goto(c, "read torder")
              /\ UNCHANGED <<files, version, begun, runs, why>>
         ELSE FailAs(c, "parse")

(* Torder.parse and Builder.build.  An order that is not the one of the    *)
(* netlist, or was cut, is not always noticed: then gates are missing.     *)
ReadTorder(c) ==
  LET torder == files[FileOf(c.root, "torder")]
  IN  /\ pc[c] = "read torder"
      /\ \/ /\ torder # Missing
            /\ mem' = [mem EXCEPT ![c].whole = (torder = mem[c])]
            /\ Goto(c, "emit")
            /\ UNCHANGED <<files, version, begun, runs, why>>
         \/ torder # mem[c] /\ FailAs(c, "build")

AfterEmit_AnyInput(c) == IF c.keep THEN "done" ELSE "rm v"

(* A Verilog source is not removed.                                        *)
AfterEmit(c) ==
  IF c.keep THEN "done" ELSE IF c.input = "c" THEN "rm v" ELSE "rm json"

(* Emit.writeCircuit, or Linearize.run and EmitBristol.writeCircuit, which *)
(* cannot express a LUT.  A failure comes before the file is created or    *)
(* while it is written.                                                    *)
Emit(c) ==
  /\ pc[c] = "emit"
  /\ \/ /\ mem[c].lut => c.format # "bristol"
        /\ files' = [files EXCEPT ![OutputOf(c)] = mem[c]]
        /\ Goto(c, AfterEmit(c))
        /\ UNCHANGED <<version, mem, begun, runs, why>>
     \/ /\ Fail(c, "write")
        /\ files' \in {files, [files EXCEPT ![OutputOf(c)] = Damaged]}

RemoveVerilog(c) == Delete(c, "rm v", FileOf(c.root, "v"), "rm json")
RemoveJson(c) == Delete(c, "rm json", FileOf(c.root, "json"), "rm torder")
RemoveTorder(c) == Delete(c, "rm torder", FileOf(c.root, "torder"), "done")

(* The command and the tool it runs are killed.                            *)
Kill(c) == Running(c) /\ FailAs(c, "killed")

Step(c) ==
  \/ Xlscc(c) \/ Opt(c) \/ Codegen(c) \/ RemoveIr(c) \/ RemoveOptIr(c)
  \/ WriteScript(c) \/ YosysRead(c) \/ YosysTorder(c) \/ YosysJson(c)
  \/ RemoveScript(c) \/ ParseJson(c) \/ ReadTorder(c) \/ Emit(c)
  \/ RemoveVerilog(c) \/ RemoveJson(c) \/ RemoveTorder(c)

-----------------------------------------------------------------------------
(* Any command at any time, in one working directory.                      *)
Next ==
  \/ \E r \in Roots : Edit(r) /\ UNCHANGED overlapped
  \/ \E c \in Commands :
       Start(c) /\ overlapped' = (overlapped \/ \E d \in Commands : Running(d))
  \/ \E c \in Commands : (Step(c) \/ Kill(c)) /\ UNCHANGED overlapped

Spec == Init /\ [][Next]_vars

-----------------------------------------------------------------------------
(***************************************************************************)
(* Properties.                                                             *)
(***************************************************************************)

(* No source is changed or deleted by a command: <root>.v is only removed  *)
(* when it was made from C (main.zig:259).  A root with sources of both    *)
(* kinds is left out: there <root>.v is overwritten.                       *)
SourcesKept ==
  [][\A r \in Roots, e \in {"c", "v"} :
       Inputs(r) = {e} /\ version'[r] = version[r]
         => files'[FileOf(r, e)] = files[FileOf(r, e)]]_vars

(* Whatever earlier commands left behind when they failed or were killed,  *)
(* a later command fails only of its arguments, of a tool, of writing its  *)
(* output or of a kill: a leftover is overwritten, and never missing when  *)
(* it is read or removed.  Commands that overlap do disturb each other.    *)
LeftoversHarmless ==
  \A c \in Commands :
    ~overlapped /\ pc[c] = "failed" => why[c] \in {"arguments", "tool", "write", "killed"}

(* Also when commands for different sources overlap in one directory and   *)
(* run each other's script, an output is never that of another source.     *)
OwnSource ==
  \A c \in Commands :
    files[OutputOf(c)].root \in {c.root, "none"}

-----------------------------------------------------------------------------
(* The promise of the compiler, seen through the output files.             *)
Status(c) ==
  CASE pc[c] \in Ended -> pc[c]
    [] pc[c] \in {"rm v", "rm json", "rm torder"} -> "published"
    [] OTHER -> "running"

OutputState(f) ==
  CASE files[f] = Missing -> -2
    [] files[f].whole /\ files[f].root = f[1] -> files[f].version
    [] OTHER -> -1

Abstract ==
  INSTANCE Compiler WITH
    status <- [c \in Commands |-> Status(c)],
    out <- [f \in {OutputOf(c) : c \in Commands} |-> OutputState(f)]

(* Commands run one after the other keep the promise of Compiler.tla: a    *)
(* success means the output of a version the source had meanwhile,         *)
(* whatever was left in the directory before.  After an overlap the output *)
(* may be of an older version, so nothing is promised from there on.       *)
Refines == Abstract!Init /\ [][overlapped' \/ Abstract!Next]_(Abstract!vars)
=============================================================================
