------------------------------ MODULE Compiler -------------------------------
(***************************************************************************)
(* What the compiler command promises, with nothing of the tools and the   *)
(* intermediate files: the output of a command that succeeds is that of a  *)
(* version the source had while the command ran; a command that fails      *)
(* leaves the output as it was, damaged, or (when only the cleaning up     *)
(* failed) new.                                                            *)
(***************************************************************************)
EXTENDS Integers

CONSTANTS Commands, MaxVersion, BadArguments(_)

VARIABLES
  version,     \* of the source of each root
  begun,       \* version when a command started
  status,      \* of a command: "idle", "running", "published", "done", "failed"
  out          \* of each output file: None, Bad or the version it was made from

vars == <<version, begun, status, out>>

None == -2
Bad == -1

Roots == {c.root : c \in Commands}
Outputs == {<<c.root, c.format>> : c \in Commands}
OutputOf(c) == <<c.root, c.format>>
Running(c) == status[c] \in {"running", "published"}

Init ==
  /\ version = [r \in Roots |-> 1]
  /\ begun = [c \in Commands |-> 0]
  /\ status = [c \in Commands |-> "idle"]
  /\ out = [f \in Outputs |-> None]

Edit(r) ==
  /\ version[r] < MaxVersion
  /\ version' = [version EXCEPT ![r] = @ + 1]
  /\ UNCHANGED <<begun, status, out>>

(* A command starts, or rejects its arguments.                             *)
Begin(c) ==
  /\ \A d \in Commands : ~Running(d)
  /\ begun' = [begun EXCEPT ![c] = version[c.root]]
  /\ status' = [status EXCEPT
                  ![c] = IF BadArguments(c) THEN "failed" ELSE "running"]
  /\ UNCHANGED <<version, out>>

Publish(c) ==
  /\ status[c] = "running"
  /\ \E v \in begun[c] .. version[c.root] : out' = [out EXCEPT ![OutputOf(c)] = v]
  /\ status' \in {[status EXCEPT ![c] = s] : s \in {"published", "done"}}
  /\ UNCHANGED <<version, begun>>

Finish(c) ==
  /\ status[c] = "published"
  /\ status' = [status EXCEPT ![c] = "done"]
  /\ UNCHANGED <<version, begun, out>>

Abort(c) ==
  /\ Running(c)
  /\ status' = [status EXCEPT ![c] = "failed"]
  /\ \/ status[c] = "running" /\ out' = [out EXCEPT ![OutputOf(c)] = Bad]
     \/ UNCHANGED out
  /\ UNCHANGED <<version, begun>>

Next ==
  \/ \E r \in Roots : Edit(r)
  \/ \E c \in Commands : Begin(c) \/ Publish(c) \/ Finish(c) \/ Abort(c)

Spec == Init /\ [][Next]_vars
=============================================================================
