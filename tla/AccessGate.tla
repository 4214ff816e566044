----------------------------- MODULE AccessGate -----------------------------
(***************************************************************************)
(* What the kernel module promises: user code may read the counters while  *)
(* the module is in, and may not once it has been taken out.               *)
(*                                                                         *)
(* access is the set of CPUs on which user code may read.  It grows only   *)
(* while the gate is open, a CPU that cannot be hot-plugged leaves it only *)
(* while the gate is closing, and the gate is shut only when it is empty.  *)
(* A load that fails leaves the gate as it is, neither open nor shut.      *)
(***************************************************************************)
CONSTANTS Cpus, HotCpus

VARIABLES gate, access

vars == <<gate, access>>

TypeOK ==
  /\ gate \in {"shut", "open", "closing", "left"}
  /\ access \subseteq Cpus

Init == gate = "shut" /\ access = {}

Open == gate \in {"shut", "left"} /\ gate' = "open" /\ UNCHANGED access

Leave == gate = "open" /\ gate' = "left" /\ UNCHANGED access

Close == gate = "open" /\ gate' = "closing" /\ UNCHANGED access

Shut == gate = "closing" /\ access = {} /\ gate' = "shut" /\ UNCHANGED access

Grant(c) == gate = "open" /\ access' = access \cup {c} /\ UNCHANGED gate

Revoke(c) ==
  /\ gate = "closing" \/ c \in HotCpus
  /\ access' = access \ {c} /\ UNCHANGED gate

Next ==
  \/ Open \/ Leave \/ Close \/ Shut
  \/ \E c \in Cpus : Grant(c) \/ Revoke(c)

Spec == Init /\ [][Next]_vars

=============================================================================
