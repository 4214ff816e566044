------------------------------ MODULE MCArmPmu ------------------------------
(* An instance of ArmPmu for TLC: two processes on two cores, which use the *)
(* same counter or neighbours.  Cores are alike, and so are event types.    *)
EXTENDS ArmPmu, TLC

MCUses == [p \in Procs |-> IF p \in Pinned THEN {0, 1} ELSE {0}]

Symmetry == Permutations(Cores) \cup Permutations(Events)

=============================================================================
