---------------------------- MODULE MCMsrSession ----------------------------
(* Instances of MsrSession for TLC.  Processes that are all pinned, or all  *)
(* not, are alike, and so are event codes.                                  *)
EXTENDS MsrSession, TLC

Symmetry == Permutations(Procs) \cup Permutations(Events)

=============================================================================
