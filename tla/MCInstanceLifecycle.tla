------------------------- MODULE MCInstanceLifecycle -------------------------
(***************************************************************************)
(* Small instances of InstanceLifecycle.                                   *)
(***************************************************************************)
EXTENDS InstanceLifecycle, TLC

Symmetry == Permutations(Session) \cup Permutations(Inst) \cup Permutations(CleanRequest)
=============================================================================
