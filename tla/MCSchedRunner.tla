---------------------------- MODULE MCSchedRunner ----------------------------
(***************************************************************************)
(* A small instance of SchedRunner.                                        *)
(***************************************************************************)
EXTENDS SchedRunner, TLC

Symmetry == Permutations(Caller) \cup Permutations(Stopper)
=============================================================================
