--------------------------- MODULE MCSpecHandling ---------------------------
(***************************************************************************)
(* Small instances of SpecHandling.                                        *)
(***************************************************************************)
EXTENDS SpecHandling, TLC

Symmetry == Permutations(Poster) \cup Permutations(SpecID \ Legacy) \cup Permutations(Legacy)
=============================================================================
