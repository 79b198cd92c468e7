--------------------------- MODULE MCExpireManager ---------------------------
(***************************************************************************)
(* Small instances of ExpireManager.                                       *)
(***************************************************************************)
EXTENDS ExpireManager, TLC

Symmetry == Permutations(Token) \cup Permutations(Name)
=============================================================================
