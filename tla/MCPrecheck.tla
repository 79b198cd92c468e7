----------------------------- MODULE MCPrecheck -----------------------------
(***************************************************************************)
(* A small instance of Precheck.                                           *)
(***************************************************************************)
EXTENDS Precheck
=============================================================================
