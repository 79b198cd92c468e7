------------------------------- MODULE MCProxy ------------------------------
(***************************************************************************)
(* Small instances of Proxy: two runes of two bytes.                      *)
(***************************************************************************)
EXTENDS Proxy

Bytes == <<"lead", "cont", "lead", "cont">>
=============================================================================
