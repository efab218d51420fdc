------------------------------- MODULE MCFram -------------------------------
(* Fram with few registers and two byte values: the effects of a transfer  *)
(* depend on which register it hits, not on how many there are.            *)
EXTENDS Fram
=============================================================================
