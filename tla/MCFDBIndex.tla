----------------------------- MODULE MCFDBIndex -----------------------------
(* Every sorted index of up to MaxLen rows, every query. *)
EXTENDS FDBIndex

MCKeys == -1..1
=============================================================================
