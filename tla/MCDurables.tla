----------------------------- MODULE MCDurables -----------------------------
(***************************************************************************)
(* Durables for TLC: the cfg files give every constant its value.          *)
(***************************************************************************)
EXTENDS Durables
=============================================================================
