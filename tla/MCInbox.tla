------------------------------- MODULE MCInbox ------------------------------
(***************************************************************************)
(* Inbox for TLC: the cfg files give every constant its value.             *)
(***************************************************************************)
EXTENDS Inbox
=============================================================================
