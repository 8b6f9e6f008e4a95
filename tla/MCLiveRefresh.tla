---------------------------- MODULE MCLiveRefresh ----------------------------
(***************************************************************************)
(* LiveRefresh for TLC: a pane that shows one of two threads.              *)
(***************************************************************************)
EXTENDS LiveRefresh

CONSTANTS pane, t1, t2, c1

PinDef == (pane :> t1)
=============================================================================
