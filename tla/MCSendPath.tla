----------------------------- MODULE MCSendPath -----------------------------
(***************************************************************************)
(* SendPath for TLC: two agents, the names kate and max, and their keys.   *)
(* Each agent starts with the key of its own name; k_new is one with a     *)
(* suffix, as allocateInboxKey makes it.                                   *)
(***************************************************************************)
EXTENDS SendPath, TLC

CONSTANTS a1, a2, kate, max, k_kate, k_max, k_new, c1, c2

NoBase == <<>>
OneBase == kate :> k_kate
TwoBases == kate :> k_kate @@ max :> k_max

Symmetry == Permutations(Calls) \cup Permutations(Agents)
=============================================================================
