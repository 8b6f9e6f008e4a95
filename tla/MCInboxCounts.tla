---------------------------- MODULE MCInboxCounts -----------------------------
(***************************************************************************)
(* InboxCounts for TLC, one part at a time: the receives alone, or beside  *)
(* other answers that count, with one failure less and mail that does not  *)
(* run out (what is past its deadline is fetched and acked like the rest). *)
(***************************************************************************)
EXTENDS InboxCounts

VARIABLE part

MCInit == part \in {"receives", "answers"} /\ CountsInit

MCNext ==
  /\ CountsNext
  /\ UNCHANGED part
  /\ IF part = "answers"
     THEN UNCHANGED past /\ faults' < MaxFaults
     ELSE \A k \in Counters : counts'[k] = counts[k]

MCSpec == MCInit /\ [][MCNext]_<<countVars, part>>
=============================================================================
