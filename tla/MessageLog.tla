----------------------------- MODULE MessageLog -----------------------------
(***************************************************************************)
(* What sending a message promises, without calls, retries and failures:   *)
(* a message is sent under an id of its own, with one content to one       *)
(* address for good, and the history keeps only what was sent, as it was   *)
(* sent.  SendPath implements it.                                          *)
(***************************************************************************)

CONSTANTS
  Ids,       \* message ids
  Contents   \* what an id can stand for: a text and whom it is for

VARIABLES
  sent,  \* entries that reached the stream
  kept   \* entries in the history

vars == <<sent, kept>>

Entry == [id: Ids, content: Contents]

TypeOK == sent \subseteq Entry /\ kept \subseteq Entry

Init == sent = {} /\ kept = {}

Deliver(e) ==
  /\ \A f \in sent : f.id # e.id
  /\ sent' = sent \cup {e}
  /\ UNCHANGED kept

Keep(e) ==
  /\ e \in sent
  /\ kept' = kept \cup {e}
  /\ UNCHANGED sent

Next == \E e \in Entry : Deliver(e) \/ Keep(e)

Spec == Init /\ [][Next]_vars

\* An id stands for one message (README, Delivery: "The recipient gets it
\* once, the history holds exactly one row").
OneContentPerId == \A e, f \in sent : e.id = f.id => e = f

\* No phantom send: the history holds nothing that was not sent.
KeptWasSent == kept \subseteq sent
=============================================================================
