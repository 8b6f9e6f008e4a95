------------------------------- MODULE Inbox --------------------------------
(***************************************************************************)
(* The receive path of one agent: mesh_receive (mcp/tools/receive.ts)      *)
(* pulls from the agent's two durables, its own subject and the            *)
(* broadcasts (services/inbox.ts), drops what is not for it, acks what it  *)
(* returns and records the reads (services/reads.ts).  Around it: the      *)
(* broker's redeliveries and dead letters (services/dead-letter.ts) and    *)
(* the hourly sweep of expired mail (services/expiry.ts).                  *)
(*                                                                         *)
(* What arrives is what the send path promises (MessageLog): copies of an  *)
(* id, more than one when a repeat came after the broker's duplicate       *)
(* window, and at most one history row, with the sequence of a copy.       *)
(* Acks and advisories are fire-and-forget.  A receive awaits the broker   *)
(* for every look, every message and every deadline; from its acks to its  *)
(* answer it runs without a break, unless the first try to record the      *)
(* reads fails.  Time is abstract: deadlines end at any moment, and ack    *)
(* waits (30 s), but for those of what a fetch (2 s) has just taken.  A    *)
(* pull of many fetches (25) can outlast them.                             *)
(*                                                                         *)
(* An operator named X_<slip> is X with a plausible programming slip; it   *)
(* takes the place of X in a test of a property and is no part of Spec.    *)
(***************************************************************************)
EXTENDS Naturals, Sequences, FiniteSets

CONSTANTS
  Ids,         \* message ids
  Broadcasts,  \* those sent to everybody; the others go to this agent
  Own,         \* broadcasts this agent sent
  Namesake,    \* broadcasts whose envelope names this agent as the sender
  Pulls,       \* calls of mesh_receive that can run at the same time
  Limit,       \* messages one call returns at most
  MaxRounds,   \* fetches of one pull from one durable
  MaxDeliver,  \* deliveries of one copy before the broker gives up
  QuickPulls,  \* pulls end, and acks arrive or are lost, within the ack wait
  MaxCopies,   \* bound: copies in the stream
  MaxFaults    \* bound: failures, lost acks and crashes

ASSUME ConstantsAssumption ==
  /\ Own \subseteq Broadcasts /\ Namesake \subseteq Broadcasts
  /\ Broadcasts \subseteq Ids
  /\ Limit \in Nat \ {0} /\ MaxRounds \in Nat \ {0} /\ MaxDeliver \in Nat \ {0}
  /\ MaxCopies \in Nat /\ MaxFaults \in Nat /\ QuickPulls \in BOOLEAN

VARIABLES
  stream,      \* copies by sequence: id, where it is for this agent, deliveries
  rows,        \* messages.stream_seq of an id's history row; 0 without a row
  acks,        \* sequences whose ack is on its way to the broker
  advisories,  \* sequences the broker says it gave up on, on their way
  past,        \* ids past their deadline
  pulls,       \* Pulls -> what each call is doing
  reads,       \* message_reads of this agent
  noted,       \* ids with a message_expired audit row
  unrecorded,  \* ids with a read_not_recorded audit row
  deadNoted,   \* ids with a message_dead_letter audit row of this agent
  handed,      \* id -> how often it was handed to the agent
  misses,      \* times the reads could not be asked or written
  cut,         \* ids acked by a call that died before it answered
  faults       \* failures so far

vars == <<stream, rows, acks, advisories, past, pulls, reads, noted,
          unrecorded, deadNoted, handed, misses, cut, faults>>

broker == <<stream, acks, advisories>>
history == <<rows, past>>
audit == <<noted, unrecorded, deadNoted>>
record == <<reads, handed, misses, cut>>

-----------------------------------------------------------------------------

Copy == [id: Ids, at: {"ready", "out", "acked", "dead"}, tries: 0..MaxDeliver]
Sides == {"inbox", "broadcast"}

SmallerOf(m, n) == IF m < n THEN m ELSE n

Seqs == 1..Len(stream)
IdsOf(S) == {stream[n].id : n \in S}
SideOf(i) == IF i \in Broadcasts THEN "broadcast" ELSE "inbox"
OnSide(side) == {n \in Seqs : SideOf(stream[n].id) = side}
Ready(side) == {n \in OnSide(side) : stream[n].at = "ready"}

Idle == [pc |-> "idle", side |-> "inbox", blind |-> FALSE, kept |-> {},
         ranOut |-> {}, round |-> 0, available |-> 0, want |-> 0,
         taken |-> {}, dropped |-> FALSE]
Pull == [pc: {"idle", "look", "fetch", "handout", "retry"}, side: Sides, blind: BOOLEAN,
         kept: SUBSET (1..MaxCopies), ranOut: SUBSET Ids,
         round: 0..MaxRounds, available: 0..MaxCopies, want: 0..MaxCopies,
         taken: SUBSET (1..MaxCopies), dropped: BOOLEAN]

TypeOK ==
  /\ stream \in Seq(Copy) /\ Len(stream) <= MaxCopies
  /\ rows \in [Ids -> 0..MaxCopies]
  /\ acks \subseteq Seqs /\ advisories \subseteq Seqs
  /\ past \subseteq Ids
  /\ pulls \in [Pulls -> Pull]
  /\ reads \subseteq Ids /\ noted \subseteq Ids /\ unrecorded \subseteq Ids
  /\ deadNoted \subseteq Ids
  /\ handed \in [Ids -> Nat]
  /\ misses \in Nat
  /\ cut \subseteq Ids
  /\ faults \in 0..MaxFaults

Init ==
  /\ stream = <<>>
  /\ rows = [i \in Ids |-> 0]
  /\ acks = {} /\ advisories = {} /\ past = {}
  /\ pulls = [p \in Pulls |-> Idle]
  /\ reads = {} /\ noted = {} /\ unrecorded = {} /\ deadNoted = {}
  /\ handed = [i \in Ids |-> 0]
  /\ misses = 0
  /\ cut = {}
  /\ faults = 0

-----------------------------------------------------------------------------
(***************************************************************************)
(* The pull.                                                               *)
(***************************************************************************)

At(p, step) == pulls[p].pc = step
Fault == faults < MaxFaults /\ faults' = faults + 1

\* mesh_receive begins; readCheck is prepared, or cannot be (a blind pull).
Begin(p) ==
  /\ At(p, "idle")
  /\ \E blind \in BOOLEAN :
       /\ pulls' = [pulls EXCEPT ![p].pc = "look", ![p].blind = blind]
       /\ IF blind THEN Fault /\ misses' = misses + 1 ELSE UNCHANGED <<faults, misses>>
  /\ UNCHANGED <<broker, history, audit, reads, handed, cut>>

Pending_NewOnly(side) ==
  Cardinality({n \in OnSide(side) : stream[n].at = "ready" /\ stream[n].tries = 0})

\* num_pending + num_ack_pending
Pending(side) == Cardinality({n \in OnSide(side) : stream[n].at \in {"ready", "out"}})

\* "Never more than there is room for."
Want(d, available) == SmallerOf(Limit - Cardinality(d.kept), available)

\* The head of pullFrom's loop: fetch, or on to the other durable, or out.
Round(d, available, again) ==
  IF again /\ d.round < MaxRounds /\ Want(d, available) > 0
  THEN [d EXCEPT !.pc = "fetch", !.round = @ + 1, !.available = available,
                 !.want = Want(d, available), !.taken = {}, !.dropped = FALSE]
  ELSE IF d.side = "inbox"
  THEN [d EXCEPT !.pc = "look", !.side = "broadcast", !.round = 0, !.taken = {}]
  ELSE [d EXCEPT !.pc = "handout", !.available = available, !.taken = {}]

\* pendingOf: one look at the durable's counts.
Look(p) ==
  LET d == pulls[p] IN
  /\ At(p, "look")
  /\ pulls' = [pulls EXCEPT ![p] =
       Round(d, Pending(d.side), TRUE)]
  /\ UNCHANGED <<broker, history, audit, record, faults>>

\* Whose a broadcast is: by the history row, by the name without one.
IsOwn(i) ==
  i \in Broadcasts /\ IF rows[i] # 0 THEN i \in Own ELSE i \in Namesake

SeenBefore_ThisPull(d, i) == i \in IdsOf(d.kept)

\* keptIds and readBefore
SeenBefore(d, i) == i \in IdsOf(d.kept) \/ (~d.blind /\ i \in reads)

\* The broker hands copy n over: it is out until it is acked.
HandOver(p, n, d) ==
  /\ n \in Ready(d.side)
  /\ stream' = [stream EXCEPT ![n].at = "out", ![n].tries = @ + 1]
  /\ pulls' = [pulls EXCEPT ![p] = [d EXCEPT !.taken = @ \cup {n}]]
  /\ UNCHANGED <<advisories, history, audit, reads, handed, cut>>

TakeDropped(p, n) ==
  LET i == stream[n].id
      d == pulls[p]
      expired == ~IsOwn(i) /\ ~SeenBefore(d, i)
  IN  /\ IsOwn(i) \/ SeenBefore(d, i) \/ i \in past
      /\ HandOver(p, n, [d EXCEPT !.dropped = TRUE, !.ranOut =
           IF expired /\ d.side = "inbox" THEN @ \cup {i} ELSE @])
      /\ acks' = acks \cup {n}
      /\ UNCHANGED <<misses, faults>>

TakeKept_ReadAtOnce(p, n) ==
  LET i == stream[n].id
      d == pulls[p]
  IN  /\ ~IsOwn(i) /\ ~SeenBefore(d, i) /\ i \notin past
      /\ stream' = [stream EXCEPT ![n].at = "out", ![n].tries = @ + 1]
      /\ pulls' = [pulls EXCEPT ![p] = [d EXCEPT !.kept = @ \cup {n}, !.taken = @ \cup {n}]]
      /\ reads' = reads \cup {i}
      /\ UNCHANGED <<acks, advisories, history, audit, handed, cut, misses, faults>>

TakeKept(p, n) ==
  LET i == stream[n].id
      d == pulls[p]
  IN  /\ ~IsOwn(i) /\ ~SeenBefore(d, i) /\ i \notin past
      /\ HandOver(p, n, [d EXCEPT !.kept = @ \cup {n}])
      /\ UNCHANGED <<acks, misses, faults>>

\* The drop rule throws on a failed lookup, of the sender or, once the ids
\* already kept are ruled out, of the reads: the message is kept.
TakeUnjudged(p, n) ==
  LET d == pulls[p] IN
  /\ d.side = "broadcast" \/ (~d.blind /\ stream[n].id \notin IdsOf(d.kept))
  /\ HandOver(p, n, [d EXCEPT !.kept = @ \cup {n}])
  /\ Fault
  /\ misses' = misses + 1
  /\ UNCHANGED acks

\* The fetch has what it asked for, or its deadline finds nothing ready.
FetchEnds(p) ==
  LET d == pulls[p]
      fetched == Cardinality(d.taken)
  IN
  /\ At(p, "fetch")
  /\ fetched = d.want \/ Ready(d.side) = {}
  /\ pulls' = [pulls EXCEPT ![p] =
       Round(d, IF d.available > fetched THEN d.available - fetched ELSE 0,
             fetched = d.want /\ d.dropped)]
  /\ UNCHANGED <<broker, history, audit, record, faults>>

-----------------------------------------------------------------------------
(***************************************************************************)
(* The answer.                                                             *)
(***************************************************************************)

\* The copies of a message a pull keeps: each is in its answer.
KeptOf(p, i) == {n \in pulls[p].kept : stream[n].id = i}

\* The answer goes out; what ran out is noted, unless the note fails.
Answer(p) ==
  /\ handed' = [i \in Ids |-> handed[i] + Cardinality(KeptOf(p, i))]
  /\ pulls' = [pulls EXCEPT ![p] = Idle]
  /\ UNCHANGED <<stream, advisories, history, deadNoted, cut>>

Note(p) == noted' = noted \cup pulls[p].ranOut

\* The acks go out, the reads are recorded, the answer is given.
HandOut(p) ==
  /\ At(p, "handout")
  /\ acks' = acks \cup pulls[p].kept
  /\ reads' = reads \cup IdsOf(pulls[p].kept)
  /\ Note(p)
  /\ Answer(p)
  /\ UNCHANGED <<unrecorded, misses, faults>>

\* noteExpired throws: only the log says so.
HandOutUnnoted(p) ==
  /\ At(p, "handout")
  /\ pulls[p].ranOut # {}
  /\ Fault
  /\ acks' = acks \cup pulls[p].kept
  /\ reads' = reads \cup IdsOf(pulls[p].kept)
  /\ Answer(p)
  /\ UNCHANGED <<noted, unrecorded, misses>>

\* markRead throws; once more in 50 ms.  The acks are out.
MarkReadFails(p) ==
  /\ At(p, "handout")
  /\ pulls[p].kept # {}
  /\ Fault
  /\ acks' = acks \cup pulls[p].kept
  /\ pulls' = [pulls EXCEPT ![p].pc = "retry"]
  /\ UNCHANGED <<stream, advisories, history, audit, record>>

MarkReadAgain(p) ==
  /\ At(p, "retry")
  /\ reads' = reads \cup IdsOf(pulls[p].kept)
  /\ Note(p)
  /\ Answer(p)
  /\ UNCHANGED <<acks, unrecorded, misses, faults>>

\* markRead throws again, for the same reason (the bound counts it once): an
\* audit row per message says so, if it can.
MarkReadGivesUp(p) ==
  /\ At(p, "retry")
  /\ misses' = misses + 1
  /\ unrecorded' \in {unrecorded, unrecorded \cup IdsOf(pulls[p].kept)}
  /\ Note(p)
  /\ Answer(p)
  /\ UNCHANGED <<acks, reads, faults>>

\* The broker stops answering, the pull throws; or the process dies.  What
\* was fetched and not acked is left to the ack wait.
PullFails(p) ==
  /\ ~At(p, "idle")
  /\ Fault
  /\ pulls' = [pulls EXCEPT ![p] = Idle]
  /\ cut' = IF At(p, "retry") THEN cut \cup IdsOf(pulls[p].kept) ELSE cut
  /\ UNCHANGED <<broker, history, audit, reads, handed, misses>>

-----------------------------------------------------------------------------
(***************************************************************************)
(* The broker, the senders and time.                                       *)
(***************************************************************************)

\* A send or a repeat arrives.
Arrive(i) ==
  /\ Len(stream) < MaxCopies
  /\ stream' = Append(stream, [id |-> i, at |-> "ready", tries |-> 0])
  /\ UNCHANGED <<acks, advisories, history, pulls, audit, record, faults>>

\* The sender's side writes the history row.
StoreRow(i, n) ==
  /\ rows[i] = 0
  /\ stream[n].id = i
  /\ rows' = [rows EXCEPT ![i] = n]
  /\ UNCHANGED <<broker, past, pulls, audit, record, faults>>

AckArrives(n) ==
  /\ n \in acks
  /\ acks' = acks \ {n}
  /\ stream' = IF stream[n].at = "dead" THEN stream
               ELSE [stream EXCEPT ![n].at = "acked"]
  /\ UNCHANGED <<advisories, history, pulls, audit, record, faults>>

AckLost(n) ==
  /\ n \in acks
  /\ Fault
  /\ acks' = acks \ {n}
  /\ UNCHANGED <<stream, advisories, history, pulls, audit, record>>

\* A fetch is over before an ack wait it began.
JustTaken(n) == \E p \in Pulls : n \in pulls[p].taken
Held(n) == \E p \in Pulls : n \in pulls[p].kept

\* Thirty seconds without an ack: again, or the fifth time never again.
AckWaitEnds(n) ==
  /\ stream[n].at = "out"
  /\ ~JustTaken(n)
  /\ QuickPulls => n \notin acks /\ ~Held(n)
  /\ IF stream[n].tries < MaxDeliver
     THEN /\ stream' = [stream EXCEPT ![n].at = "ready"]
          /\ UNCHANGED advisories
     ELSE /\ stream' = [stream EXCEPT ![n].at = "dead"]
          /\ advisories' = advisories \cup {n}
  /\ UNCHANGED <<acks, history, pulls, audit, record, faults>>

\* recordDeadLetter: the audit row of the message whose row has the sequence.
RecordDeadLetter(n) ==
  /\ n \in advisories
  /\ advisories' = advisories \ {n}
  /\ deadNoted' = deadNoted \cup {i \in Ids : rows[i] = n}
  /\ UNCHANGED <<stream, acks, history, pulls, noted, unrecorded, record, faults>>

\* The broker says it once, to whoever listens.
AdvisoryLost(n) ==
  /\ n \in advisories
  /\ Fault
  /\ advisories' = advisories \ {n}
  /\ UNCHANGED <<stream, acks, history, pulls, audit, record>>

RunsOut(i) ==
  /\ i \in IdsOf(Seqs) \ past
  /\ past' = past \cup {i}
  /\ UNCHANGED <<broker, rows, pulls, audit, record, faults>>

\* sweepExpiredUnread: a direct message in the history, past its deadline,
\* not read, and not noted or known to have been handed out.
Sweep(i) ==
  /\ rows[i] # 0 /\ i \notin Broadcasts /\ i \in past
  /\ i \notin reads \cup noted \cup unrecorded
  /\ noted' = noted \cup {i}
  /\ UNCHANGED <<broker, history, pulls, unrecorded, deadNoted, record, faults>>

-----------------------------------------------------------------------------

Take(p) ==
  /\ At(p, "fetch")
  /\ Cardinality(pulls[p].taken) < pulls[p].want
  /\ \E n \in Seqs : TakeDropped(p, n) \/ TakeKept(p, n) \/ TakeUnjudged(p, n)

\* What the event loop and the answers of a working broker bring about.
Progress(p) ==
  \/ Look(p)
  \/ FetchEnds(p)
  \/ Take(p)
  \/ HandOut(p)
  \/ MarkReadAgain(p)

PullStep(p) ==
  \/ Begin(p)
  \/ Progress(p)
  \/ HandOutUnnoted(p)
  \/ MarkReadFails(p)
  \/ MarkReadGivesUp(p)
  \/ PullFails(p)

BrokerStep(n) ==
  \/ AckArrives(n)
  \/ AckLost(n)
  \/ AckWaitEnds(n)
  \/ RecordDeadLetter(n)
  \/ AdvisoryLost(n)

Next ==
  \/ \E p \in Pulls : PullStep(p)
  \/ \E n \in Seqs : BrokerStep(n)
  \/ \E i \in Ids : Arrive(i) \/ RunsOut(i) \/ Sweep(i)
  \/ \E i \in Ids, n \in Seqs : StoreRow(i, n)

Spec == Init /\ [][Next]_vars

\* An agent that keeps polling, a broker that works off its timers and what
\* it was sent, an hourly sweep.
FairSpec ==
  /\ Spec
  /\ \A p \in Pulls : WF_vars(Begin(p) \/ Progress(p))
  /\ WF_vars(\E n \in Seqs : AckArrives(n))
  /\ \A n \in 1..MaxCopies : WF_vars(n \in Seqs /\ AckWaitEnds(n))
  /\ \A i \in Ids : WF_vars(Sweep(i))

-----------------------------------------------------------------------------
(***************************************************************************)
(* Properties.                                                             *)
(***************************************************************************)

\* With one receive at a time, no redelivery, no second copy and no lost ack
\* hands a message out twice; only reads that could not be asked or written
\* do, each time at most once more (README, Delivery: "Once per reader").
OncePerReader == \A i \in Ids : handed[i] <= 1 + misses

\* The same without the allowance: "What an agent was handed already is never
\* handed out again".
NeverHandedOutAgain == \A i \in Ids : handed[i] <= 1

InHand(i) == \E p \in Pulls : i \in IdsOf(pulls[p].kept)
Unacked(i) == \E n \in Seqs : stream[n].id = i /\ n \notin acks /\ stream[n].at # "acked"

\* Nothing is acked away (receive.ts: "a message that is acked here and not
\* returned is lost").  A copy that is acked is of a message that was handed
\* out, ran out, is the agent's own or a broadcast with its name on it, is in
\* the hands of a running receive or has another copy the broker still
\* delivers or gave up on; or its receive died between its acks and its
\* answer.  This is so while pulls end within the ack wait.
AckedIsAccountedFor ==
  \A n \in Seqs :
    LET i == stream[n].id IN
    (n \in acks \/ stream[n].at = "acked") =>
      \/ handed[i] > 0 \/ InHand(i) \/ Unacked(i)
      \/ i \in past \cup Own \cup Namesake \cup cut

\* "A message that is fetched and then not returned sits out the ack wait"
\* (inbox.ts:166): what a pull keeps it does not ack before the pull is over.
KeptIsNotAcked ==
  \A p \in Pulls : pulls[p].pc \in {"look", "fetch", "handout"} =>
    \A n \in pulls[p].kept : n \notin acks /\ stream[n].at # "acked"

\* No direct message in the history runs out in silence: the agent got it or
\* the sender is told, whatever failed between the pull, the ack, the read and
\* the note (README, Delivery: "The deadline").
ExpiredIsNoted ==
  \A i \in Ids \ Broadcasts :
    rows[i] # 0 /\ i \in past ~> i \in noted \/ handed[i] > 0

\* Every copy comes to its end: an agent that keeps polling gets or drops it,
\* whatever was fetched and not acked on the way, or the broker gives it up.
EveryCopyEnds ==
  \A n \in 1..MaxCopies :
    n \in Seqs ~> n \in Seqs /\ stream[n].at \in {"acked", "dead"}
=============================================================================
