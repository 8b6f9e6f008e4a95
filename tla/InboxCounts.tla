----------------------------- MODULE InboxCounts ------------------------------
(***************************************************************************)
(* The counts under the answers: inbox_pending of every reply              *)
(* (pendingCount in mcp/shared.ts), of mesh_receive itself, which counts   *)
(* from its pull, and mesh_inbox with the marks of its messages.           *)
(*                                                                         *)
(* A count is taken in steps, each an awaited call to the broker: the      *)
(* agent's own durable, the broadcasts', and while broadcasts wait the     *)
(* stream's last sequence, which can fail.  Only then are the agent's own  *)
(* broadcasts looked up in the history and left out.  A pull does the      *)
(* looks in any case and corrects them by what it fetched.  Mail arrives,  *)
(* is fetched and acked by others, and rows are stored in between.         *)
(*                                                                         *)
(* The stream stands: that it is lost and made anew, with the bounds on    *)
(* its age that are for that case, is left out.                            *)
(***************************************************************************)
EXTENDS Inbox

CONSTANT Counters  \* answers that count at the same time without a pull

ASSUME CountersAssumption == Counters \cap Pulls = {}

VARIABLE counts    \* Pulls and Counters -> what an answer under way has counted

countVars == <<vars, counts>>

Counting == Pulls \cup Counters

\* A count that is not under way; since is the stream's length when it began,
\* sides the durables it has looked at, had what its own pull fetched, again
\* how many of these a second time.
NoCount == [pc |-> "idle", since |-> 0, sides |-> {}, inbox |-> 0, broadcast |-> 0,
            delivered |-> 0, last |-> 0, had |-> {}, again |-> 0]

Count == [pc: {"idle", "looks", "bounds", "answer"}, since: 0..MaxCopies,
          sides: SUBSET Sides, inbox: 0..MaxCopies, broadcast: 0..MaxCopies,
          delivered: 0..MaxCopies, last: 0..MaxCopies, had: SUBSET (1..MaxCopies),
          again: Nat]

CountsTypeOK == TypeOK /\ counts \in [Counting -> Count]

\* delivered.stream_seq of the broadcasts' durable: the last copy it handed
\* over at all.
DeliveredSeq ==
  LET seqs == {n \in OnSide("broadcast") : stream[n].tries > 0} IN
  IF seqs = {} THEN 0 ELSE CHOOSE n \in seqs : \A m \in seqs : m <= n

CountsInit == Init /\ counts = [k \in Counting |-> NoCount]

-----------------------------------------------------------------------------
(***************************************************************************)
(* The steps of a count.                                                   *)
(***************************************************************************)

Goes(k, c) == counts' = [counts EXCEPT ![k] = c]

\* A count that begins.
Fresh == [NoCount EXCEPT !.pc = "looks", !.since = Len(stream)]

\* What a look at one of the two durables tells.
Seen(c, side) ==
  IF side = "inbox"
  THEN [c EXCEPT !.sides = @ \cup {side}, !.inbox = Pending(side)]
  ELSE [c EXCEPT !.sides = @ \cup {side}, !.broadcast = Pending(side),
                 !.delivered = DeliveredSeq]

\* Both are counted: the stream is asked only while broadcasts wait.
Counted(c) == [c EXCEPT !.pc = IF c.broadcast > 0 THEN "bounds" ELSE "answer"]

\* inboxPending, for a reply of any tool: its look at the agent's own durable,
CountBegins(k) ==
  /\ counts[k].pc = "idle"
  /\ Goes(k, Seen(Fresh, "inbox"))
  /\ UNCHANGED vars

\* and at the broadcasts'.
CountGoesOn(k) ==
  /\ counts[k].pc = "looks"
  /\ Goes(k, Counted(Seen(counts[k], "broadcast")))
  /\ UNCHANGED vars

\* streamBounds: the last sequence, or null (0: nothing is left out).
StreamBounds(k) ==
  /\ counts[k].pc = "bounds"
  /\ \E last \in {0, Len(stream)} : Goes(k, [counts[k] EXCEPT !.pc = "answer", !.last = last])
  /\ UNCHANGED vars

\* The answer goes out with its count, or earlier with null.
CountEnds(k) ==
  /\ counts[k].pc # "idle"
  /\ Goes(k, NoCount)
  /\ UNCHANGED vars

-----------------------------------------------------------------------------
(***************************************************************************)
(* A pull, which counts as it goes.                                        *)
(***************************************************************************)

Delivered_AsSeen(c, fetched) == c.delivered

\* The sequences of what was fetched are delivered too.
Delivered(c, fetched) ==
  LET seqs == {c.delivered} \cup fetched IN CHOOSE n \in seqs : \A m \in seqs : m <= n

Less(available, fetched) == IF available > fetched THEN available - fetched ELSE 0

\* What a fetch takes is no longer waiting.
Fetched(c, d) ==
  LET e == [c EXCEPT !.had = @ \cup d.taken, !.again = @ + Cardinality(c.had \cap d.taken)]
      fetched == Cardinality(d.taken)
  IN  IF d.side = "inbox"
      THEN [e EXCEPT !.inbox = Less(@, fetched)]
      ELSE [e EXCEPT !.broadcast = Less(@, fetched), !.delivered = Delivered(c, d.taken)]

\* The pull is over with this step: its count goes on to the bounds.
Pulled(p, c) == IF pulls'[p].pc = "handout" THEN Counted(c) ELSE c

CountedPull(p) ==
  LET c == counts[p]
      d == pulls[p]
  IN
  \/ Begin(p) /\ Goes(p, Fresh)
  \/ Look(p) /\ Goes(p, Pulled(p, Seen(c, d.side)))
  \/ Take(p) /\ UNCHANGED counts
  \/ FetchEnds(p) /\ Goes(p, Pulled(p, Fetched(c, d)))
  \/ c.pc = "answer" /\ MarkReadFails(p) /\ UNCHANGED counts
  \/ c.pc = "answer" /\ (HandOut(p) \/ HandOutUnnoted(p)) /\ Goes(p, NoCount)
  \/ (MarkReadAgain(p) \/ MarkReadGivesUp(p)) /\ Goes(p, NoCount)
  \/ PullFails(p) /\ Goes(p, NoCount)

Around ==
  \/ \E n \in Seqs : BrokerStep(n)
  \/ \E i \in Ids : Arrive(i) \/ RunsOut(i) \/ Sweep(i)
  \/ \E i \in Ids, n \in Seqs : StoreRow(i, n)

CountsNext ==
  \/ \E p \in Pulls : CountedPull(p)
  \/ \E k \in Counters : CountBegins(k) \/ CountGoesOn(k) \/ CountEnds(k)
  \/ \E k \in Counting : StreamBounds(k)
  \/ Around /\ UNCHANGED counts

CountsSpec == CountsInit /\ [][CountsNext]_countVars

-----------------------------------------------------------------------------
(***************************************************************************)
(* What the answer says.                                                   *)
(***************************************************************************)

\* By the history's sequences: after what the durable had delivered, and not
\* after the stream's last.
OwnBroadcastsBehind(c) == Cardinality({i \in Own : rows[i] > c.delivered /\ rows[i] <= c.last})

\* What the broker holds, without the agent's own.
WaitingFor(c) == (c.inbox + c.broadcast) - SmallerOf(OwnBroadcastsBehind(c), c.broadcast)

\* listInbox: direct mail by key, broadcasts by everyone but their sender.
Addressed == {i \in Ids : rows[i] # 0 /\ i \notin Own}

Unread_ExpiredToo == (Addressed \ reads) \ deadNoted

\* Never handed out; and of these, neither run out nor given up.
NeverRead == Addressed \ reads
Unread == NeverRead \ (past \cup deadNoted)

\* mesh_inbox, before it counts what is pending: its messages with their
\* marks, and the numbers of the whole inbox.
MeshInbox ==
  [ messages |-> [i \in Addressed |->
                    [ read          |-> i \in reads,
                      expired       |-> i \in past \ reads,
                      dead_lettered |-> i \in deadNoted ]],
    unread |-> Unread,
    never_handed_out |-> NeverRead ]

-----------------------------------------------------------------------------
(***************************************************************************)
(* Properties.                                                             *)
(***************************************************************************)

Answering(k) == counts[k].pc = "answer"

\* Others' copies that were there when the count began, still are, and are
\* not what its own pull fetched.
StillThere(k) ==
  {n \in 1..counts[k].since :
     stream[n].at \in {"ready", "out"} /\ stream[n].id \notin Own /\ n \notin counts[k].had}

\* What came while it counted and unsettled it: an own broadcast the stream's
\* last sequence takes in, or a copy its pull fetched.
CameBetween(k) ==
  {n \in (counts[k].since + 1)..Len(stream) :
     (stream[n].id \in Own /\ n <= counts[k].last) \/ n \in counts[k].had}

\* "Counting one too many costs a receive that finds nothing, one too few
\* hides mail" (mcp/shared.ts): the inbox_pending of an answer, a tool's or
\* mesh_receive's own, is not less than what was there for this agent from
\* others when the count began and still is, less what came between its looks
\* and the stream's bounds and unsettled it; a copy a slow pull was given
\* twice it takes for two.  So it is however own broadcasts, their second
\* copies and rows, redeliveries and failed looks fall together.
CountsHideNothing ==
  \A k \in Counting :
    Answering(k) => WaitingFor(counts[k]) + Cardinality(CameBetween(k)) + counts[k].again
                      >= Cardinality(StillThere(k))

\* The comment without the allowance: nobody's mail is hidden, whatever comes
\* while the broker is being asked.
NoCountHidesMail ==
  \A k \in Counting : Answering(k) => WaitingFor(counts[k]) >= Cardinality(StillThere(k))

\* What mesh_inbox counts as unread can still be handed out or is known to be
\* given up, but for the calls whose reads were not recorded and for a
\* broadcast that was taken for the agent's own before its row was there; a
\* message that will not come says why.
UnreadCanCome ==
  \A inbox \in {MeshInbox} :
    /\ \A i \in inbox.unread :
         InHand(i) \/ Unacked(i) \/ misses > 0 \/ i \in cut \/ i \in Namesake
    /\ \A i \in inbox.never_handed_out \ inbox.unread :
         inbox.messages[i].expired \/ inbox.messages[i].dead_lettered
=============================================================================
