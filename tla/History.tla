------------------------------- MODULE History ------------------------------
(***************************************************************************)
(* What the dashboard and the agents' history tools read out of the table  *)
(* `messages` (services/message-queries.ts, section-loaders.ts,            *)
(* v2-home-data.ts, dashboard-stats.ts, attention.ts, mcp/tools/history    *)
(* .ts).  A thread is written down nowhere: every query puts it together   *)
(* from `correlation_id`, each in its own way, by its own index and with   *)
(* its own order.                                                          *)
(*                                                                         *)
(* A table is the sequence of its rows by rowid: id, thread (its           *)
(* correlation_id), from, to, type, at.  Rows can be missing (the rotation *)
(* takes the oldest, a root before its replies), and two can carry the     *)
(* same time, or one that goes back.                                       *)
(*                                                                         *)
(* An operator named X_<slip> is X with a plausible programming slip; it   *)
(* takes the place of X in a test of a property and is nowhere else used.  *)
(***************************************************************************)
EXTENDS Naturals, FiniteSets, SequencesExt

CONSTANTS
  Nil,       \* null
  Everybody, \* the name a broadcast is sent to
  PerSource  \* maxPerSource of the attention band: 5

-----------------------------------------------------------------------------
(***************************************************************************)
(* Threads and their order.                                                *)
(***************************************************************************)

\* COALESCE(correlation_id, id)
Root(row) == IF row.thread = Nil THEN row.id ELSE row.thread

ThreadsOf(h) == {Root(h[k]) : k \in DOMAIN h}
Members(h, t) == {k \in DOMAIN h : Root(h[k]) = t}
Times(h, S) == {h[k].at : k \in S}

EarliestOf(T) == CHOOSE a \in T : \A b \in T : a <= b
LatestOf(T) == CHOOSE a \in T : \A b \in T : a >= b

\* A finite set put in the order of a relation.
Sorted(S, before) ==
  CHOOSE s \in SetToSeqs(S) : \A m, n \in DOMAIN s : m < n => <<s[m], s[n]>> \in before

Rising(S) == Sorted(S, {e \in S \X S : e[1] < e[2]})

\* THREAD_ORDER: by time, then by insertion.
Earlier(h, j, k) == h[j].at < h[k].at \/ (h[j].at = h[k].at /\ j < k)
InOrder(h, S) == Sorted(S, {e \in S \X S : Earlier(h, e[1], e[2])})

\* LIMIT n of what is in order.
FirstOf(s, n) == SubSeq(s, 1, IF Len(s) < n THEN Len(s) ELSE n)

\* LIMIT n of the newest: which of several of one time, nothing says.
NewestOf(S, time, n) ==
  {N \in SUBSET S : /\ Cardinality(N) = IF Cardinality(S) < n THEN Cardinality(S) ELSE n
                    /\ \A x \in N, y \in S \ N : time[x] >= time[y]}

\* Parties in order of appearance, of rows in thread order: each where it first
\* spoke or was spoken to, in one row the sender before the recipient.
NamedIn(row) == {row.from, row.to}
PartiesOf(h, s) == UNION {NamedIn(h[s[n]]) : n \in DOMAIN s}
Appears(h, s, name) == EarliestOf({n \in DOMAIN s : name \in NamedIn(h[s[n]])})
AppearsBefore(h, s, x, y) ==
  \/ Appears(h, s, x) < Appears(h, s, y)
  \/ Appears(h, s, x) = Appears(h, s, y) /\ x # y /\ x = h[s[Appears(h, s, x)]].from
PartiesInOrder(h, s) ==
  LET S == PartiesOf(h, s) IN Sorted(S, {e \in S \X S : AppearsBefore(h, s, e[1], e[2])})

-----------------------------------------------------------------------------
(***************************************************************************)
(* The list of conversations.                                              *)
(***************************************************************************)

TookPart(row, who) == who = Nil \/ row.from = who \/ row.to = who

\* Whole threads: those with at least one message that matches.
Listed(h, who) == {Root(h[k]) : k \in {j \in DOMAIN h : TookPart(h[j], who)}}

\* The second query of the list, for the threads of the page, by two indexes.
Skeleton(h, page) ==
  {k \in DOMAIN h : (h[k].thread \in page \/ h[k].id \in page) /\ Root(h[k]) \in page}

\* One row of a page of the list.
ListRow(h, page, t) ==
  LET mine == InOrder(h, {k \in Skeleton(h, page) : Root(h[k]) = t}) IN
  [ thread_id    |-> t,
    started      |-> EarliestOf(Times(h, Members(h, t))),
    last         |-> LatestOf(Times(h, Members(h, t))),
    count        |-> Cardinality(Members(h, t)),
    first        |-> h[mine[1]].id,
    participants |-> PartiesInOrder(h, mine) ]

-----------------------------------------------------------------------------
(***************************************************************************)
(* The open thread.                                                        *)
(***************************************************************************)

ThreadRows_AnyId(h, id) ==
  InOrder(h, {k \in DOMAIN h : h[k].thread = id \/ h[k].id = id})

\* Every message of the thread with exactly this id.
ThreadRows(h, id) ==
  InOrder(h, {k \in DOMAIN h : (h[k].thread = id \/ h[k].id = id) /\ Root(h[k]) = id})

RowsWithId(h, id) == {k \in DOMAIN h : h[k].id = id}

\* Unknown ids fall back to the id itself: the root may be rotated out.
ResolveThreadRoot(h, id) ==
  IF RowsWithId(h, id) = {} THEN id ELSE Root(h[CHOOSE k \in RowsWithId(h, id) : TRUE])

Pane(h, t, s) ==
  [ thread_id    |-> t,
    started      |-> h[s[1]].at,
    last         |-> LatestOf(Times(h, ToSet(s))),
    count        |-> Len(s),
    first        |-> h[s[1]].id,
    participants |-> PartiesInOrder(h, s),
    messages     |-> [n \in DOMAIN s |-> h[s[n]].id] ]

GetThread_MessageFirst(h, id) ==
  LET root == ResolveThreadRoot(h, id) IN
  IF ThreadRows(h, root) = <<>> THEN Nil ELSE Pane(h, root, ThreadRows(h, root))

\* getThread: a thread id wins, else any of its messages' ids.
GetThread(h, id) ==
  LET root == ResolveThreadRoot(h, id) IN
  CASE ThreadRows(h, id) # <<>>   -> Pane(h, id, ThreadRows(h, id))
    [] ThreadRows(h, id) = <<>> /\ root # id /\ ThreadRows(h, root) # <<>>
                                  -> Pane(h, root, ThreadRows(h, root))
    [] OTHER                      -> Nil

-----------------------------------------------------------------------------
(***************************************************************************)
(* Home, the log, and what agents ask.                                     *)
(***************************************************************************)

NewestThreadId(h) ==
  LET last == LatestOf(Times(h, DOMAIN h)) IN
  IF h = <<>> THEN Nil
  ELSE Root(h[LatestOf({k \in DOMAIN h : h[k].at = last})])

LoadLatestThread(h) ==
  IF NewestThreadId(h) = Nil THEN Nil ELSE GetThread(h, NewestThreadId(h))

LogItems(h, who, routing) ==
  {k \in DOMAIN h : /\ TookPart(h[k], who)
                    /\ (routing = "broadcast" => h[k].to = Everybody)
                    /\ (routing = "direct" => h[k].to # Everybody)}

\* mesh_send: the thread a correlation_id may join.
ExistingThread(h, id) ==
  CASE \E k \in DOMAIN h : (h[k].thread = id \/ h[k].id = id) /\ Root(h[k]) = id -> id
    [] ThreadRows(h, id) = <<>> /\ RowsWithId(h, id) # {} -> ResolveThreadRoot(h, id)
    [] OTHER -> Nil

\* mesh_history: the oldest `limit` messages.
MeshHistory(h, id, limit) ==
  LET root == ResolveThreadRoot(h, id)
      s == FirstOf(InOrder(h, {k \in DOMAIN h : h[k].thread = root \/ h[k].id = root}), limit)
  IN  [n \in DOMAIN s |-> h[s[n]].id]

-----------------------------------------------------------------------------
(***************************************************************************)
(* Incidents, of the time after `since`.                                   *)
(***************************************************************************)

Incidents24h(h, since) == {k \in DOMAIN h : h[k].at > since /\ h[k].type = "incident"}

\* Somebody other than the reporter spoke in the thread afterwards.
Answers(h, k) ==
  {j \in DOMAIN h : Root(h[j]) = Root(h[k]) /\ h[j].at > h[k].at /\ h[j].from # h[k].from}

Unanswered_ByReporterToo(h, since) ==
  {k \in Incidents24h(h, since) :
     ~\E j \in DOMAIN h : Root(h[j]) = Root(h[k]) /\ h[j].at > h[k].at}

Unanswered(h, since) == {k \in Incidents24h(h, since) : Answers(h, k) = {}}

\* What the attention band may list.
OpenIncidents(h, since) ==
  NewestOf(Unanswered(h, since), [k \in DOMAIN h |-> h[k].at], PerSource)

\* The lead sentence's: the newest, and who answered it first; on a tie any.
LatestIncidents(h, since) ==
  LET found == Incidents24h(h, since) IN
  {[ row |-> k,
     closed_by |-> IF Answers(h, k) = {} THEN Nil
                   ELSE h[CHOOSE j \in Answers(h, k) :
                            h[j].at = EarliestOf(Times(h, Answers(h, k)))].from ]
   : k \in {j \in found : h[j].at = LatestOf(Times(h, found))}}
=============================================================================
