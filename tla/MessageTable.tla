---------------------------- MODULE MessageTable ----------------------------
(***************************************************************************)
(* The table `messages` while it lives: mesh_send and mesh_reply look up   *)
(* the thread of a new message, the row is written after the publish, and  *)
(* the rotation deletes what is older than the retention.  In between, the *)
(* dashboard's pages and the history tools read it (History).              *)
(*                                                                         *)
(* A table may hold rows of the releases that took any correlation_id: a   *)
(* legacy one, which names a thread after a message of another.            *)
(***************************************************************************)
EXTENDS History

CONSTANTS
  Ids,        \* message ids, by insertion; bound: rows ever stored
  Old,        \* a thread whose root is gone
  Exchanges,  \* who writes to whom and of which type: <<from, to, type>>
  HistoryLimits, \* what mesh_history may be asked for: 1..200, 50 when nothing is said
  MaxDrafts,  \* bound: sends under way at a time
  LastTime    \* bound: the last moment

Parties == UNION {{e[1], e[2]} : e \in Exchanges}
Threads == ToSet(Ids) \cup {Old, Nil}

\* What a thread's page is made of.
Panes == [thread_id: Threads, started: Nat, last: Nat, count: Nat, first: ToSet(Ids),
          participants: Seq(Parties), messages: Seq(ToSet(Ids))]

ASSUME TableAssumption ==
  /\ Ids \in Seq(ToSet(Ids)) /\ IsInjective(Ids) /\ Len(Ids) >= 2
  /\ Old \notin ToSet(Ids)
  /\ Nil \notin ToSet(Ids) \cup {Old} \cup Parties \cup Panes \cup {"broadcast", "direct"}
  /\ LastTime \in Nat
  /\ HistoryLimits \subseteq Nat \ {0}
  /\ PerSource \in Nat \ {0}

VARIABLES
  table,
  stored,  \* rows ever stored
  drafts,  \* sends whose thread is looked up and whose row is not written
  legacy   \* history: the table began with a legacy thread

tableVars == <<table, stored, drafts, legacy>>

\* A thread named after a reply to another.
LegacyTables ==
  {<<[id |-> Ids[1], thread |-> Old, from |-> p[1], to |-> p[2], type |-> p[3], at |-> 1],
     [id |-> Ids[2], thread |-> Ids[1], from |-> p[2], to |-> p[1], type |-> p[3], at |-> a]>>
     : p \in {e \in Exchanges : e[2] # Everybody}, a \in 1..LastTime}

TableInit ==
  /\ table \in {<<>>} \cup LegacyTables
  /\ stored = Len(table)
  /\ legacy = (table # <<>>)
  /\ drafts = {}

Drafted(p, t) ==
  /\ drafts' = drafts \cup {[from |-> p[1], to |-> p[2], type |-> p[3], thread |-> t]}
  /\ Cardinality(drafts') <= MaxDrafts
  /\ UNCHANGED <<table, stored, legacy>>

\* mesh_send.  A correlation_id that is neither a thread nor a message is
\* refused.
SendInThread(p, wanted) ==
  /\ wanted # Nil => ExistingThread(table, wanted) # Nil
  /\ Drafted(p, IF wanted = Nil THEN Nil ELSE ExistingThread(table, wanted))

\* mesh_reply, to the other side of a message of the table.
ReplyTo(p, k) ==
  /\ p[2] = IF table[k].from = p[1] THEN table[k].to ELSE table[k].from
  /\ Drafted(p, Root(table[k]))

\* The row is written; two sends may overtake each other, and the clock may
\* be set back.
StoreRow(d, at) ==
  /\ stored < Len(Ids)
  /\ table' = Append(table, [id |-> Ids[stored + 1], thread |-> d.thread, from |-> d.from,
                             to |-> d.to, type |-> d.type, at |-> at])
  /\ stored' = stored + 1
  /\ drafts' = drafts \ {d}
  /\ UNCHANGED legacy

\* rotateMessages
RotateMessages(cutoff) ==
  /\ LET left == Rising({k \in DOMAIN table : table[k].at >= cutoff})
     IN  table' = [n \in DOMAIN left |-> table[left[n]]]
  /\ table' # table
  /\ UNCHANGED <<stored, drafts, legacy>>

TableNext ==
  \/ \E p \in Exchanges :
       \/ \E wanted \in Threads : SendInThread(p, wanted)
       \/ \E k \in DOMAIN table : ReplyTo(p, k)
  \/ \E d \in drafts, at \in 1..LastTime : StoreRow(d, at)
  \/ \E cutoff \in 1..LastTime : RotateMessages(cutoff)

TableSpec == TableInit /\ [][TableNext]_tableVars

-----------------------------------------------------------------------------
(***************************************************************************)
(* Properties.                                                             *)
(***************************************************************************)

\* Every single thread as a page, and the one page of all.
PagesOf(who) == {{t} : t \in Listed(table, who)} \cup {Listed(table, who)}

ListAndPaneAgree ==
  \A who \in Parties \cup {Nil} : \A page \in PagesOf(who) : \A t \in page :
    LET row == ListRow(table, page, t)
        pane == GetThread(table, t)
    IN  pane # Nil /\ \A f \in DOMAIN row : row[f] = pane[f]

EveryMessageOpens ==
  \A k \in DOMAIN table :
    LET pane == GetThread(table, Root(table[k])) IN
    pane # Nil /\ table[k].id \in ToSet(pane.messages)

SendJoinsWhatOpens ==
  \A id \in Threads \ {Nil} :
    LET pane == GetThread(table, id) IN
    ExistingThread(table, id) = IF pane = Nil THEN Nil ELSE pane.thread_id

HomeShowsTheNewest ==
  table # <<>> => LoadLatestThread(table).last = LatestOf(Times(table, DOMAIN table))

LogAndListAgree ==
  /\ \A who \in Parties \cup {Nil} :
       {Root(table[k]) : k \in LogItems(table, who, Nil)} = Listed(table, who)
  /\ LogItems(table, Nil, "direct") \cup LogItems(table, Nil, "broadcast") = DOMAIN table

\* What mesh_history gives an agent for any id is the beginning of what the
\* dashboard's pane shows, in the same order, and all of it when the thread is
\* no longer than the limit; of a longer one the newest messages are missing.
\* That holds as long as mesh_send and mesh_reply alone have named the threads
\* (mcp/tools/history.ts:61-70 has not the check that threadRows has).
HistoryBeginsThePane ==
  ~legacy =>
    \A id \in Threads \ {Nil}, limit \in HistoryLimits :
      LET pane == GetThread(table, id) IN
      MeshHistory(table, id, limit) = IF pane = Nil THEN <<>> ELSE FirstOf(pane.messages, limit)

\* A row of the conversation list, whatever the filter and the page, names the
\* same parties in the same order, the same first message, times and length
\* as the pane it opens; every message is in the pane of its thread; mesh_send
\* lets a message into exactly the threads the dashboard can open; Home shows
\* a thread with the newest message; and the log and the list select the same
\* threads ("List and open thread have to agree on who spoke first"); and what
\* agents read in their history is where the pane begins.
ThreadsAgree ==
  /\ ListAndPaneAgree
  /\ EveryMessageOpens
  /\ SendJoinsWhatOpens
  /\ HomeShowsTheNewest
  /\ LogAndListAgree
  /\ HistoryBeginsThePane

\* A pane that refreshes itself under its thread's id stays with this thread
\* until its last message is gone; no row that comes or goes puts another
\* conversation in its place, not even next to a legacy thread
\* (message-queries.ts:391-394).
PaneStays ==
  [][\A t \in ThreadsOf(table) :
       GetThread(table', t) # Nil => GetThread(table', t).thread_id = t]_table

\* Home's lead sentence and its attention band never contradict each other:
\* what the band lists is not said to be closed, and the newest incident, when
\* it is said to be open, is in the band or the band is full of others of the
\* same moment; who closed it is not who reported it, and took part in the
\* thread it links to.
IncidentsAgree ==
  \A since \in 0..LastTime :
    \A latest \in LatestIncidents(table, since), band \in OpenIncidents(table, since) :
      LET row == table[latest.row] IN
      /\ latest.row \in band => latest.closed_by = Nil
      /\ latest.closed_by = Nil /\ latest.row \notin band =>
           Cardinality(band) = PerSource /\ \A k \in band : table[k].at = row.at
      /\ latest.closed_by # Nil =>
           /\ latest.closed_by # row.from
           /\ latest.closed_by \in ToSet(GetThread(table, Root(row)).participants)
=============================================================================
