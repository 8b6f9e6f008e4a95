---------------------------- MODULE ResultTitles ----------------------------
(***************************************************************************)
(* The titles of the board's result links (services/result-titles.ts).     *)
(* Every load of the board asks for the titles it does not know; an        *)
(* endpoint is asked for a few at a time, each answer starts the next, and *)
(* nobody but the next load looks at what came of it.  The cache has a     *)
(* bound and drops the entry that was put in first.                        *)
(*                                                                         *)
(* Time is in steps of FailureTtl; the timeout of a lookup is far shorter. *)
(***************************************************************************)
EXTENDS Naturals, Sequences, FiniteSets, SequencesExt

CONSTANTS
  Links,       \* entity ids
  MaxInFlight, \* MAX_IN_FLIGHT
  MaxEntries,  \* MAX_ENTRIES
  TitleTtl,    \* TITLE_TTL_MS
  FailureTtl,  \* FAILURE_TTL_MS
  LastMoment   \* bound

ASSUME TitlesAssumption ==
  /\ IsFiniteSet(Links)
  /\ MaxInFlight \in Nat /\ MaxEntries \in Nat \ {0}
  /\ {TitleTtl, FailureTtl, LastMoment} \subseteq Nat

VARIABLES
  clock,
  titles,   \* entries in insertion order: id, title (is there one), until
  asking,  \* ids whose lookup is under way
  queue,   \* ids that wait for one
  health   \* TitleStatus: state, at, since

titleVars == <<clock, titles, asking, queue, health>>

Unchecked == [state |-> "unchecked", at |-> 0, since |-> 0]

TitleInit ==
  /\ clock = 0 /\ titles = <<>> /\ asking = {} /\ queue = <<>>
  /\ health = Unchecked

Lasting(id) == {n \in DOMAIN titles : titles[n].id = id /\ titles[n].until > clock}
TitleOf(id) == \E n \in Lasting(id) : titles[n].title

\* pump: as many as may be under way at once.
Pump(a, q) ==
  LET free == MaxInFlight - Cardinality(a)
      n == IF Len(q) < free THEN Len(q) ELSE free
  IN  /\ asking' = a \cup ToSet(SubSeq(q, 1, n))
      /\ queue' = SubSeq(q, n + 1, Len(q))

\* Neither known nor asked for.
Unknown(ids) == {id \in ids : Lasting(id) = {} /\ id \notin asking /\ id \notin ToSet(queue)}

\* loadBoard: `want` of the links on the page that show no title, in the order
\* of the page, which is any.
Want(links) ==
  /\ \E new \in SetToSeqs(Unknown({id \in links : ~TitleOf(id)})) : Pump(asking, queue \o new)
  /\ UNCHANGED <<clock, titles, health>>

\* A full cache drops its first entry, also when `id` has one already; that
\* one keeps its place.
Keep(id, title, ttl) ==
  LET kept == IF Len(titles) >= MaxEntries THEN Tail(titles) ELSE titles
      entry == [id |-> id, title |-> title, until |-> clock + ttl]
  IN  titles' = IF \E n \in DOMAIN kept : kept[n].id = id
               THEN [n \in DOMAIN kept |-> IF kept[n].id = id THEN entry ELSE kept[n]]
               ELSE Append(kept, entry)

\* An answer, with a title or (a tool error, no title in it) without one.
Answered(id, title) ==
  /\ health' = [state |-> "ok", at |-> clock, since |-> 0]
  /\ Keep(id, title, IF title THEN TitleTtl ELSE FailureTtl)

\* A timeout, no network, a redirect, a refusal, not an MCP answer.
Failed(id) ==
  /\ health' = [state |-> "failing", at |-> clock,
                since |-> IF health.state = "failing" THEN health.since ELSE clock]
  /\ Keep(id, FALSE, FailureTtl)

LookupEnds_NoPump(id) ==
  /\ id \in asking
  /\ Answered(id, TRUE) \/ Answered(id, FALSE) \/ Failed(id)
  /\ asking' = asking \ {id} /\ queue' = queue
  /\ UNCHANGED clock

\* ask, and its finally.
LookupEnds(id) ==
  /\ id \in asking
  /\ Answered(id, TRUE) \/ Answered(id, FALSE) \/ Failed(id)
  /\ Pump(asking \ {id}, queue)
  /\ UNCHANGED clock

\* No lookup lives that long.
TitleTick ==
  /\ clock < LastMoment /\ asking = {}
  /\ clock' = clock + 1
  /\ UNCHANGED <<titles, asking, queue, health>>

TitleNext ==
  \/ \E links \in SUBSET Links \ {{}} : Want(links)
  \/ \E id \in Links : LookupEnds(id)
  \/ TitleTick

TitleSpec == TitleInit /\ [][TitleNext]_titleVars

-----------------------------------------------------------------------------
(***************************************************************************)
(* Properties.                                                             *)
(***************************************************************************)

\* The board never waits for a title, so nobody would notice a queue that has
\* stopped: an id waits only while as many lookups as may be are under way, no
\* id is asked for twice at once or while it waits, and the cache keeps its
\* bound with one entry per id.
NothingWaitsForNobody ==
  /\ queue # <<>> => Cardinality(asking) = MaxInFlight
  /\ Cardinality(asking) <= MaxInFlight
  /\ ToSet(queue) \cap asking = {} /\ Len(queue) = Cardinality(ToSet(queue))
  /\ Len(titles) <= MaxEntries
  /\ \A i, j \in DOMAIN titles : titles[i].id = titles[j].id => i = j
=============================================================================
