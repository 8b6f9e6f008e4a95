-------------------------------- MODULE Copies -------------------------------
(***************************************************************************)
(* The database file and its copies (services/db.ts, backup.ts,            *)
(* maintenance-tasks.ts).  A process that starts brings the schema up to   *)
(* its release, with a copy before the first pending migration, and then   *)
(* serves; while it serves its sweep takes one copy a day.  During a       *)
(* deploy two processes share the volume, and each can be killed between   *)
(* any two steps, or a release can be taken back.                          *)
(*                                                                         *)
(* Migrations are numbers in the order of their names.  What a copy holds  *)
(* is its schema and whether there are plaintext tokens in it.  A stamp is *)
(* a second: two copies can have the same one, and none has an earlier one *)
(* than a copy before it, for the clock is not set back.                   *)
(*                                                                         *)
(* An operator named X_<slip> is X with a plausible programming slip; it   *)
(* takes the place of X in a test of a property and is no part of the spec.*)
(***************************************************************************)
EXTENDS Naturals, FiniteSets, FiniteSetsExt

CONSTANTS
  Servers,     \* processes on the volume
  NoServer,
  Releases,    \* the sets of migrations the releases bring
  Sealing,     \* the migration with which a release stops writing tokens
  DailyKeep,   \* DAILY_KEEP
  BeforeKeep,  \* BEFORE_MIGRATION_KEEP
  MaxDay,      \* bound
  MaxStops     \* bound: kills, stops, statements that fail

ASSUME FilesAssumption ==
  /\ Releases \subseteq SUBSET Nat
  /\ NoServer \notin Servers
  /\ {DailyKeep, BeforeKeep, MaxDay, MaxStops} \subseteq Nat

VARIABLES
  schema,    \* migrations whose statements ran
  recorded,  \* _migrations
  tokens,    \* rows in oauth_tokens
  copies,    \* the files of the backup directory that have their final name
  partials,  \* and those that somebody writes, or wrote when it died
  server,    \* Servers -> where it is, and its locals
  day,
  stops

dbVars == <<schema, recorded, tokens>>
dirVars == <<copies, partials>>
filesVars == <<dbVars, dirVars, server, day, stops>>

Names == [kind: {"daily", "before"}, of: Nat, at: Nat]
Files == [name: Names, schema: SUBSET Nat, tokens: BOOLEAN]
Partials == [name: Names, schema: SUBSET Nat, tokens: BOOLEAN,
             by: Servers \cup {NoServer}, old: BOOLEAN]
Places == {"down", "check", "copy", "check copy", "prune", "migrate", "serving"}

FilesTypeOK ==
  /\ schema \subseteq Nat /\ recorded \subseteq Nat /\ tokens \in BOOLEAN
  /\ copies \subseteq Files /\ IsFiniteSet(copies)
  /\ partials \subseteq Partials /\ IsFiniteSet(partials)
  /\ server \in [Servers -> [pc: Places, release: SUBSET Nat, pending: SUBSET Nat,
                             first: Nat, safe: Nat]]
  /\ day \in 0..MaxDay /\ stops \in 0..MaxStops

Down == [pc |-> "down", release |-> {}, pending |-> {}, first |-> 0, safe |-> 0]

Daily(d) == [kind |-> "daily", of |-> 0, at |-> d]
Before(m, stamp) == [kind |-> "before", of |-> m, at |-> stamp]
OfKind(kind) == {c \in copies : c.name.kind = kind}
BeforeCopiesOf(m) == {c \in OfKind("before") : c.name.of = m}

FilesInit ==
  /\ recorded \in {{}, {1}}
  /\ schema = recorded
  /\ tokens = FALSE
  /\ copies = {} /\ partials = {}
  /\ server = [p \in Servers |-> Down]
  /\ day = 0 /\ stops = 0

In(p, pc) == server[p].pc = pc
Goto(p, pc) == server' = [server EXCEPT ![p].pc = pc]
Stop == stops < MaxStops /\ stops' = stops + 1

-----------------------------------------------------------------------------
(***************************************************************************)
(* A copy, from its temporary name to its final one.                       *)
(***************************************************************************)

Mine(p) == {f \in partials : f.by = p}
Stamps == LET last == Max({1} \cup {f.name.at : f \in {g \in copies \cup partials : g.name.kind = "before"}})
          IN  {last, last + 1}

\* VACUUM INTO a name of this writer's own.
Copy(p, name) ==
  /\ partials' = partials \cup
       {[name |-> name, schema |-> schema, tokens |-> tokens', by |-> p, old |-> FALSE]}
  /\ Goto(p, "check copy")
  /\ UNCHANGED <<schema, recorded, copies, day, stops>>

\* The tokens are taken out of the copy, never out of the database.
Scrub(f) == [name |-> f.name, schema |-> f.schema, tokens |-> FALSE]

\* It opens: it gets its final name, over a file that has it.
Named(p) ==
  /\ In(p, "check copy")
  /\ \E f \in Mine(p) :
       /\ copies' = {c \in copies : c.name # f.name} \cup {Scrub(f)}
       /\ server' = [server EXCEPT ![p].pc = "prune",
                                   ![p].safe = IF f.name.kind = "before" THEN f.name.at ELSE @]
  /\ partials' = partials \ Mine(p)
  /\ UNCHANGED <<dbVars, day, stops>>

\* Whether `p` copies before it migrates, or in its sweep.
AfterCopy(p) == IF server[p].pending = {} THEN "serving" ELSE "migrate"

CopyFails_RemovesAll(p) ==
  /\ In(p, "check copy")
  /\ Stop
  /\ partials' = {f \in partials : \A g \in Mine(p) : f.name # g.name}
  /\ Goto(p, AfterCopy(p))
  /\ UNCHANGED <<dbVars, copies, day>>

\* No space, or it does not open.  Migrating, or the next sweep, goes on.
CopyFails(p) ==
  /\ In(p, "check copy")
  /\ Stop
  /\ partials' = partials \ Mine(p)
  /\ Goto(p, AfterCopy(p))
  /\ UNCHANGED <<dbVars, copies, day>>

\* What stays of S: with `keep` of them, none that goes is newer than one that
\* stays.
Kept(S, keep, older) ==
  {K \in SUBSET S : /\ Cardinality(K) = (IF keep < Cardinality(S) THEN keep ELSE Cardinality(S))
                    /\ \A k \in K, o \in S \ K : <<k, o>> \notin older}

Newest_ByName(S, keep) ==
  LET Of(p) == p[1].name.of - p[2].name.of
  IN  Kept(S, keep, {p \in S \X S : Of(p) < 0 \/ (Of(p) = 0 /\ p[1].name.at < p[2].name.at)})

Newest(S, keep) == Kept(S, keep, {p \in S \X S : p[1].name.at < p[2].name.at})

\* All but the newest go; after a daily one also what killed copies left.
Prune(p) ==
  /\ In(p, "prune")
  /\ IF server[p].pending = {}
     THEN /\ \E K \in Newest(OfKind("daily"), DailyKeep) : copies' = OfKind("before") \cup K
          /\ partials' = {f \in partials : ~f.old}
     ELSE /\ \E K \in Newest(OfKind("before"), BeforeKeep) : copies' = OfKind("daily") \cup K
          /\ UNCHANGED partials
  /\ Goto(p, AfterCopy(p))
  /\ UNCHANGED <<dbVars, day, stops>>

-----------------------------------------------------------------------------
(***************************************************************************)
(* The start.                                                              *)
(***************************************************************************)

\* initDatabase: what `_migrations` does not list.  A database without any
\* has not been in use.
Starts(p, release) ==
  LET pending == release \ recorded IN
  /\ In(p, "down")
  /\ server' = [server EXCEPT ![p] =
       [pc |-> IF pending # {} /\ recorded # {} THEN "check" ELSE "migrate",
        release |-> release, pending |-> pending,
        first |-> IF pending = {} THEN 0 ELSE Min(pending), safe |-> 0]]
  /\ UNCHANGED <<dbVars, dirVars, day, stops>>

\* One copy per migration, not one per start.
LooksForCopy(p) ==
  /\ In(p, "check")
  /\ \/ BeforeCopiesOf(server[p].first) = {} /\ Goto(p, "copy")
     \/ \E c \in BeforeCopiesOf(server[p].first) :
          server' = [server EXCEPT ![p].pc = "migrate", ![p].safe = c.name.at]
  /\ UNCHANGED <<dbVars, dirVars, day, stops>>

CopyBefore(p) ==
  /\ In(p, "copy")
  /\ UNCHANGED tokens
  /\ \E at \in Stamps : Copy(p, Before(server[p].first, at))

Migrated(p, m) ==
  /\ server' = [server EXCEPT ![p].pending = @ \ {m}, ![p].first = 0, ![p].safe = 0]
  /\ UNCHANGED <<dirVars, day>>

Migrate_RecordsAfterwards(p) ==
  LET m == Min(server[p].pending) IN
  /\ In(p, "migrate") /\ server[p].pending # {}
  /\ m \notin schema \/ m \in recorded
  /\ \/ recorded' = recorded \cup {m} /\ Migrated(p, m) /\ UNCHANGED stops
     \/ recorded' = recorded /\ Stop /\ server' = [server EXCEPT ![p] = Down] /\ UNCHANGED <<dirVars, day>>
  /\ schema' = schema \cup {m}
  /\ tokens' = (tokens /\ (m # Sealing \/ m \in recorded))

\* One migration, one transaction, the row in `_migrations` in it; nothing
\* when another process was faster.
Migrate(p) ==
  LET m == Min(server[p].pending) IN
  /\ In(p, "migrate") /\ server[p].pending # {}
  /\ m \notin schema \/ m \in recorded
  /\ recorded' = recorded \cup {m} /\ schema' = schema \cup {m}
  /\ tokens' = (tokens /\ (m # Sealing \/ m \in recorded))
  /\ Migrated(p, m)
  /\ UNCHANGED stops

\* Rolled back, and the process ends.  A second ADD COLUMN fails every time.
MigrationFails(p) ==
  /\ In(p, "migrate") /\ server[p].pending # {}
  /\ IF Min(server[p].pending) \in schema \ recorded THEN UNCHANGED stops ELSE Stop
  /\ server' = [server EXCEPT ![p] = Down]
  /\ UNCHANGED <<dbVars, dirVars, day>>

Serve(p) ==
  /\ In(p, "migrate") /\ server[p].pending = {}
  /\ server' = [server EXCEPT ![p] = [Down EXCEPT !.pc = "serving", !.release = server[p].release]]
  /\ UNCHANGED <<dbVars, dirVars, day, stops>>

-----------------------------------------------------------------------------
(***************************************************************************)
(* While it serves.                                                        *)
(***************************************************************************)

\* An earlier release, taken back into service.
WritesToken(p) ==
  /\ In(p, "serving") /\ Sealing \notin server[p].release
  /\ tokens' = TRUE
  /\ UNCHANGED <<schema, recorded, dirVars, server, day, stops>>

\* The sweep: the tokens go, then the copy of the day is due.
Sweep(p) ==
  /\ In(p, "serving")
  /\ tokens' = (tokens /\ Sealing \notin server[p].release)
  /\ IF \E c \in copies : c.name = Daily(day)
     THEN UNCHANGED <<schema, recorded, dirVars, server, day, stops>>
     ELSE Copy(p, Daily(day))

\* Killed, or told to end.  What it was writing stays.
Ends(p) ==
  /\ ~In(p, "down")
  /\ Stop
  /\ server' = [server EXCEPT ![p] = Down]
  /\ partials' = {IF f.by = p THEN [f EXCEPT !.by = NoServer] ELSE f : f \in partials}
  /\ UNCHANGED <<dbVars, copies, day>>

\* Nobody writes a copy for that long.
Tomorrow ==
  /\ day < MaxDay
  /\ \A p \in Servers : Mine(p) = {}
  /\ day' = day + 1
  /\ partials' = {[f EXCEPT !.old = TRUE] : f \in partials}
  /\ UNCHANGED <<dbVars, copies, server, stops>>

-----------------------------------------------------------------------------

StartStep(p) ==
  \/ LooksForCopy(p) \/ CopyBefore(p) \/ Migrate(p) \/ MigrationFails(p) \/ Serve(p)
  \/ Named(p) \/ CopyFails(p) \/ Prune(p)

FilesNext ==
  \/ \E p \in Servers :
       \/ \E release \in Releases : Starts(p, release)
       \/ StartStep(p)
       \/ WritesToken(p) \/ Sweep(p) \/ Ends(p)
  \/ Tomorrow

FilesSpec == FilesInit /\ [][FilesNext]_filesVars

-----------------------------------------------------------------------------
(***************************************************************************)
(* Properties.                                                             *)
(***************************************************************************)

\* Nothing half done is ever taken for done: a file with its final name has no
\* tokens in it; what one process is writing no other removes ("two processes
\* copying at once deleted each other's file": backup.ts); and who serves has
\* its whole schema under it, with no migration done that is not recorded or
\* the other way round, wherever the last process was killed.
NothingHalfDone ==
  /\ \A c \in copies : ~c.tokens
  /\ \A p \in Servers :
       /\ In(p, "check copy") => Cardinality(Mine(p)) = 1
       /\ In(p, "serving") => server[p].release \subseteq schema
  /\ schema = recorded

\* There is a way back: a process that has copied the database before the first
\* migration it brings, or found it copied, still has that copy when the first
\* statement runs, unless as many have been taken since as are kept ("went the
\* moment it was written": backup.ts).  Afterwards another process that had
\* looked for a copy in the same second can put a migrated one in its place.
WayBack ==
  \A p \in Servers :
    In(p, "migrate") /\ server[p].safe # 0 /\ server[p].first \notin schema =>
      \/ \E c \in BeforeCopiesOf(server[p].first) : server[p].first \notin c.schema
      \/ Cardinality({c \in OfKind("before") : c.name.at >= server[p].safe}) >= BeforeKeep

\* However a start is cut off, the process comes up in the end, also next to another
\* process that starts on the same file ("the process never came up again":
\* db.ts).
ComesUp == \A p \in Servers : server[p].pc \in {"check", "migrate"} ~> In(p, "serving")
=============================================================================
