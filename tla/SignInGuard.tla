---------------------------- MODULE SignInGuard ----------------------------
(***************************************************************************)
(* Wrong credentials, counted by client address in each process's memory   *)
(* (services/signin-guard.ts, signin-throttle.ts).  Moments are kept as    *)
(* ages; a failure whose age is the window no longer counts.               *)
(*                                                                         *)
(* Registration builds on this module.  An operator named X_<slip> is X    *)
(* with a plausible programming slip and no part of a specification.       *)
(***************************************************************************)
EXTENDS Integers, FiniteSets, Sequences

CONSTANTS
  Clients,        \* addresses
  Guards,         \* the processes, each with a table of its own
  FailureLimit,   \* FAILURE_LIMIT
  FailureWindow,  \* FAILURE_WINDOW_MS
  MaxTracked,     \* MAX_TRACKED_CLIENTS
  EvictDownTo     \* EVICT_DOWN_TO

ASSUME SignInGuardAssumption ==
  /\ FailureLimit \in Nat \ {0} /\ FailureWindow \in Nat \ {0}
  /\ MaxTracked \in Nat \ {0} /\ EvictDownTo \in 1..MaxTracked

VARIABLES
  failures,  \* guard -> client -> ages of its last failures, oldest first
  blocked    \* history: guard -> client -> for how long it has been throttled

guardVars == <<failures, blocked>>

GuardTypeOK ==
  /\ \A g \in Guards, c \in Clients :
       /\ failures[g][c] \in Seq(0..FailureWindow)
       /\ Len(failures[g][c]) <= FailureLimit
  /\ blocked \in [Guards -> [Clients -> Nat]]

GuardInit ==
  /\ failures = [g \in Guards |-> [c \in Clients |-> <<>>]]
  /\ blocked = [g \in Guards |-> [c \in Clients |-> 0]]

\* recent: those inside the window, which are the last ones, for the oldest
\* come first.
Gone(ages) == {i \in DOMAIN ages : ages[i] >= FailureWindow}
Live(ages) == SubSeq(ages, Cardinality(Gone(ages)) + 1, Len(ages))

Throttled(g, c) == Len(Live(failures[g][c])) >= FailureLimit

\* Only the newest FailureLimit decide anything.
Newest(ages) ==
  IF Len(ages) > FailureLimit THEN SubSeq(ages, Len(ages) - FailureLimit + 1, Len(ages)) ELSE ages

\* What may be forgotten when the table is full: the quiet clients go before
\* the throttled ones, and the one that just failed stays.
Tracked(table) == {c \in Clients : Live(table[c]) # <<>>}
Evictions(table, keep) ==
  LET others == Tracked(table) \ {keep}
      quiet == {c \in others : Len(table[c]) < FailureLimit}
      goes == Cardinality(Tracked(table)) - EvictDownTo
  IN IF Cardinality(Tracked(table)) <= MaxTracked THEN {{}}
     ELSE {S \in SUBSET others : Cardinality(S) = goes /\ (S \subseteq quiet \/ quiet \subseteq S)}

Counted(g, c) ==
  LET table == [failures[g] EXCEPT ![c] = Newest(Append(Live(@), 0))] IN
  /\ \E S \in Evictions(table, c) :
       failures' = [failures EXCEPT ![g] = [d \in Clients |-> IF d \in S THEN <<>> ELSE table[d]]]
  /\ blocked' = [blocked EXCEPT ![g][c] = IF Throttled(g, c) THEN @ ELSE 0]

\* failure: a client that is throttled already is not counted.
Failure_CountsAll(g, c) == Counted(g, c)
Failure(g, c) == IF Throttled(g, c) THEN UNCHANGED guardVars ELSE Counted(g, c)

\* Time passes in every table.
GuardTick ==
  /\ failures' = [g \in Guards |-> [c \in Clients |->
       LET older == [i \in DOMAIN failures[g][c] |-> failures[g][c][i] + 1] IN Live(older)]]
  /\ blocked' = [g \in Guards |-> [c \in Clients |->
       IF Throttled(g, c) THEN blocked[g][c] + 1 ELSE 0]]

\* A process that ends takes its table along.
GuardRestart(g) ==
  /\ failures' = [failures EXCEPT ![g] = [c \in Clients |-> <<>>]]
  /\ blocked' = [blocked EXCEPT ![g] = [c \in Clients |-> 0]]

(***************************************************************************)
(* "A client that hammers on must be able to [not] extend its own block    *)
(* for ever" (signin-guard.ts:77-79): the block that began ends with the   *)
(* window, whatever the client does meanwhile.                             *)
(***************************************************************************)
BlockEnds == \A g \in Guards, c \in Clients : Throttled(g, c) => blocked[g][c] < FailureWindow

============================================================================
