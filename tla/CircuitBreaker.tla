--------------------------- MODULE CircuitBreaker ---------------------------
(***************************************************************************)
(* The circuit breaker in front of the broker (services/circuit-breaker    *)
(* .ts, used by services/nats.ts).  Calls of `run` overlap: each decides   *)
(* on the breaker's state when it starts, awaits the broker, and changes   *)
(* the state when its answer, its error or its timeout comes, which can be *)
(* after the connection was lost and came back.  The connection's status   *)
(* events mark the breaker down and up at any moment.  The cool-down is an *)
(* abstract span that ends at any moment.                                  *)
(*                                                                         *)
(* An operator named X_<slip> is X with a plausible programming slip; it   *)
(* takes the place of X in a test of a property and is no part of Spec.    *)
(***************************************************************************)
EXTENDS Integers, FiniteSets

CONSTANTS
  Calls,          \* calls of `run` that can be under way at the same time
  MaxGeneration   \* bound: reconnects

ASSUME ConstantsAssumption == IsFiniteSet(Calls) /\ MaxGeneration \in Nat

VARIABLES
  down,        \* the connection is known to be gone
  cooling,     \* openUntil: "no" (0), "yes" (ahead) or "over" (passed)
  probing,     \* a probe is under way
  generation,  \* markUp() calls
  calls        \* Calls -> not running, or the call's own constants

vars == <<down, cooling, probing, generation, calls>>

-----------------------------------------------------------------------------

Idle == [running |-> FALSE, isProbe |-> FALSE, generation |-> 0]
Call == [running: BOOLEAN, isProbe: BOOLEAN, generation: Nat]

TypeOK ==
  /\ down \in BOOLEAN
  /\ cooling \in {"no", "yes", "over"}
  /\ probing \in BOOLEAN
  /\ generation \in Nat
  /\ calls \in [Calls -> Call]

Init ==
  /\ down = TRUE
  /\ cooling = "no"
  /\ probing = FALSE
  /\ generation = 0
  /\ calls = [c \in Calls |-> Idle]

State ==
  IF down THEN "open"
  ELSE IF cooling = "no" THEN "closed"
  ELSE IF cooling = "yes" THEN "open" ELSE "half-open"

-----------------------------------------------------------------------------

MarkDown ==
  /\ down' = TRUE
  /\ UNCHANGED <<cooling, probing, generation, calls>>

MarkUp ==
  /\ generation < MaxGeneration
  /\ generation' = generation + 1
  /\ down' = FALSE
  /\ cooling' = "no"
  /\ probing' = FALSE
  /\ UNCHANGED calls

CoolDownEnds ==
  /\ cooling = "yes"
  /\ cooling' = "over"
  /\ UNCHANGED <<down, probing, generation, calls>>

\* run, up to the call of `fn`; otherwise it throws and nothing changes.
Start(c) ==
  /\ ~calls[c].running
  /\ State # "open"
  /\ ~(State = "half-open" /\ probing)
  /\ calls' = [calls EXCEPT ![c] =
       [running |-> TRUE, isProbe |-> State = "half-open", generation |-> generation]]
  /\ probing' = (probing \/ State = "half-open")
  /\ UNCHANGED <<down, cooling, generation>>

\* The end of a call: its slot is free, and a current probe is over.
Finish(c) ==
  /\ calls[c].running
  /\ calls' = [calls EXCEPT ![c] = Idle]
  /\ probing' =
       (probing /\ ~(calls[c].isProbe /\ calls[c].generation = generation))
  /\ UNCHANGED <<down, generation>>

Current(c) == calls[c].generation = generation

Close(c) == cooling' = IF calls[c].isProbe /\ Current(c) THEN "no" ELSE cooling

Succeed(c) == Finish(c) /\ Close(c)

\* The broker answered with an error: it is there.
Reject(c) == Finish(c) /\ Close(c)

FailOutage_AnyGeneration(c) ==
  /\ Finish(c)
  /\ cooling' = "yes"

\* A timeout or a lost connection.
FailOutage(c) ==
  /\ Finish(c)
  /\ cooling' = IF Current(c) THEN "yes" ELSE cooling

-----------------------------------------------------------------------------

CallEnds(c) == Succeed(c) \/ Reject(c) \/ FailOutage(c)

Next ==
  \/ MarkDown
  \/ MarkUp
  \/ CoolDownEnds
  \/ \E c \in Calls : Start(c) \/ CallEnds(c)

Spec == Init /\ [][Next]_vars

-----------------------------------------------------------------------------
(***************************************************************************)
(* Properties.                                                             *)
(***************************************************************************)

Probes == {c \in Calls : calls[c].running /\ calls[c].isProbe /\ Current(c)}

\* "exactly one call goes through as a probe": on one connection never two at
\* once, and `probing` is set just while that one is under way, so that no
\* probe of an earlier connection can block or unblock the present one.
OneProbe ==
  /\ \A c, d \in Probes : c = d
  /\ probing <=> Probes # {}

\* "Only the outcome of a call on the CURRENT connection counts": a call that
\* started before a reconnect never opens or closes the breaker.
StaleCallsDoNotCount ==
  [][\A c \in Calls :
       calls[c].running /\ ~calls'[c].running /\ calls[c].generation # generation
         => UNCHANGED <<cooling, probing>>]_vars
=============================================================================
