---------------------------- MODULE WebhookQueue ----------------------------
(***************************************************************************)
(* The webhook of one agent: its row (services/webhooks.ts), the queue of  *)
(* deliveries (services/webhook-queue.ts) and the dispatcher that works it *)
(* off (services/webhook-dispatcher.ts), one in every process.  Two        *)
(* processes share the tables during a deploy.  Inside a process           *)
(* everything between two awaits runs without a break; a process can die   *)
(* at any moment, and the database can refuse a write.                     *)
(*                                                                         *)
(* Time is counted down: what a column keeps as a moment is here the time  *)
(* left until then, 0 once it has passed.  Messages are those the hook's   *)
(* filters let through.                                                    *)
(*                                                                         *)
(* An operator named X_<slip> is X with a plausible programming slip; it   *)
(* takes the place of X in a test of a property and is no part of Spec.    *)
(***************************************************************************)
EXTENDS Integers, Sequences, FiniteSets

CONSTANTS
  Procs,         \* processes on the volume
  Messages,      \* messages for the agent, each queued by one send
  Window,        \* BUNDLE_WINDOW_MS
  Lease,         \* LEASE_MS
  Interval,      \* the hook's min_interval_seconds
  RetryDelays,   \* RETRY_DELAYS_MS, one wait for every attempt but the last
  Deferral,      \* how long a busy receiver asks to be left alone
  CallTime,      \* the longest a call takes: lookup and request
  DisableAfter,  \* DISABLE_AFTER_FAILURES
  None,          \* no delivery, nothing to queue
  MaxSets,       \* bound: times the hook is set
  MaxFaults      \* bound: busy receivers, crashes, refused writes

MaxAttempts == Len(RetryDelays) + 1

ASSUME ConstantsAssumption ==
  /\ IsFiniteSet(Messages)
  /\ Window \in Nat /\ Lease \in Nat /\ Interval \in Nat /\ Deferral \in Nat
  /\ CallTime \in Nat /\ CallTime < Lease
  /\ RetryDelays \in Seq(Nat)
  /\ DisableAfter \in Nat \ {0}
  /\ MaxSets \in Nat /\ MaxFaults \in Nat

VARIABLES
  active,     \* agents.is_active
  hook,       \* the agent_webhooks row: state, hook_id, failures, last call
  queue,      \* webhook_deliveries by id, with their messages
  lastId,     \* delivery ids drawn
  enqueuing,  \* Procs -> the message a send of the process is queueing
  calls,      \* claims the processes have in flight
  queued,     \* messages that got into a delivery
  woken,      \* messages of calls the receiver took
  givenUp,    \* messages whose delivery was given up or removed
  faults      \* failures so far

vars == <<active, hook, queue, lastId, enqueuing, calls, queued, woken,
          givenUp, faults>>

-----------------------------------------------------------------------------

\* A message opens at most one delivery.
DeliveryIds == 1..Cardinality(Messages)

Hook == [state: {"none", "active", "disabled"}, id: 0..MaxSets,
         failures: 0..DisableAfter, since: 0..Interval]

\* A call whose outcome was lost is made once more, also after the last attempt.
MaxTries == MaxAttempts + MaxFaults

NoHook(h) == [h EXCEPT !.state = "none", !.failures = 0, !.since = Interval]

Delivery == [open: BOOLEAN, due: Nat, lease: 0..Lease,
             attempts: 0..MaxTries, messages: SUBSET Messages]
Call == [proc: Procs, delivery: DeliveryIds, attempt: 1..MaxTries,
         hookId: 0..MaxSets, step: {"claimed", "calling"},
         messages: SUBSET Messages, left: 0..CallTime]
Queueing == [message: Messages, wait: 0..Interval]

ASSUME NoneAssumption == None \notin Delivery /\ None \notin Queueing

TypeOK ==
  /\ active \in BOOLEAN
  /\ hook \in Hook
  /\ queue \in [DeliveryIds -> Delivery \cup {None}]
  /\ lastId \in 0..Cardinality(Messages)
  /\ enqueuing \in [Procs -> Queueing \cup {None}]
  /\ calls \subseteq Call
  /\ queued \subseteq Messages /\ woken \subseteq queued /\ givenUp \subseteq queued
  /\ faults \in 0..MaxFaults

Init ==
  /\ active = TRUE
  /\ hook = [state |-> "none", id |-> 0, failures |-> 0, since |-> Interval]
  /\ queue = [d \in DeliveryIds |-> None]
  /\ lastId = 0
  /\ enqueuing = [p \in Procs |-> None]
  /\ calls = {}
  /\ queued = {} /\ woken = {} /\ givenUp = {}
  /\ faults = 0

-----------------------------------------------------------------------------

Fault == faults < MaxFaults /\ faults' = faults + 1

Deliveries == {d \in DeliveryIds : queue[d] # None}
QueuedIn(D) == UNION {queue[d].messages : d \in D}

\* The process is not in the middle of something that runs without a break.
Turn(p) ==
  /\ enqueuing[p] = None
  /\ \A c \in calls : c.proc = p => c.step # "claimed"

DropAll ==
  /\ queue' = [d \in DeliveryIds |-> None]
  /\ givenUp' = givenUp \cup QueuedIn(Deliveries)

Set_KeepsQueue(p) ==
  /\ Turn(p)
  /\ hook.id < MaxSets
  /\ hook' = [state |-> "active", id |-> hook.id + 1, failures |-> 0, since |-> hook.since]
  /\ UNCHANGED <<active, queue, givenUp, lastId, enqueuing, calls, queued, woken, faults>>

\* set: what the old hook had waiting goes, last_call_at stays.  It comes
\* after an await (checkTarget), and so at any moment.
Set(p) ==
  /\ Turn(p)
  /\ hook.id < MaxSets
  /\ hook' = [state |-> "active", id |-> hook.id + 1, failures |-> 0, since |-> hook.since]
  /\ DropAll
  /\ UNCHANGED <<active, lastId, enqueuing, calls, queued, woken, faults>>

\* mesh_webhook_delete, or a new token (dropWebhook); the deliveries cascade.
Delete(p) ==
  /\ Turn(p)
  /\ hook.state # "none"
  /\ hook' = NoHook(hook)
  /\ DropAll
  /\ UNCHANGED <<active, lastId, enqueuing, calls, queued, woken, faults>>

\* The agent is deactivated, or activated again: its hook goes each time.
SwitchAgent(p) ==
  /\ Turn(p)
  /\ active' = ~active
  /\ hook' = NoHook(hook)
  /\ DropAll
  /\ UNCHANGED <<lastId, enqueuing, calls, queued, woken, faults>>

-----------------------------------------------------------------------------
(***************************************************************************)
(* Queueing.                                                               *)
(***************************************************************************)

\* enqueue reads the hook, outside of the transaction that follows.
EnqueueReads(p, m) ==
  /\ Turn(p)
  /\ hook.state = "active"
  /\ m \notin queued
  /\ \A q \in Procs : enqueuing[q] # None => enqueuing[q].message # m
  /\ enqueuing' = [enqueuing EXCEPT ![p] = [message |-> m, wait |-> Interval - hook.since]]
  /\ UNCHANGED <<active, hook, queue, lastId, calls, queued, woken, givenUp, faults>>

OpenOne_OrInFlight == Deliveries

OpenOne == {d \in Deliveries : queue[d].open}

\* dueAt: the bundle window, and the interval since the hook's last call.
DueIn(wait) == IF wait > Window THEN wait ELSE Window

\* The transaction: into the open delivery, or into a new one.
EnqueueWrites(p) ==
  LET m == enqueuing[p].message IN
  /\ enqueuing[p] # None
  /\ hook.state # "none"
  /\ IF OpenOne # {}
     THEN /\ \E d \in OpenOne : queue' = [queue EXCEPT ![d].messages = @ \cup {m}]
          /\ UNCHANGED lastId
     ELSE /\ lastId' = lastId + 1
          /\ queue' = [queue EXCEPT ![lastId + 1] =
               [open |-> TRUE, due |-> DueIn(enqueuing[p].wait), lease |-> 0,
                attempts |-> 0, messages |-> {m}]]
  /\ queued' = queued \cup {m}
  /\ enqueuing' = [enqueuing EXCEPT ![p] = None]
  /\ UNCHANGED <<active, hook, calls, woken, givenUp, faults>>

\* The hook is gone (the foreign key refuses): the log says so.
EnqueueFails(p) ==
  /\ enqueuing[p] # None
  /\ hook.state = "none"
  /\ enqueuing' = [enqueuing EXCEPT ![p] = None]
  /\ UNCHANGED <<active, hook, queue, lastId, calls, queued, woken, givenUp, faults>>

-----------------------------------------------------------------------------
(***************************************************************************)
(* Calling.                                                                *)
(***************************************************************************)

IsDue_LeasedToo(d) == queue[d].due = 0

IsDue_OpenOnly(d) == queue[d].due = 0 /\ queue[d].lease = 0 /\ queue[d].open

IsDue(d) == queue[d].due = 0 /\ queue[d].lease = 0

\* claimDue, in one transaction: closed, leased, one attempt more.
Claim(p) ==
  LET due == {d \in Deliveries : IsDue(d)} IN
  /\ Turn(p)
  /\ hook.state = "active"
  /\ due # {}
  /\ queue' = [d \in DeliveryIds |->
       IF d \in due
       THEN [queue[d] EXCEPT !.open = FALSE, !.lease = Lease, !.attempts = @ + 1]
       ELSE queue[d]]
  /\ hook' = [hook EXCEPT !.since = 0]
  /\ calls' = calls \cup
       {[proc |-> p, delivery |-> d, attempt |-> queue[d].attempts + 1, hookId |-> hook.id,
         step |-> "claimed", messages |-> {}, left |-> CallTime] : d \in due}
  /\ UNCHANGED <<active, lastId, enqueuing, queued, woken, givenUp, faults>>

\* The call is over for its process.
Over(c) == calls' = calls \ {c}

\* There is something to call: material() finds the hook and its agent.
Callable == hook.state = "active" /\ active

\* What a call failed of is told before it was made (its secret cannot be
\* read), or after.
FailureKnown(c) == IF c.step = "claimed" THEN Callable ELSE Turn(c.proc)

\* drop: a deactivated agent, a hook that is gone.
Drop(c) ==
  /\ c.step = "claimed"
  /\ ~Callable
  /\ Over(c)
  /\ queue' = [queue EXCEPT ![c.delivery] = None]
  /\ givenUp' = givenUp \cup QueuedIn({c.delivery} \cap Deliveries)
  /\ UNCHANGED <<active, hook, lastId, enqueuing, queued, woken, faults>>

\* Its messages are read and the call is made; a delivery that is gone has
\* none, and no call is made.
Post(c) ==
  /\ c.step = "claimed"
  /\ Callable
  /\ calls' = (calls \ {c}) \cup
       {[c EXCEPT !.step = "calling", !.messages = queue[d].messages] :
          d \in {c.delivery} \cap Deliveries}
  /\ UNCHANGED <<active, hook, queue, lastId, enqueuing, queued, woken, givenUp, faults>>

\* recordSuccess
Succeed(c) ==
  /\ c.step = "calling" /\ Turn(c.proc)
  /\ Over(c)
  /\ woken' = woken \cup c.messages
  /\ IF c.delivery \in Deliveries
     THEN /\ queue' = [queue EXCEPT ![c.delivery] = None]
          /\ hook' = [hook EXCEPT !.failures = 0]
     ELSE UNCHANGED <<queue, hook>>
  /\ UNCHANGED <<active, lastId, enqueuing, queued, givenUp, faults>>

\* recordDeferred: the attempt does not count.  The delivery stays closed.
Defer(c) ==
  /\ c.step = "calling" /\ Turn(c.proc)
  /\ Fault
  /\ Over(c)
  /\ queue' = IF c.delivery \in Deliveries
              THEN [queue EXCEPT ![c.delivery].due = Deferral, ![c.delivery].lease = 0,
                                 ![c.delivery].attempts = IF @ = 0 THEN 0 ELSE @ - 1]
              ELSE queue
  /\ UNCHANGED <<active, hook, lastId, enqueuing, queued, woken, givenUp>>

\* recordFailure with attempts left: again after the wait.
Retry(c) ==
  /\ c.step = "calling" /\ Turn(c.proc)
  /\ c.delivery \in Deliveries
  /\ c.attempt < MaxAttempts
  /\ Over(c)
  /\ queue' = [queue EXCEPT ![c.delivery].due = RetryDelays[c.attempt],
                            ![c.delivery].lease = 0]
  /\ UNCHANGED <<active, hook, lastId, enqueuing, queued, woken, givenUp, faults>>

\* recordFailure for good: an error that will not pass, or the last attempt.
\* DisableAfter of them in a row switch the hook off.
GiveUp(c) ==
  /\ FailureKnown(c)
  /\ c.delivery \in Deliveries
  /\ Over(c)
  /\ hook' = [hook EXCEPT !.failures = @ + 1,
                          !.state = IF hook.failures + 1 < DisableAfter THEN @ ELSE "disabled"]
  /\ IF hook.failures + 1 < DisableAfter
     THEN /\ queue' = [queue EXCEPT ![c.delivery] = None]
          /\ givenUp' = givenUp \cup queue[c.delivery].messages
     ELSE DropAll
  /\ UNCHANGED <<active, lastId, enqueuing, queued, woken, faults>>

\* recordFailure of a delivery that is gone.
FailGone(c) ==
  /\ FailureKnown(c)
  /\ c.delivery \notin Deliveries
  /\ Over(c)
  /\ UNCHANGED <<active, hook, queue, lastId, enqueuing, queued, woken, givenUp, faults>>

\* The outcome cannot be written: the lease runs out.  The receiver may have
\* taken the call.
Unrecorded(c) ==
  /\ c.step = "calling" /\ Turn(c.proc)
  /\ Fault
  /\ Over(c)
  /\ UNCHANGED <<active, hook, queue, lastId, enqueuing, queued, woken, givenUp>>

\* The process dies.
Crash(p) ==
  /\ enqueuing[p] # None \/ \E c \in calls : c.proc = p
  /\ Fault
  /\ enqueuing' = [enqueuing EXCEPT ![p] = None]
  /\ calls' = {c \in calls : c.proc # p}
  /\ UNCHANGED <<active, hook, queue, lastId, queued, woken, givenUp>>

\* One unit of time, which no call outlasts and no unbroken run takes.
Tick ==
  /\ \A p \in Procs : Turn(p)
  /\ \A c \in calls : c.left > 0
  /\ queue' = [d \in DeliveryIds |->
       IF queue[d] = None THEN None
       ELSE [queue[d] EXCEPT !.due = IF @ > 0 THEN @ - 1 ELSE 0,
                             !.lease = IF @ > 0 THEN @ - 1 ELSE 0]]
  /\ hook' = [hook EXCEPT !.since = IF @ < Interval THEN @ + 1 ELSE Interval]
  /\ calls' = {[c EXCEPT !.left = @ - 1] : c \in calls}
  /\ UNCHANGED <<active, lastId, enqueuing, queued, woken, givenUp, faults>>

-----------------------------------------------------------------------------

\* The outcomes of a call.
CallEnds(c) ==
  \/ Drop(c)
  \/ Post(c)
  \/ Succeed(c)
  \/ Retry(c)
  \/ GiveUp(c)
  \/ FailGone(c)

CallStep(c) == CallEnds(c) \/ Defer(c) \/ Unrecorded(c)

HookStep(p) == Set(p) \/ Delete(p) \/ SwitchAgent(p)

Enqueue(p) ==
  \/ \E m \in Messages : EnqueueReads(p, m)
  \/ EnqueueWrites(p)
  \/ EnqueueFails(p)

Next ==
  \/ \E p \in Procs : HookStep(p) \/ Enqueue(p) \/ Claim(p) \/ Crash(p)
  \/ \E c \in calls : CallStep(c)
  \/ Tick

Spec == Init /\ [][Next]_vars

\* A process keeps looking once a second, a call ends in time, time passes.
FairSpec ==
  /\ Spec
  /\ WF_vars(Tick)
  /\ WF_vars(\E p \in Procs : Claim(p))
  /\ WF_vars(\E p \in Procs : EnqueueWrites(p) \/ EnqueueFails(p))
  /\ WF_vars(\E c \in calls : CallEnds(c))

-----------------------------------------------------------------------------
(***************************************************************************)
(* Properties.                                                             *)
(***************************************************************************)

\* A message the hook was to be called for is never lost on the way: it waits
\* in a delivery, or the receiver took a call that announced it, or its
\* delivery was given up or went with the hook.  In particular a message that
\* comes while a call is under way does not vanish with that call's delivery.
NothingSlipsThrough ==
  queued \subseteq woken \cup givenUp \cup QueuedIn(Deliveries)

\* "two processes on one volume (a deploy) never call the same hook for the
\* same delivery at once", nor does one process whose lease ran out: every
\* call is over before its lease is.
NotCalledTwiceAtOnce ==
  \A c, e \in calls : c.delivery = e.delivery => c = e

\* "A hook that was replaced meanwhile is left alone": the outcome of a call
\* that was claimed for the old hook changes nothing of the new one.
ReplacedHookLeftAlone ==
  [][\A c \in calls :
       c.hookId # hook.id /\ (\A e \in calls' : e.delivery # c.delivery)
         => UNCHANGED <<hook, queue>>]_vars

\* Every message that was queued is announced or given up in the end, unless
\* the hook is switched off.
EveryMessageSettles ==
  \A m \in Messages :
    m \in queued ~> m \in woken \cup givenUp \/ hook.state = "disabled"
=============================================================================
