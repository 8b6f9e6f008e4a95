-------------------------- MODULE WebhookQueueProofs --------------------------
(***************************************************************************)
(* What holds of a hook's deliveries for any number of processes and       *)
(* messages, any windows, leases, waits and retries, as long as a call is  *)
(* over before its lease is.  The inductive invariant follows a call and   *)
(* the delivery it was claimed for: as long as that delivery is there it   *)
(* is closed, still counts this attempt, is leased for longer than the     *)
(* call can take, belongs to the hook that was claimed for, and has just   *)
(* the messages the call announces.                                        *)
(***************************************************************************)
EXTENDS WebhookQueue, FiniteSetTheorems, SequenceTheorems, TLAPS

\* Ids are drawn upwards, one for a message at most, and what is in a
\* delivery or a call was queued.
IdsGrow ==
  /\ lastId <= Cardinality(queued)
  /\ \A d \in Deliveries : d <= lastId /\ queue[d].messages \subseteq queued
  /\ \A c \in calls : c.delivery <= lastId /\ c.messages \subseteq queued

\* A message is queued by one send.
QueueingIsNew ==
  \A p \in Procs : enqueuing[p] # None =>
    /\ enqueuing[p].message \notin queued
    /\ \A q \in Procs : enqueuing[q] # None /\ q # p => enqueuing[q].message # enqueuing[p].message

\* What a call and its delivery have to do with each other.
Fits(c) ==
  /\ ~queue[c.delivery].open
  /\ queue[c.delivery].attempts = c.attempt
  /\ c.left < queue[c.delivery].lease
  /\ c.hookId = hook.id
  /\ hook.state = "active"
  /\ c.step = "calling" => c.messages = queue[c.delivery].messages
CallsFit == \A c \in calls : c.delivery \in Deliveries => Fits(c)

\* A delivery is tried again after its last attempt only when an outcome was
\* lost.
TriesBounded ==
  \A d \in Deliveries :
    queue[d].attempts <= Len(RetryDelays) + faults + (IF \E c \in calls : c.delivery = d THEN 1 ELSE 0)

\* A hook with that many failures is switched off.
FailuresCounted == hook.failures = DisableAfter => hook.state = "disabled"

\* The inductive invariant.
IInv ==
  /\ TypeOK
  /\ IdsGrow
  /\ QueueingIsNew
  /\ CallsFit
  /\ TriesBounded
  /\ FailuresCounted
  /\ NotCalledTwiceAtOnce
  /\ NothingSlipsThrough

-----------------------------------------------------------------------------
(***************************************************************************)
(* Types.                                                                  *)
(***************************************************************************)

\* The constants' types, in the form the steps use.
LEMMA Constants ==
  /\ Len(RetryDelays) \in Nat /\ MaxAttempts \in Nat /\ MaxTries \in Nat
  /\ MaxAttempts = Len(RetryDelays) + 1 /\ MaxTries = MaxAttempts + MaxFaults
  /\ Window \in Nat /\ Lease \in Nat /\ Interval \in Nat /\ Deferral \in Nat
  /\ CallTime \in Nat /\ CallTime < Lease
  /\ DisableAfter \in Nat /\ DisableAfter > 0 /\ MaxSets \in Nat /\ MaxFaults \in Nat
  /\ \A k \in 1..Len(RetryDelays) : RetryDelays[k] \in Nat
  /\ IsFiniteSet(Messages) /\ Cardinality(Messages) \in Nat
  /\ DeliveryIds = 1..Cardinality(Messages)
<1>1. Len(RetryDelays) \in Nat /\ \A k \in 1..Len(RetryDelays) : RetryDelays[k] \in Nat
  BY ConstantsAssumption, ElementOfSeq, LenProperties
<1>2. Cardinality(Messages) \in Nat
  BY ConstantsAssumption, FS_CardinalityType
<1> QED BY <1>1, <1>2, ConstantsAssumption DEF MaxAttempts, MaxTries, DeliveryIds

\* The fields of a delivery that waits.
LEMMA DeliveryType ==
  ASSUME TypeOK, NEW d \in Deliveries
  PROVE  /\ d \in DeliveryIds /\ d \in Nat /\ queue[d] \in Delivery
         /\ queue[d].open \in BOOLEAN /\ queue[d].due \in Nat
         /\ queue[d].lease \in Nat /\ queue[d].lease <= Lease
         /\ queue[d].attempts \in Nat /\ queue[d].attempts <= MaxTries
         /\ queue[d].messages \subseteq Messages
<1>1. d \in DeliveryIds /\ queue[d] \in Delivery
  BY DEF Deliveries, TypeOK
<1>2. d \in Nat
  BY <1>1, Constants
<1> QED BY <1>1, <1>2, Constants DEF Delivery

\* A delivery that is to be tried again.
LEMMA Rescheduled ==
  ASSUME NEW d \in Delivery, NEW due \in Nat
  PROVE  /\ [d EXCEPT !.due = due, !.lease = 0] \in Delivery
         /\ [d EXCEPT !.due = due, !.lease = 0].messages = d.messages
         /\ [d EXCEPT !.due = due, !.lease = 0].attempts = d.attempts
<1>1. 0 \in 0..Lease
  BY Constants
<1> QED BY <1>1 DEF Delivery

\* The fields of a call.
LEMMA CallType ==
  ASSUME TypeOK, NEW c \in calls
  PROVE  /\ c \in Call /\ c.proc \in Procs /\ c.delivery \in DeliveryIds /\ c.delivery \in Nat
         /\ c.attempt \in Nat /\ 1 <= c.attempt /\ c.attempt <= MaxTries
         /\ c.hookId \in 0..MaxSets /\ c.step \in {"claimed", "calling"}
         /\ c.messages \subseteq Messages
         /\ c.left \in Nat /\ c.left <= CallTime
<1>1. c \in Call
  BY DEF TypeOK
<1>2. c.delivery \in DeliveryIds /\ c.delivery \in Nat
  BY <1>1, Constants DEF Call
<1> QED BY <1>1, <1>2, Constants DEF Call

\* The fields of the hook, and the counters.
LEMMA HookType ==
  ASSUME TypeOK
  PROVE  /\ hook.state \in {"none", "active", "disabled"} /\ hook.id \in 0..MaxSets
         /\ hook.failures \in 0..DisableAfter /\ hook.since \in 0..Interval
         /\ hook = [state |-> hook.state, id |-> hook.id, failures |-> hook.failures,
                    since |-> hook.since]
         /\ lastId \in Nat /\ lastId <= Cardinality(Messages)
         /\ faults \in Nat /\ faults <= MaxFaults
         /\ queued \subseteq Messages /\ IsFiniteSet(queued) /\ Cardinality(queued) \in Nat
<1>1. queued \subseteq Messages
  BY DEF TypeOK
<1>2. IsFiniteSet(queued) /\ Cardinality(queued) \in Nat
  BY <1>1, Constants, FS_Subset, FS_CardinalityType
<1> QED BY <1>1, <1>2, Constants DEF TypeOK, Hook

\* The same of the hook, for arithmetic.
LEMMA HookNumbers ==
  ASSUME TypeOK
  PROVE  /\ hook.state \in {"none", "active", "disabled"}
         /\ hook.id \in Nat /\ hook.id <= MaxSets /\ hook.id \in 0..MaxSets
         /\ hook.failures \in Nat /\ hook.failures <= DisableAfter
         /\ hook.since \in Nat /\ hook.since <= Interval /\ hook.since \in 0..Interval
BY HookType, Constants

\* What waits, and what of it a set of deliveries holds.
LEMMA Waiting ==
  ASSUME NEW m
  PROVE  m \in QueuedIn(Deliveries) <=> \E d \in Deliveries : m \in queue[d].messages
BY DEF QueuedIn

\* A process is not yet started.
LEMMA InitIInv == Init => IInv
<1> SUFFICES ASSUME Init
             PROVE  IInv
  OBVIOUS
<1>1. Deliveries = {} /\ calls = {} /\ queued = {}
  BY DEF Init, Deliveries
<1>2. TypeOK
  BY Constants DEF Init, TypeOK, Hook
<1>3. IdsGrow
  BY <1>1, FS_EmptySet DEF Init, IdsGrow
<1>4. QueueingIsNew /\ CallsFit /\ TriesBounded /\ NotCalledTwiceAtOnce /\ NothingSlipsThrough
  BY <1>1 DEF Init, QueueingIsNew, CallsFit, TriesBounded, NotCalledTwiceAtOnce, NothingSlipsThrough
<1>5. FailuresCounted
  BY Constants DEF Init, FailuresCounted
<1> QED BY <1>2, <1>3, <1>4, <1>5 DEF IInv

-----------------------------------------------------------------------------
(***************************************************************************)
(* Deliveries that go: with the hook, with their outcome.                  *)
(***************************************************************************)

\* Deliveries go together with the calls T that were under way for them, and
\* what they held is accounted for.  The hook changes only with all of them.
LEMMA DeliveriesGo ==
  ASSUME IInv, NEW D \in SUBSET DeliveryIds, NEW T \in SUBSET calls,
         queue' = [d \in DeliveryIds |-> IF d \in D THEN None ELSE queue[d]],
         calls' = calls \ T,
         \A c \in T : c.delivery \in D \/ c.delivery \notin Deliveries,
         woken \subseteq woken', woken' \subseteq queued,
         givenUp \subseteq givenUp', givenUp' \subseteq queued,
         \A d \in D \cap Deliveries : queue[d].messages \subseteq woken' \cup givenUp',
         hook' \in Hook, FailuresCounted',
         Deliveries \subseteq D \/ (hook'.id = hook.id /\ hook'.state = hook.state),
         active' \in BOOLEAN, UNCHANGED <<lastId, enqueuing, queued, faults>>
  PROVE  IInv'
<1>1. Deliveries' = Deliveries \ D /\ \A d \in Deliveries' : queue'[d] = queue[d]
  BY DEF Deliveries
<1>2. TypeOK'
  <2>1. queue' \in [DeliveryIds -> Delivery \cup {None}]
    BY DEF IInv, TypeOK
  <2> QED BY <2>1 DEF IInv, TypeOK
<1>3. IdsGrow'
  BY <1>1 DEF IInv, IdsGrow
<1>4. QueueingIsNew'
  BY DEF IInv, QueueingIsNew
<1>5. CallsFit'
  <2> SUFFICES ASSUME NEW c \in calls', c.delivery \in Deliveries'
               PROVE  Fits(c)'
    BY DEF CallsFit
  <2>1. Fits(c) /\ hook'.id = hook.id /\ hook'.state = hook.state
    BY <1>1 DEF IInv, CallsFit
  <2> QED BY <1>1, <2>1 DEF Fits
<1>6. TriesBounded'
  <2> SUFFICES ASSUME NEW d \in Deliveries'
               PROVE  queue'[d].attempts <=
                        Len(RetryDelays) + faults' + (IF \E c \in calls' : c.delivery = d THEN 1 ELSE 0)
    BY DEF TriesBounded
  <2>1. (\E c \in calls : c.delivery = d) <=> \E c \in calls' : c.delivery = d
    BY <1>1
  <2> QED BY <1>1, <2>1 DEF IInv, TriesBounded
<1>7. NotCalledTwiceAtOnce'
  BY DEF IInv, NotCalledTwiceAtOnce
<1>8. NothingSlipsThrough'
  <2> SUFFICES ASSUME NEW m \in queued, m \notin woken', m \notin givenUp'
               PROVE  m \in QueuedIn(Deliveries)'
    BY DEF NothingSlipsThrough
  <2>1. PICK d \in Deliveries : m \in queue[d].messages
    BY Waiting DEF IInv, NothingSlipsThrough
  <2>2. d \in Deliveries' /\ m \in queue'[d].messages
    BY <1>1, <2>1
  <2> QED BY <2>2 DEF QueuedIn
<1> QED BY <1>2, <1>3, <1>4, <1>5, <1>6, <1>7, <1>8 DEF IInv

\* What a delivery holds was queued.
LEMMA HeldIsQueued ==
  ASSUME IInv, NEW D
  PROVE  /\ QueuedIn(D \cap Deliveries) \subseteq queued
         /\ \A d \in D \cap Deliveries : queue[d].messages \subseteq QueuedIn(D \cap Deliveries)
BY DEF IInv, IdsGrow, QueuedIn

\* The hook is set, removed, or goes with its agent (webhooks.ts): everything
\* it had waiting goes with it.
LEMMA HookStepInv ==
  ASSUME IInv, NEW p \in Procs, HookStep(p)
  PROVE  IInv'
<1>1. TypeOK
  BY DEF IInv
<1>2. hook' \in Hook /\ FailuresCounted'
  <2>1. CASE Set(p)
    <3>1. hook'.failures = 0 /\ DisableAfter > 0
      BY <2>1, Constants DEF Set
    <3>2. hook' = [state |-> "active", id |-> hook.id + 1, failures |-> 0, since |-> hook.since]
      BY <2>1 DEF Set
    <3>3. hook.id + 1 \in 0..MaxSets /\ hook.since \in 0..Interval
      BY <1>1, <2>1, Constants, HookNumbers DEF Set
    <3>4. hook' \in Hook
      BY <3>2, <3>3, Constants DEF Hook
    <3> QED BY <3>1, <3>4 DEF FailuresCounted
  <2>2. CASE Delete(p) \/ SwitchAgent(p)
    <3>1. hook' = NoHook(hook)
      BY <2>2 DEF Delete, SwitchAgent
    <3>2. hook' = [state |-> "none", id |-> hook.id, failures |-> 0, since |-> Interval]
      BY <1>1, <3>1, HookType DEF NoHook
    <3>3. hook' \in Hook /\ hook'.failures = 0 /\ DisableAfter > 0
      BY <1>1, <3>2, Constants, HookNumbers DEF Hook
    <3> QED BY <3>3 DEF FailuresCounted
  <2> QED BY <2>1, <2>2 DEF HookStep
<1>3. /\ DropAll /\ active' \in BOOLEAN
      /\ UNCHANGED <<lastId, enqueuing, calls, queued, woken, faults>>
  BY <1>1 DEF HookStep, Set, Delete, SwitchAgent, TypeOK
<1>4. queue' = [d \in DeliveryIds |-> IF d \in DeliveryIds THEN None ELSE queue[d]]
  BY <1>3 DEF DropAll
<1>5. DeliveryIds \cap Deliveries = Deliveries
  BY DEF Deliveries
<1>6. givenUp' = givenUp \cup QueuedIn(DeliveryIds \cap Deliveries)
  BY <1>3, <1>5 DEF DropAll
<1>7. woken \subseteq queued /\ givenUp \subseteq queued
  BY <1>1 DEF TypeOK
<1>8. \A d \in DeliveryIds \cap Deliveries : queue[d].messages \subseteq woken' \cup givenUp'
  BY <1>6, HeldIsQueued
<1>9. givenUp' \subseteq queued
  BY <1>6, <1>7, HeldIsQueued
<1>10. calls' = calls \ {}
  BY <1>3
<1> QED
  <2>1. DeliveryIds \in SUBSET DeliveryIds /\ {} \in SUBSET calls /\ Deliveries \subseteq DeliveryIds
    BY <1>5
  <2> QED BY <1>2, <1>3, <1>4, <1>6, <1>7, <1>8, <1>9, <1>10, <2>1, DeliveriesGo

\* drop (webhook-dispatcher.ts): the call and its delivery go.
LEMMA DropInv ==
  ASSUME IInv, NEW c \in calls, Drop(c)
  PROVE  IInv'
<1>1. TypeOK /\ c.delivery \in DeliveryIds
  BY CallType DEF IInv
<1>2. queue' = [d \in DeliveryIds |-> IF d \in {c.delivery} THEN None ELSE queue[d]]
  BY <1>1 DEF Drop, TypeOK
<1>3. givenUp' = givenUp \cup QueuedIn({c.delivery} \cap Deliveries) /\ woken' = woken
      /\ calls' = calls \ {c} /\ UNCHANGED <<active, hook, lastId, enqueuing, queued, faults>>
  BY DEF Drop, Over
<1>4. hook' \in Hook /\ FailuresCounted' /\ active' \in BOOLEAN
  BY <1>3 DEF IInv, TypeOK, FailuresCounted
<1>5. woken \subseteq queued /\ givenUp' \subseteq queued
  BY <1>1, <1>3, HeldIsQueued DEF TypeOK
<1>6. \A d \in {c.delivery} \cap Deliveries : queue[d].messages \subseteq woken' \cup givenUp'
  BY <1>3, HeldIsQueued
<1>7. {c.delivery} \in SUBSET DeliveryIds /\ {c} \in SUBSET calls
  BY <1>1
<1> QED BY <1>2, <1>3, <1>4, <1>5, <1>6, <1>7, DeliveriesGo

\* recordSuccess: what the delivery held is what the call announced.
LEMMA SucceedInv ==
  ASSUME IInv, NEW c \in calls, Succeed(c)
  PROVE  IInv'
<1>1. TypeOK /\ c.delivery \in DeliveryIds /\ c.messages \subseteq queued
  BY CallType DEF IInv, IdsGrow
<1>2. /\ woken' = woken \cup c.messages /\ givenUp' = givenUp /\ c.step = "calling"
      /\ calls' = calls \ {c} /\ UNCHANGED <<active, lastId, enqueuing, queued, faults>>
  BY DEF Succeed, Over
<1>3. queue' = [d \in DeliveryIds |-> IF d \in {c.delivery} THEN None ELSE queue[d]]
  <2>1. CASE c.delivery \in Deliveries
    BY <1>1, <2>1 DEF Succeed, TypeOK
  <2>2. CASE c.delivery \notin Deliveries
    BY <1>1, <2>2 DEF Succeed, TypeOK, Deliveries
  <2> QED BY <2>1, <2>2
<1>4. hook' \in Hook /\ FailuresCounted' /\ hook'.id = hook.id /\ hook'.state = hook.state
  <2>1. CASE c.delivery \in Deliveries
    <3>1. hook' = [hook EXCEPT !.failures = 0]
      BY <2>1 DEF Succeed
    <3>2. hook' = [state |-> hook.state, id |-> hook.id, failures |-> 0, since |-> hook.since]
      BY <1>1, <3>1, HookType
    <3>3. hook' \in Hook /\ hook'.failures = 0 /\ hook'.id = hook.id /\ hook'.state = hook.state
      BY <1>1, <3>2, Constants, HookNumbers DEF Hook
    <3> QED BY <3>3, Constants DEF FailuresCounted
  <2>2. CASE c.delivery \notin Deliveries
    BY <2>2 DEF Succeed, IInv, TypeOK, FailuresCounted
  <2> QED BY <2>1, <2>2
<1>5. woken' \subseteq queued /\ givenUp' \subseteq queued
  BY <1>1, <1>2 DEF TypeOK
<1>6. \A d \in {c.delivery} \cap Deliveries : queue[d].messages \subseteq woken' \cup givenUp'
  BY <1>2 DEF IInv, CallsFit, Fits
<1>7. {c.delivery} \in SUBSET DeliveryIds /\ {c} \in SUBSET calls /\ active' \in BOOLEAN
  BY <1>1, <1>2 DEF TypeOK
<1> QED BY <1>2, <1>3, <1>4, <1>5, <1>6, <1>7, DeliveriesGo

\* recordFailure for good: the delivery goes, or, with the hook switched off,
\* all of them.
LEMMA GiveUpInv ==
  ASSUME IInv, NEW c \in calls, GiveUp(c)
  PROVE  IInv'
<1>1. TypeOK /\ c.delivery \in DeliveryIds /\ c.delivery \in Deliveries
  BY CallType DEF IInv, GiveUp
<1>2. hook.state = "active" /\ hook.failures < DisableAfter
  <2>1. hook.state = "active"
    BY <1>1 DEF IInv, CallsFit, Fits
  <2>2. hook.state = "active" => hook.failures < DisableAfter
    <3>1. hook.failures \in Nat /\ DisableAfter \in Nat /\ hook.failures <= DisableAfter
      BY <1>1, HookNumbers, Constants
    <3>2. hook.state = "active" => hook.failures # DisableAfter
      BY DEF IInv, FailuresCounted
    <3> QED BY <3>1, <3>2
  <2> QED BY <2>1, <2>2
<1>3. /\ woken' = woken /\ calls' = calls \ {c}
      /\ UNCHANGED <<active, lastId, enqueuing, queued, faults>>
  BY DEF GiveUp, Over
<1>4. hook' \in Hook /\ FailuresCounted' /\ hook'.id = hook.id
      /\ (hook.failures + 1 < DisableAfter => hook'.state = hook.state)
  <2> DEFINE st == IF hook.failures + 1 < DisableAfter THEN hook.state ELSE "disabled"
  <2>1. hook' = [state |-> st, id |-> hook.id, failures |-> hook.failures + 1, since |-> hook.since]
    BY <1>1, HookType DEF GiveUp
  <2>2. st \in {"active", "disabled"} /\ (hook.failures + 1 < DisableAfter => st = hook.state)
        /\ (hook.failures + 1 = DisableAfter => st = "disabled")
    BY <1>1, <1>2, HookType, Constants
  <2>3. hook.failures + 1 \in 0..DisableAfter
    BY <1>1, <1>2, HookNumbers, Constants
  <2> HIDE DEF st
  <2>4. hook' \in Hook /\ hook'.failures = hook.failures + 1 /\ hook'.state = st /\ hook'.id = hook.id
    BY <1>1, <2>1, <2>2, <2>3, HookNumbers DEF Hook
  <2> QED BY <2>2, <2>4 DEF FailuresCounted
<1>5. woken \subseteq queued /\ givenUp \subseteq queued /\ active' \in BOOLEAN
  BY <1>1, <1>3 DEF TypeOK
<1>6. CASE hook.failures + 1 < DisableAfter
  <2>1. queue' = [d \in DeliveryIds |-> IF d \in {c.delivery} THEN None ELSE queue[d]]
    BY <1>1, <1>6 DEF GiveUp, TypeOK
  <2>2. givenUp' = givenUp \cup queue[c.delivery].messages
    BY <1>6 DEF GiveUp
  <2>3. givenUp' \subseteq queued
    BY <1>1, <1>5, <2>2 DEF IInv, IdsGrow
  <2>4. {c.delivery} \in SUBSET DeliveryIds /\ {c} \in SUBSET calls
    BY <1>1
  <2> QED BY <1>3, <1>4, <1>5, <1>6, <2>1, <2>2, <2>3, <2>4, DeliveriesGo
<1>7. CASE ~(hook.failures + 1 < DisableAfter)
  <2>1. DropAll
    BY <1>7 DEF GiveUp
  <2>2. queue' = [d \in DeliveryIds |-> IF d \in DeliveryIds THEN None ELSE queue[d]]
    BY <2>1 DEF DropAll
  <2>3. DeliveryIds \cap Deliveries = Deliveries
    BY DEF Deliveries
  <2>4. givenUp' = givenUp \cup QueuedIn(DeliveryIds \cap Deliveries)
    BY <2>1, <2>3 DEF DropAll
  <2>5. \A d \in DeliveryIds \cap Deliveries : queue[d].messages \subseteq woken' \cup givenUp'
    BY <2>4, HeldIsQueued
  <2>6. givenUp' \subseteq queued
    BY <1>5, <2>4, HeldIsQueued
  <2>7. DeliveryIds \in SUBSET DeliveryIds /\ {c} \in SUBSET calls /\ Deliveries \subseteq DeliveryIds
    BY <2>3
  <2> QED BY <1>1, <1>3, <1>4, <1>5, <2>2, <2>4, <2>5, <2>6, <2>7, DeliveriesGo
<1> QED BY <1>6, <1>7

\* recordFailure of a delivery that is gone.
LEMMA FailGoneInv ==
  ASSUME IInv, NEW c \in calls, FailGone(c)
  PROVE  IInv'
<1>1. /\ calls' = calls \ {c} /\ c.delivery \notin Deliveries
      /\ UNCHANGED <<active, hook, queue, lastId, enqueuing, queued, woken, givenUp, faults>>
  BY DEF FailGone, Over
<1>2. queue' = [d \in DeliveryIds |-> IF d \in {} THEN None ELSE queue[d]]
  BY <1>1 DEF IInv, TypeOK
<1>3. hook' \in Hook /\ FailuresCounted' /\ active' \in BOOLEAN
  BY <1>1 DEF IInv, TypeOK, FailuresCounted
<1>4. woken \subseteq queued /\ givenUp \subseteq queued
  BY DEF IInv, TypeOK
<1>5. {} \in SUBSET DeliveryIds /\ {c} \in SUBSET calls
  OBVIOUS
<1> QED BY <1>1, <1>2, <1>3, <1>4, <1>5, DeliveriesGo

-----------------------------------------------------------------------------
(***************************************************************************)
(* Deliveries that stay: outcomes that come later, or never.               *)
(***************************************************************************)

\* A call ends and its delivery waits on, with another time and fewer tries.
LEMMA WaitsOn ==
  ASSUME IInv, NEW c \in calls, c.delivery \in Deliveries, NEW r \in Delivery,
         queue' = [queue EXCEPT ![c.delivery] = r],
         r.messages = queue[c.delivery].messages,
         r.attempts <= Len(RetryDelays) + faults',
         calls' = calls \ {c},
         faults' \in faults..MaxFaults,
         UNCHANGED <<active, hook, lastId, enqueuing, queued, woken, givenUp>>
  PROVE  IInv'
<1>1. TypeOK /\ c.delivery \in DeliveryIds /\ queue \in [DeliveryIds -> Delivery \cup {None}]
      /\ r # None
  BY CallType, NoneAssumption DEF IInv, TypeOK
<1>2. /\ queue'[c.delivery] = r /\ \A d \in DeliveryIds \ {c.delivery} : queue'[d] = queue[d]
      /\ Deliveries' = Deliveries
  BY <1>1 DEF Deliveries
<1>3. \A e \in calls' : e.delivery # c.delivery
  BY DEF IInv, NotCalledTwiceAtOnce
<1>4. faults \in Nat /\ faults' \in Nat /\ faults' >= faults /\ faults' \in 0..MaxFaults
  BY <1>1, HookType, Constants
<1>5. TypeOK'
  <2>1. queue' \in [DeliveryIds -> Delivery \cup {None}] /\ calls' \subseteq Call
    BY <1>1 DEF TypeOK
  <2> QED BY <1>1, <1>4, <2>1 DEF TypeOK
<1>6. IdsGrow'
  <2>1. \A d \in Deliveries' : d <= lastId' /\ queue'[d].messages \subseteq queued'
    BY <1>2 DEF IInv, IdsGrow, Deliveries
  <2> QED BY <2>1 DEF IInv, IdsGrow
<1>7. QueueingIsNew' /\ FailuresCounted' /\ NotCalledTwiceAtOnce'
  BY DEF IInv, QueueingIsNew, FailuresCounted, NotCalledTwiceAtOnce
<1>8. CallsFit'
  <2> SUFFICES ASSUME NEW e \in calls', e.delivery \in Deliveries'
               PROVE  Fits(e)'
    BY DEF CallsFit
  <2>1. Fits(e) /\ queue'[e.delivery] = queue[e.delivery]
    BY <1>2, <1>3 DEF IInv, CallsFit, Deliveries
  <2> QED BY <2>1 DEF Fits
<1>9. TriesBounded'
  <2> SUFFICES ASSUME NEW d \in Deliveries'
               PROVE  queue'[d].attempts <=
                        Len(RetryDelays) + faults' + (IF \E e \in calls' : e.delivery = d THEN 1 ELSE 0)
    BY DEF TriesBounded
  <2>1. CASE d = c.delivery
    BY <1>2, <1>3, <2>1
  <2>2. CASE d # c.delivery
    <3>1. queue'[d] = queue[d] /\ d \in Deliveries /\ queue[d].attempts \in Nat
      BY <1>1, <1>2, <2>2, DeliveryType DEF Deliveries
    <3>2. (\E e \in calls : e.delivery = d) <=> \E e \in calls' : e.delivery = d
      BY <2>2
    <3> QED BY <1>4, <3>1, <3>2, Constants DEF IInv, TriesBounded
  <2> QED BY <2>1, <2>2
<1>10. NothingSlipsThrough'
  <2> SUFFICES ASSUME NEW m \in queued, m \notin woken, m \notin givenUp
               PROVE  m \in QueuedIn(Deliveries)'
    BY DEF NothingSlipsThrough
  <2>1. PICK d \in Deliveries : m \in queue[d].messages
    BY Waiting DEF IInv, NothingSlipsThrough
  <2>2. d \in Deliveries' /\ m \in queue'[d].messages
    BY <1>2, <2>1 DEF Deliveries
  <2> QED BY <2>2 DEF QueuedIn
<1> QED BY <1>5, <1>6, <1>7, <1>8, <1>9, <1>10 DEF IInv

\* Calls end and nobody learns how: their deliveries stay as they are, leased.
LEMMA CallsLost ==
  ASSUME IInv, NEW T \in SUBSET calls, calls' = calls \ T, Fault,
         enqueuing' \in [Procs -> Queueing \cup {None}],
         \A p \in Procs : enqueuing'[p] \in {enqueuing[p], None},
         UNCHANGED <<active, hook, queue, lastId, queued, woken, givenUp>>
  PROVE  IInv'
<1>1. TypeOK
  BY DEF IInv
<1>2. faults \in Nat /\ faults' = faults + 1 /\ faults' \in 0..MaxFaults
  <2>1. faults < MaxFaults /\ faults' = faults + 1
    BY DEF Fault
  <2>2. faults \in Nat /\ MaxFaults \in Nat
    BY <1>1, HookType, Constants
  <2> QED BY <2>1, <2>2
<1>3. Deliveries' = Deliveries
  BY DEF Deliveries
<1>4. TypeOK'
  BY <1>1, <1>2 DEF TypeOK
<1>5. IdsGrow' /\ FailuresCounted' /\ NotCalledTwiceAtOnce'
  BY <1>3 DEF IInv, IdsGrow, FailuresCounted, NotCalledTwiceAtOnce
<1>6. QueueingIsNew'
  BY DEF IInv, QueueingIsNew
<1>7. CallsFit'
  BY <1>3 DEF IInv, CallsFit, Fits
<1>8. TriesBounded'
  <2> SUFFICES ASSUME NEW d \in Deliveries
               PROVE  queue[d].attempts <=
                        Len(RetryDelays) + faults' + (IF \E c \in calls' : c.delivery = d THEN 1 ELSE 0)
    BY <1>3 DEF TriesBounded
  <2>1. queue[d].attempts \in Nat
    BY <1>1, DeliveryType
  <2> QED BY <1>2, <2>1, Constants DEF IInv, TriesBounded
<1>9. NothingSlipsThrough'
  BY <1>3 DEF IInv, NothingSlipsThrough, QueuedIn
<1> QED BY <1>4, <1>5, <1>6, <1>7, <1>8, <1>9 DEF IInv

\* recordFailure with attempts left.
LEMMA RetryInv ==
  ASSUME IInv, NEW c \in calls, Retry(c)
  PROVE  IInv'
<1> DEFINE r == [queue[c.delivery] EXCEPT !.due = RetryDelays[c.attempt], !.lease = 0]
<1>1. TypeOK /\ c.delivery \in Deliveries /\ c.delivery \in DeliveryIds
  BY CallType DEF IInv, Retry
<1>2. queue[c.delivery] \in Delivery /\ queue[c.delivery].attempts = c.attempt
  BY <1>1, DeliveryType DEF IInv, CallsFit, Fits
<1>3. RetryDelays[c.attempt] \in Nat /\ c.attempt \in Nat /\ c.attempt <= Len(RetryDelays)
  BY <1>1, CallType, Constants DEF Retry
<1>4. r \in Delivery /\ r.messages = queue[c.delivery].messages /\ r.attempts = c.attempt
  BY <1>2, <1>3, Rescheduled
<1>5. queue' = [queue EXCEPT ![c.delivery] = r]
  BY <1>1 DEF Retry, TypeOK
<1>6. /\ calls' = calls \ {c}
      /\ UNCHANGED <<active, hook, lastId, enqueuing, queued, woken, givenUp, faults>>
  BY DEF Retry, Over
<1> HIDE DEF r
<1>7. faults' \in faults..MaxFaults /\ faults \in Nat
  BY <1>1, <1>6, HookType, Constants
<1>8. r.attempts <= Len(RetryDelays) + faults'
  BY <1>3, <1>4, <1>6, <1>7, Constants
<1> QED BY <1>1, <1>4, <1>5, <1>6, <1>7, <1>8, WaitsOn

\* recordDeferred.
LEMMA DeferInv ==
  ASSUME IInv, NEW c \in calls, Defer(c)
  PROVE  IInv'
<1>1. TypeOK /\ c.delivery \in DeliveryIds /\ {c} \in SUBSET calls
  BY CallType DEF IInv
<1>2. /\ calls' = calls \ {c} /\ Fault
      /\ UNCHANGED <<active, hook, lastId, enqueuing, queued, woken, givenUp>>
  BY DEF Defer, Over
<1>3. CASE c.delivery \notin Deliveries
  <2>1. queue' = queue
    BY <1>3 DEF Defer
  <2>2. /\ enqueuing' \in [Procs -> Queueing \cup {None}]
        /\ \A p \in Procs : enqueuing'[p] \in {enqueuing[p], None}
    BY <1>1, <1>2 DEF TypeOK
  <2> QED BY <1>1, <1>2, <2>1, <2>2, CallsLost
<1>4. CASE c.delivery \in Deliveries
  <2>1. queue[c.delivery] \in Delivery /\ Deferral \in Nat
    BY <1>1, <1>4, DeliveryType, Constants
  <2>2. PICK n \in 0..MaxTries : n = queue[c.delivery].attempts
    BY <1>1, <1>4, DeliveryType, Constants
  <2>3. PICK k \in 0..MaxTries : k = (IF n = 0 THEN 0 ELSE n - 1)
    BY Constants
  <2> DEFINE r == [queue[c.delivery] EXCEPT !.due = Deferral, !.lease = 0, !.attempts = k]
  <2>4. r \in Delivery /\ r.messages = queue[c.delivery].messages /\ r.attempts = k
    <3>1. 0 \in 0..Lease
      BY Constants
    <3> QED BY <2>1, <3>1 DEF Delivery
  <2>5. queue' = [queue EXCEPT ![c.delivery] = r]
    BY <1>1, <1>4, <2>2, <2>3 DEF Defer, TypeOK
  <2>6. n <= Len(RetryDelays) + faults + 1
    <3>1. \E e \in calls : e.delivery = c.delivery
      OBVIOUS
    <3> QED BY <1>4, <2>2, <3>1 DEF IInv, TriesBounded
  <2>7. faults' = faults + 1 /\ faults \in Nat /\ faults < MaxFaults
    BY <1>1, <1>2, HookType, Constants DEF Fault
  <2>8. k <= Len(RetryDelays) + faults'
    BY <2>3, <2>6, <2>7, Constants
  <2>9. faults' \in faults..MaxFaults
    BY <2>7, Constants
  <2> HIDE DEF r
  <2> QED BY <1>2, <1>4, <2>4, <2>5, <2>8, <2>9, WaitsOn
<1> QED BY <1>3, <1>4

\* The outcome cannot be written, or the process dies.
LEMMA LostInv ==
  ASSUME IInv, (\E c \in calls : Unrecorded(c)) \/ (\E p \in Procs : Crash(p))
  PROVE  IInv'
<1>1. TypeOK
  BY DEF IInv
<1>2. ASSUME NEW c \in calls, Unrecorded(c)
      PROVE  IInv'
  <2>1. /\ calls' = calls \ {c} /\ Fault /\ {c} \in SUBSET calls /\ enqueuing' = enqueuing
        /\ UNCHANGED <<active, hook, queue, lastId, queued, woken, givenUp>>
    BY <1>2 DEF Unrecorded, Over
  <2>2. /\ enqueuing' \in [Procs -> Queueing \cup {None}]
        /\ \A p \in Procs : enqueuing'[p] \in {enqueuing[p], None}
    BY <1>1, <2>1 DEF TypeOK
  <2> QED BY <2>1, <2>2, CallsLost
<1>3. ASSUME NEW p \in Procs, Crash(p)
      PROVE  IInv'
  <2> DEFINE T == {c \in calls : c.proc = p}
  <2>1. /\ calls' = calls \ T /\ Fault /\ T \in SUBSET calls
        /\ UNCHANGED <<active, hook, queue, lastId, queued, woken, givenUp>>
    BY <1>3 DEF Crash
  <2>2. /\ enqueuing' \in [Procs -> Queueing \cup {None}]
        /\ \A q \in Procs : enqueuing'[q] \in {enqueuing[q], None}
    BY <1>1, <1>3 DEF TypeOK, Crash
  <2> QED BY <2>1, <2>2, CallsLost
<1> QED BY <1>1, <1>2, <1>3

-----------------------------------------------------------------------------
(***************************************************************************)
(* The way into the queue.                                                 *)
(***************************************************************************)

\* enqueue up to its transaction, or without one: nothing is queued yet.
LEMMA NotYetQueued ==
  ASSUME IInv, NEW p \in Procs, EnqueueFails(p) \/ \E m \in Messages : EnqueueReads(p, m)
  PROVE  IInv'
<1>1. TypeOK /\ UNCHANGED <<active, hook, queue, lastId, calls, queued, woken, givenUp, faults>>
  BY DEF IInv, EnqueueFails, EnqueueReads
<1>2. Deliveries' = Deliveries
  BY <1>1 DEF Deliveries
<1>3. IdsGrow' /\ CallsFit' /\ TriesBounded' /\ FailuresCounted' /\ NotCalledTwiceAtOnce'
      /\ NothingSlipsThrough'
  BY <1>1, <1>2 DEF IInv, IdsGrow, CallsFit, Fits, TriesBounded, FailuresCounted,
                    NotCalledTwiceAtOnce, NothingSlipsThrough, QueuedIn
<1>4. enqueuing' \in [Procs -> Queueing \cup {None}] /\ QueueingIsNew'
  <2>1. CASE EnqueueFails(p)
    BY <1>1, <2>1 DEF EnqueueFails, IInv, TypeOK, QueueingIsNew
  <2>2. ASSUME NEW m \in Messages, EnqueueReads(p, m)
        PROVE  enqueuing' \in [Procs -> Queueing \cup {None}] /\ QueueingIsNew'
    <3> DEFINE e == [message |-> m, wait |-> Interval - hook.since]
    <3>1. Interval - hook.since \in 0..Interval
      BY <1>1, HookNumbers, Constants
    <3>2. e \in Queueing /\ e.message = m
      BY <3>1 DEF Queueing
    <3>3. enqueuing' = [enqueuing EXCEPT ![p] = e] /\ m \notin queued
          /\ \A q \in Procs : enqueuing[q] # None => enqueuing[q].message # m
      BY <2>2 DEF EnqueueReads
    <3> HIDE DEF e
    <3> QED BY <1>1, <3>2, <3>3 DEF IInv, TypeOK, QueueingIsNew
  <2> QED BY <2>1, <2>2
<1>5. TypeOK'
  BY <1>1, <1>4 DEF TypeOK
<1> QED BY <1>3, <1>4, <1>5 DEF IInv

\* One message more was queued, and one id at most was drawn for it.
LEMMA QueuedGrows ==
  ASSUME TypeOK, NEW m \in Messages, m \notin queued
  PROVE  Cardinality(queued \cup {m}) = Cardinality(queued) + 1
         /\ Cardinality(queued) + 1 <= Cardinality(Messages)
<1>1. IsFiniteSet(queued) /\ queued \cup {m} \in SUBSET Messages
  BY HookType
<1>2. Cardinality(queued \cup {m}) = Cardinality(queued) + 1
  BY <1>1, FS_AddElement
<1>3. Cardinality(queued \cup {m}) <= Cardinality(Messages)
  BY <1>1, Constants, FS_Subset
<1> QED BY <1>2, <1>3

\* The transaction of enqueue.  A delivery that takes one more message is
\* open, and so no call was claimed for it.
LEMMA EnqueueWritesInv ==
  ASSUME IInv, NEW p \in Procs, EnqueueWrites(p)
  PROVE  IInv'
<1> DEFINE m == enqueuing[p].message
<1>1. TypeOK /\ enqueuing[p] # None /\ enqueuing[p] \in Queueing
  BY DEF IInv, TypeOK, EnqueueWrites
<1>2. m \in Messages /\ m \notin queued /\ enqueuing[p].wait \in Nat
  BY <1>1, Constants DEF Queueing, IInv, QueueingIsNew
<1>3. /\ queued' = queued \cup {m} /\ enqueuing' = [enqueuing EXCEPT ![p] = None]
      /\ UNCHANGED <<active, hook, calls, woken, givenUp, faults>>
  BY DEF EnqueueWrites
<1>4. Cardinality(queued') = Cardinality(queued) + 1 /\ Cardinality(queued) \in Nat
      /\ Cardinality(queued') <= Cardinality(Messages) /\ lastId <= Cardinality(queued)
      /\ lastId \in Nat /\ Cardinality(Messages) \in Nat
  BY <1>1, <1>2, <1>3, QueuedGrows, HookType, Constants DEF IInv, IdsGrow
<1>5. PICK d \in DeliveryIds, r \in Delivery :
        /\ queue' = [queue EXCEPT ![d] = r]
        /\ m \in r.messages /\ r.messages \subseteq queued'
        /\ r.attempts = (IF d \in Deliveries THEN queue[d].attempts ELSE 0)
        /\ d \in Deliveries => queue[d].messages \subseteq r.messages
        /\ \A c \in calls : c.delivery # d
        /\ lastId' \in {lastId, lastId + 1} /\ d <= lastId'
  <2>1. CASE OpenOne # {}
    <3>1. PICK d \in OpenOne : queue' = [queue EXCEPT ![d].messages = @ \cup {m}]
      BY <2>1 DEF EnqueueWrites
    <3>2. d \in Deliveries /\ queue[d].open
      BY DEF OpenOne
    <3> DEFINE r == [queue[d] EXCEPT !.messages = @ \cup {m}]
    <3>3. queue[d] \in Delivery /\ d \in DeliveryIds
      BY <1>1, <3>2, DeliveryType
    <3>4. r \in Delivery /\ r.messages = queue[d].messages \cup {m} /\ r.attempts = queue[d].attempts
      BY <1>2, <3>3 DEF Delivery
    <3>5. queue' = [queue EXCEPT ![d] = r]
      BY <1>1, <3>1, <3>3 DEF TypeOK
    <3>6. lastId' = lastId /\ d <= lastId /\ queue[d].messages \subseteq queued
      BY <2>1, <3>2 DEF EnqueueWrites, IInv, IdsGrow
    <3>7. \A c \in calls : c.delivery # d
      BY <3>2 DEF IInv, CallsFit, Fits
    <3> HIDE DEF r
    <3> QED BY <1>3, <3>2, <3>3, <3>4, <3>5, <3>6, <3>7
  <2>2. CASE OpenOne = {}
    <3> DEFINE d == lastId + 1
               r == [open |-> TRUE, due |-> DueIn(enqueuing[p].wait), lease |-> 0,
                     attempts |-> 0, messages |-> {m}]
    <3>1. queue' = [queue EXCEPT ![d] = r] /\ lastId' = lastId + 1
      BY <2>2 DEF EnqueueWrites
    <3>2. DueIn(enqueuing[p].wait) \in Nat
      BY <1>2, Constants DEF DueIn
    <3>3. r \in Delivery /\ r.messages = {m} /\ r.attempts = 0
      BY <1>2, <3>2, Constants DEF Delivery
    <3>4. d \in DeliveryIds /\ d <= lastId'
      BY <1>4, <3>1, Constants
    <3>5. d \notin Deliveries /\ \A c \in calls : c.delivery # d
      BY <1>1, <1>4, DeliveryType, CallType DEF IInv, IdsGrow
    <3> HIDE DEF r, d
    <3> QED BY <1>3, <3>1, <3>3, <3>4, <3>5
  <2> QED BY <2>1, <2>2
<1> HIDE DEF m
<1>6. /\ r # None /\ Deliveries' = Deliveries \cup {d} /\ queue'[d] = r
      /\ \A e \in DeliveryIds \ {d} : queue'[e] = queue[e]
      /\ queue' \in [DeliveryIds -> Delivery \cup {None}] /\ d \in Nat
  <2>1. queue \in [DeliveryIds -> Delivery \cup {None}] /\ r # None /\ d \in Nat
    BY <1>1, NoneAssumption, Constants DEF TypeOK
  <2> QED BY <1>5, <2>1 DEF Deliveries
<1>7. TypeOK'
  <2>1. lastId' \in 0..Cardinality(Messages)
    BY <1>4, <1>5
  <2>2. enqueuing' \in [Procs -> Queueing \cup {None}]
    BY <1>1, <1>3 DEF TypeOK
  <2> QED BY <1>1, <1>2, <1>3, <1>6, <2>1, <2>2 DEF TypeOK
<1>8. IdsGrow'
  <2>1. lastId' <= Cardinality(queued')
    BY <1>4, <1>5
  <2>2. \A e \in Deliveries' : e <= lastId' /\ queue'[e].messages \subseteq queued'
    <3> SUFFICES ASSUME NEW e \in Deliveries', e # d
                 PROVE  e <= lastId' /\ queue'[e].messages \subseteq queued'
      BY <1>5, <1>6
    <3>1. e \in Deliveries /\ queue'[e] = queue[e] /\ e \in Nat
      BY <1>1, <1>6, DeliveryType
    <3> QED BY <1>3, <1>4, <1>5, <3>1 DEF IInv, IdsGrow
  <2>3. \A c \in calls' : c.delivery <= lastId' /\ c.messages \subseteq queued'
    <3> SUFFICES ASSUME NEW c \in calls
                 PROVE  c.delivery <= lastId' /\ c.messages \subseteq queued'
      BY <1>3
    <3> QED BY <1>1, <1>3, <1>4, <1>5, CallType DEF IInv, IdsGrow
  <2> QED BY <2>1, <2>2, <2>3 DEF IdsGrow
<1>9. QueueingIsNew'
  <2>1. \A q \in Procs : enqueuing'[q] # None => q # p /\ enqueuing'[q] = enqueuing[q]
    BY <1>1, <1>3 DEF TypeOK
  <2>2. \A q \in Procs : enqueuing'[q] # None => enqueuing[q].message # m
    BY <1>1, <2>1 DEF IInv, QueueingIsNew, m
  <2> QED BY <1>3, <2>1, <2>2 DEF IInv, QueueingIsNew
<1>10. CallsFit'
  <2> SUFFICES ASSUME NEW c \in calls', c.delivery \in Deliveries'
               PROVE  Fits(c)'
    BY DEF CallsFit
  <2>1. c.delivery # d /\ c.delivery \in Deliveries /\ queue'[c.delivery] = queue[c.delivery]
    BY <1>3, <1>5, <1>6 DEF Deliveries
  <2>2. Fits(c)
    BY <1>3, <2>1 DEF IInv, CallsFit
  <2> QED BY <1>3, <2>1, <2>2 DEF Fits
<1>11. TriesBounded'
  <2> SUFFICES ASSUME NEW e \in Deliveries'
               PROVE  queue'[e].attempts <=
                        Len(RetryDelays) + faults + (IF \E c \in calls : c.delivery = e THEN 1 ELSE 0)
    BY <1>3 DEF TriesBounded
  <2>1. CASE e \in Deliveries
    <3>1. queue'[e].attempts = queue[e].attempts
      BY <1>5, <1>6, <2>1 DEF Deliveries
    <3> QED BY <2>1, <3>1 DEF IInv, TriesBounded
  <2>2. CASE e \notin Deliveries
    <3>1. queue'[e].attempts = 0
      BY <1>5, <1>6, <2>2
    <3>2. Len(RetryDelays) \in Nat /\ faults \in Nat
      BY <1>1, HookType, Constants
    <3> QED BY <3>1, <3>2
  <2> QED BY <2>1, <2>2
<1>12. FailuresCounted' /\ NotCalledTwiceAtOnce'
  BY <1>3 DEF IInv, FailuresCounted, NotCalledTwiceAtOnce
<1>13. NothingSlipsThrough'
  <2> SUFFICES ASSUME NEW x \in queued', x \notin woken, x \notin givenUp
               PROVE  \E e \in Deliveries' : x \in queue'[e].messages
    BY <1>3 DEF NothingSlipsThrough, QueuedIn
  <2>1. CASE x = m
    BY <1>5, <1>6, <2>1
  <2>2. CASE x # m
    <3>1. PICK e \in Deliveries : x \in queue[e].messages
      BY <1>3, <2>2, Waiting DEF IInv, NothingSlipsThrough
    <3> QED BY <1>5, <1>6, <3>1 DEF Deliveries
  <2> QED BY <2>1, <2>2
<1> QED BY <1>7, <1>8, <1>9, <1>10, <1>11, <1>12, <1>13 DEF IInv

-----------------------------------------------------------------------------
(***************************************************************************)
(* The dispatcher: what is due is claimed, what was claimed is posted.     *)
(***************************************************************************)

\* The messages are read and the call is made; without a delivery none is.
LEMMA PostInv ==
  ASSUME IInv, NEW c \in calls, Post(c)
  PROVE  IInv'
<1>1. /\ TypeOK /\ c \in Call /\ c.delivery \in DeliveryIds
      /\ UNCHANGED <<active, hook, queue, lastId, enqueuing, queued, woken, givenUp, faults>>
  BY CallType DEF IInv, Post
<1>2. Deliveries' = Deliveries
  BY <1>1 DEF Deliveries
<1>3. CASE c.delivery \notin Deliveries
  <2>1. calls' = calls \ {c} /\ {c} \in SUBSET calls /\ {} \in SUBSET DeliveryIds
    BY <1>3 DEF Post
  <2>2. queue' = [d \in DeliveryIds |-> IF d \in {} THEN None ELSE queue[d]]
    BY <1>1 DEF TypeOK
  <2>3. hook' \in Hook /\ FailuresCounted' /\ active' \in BOOLEAN
        /\ woken \subseteq queued /\ givenUp \subseteq queued
    BY <1>1 DEF IInv, TypeOK, FailuresCounted
  <2> QED BY <1>1, <1>3, <2>1, <2>2, <2>3, DeliveriesGo
<1>4. CASE c.delivery \in Deliveries
  <2> DEFINE held == queue[c.delivery].messages
             e == [c EXCEPT !.step = "calling", !.messages = held]
  <2>1. held \subseteq Messages /\ held \subseteq queued
    BY <1>1, <1>4, DeliveryType DEF IInv, IdsGrow
  <2>2. /\ e \in Call /\ e.delivery = c.delivery /\ e.attempt = c.attempt /\ e.left = c.left
        /\ e.hookId = c.hookId /\ e.messages = held
    BY <1>1, <2>1 DEF Call
  <2>3. calls' = (calls \ {c}) \cup {e}
    BY <1>4 DEF Post
  <2> HIDE DEF e
  <2>4. TypeOK'
    BY <1>1, <2>2, <2>3 DEF TypeOK
  <2>5. IdsGrow'
    BY <1>1, <1>2, <2>1, <2>2, <2>3 DEF IInv, IdsGrow
  <2>6. QueueingIsNew' /\ FailuresCounted'
    BY <1>1 DEF IInv, QueueingIsNew, FailuresCounted
  <2>7. CallsFit'
    <3> SUFFICES ASSUME NEW x \in calls', x.delivery \in Deliveries
                 PROVE  Fits(x)'
      BY <1>2 DEF CallsFit
    <3>1. CASE x = e
      <4>1. Fits(c)
        BY <1>4 DEF IInv, CallsFit
      <4> QED BY <1>1, <2>2, <3>1, <4>1 DEF Fits
    <3>2. CASE x \in calls
      <4>1. Fits(x)
        BY <3>2 DEF IInv, CallsFit
      <4> QED BY <1>1, <4>1 DEF Fits
    <3> QED BY <2>3, <3>1, <3>2
  <2>8. TriesBounded'
    <3>1. \A d : (\E x \in calls : x.delivery = d) <=> (\E x \in calls' : x.delivery = d)
      BY <2>2, <2>3
    <3> QED BY <1>1, <1>2, <3>1 DEF IInv, TriesBounded
  <2>9. NotCalledTwiceAtOnce'
    BY <2>2, <2>3 DEF IInv, NotCalledTwiceAtOnce
  <2>10. NothingSlipsThrough'
    BY <1>1, <1>2 DEF IInv, NothingSlipsThrough, QueuedIn
  <2> QED BY <2>4, <2>5, <2>6, <2>7, <2>8, <2>9, <2>10 DEF IInv
<1> QED BY <1>3, <1>4

\* claimDue: what is due has no call under way, for its lease has run out and
\* a call's has not.
LEMMA ClaimInv ==
  ASSUME IInv, NEW p \in Procs, Claim(p)
  PROVE  IInv'
<1> DEFINE due == {d \in Deliveries : IsDue(d)}
           Claimed(d) == [queue[d] EXCEPT !.open = FALSE, !.lease = Lease, !.attempts = @ + 1]
           NewCall(d) == [proc |-> p, delivery |-> d, attempt |-> queue[d].attempts + 1,
                          hookId |-> hook.id, step |-> "claimed", messages |-> {},
                          left |-> CallTime]
<1>1. /\ TypeOK /\ hook.state = "active"
      /\ queue' = [d \in DeliveryIds |-> IF d \in due THEN Claimed(d) ELSE queue[d]]
      /\ hook' = [hook EXCEPT !.since = 0]
      /\ calls' = calls \cup {NewCall(d) : d \in due}
      /\ UNCHANGED <<active, lastId, enqueuing, queued, woken, givenUp, faults>>
  BY DEF IInv, Claim
<1>2. \A c \in calls : c.delivery \notin due
  <2> SUFFICES ASSUME NEW c \in calls, c.delivery \in due
               PROVE  FALSE
    OBVIOUS
  <2>1. c.left < 0 /\ c.left \in Nat
    BY <1>1, CallType DEF IsDue, IInv, CallsFit, Fits
  <2> QED BY <2>1
<1>3. ASSUME NEW d \in due
      PROVE  /\ d \in DeliveryIds /\ d \in Deliveries /\ queue'[d] = Claimed(d)
             /\ queue[d].attempts \in Nat /\ queue[d].attempts + 1 <= Len(RetryDelays) + faults + 1
             /\ Claimed(d) \in Delivery /\ Claimed(d).open = FALSE /\ Claimed(d).lease = Lease
             /\ Claimed(d).attempts = queue[d].attempts + 1
             /\ Claimed(d).messages = queue[d].messages
             /\ NewCall(d) \in Call
  <2>1. d \in DeliveryIds /\ d \in Deliveries /\ queue[d] \in Delivery /\ queue[d].attempts \in Nat
    BY <1>1, DeliveryType
  <2>2. queue[d].attempts <= Len(RetryDelays) + faults
    <3>1. ~\E c \in calls : c.delivery = d
      BY <1>2
    <3>2. faults \in Nat /\ Len(RetryDelays) \in Nat
      BY <1>1, HookType, Constants
    <3>3. queue[d].attempts <= Len(RetryDelays) + faults + 0
      BY <2>1, <3>1 DEF IInv, TriesBounded
    <3> QED BY <2>1, <3>2, <3>3
  <2>3. queue[d].attempts + 1 <= Len(RetryDelays) + faults + 1
        /\ queue[d].attempts + 1 \in 1..MaxTries /\ queue[d].attempts + 1 \in 0..MaxTries
    <3>1. faults \in Nat /\ faults <= MaxFaults /\ MaxFaults \in Nat /\ Len(RetryDelays) \in Nat
          /\ MaxTries = Len(RetryDelays) + 1 + MaxFaults
      BY <1>1, HookType, Constants
    <3> HIDE DEF due
    <3> QED BY <2>1, <2>2, <3>1
  <2>4. Lease \in 0..Lease /\ CallTime \in 0..CallTime /\ hook.id \in 0..MaxSets
    <3>1. Lease \in Nat /\ CallTime \in Nat
      BY Constants
    <3>2. Lease \in 0..Lease /\ CallTime \in 0..CallTime
      BY <3>1
    <3> QED BY <1>1, <3>2, HookNumbers
  <2>5. /\ Claimed(d) \in Delivery /\ Claimed(d).open = FALSE /\ Claimed(d).lease = Lease
        /\ Claimed(d).attempts = queue[d].attempts + 1
        /\ Claimed(d).messages = queue[d].messages
    BY <2>1, <2>3, <2>4 DEF Delivery
  <2>6. NewCall(d) \in Call
    BY <2>1, <2>3, <2>4 DEF Call
  <2> QED BY <1>1, <2>1, <2>3, <2>5, <2>6
<1>4. /\ Deliveries' = Deliveries /\ queue' \in [DeliveryIds -> Delivery \cup {None}]
      /\ \A d \in DeliveryIds \ due : queue'[d] = queue[d]
  <2>1. queue \in [DeliveryIds -> Delivery \cup {None}]
    BY <1>1 DEF TypeOK
  <2>2. queue' \in [DeliveryIds -> Delivery \cup {None}]
    BY <1>1, <1>3, <2>1
  <2>3. \A d \in DeliveryIds : d \in due => queue'[d] # None
    BY <1>3, NoneAssumption
  <2>4. \A d \in DeliveryIds \ due : queue'[d] = queue[d]
    BY <1>1
  <2> HIDE DEF Claimed, NewCall
  <2> QED BY <2>2, <2>3, <2>4 DEF Deliveries
<1>5. \A d \in Deliveries : queue'[d].messages = queue[d].messages
  BY <1>3, <1>4 DEF Deliveries
<1>6. \A d \in due : /\ NewCall(d).delivery = d /\ NewCall(d).attempt = queue[d].attempts + 1
                     /\ NewCall(d).hookId = hook.id /\ NewCall(d).step = "claimed"
                     /\ NewCall(d).messages = {} /\ NewCall(d).left = CallTime
  OBVIOUS
<1>7. hook' \in Hook /\ hook'.id = hook.id /\ hook'.state = "active" /\ hook'.failures = hook.failures
  <2>1. hook' = [state |-> hook.state, id |-> hook.id, failures |-> hook.failures, since |-> 0]
    BY <1>1, HookType
  <2>2. 0 \in 0..Interval
    BY Constants
  <2> QED BY <1>1, <2>1, <2>2, HookType DEF Hook
<1> HIDE DEF Claimed, NewCall
<1>8. TypeOK'
  <2>1. calls' \subseteq Call
    BY <1>1, <1>3 DEF TypeOK
  <2> QED BY <1>1, <1>4, <1>7, <2>1 DEF TypeOK
<1>9. IdsGrow'
  <2>1. \A c \in calls' : c.delivery <= lastId /\ c.messages \subseteq queued
    BY <1>1, <1>3, <1>6 DEF IInv, IdsGrow
  <2> QED BY <1>1, <1>4, <1>5, <2>1 DEF IInv, IdsGrow
<1>10. QueueingIsNew' /\ FailuresCounted'
  BY <1>1, <1>7 DEF IInv, QueueingIsNew, FailuresCounted
<1>11. CallsFit'
  <2> SUFFICES ASSUME NEW c \in calls', c.delivery \in Deliveries
               PROVE  Fits(c)'
    BY <1>4 DEF CallsFit
  <2>1. CASE c \in calls
    <3>1. Fits(c) /\ queue'[c.delivery] = queue[c.delivery]
      BY <1>2, <1>4, <2>1 DEF IInv, CallsFit, Deliveries
    <3> QED BY <1>7, <3>1 DEF Fits
  <2>2. CASE c \notin calls
    <3>1. PICK d \in due : c = NewCall(d)
      BY <1>1, <2>2
    <3>2. CallTime < Lease /\ c.delivery = d /\ c.left = CallTime /\ c.step = "claimed"
          /\ c.hookId = hook.id /\ c.attempt = queue[d].attempts + 1
      BY <1>6, <3>1, Constants
    <3>3. /\ queue'[d].open = FALSE /\ queue'[d].lease = Lease
          /\ queue'[d].attempts = queue[d].attempts + 1
      BY <1>3
    <3> QED BY <1>7, <3>2, <3>3 DEF Fits
  <2> QED BY <2>1, <2>2
<1>12. TriesBounded'
  <2> SUFFICES ASSUME NEW d \in Deliveries
               PROVE  queue'[d].attempts <=
                        Len(RetryDelays) + faults + (IF \E c \in calls' : c.delivery = d THEN 1 ELSE 0)
    BY <1>1, <1>4 DEF TriesBounded
  <2>1. CASE d \in due
    <3>1. \E c \in calls' : c.delivery = d
      BY <1>1, <1>6, <2>1
    <3>2. queue'[d].attempts <= Len(RetryDelays) + faults + 1
      BY <1>3, <2>1
    <3> QED BY <3>1, <3>2
  <2>2. CASE d \notin due
    <3>1. queue'[d] = queue[d]
      BY <1>4, <2>2 DEF Deliveries
    <3>2. (\E c \in calls : c.delivery = d) <=> \E c \in calls' : c.delivery = d
      BY <1>1, <1>6, <2>2
    <3> QED BY <3>1, <3>2 DEF IInv, TriesBounded
  <2> QED BY <2>1, <2>2
<1>13. NotCalledTwiceAtOnce'
  <2>1. \A c \in calls' : c \in calls \/ (c.delivery \in due /\ c = NewCall(c.delivery))
    BY <1>1, <1>6
  <2> QED BY <1>2, <2>1 DEF IInv, NotCalledTwiceAtOnce
<1>14. NothingSlipsThrough'
  <2> SUFFICES ASSUME NEW m \in queued, m \notin woken, m \notin givenUp
               PROVE  \E d \in Deliveries' : m \in queue'[d].messages
    BY <1>1 DEF NothingSlipsThrough, QueuedIn
  <2>1. PICK d \in Deliveries : m \in queue[d].messages
    BY Waiting DEF IInv, NothingSlipsThrough
  <2> QED BY <1>4, <1>5, <2>1
<1> QED BY <1>8, <1>9, <1>10, <1>11, <1>12, <1>13, <1>14 DEF IInv

-----------------------------------------------------------------------------
(***************************************************************************)
(* Time, and the theorems.                                                 *)
(***************************************************************************)

\* A call and the lease of its delivery grow old together.
LEMMA TickInv ==
  ASSUME IInv, Tick
  PROVE  IInv'
<1> DEFINE Older(d) == [queue[d] EXCEPT !.due = IF @ > 0 THEN @ - 1 ELSE 0,
                                        !.lease = IF @ > 0 THEN @ - 1 ELSE 0]
           Aged(c) == [c EXCEPT !.left = @ - 1]
<1>1. /\ TypeOK
      /\ queue' = [d \in DeliveryIds |-> IF queue[d] = None THEN None ELSE Older(d)]
      /\ hook' = [hook EXCEPT !.since = IF @ < Interval THEN @ + 1 ELSE Interval]
      /\ calls' = {Aged(c) : c \in calls}
      /\ UNCHANGED <<active, lastId, enqueuing, queued, woken, givenUp, faults>>
  BY DEF IInv, Tick
<1>2. ASSUME NEW d \in Deliveries
      PROVE  /\ d \in DeliveryIds /\ queue'[d] = Older(d) /\ Older(d) \in Delivery
             /\ Older(d).open = queue[d].open /\ Older(d).attempts = queue[d].attempts
             /\ Older(d).messages = queue[d].messages
             /\ Older(d).lease = (IF queue[d].lease > 0 THEN queue[d].lease - 1 ELSE 0)
  <2>1. /\ d \in DeliveryIds /\ queue[d] \in Delivery /\ queue[d] # None
        /\ queue[d].due \in Nat /\ queue[d].lease \in Nat /\ queue[d].lease <= Lease
    BY <1>1, DeliveryType DEF Deliveries
  <2>2. PICK due \in Nat : due = (IF queue[d].due > 0 THEN queue[d].due - 1 ELSE 0)
    BY <2>1
  <2>3. PICK lease \in 0..Lease : lease = (IF queue[d].lease > 0 THEN queue[d].lease - 1 ELSE 0)
    BY <2>1, Constants
  <2>4. Older(d) = [queue[d] EXCEPT !.due = due, !.lease = lease]
    BY <2>1, <2>2, <2>3 DEF Delivery
  <2>5. /\ [queue[d] EXCEPT !.due = due, !.lease = lease] \in Delivery
        /\ [queue[d] EXCEPT !.due = due, !.lease = lease].open = queue[d].open
        /\ [queue[d] EXCEPT !.due = due, !.lease = lease].attempts = queue[d].attempts
        /\ [queue[d] EXCEPT !.due = due, !.lease = lease].messages = queue[d].messages
        /\ [queue[d] EXCEPT !.due = due, !.lease = lease].lease = lease
    BY <2>1 DEF Delivery
  <2>6. queue'[d] = Older(d)
    BY <1>1, <2>1
  <2> HIDE DEF Older
  <2> QED BY <2>1, <2>3, <2>4, <2>5, <2>6
<1>3. ASSUME NEW c \in calls
      PROVE  /\ Aged(c) \in Call /\ Aged(c).delivery = c.delivery /\ Aged(c).attempt = c.attempt
             /\ Aged(c).hookId = c.hookId /\ Aged(c).step = c.step
             /\ Aged(c).messages = c.messages /\ Aged(c).left = c.left - 1
             /\ c.left \in Nat /\ c.left > 0
  <2>1. c \in Call /\ c.left \in Nat /\ c.left > 0 /\ c.left <= CallTime
    BY <1>1, CallType DEF Tick
  <2>2. c.left - 1 \in 0..CallTime
    BY <2>1, Constants
  <2> QED BY <2>1, <2>2 DEF Call
<1>4. hook' \in Hook /\ hook'.id = hook.id /\ hook'.state = hook.state
      /\ hook'.failures = hook.failures
  <2>1. PICK since \in 0..Interval : since = (IF hook.since < Interval THEN hook.since + 1 ELSE Interval)
    <3>1. hook.since \in Nat /\ hook.since <= Interval /\ Interval \in Nat
      BY <1>1, HookNumbers, Constants
    <3>2. (IF hook.since < Interval THEN hook.since + 1 ELSE Interval) \in 0..Interval
      BY <3>1
    <3> QED BY <3>2
  <2>2. hook' = [state |-> hook.state, id |-> hook.id, failures |-> hook.failures, since |-> since]
    BY <1>1, <2>1, HookType
  <2>3. hook.state \in {"none", "active", "disabled"} /\ hook.id \in 0..MaxSets
        /\ hook.failures \in 0..DisableAfter
    BY <1>1, HookType
  <2> QED BY <2>2, <2>3 DEF Hook
<1>5. /\ Deliveries' = Deliveries /\ queue' \in [DeliveryIds -> Delivery \cup {None}]
  <2>1. \A d \in DeliveryIds : queue'[d] = IF d \in Deliveries THEN Older(d) ELSE None
    BY <1>1 DEF Deliveries
  <2>2. \A d \in Deliveries : Older(d) \in Delivery /\ Older(d) # None
    BY <1>2, NoneAssumption
  <2> HIDE DEF Older
  <2> QED BY <1>1, <2>1, <2>2 DEF Deliveries
<1> HIDE DEF Older, Aged
<1>6. TypeOK'
  BY <1>1, <1>3, <1>4, <1>5 DEF TypeOK
<1>7. IdsGrow'
  BY <1>1, <1>2, <1>3, <1>5 DEF IInv, IdsGrow
<1>8. QueueingIsNew' /\ FailuresCounted'
  BY <1>1, <1>4 DEF IInv, QueueingIsNew, FailuresCounted
<1>9. CallsFit'
  <2> SUFFICES ASSUME NEW c \in calls, Aged(c).delivery \in Deliveries
               PROVE  Fits(Aged(c))'
    BY <1>1, <1>5 DEF CallsFit
  <2>1. c.delivery \in Deliveries /\ Fits(c)
    BY <1>3 DEF IInv, CallsFit
  <2>2. queue[c.delivery].lease \in Nat /\ c.left < queue[c.delivery].lease
    BY <1>1, <2>1, DeliveryType DEF Fits
  <2>3. queue'[c.delivery].lease = queue[c.delivery].lease - 1
    BY <1>2, <1>3, <2>1, <2>2
  <2>4. Aged(c).left < queue'[c.delivery].lease
    BY <1>3, <2>2, <2>3
  <2> QED BY <1>2, <1>3, <1>4, <2>1, <2>4 DEF Fits
<1>10. TriesBounded'
  <2>1. \A d : (\E c \in calls : c.delivery = d) <=> \E c \in calls' : c.delivery = d
    BY <1>1, <1>3
  <2> QED BY <1>1, <1>2, <1>5, <2>1 DEF IInv, TriesBounded
<1>11. NotCalledTwiceAtOnce'
  BY <1>1, <1>3 DEF IInv, NotCalledTwiceAtOnce
<1>12. NothingSlipsThrough'
  <2> SUFFICES ASSUME NEW m \in queued, m \notin woken, m \notin givenUp
               PROVE  \E d \in Deliveries' : m \in queue'[d].messages
    BY <1>1 DEF NothingSlipsThrough, QueuedIn
  <2>1. PICK d \in Deliveries : m \in queue[d].messages
    BY Waiting DEF IInv, NothingSlipsThrough
  <2> QED BY <1>2, <1>5, <2>1
<1> QED BY <1>6, <1>7, <1>8, <1>9, <1>10, <1>11, <1>12 DEF IInv

\* Every step keeps the inductive invariant.
LEMMA IInvInductive == IInv /\ [Next]_vars => IInv'
<1> SUFFICES ASSUME IInv, [Next]_vars
             PROVE  IInv'
  OBVIOUS
<1>1. ASSUME NEW p \in Procs, HookStep(p) \/ Enqueue(p) \/ Claim(p) \/ Crash(p)
      PROVE  IInv'
  BY <1>1, HookStepInv, NotYetQueued, EnqueueWritesInv, ClaimInv, LostInv DEF Enqueue
<1>2. ASSUME NEW c \in calls, CallStep(c)
      PROVE  IInv'
  BY <1>2, DropInv, PostInv, SucceedInv, RetryInv, GiveUpInv, FailGoneInv, DeferInv, LostInv
     DEF CallStep, CallEnds
<1>3. CASE UNCHANGED vars
  BY <1>3 DEF vars, IInv, TypeOK, IdsGrow, QueueingIsNew, CallsFit, Fits, TriesBounded,
              FailuresCounted, NotCalledTwiceAtOnce, NothingSlipsThrough, QueuedIn, Deliveries
<1> QED BY <1>1, <1>2, <1>3, TickInv DEF Next

\* The inductive invariant holds in every state.
THEOREM Invariance == Spec => []IInv
BY InitIInv, IInvInductive, PTL DEF Spec

\* Every variable keeps its type: in particular a delivery is tried no more
\* often than the retries and the lost outcomes allow.
THEOREM TypeCorrect == Spec => []TypeOK
<1>1. IInv => TypeOK
  BY DEF IInv
<1> QED BY <1>1, Invariance, PTL

\* A message that got into the queue is still there, or was announced, or
\* given up with its delivery (webhook-queue.ts, recordSuccess).
THEOREM NothingLost == Spec => []NothingSlipsThrough
<1>1. IInv => NothingSlipsThrough
  BY DEF IInv
<1> QED BY <1>1, Invariance, PTL

\* No delivery is called twice at once, whichever processes claim it
\* (webhook-queue.ts, claimDue).
THEOREM OneCall == Spec => []NotCalledTwiceAtOnce
<1>1. IInv => NotCalledTwiceAtOnce
  BY DEF IInv
<1> QED BY <1>1, Invariance, PTL

\* The end of a call of a hook that was replaced changes nothing: the delivery
\* went with its hook, and its id is not drawn again.
THEOREM ReplacedHook == Spec => ReplacedHookLeftAlone
<1> DEFINE A == \A c \in calls :
       c.hookId # hook.id /\ (\A e \in calls' : e.delivery # c.delivery)
         => UNCHANGED <<hook, queue>>
<1>1. IInv /\ [Next]_vars => [A]_vars
  <2> SUFFICES ASSUME IInv, Next, NEW c \in calls, c.hookId # hook.id,
                      \A e \in calls' : e.delivery # c.delivery
               PROVE  UNCHANGED <<hook, queue>>
    BY DEF vars
  <2>1. TypeOK /\ c.delivery \in DeliveryIds /\ c.delivery \notin Deliveries
    BY CallType DEF IInv, CallsFit, Fits
  <2>2. ~(calls \subseteq calls')
    OBVIOUS
  <2>3. \A p \in Procs : ~HookStep(p) /\ ~Enqueue(p) /\ ~Claim(p)
    BY <2>2 DEF HookStep, Set, Delete, SwitchAgent, Enqueue, EnqueueReads, EnqueueWrites,
                EnqueueFails, Claim
  <2>4. ~Tick
    <3> SUFFICES ASSUME Tick
                 PROVE  FALSE
      OBVIOUS
    <3> DEFINE e == [c EXCEPT !.left = @ - 1]
    <3>1. e \in calls'
      BY DEF Tick
    <3>2. e.delivery = c.delivery
      BY <2>1, CallType DEF Call
    <3> QED BY <3>1, <3>2
  <2>5. ASSUME NEW p \in Procs, Crash(p)
        PROVE  UNCHANGED <<hook, queue>>
    BY <2>5 DEF Crash
  <2>6. ASSUME NEW e \in calls, CallStep(e)
        PROVE  UNCHANGED <<hook, queue>>
    <3>1. calls \ {e} \subseteq calls'
      BY <2>6 DEF CallStep, CallEnds, Drop, Post, Succeed, Retry, GiveUp, FailGone, Defer,
                  Unrecorded, Over
    <3>2. e = c
      BY <3>1
    <3>3. queue \in [DeliveryIds -> Delivery \cup {None}] /\ queue[c.delivery] = None
      BY <2>1 DEF TypeOK, Deliveries
    <3>4. [queue EXCEPT ![c.delivery] = None] = queue
      BY <2>1, <3>3
    <3> QED BY <2>1, <2>6, <3>2, <3>4
            DEF CallStep, CallEnds, Drop, Post, Succeed, Retry, GiveUp, FailGone, Defer, Unrecorded
  <2> QED BY <2>3, <2>4, <2>5, <2>6 DEF Next
<1> QED BY <1>1, Invariance, PTL DEF Spec, ReplacedHookLeftAlone
=============================================================================
