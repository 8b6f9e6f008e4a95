---------------------------- MODULE ProcessProofs ----------------------------
(***************************************************************************)
(* What the process lives on, proved for any number of calls, reconnects,  *)
(* outages, processes on the volume and migrations.                        *)
(*                                                                         *)
(* The breaker (CircuitBreaker).  The inductive invariant adds to OneProbe *)
(* that a running call started on the present connection or an earlier     *)
(* one: without it a reconnect could make an old call the present probe.   *)
(*                                                                         *)
(* The connection (BrokerClient) uses its breaker as the breaker is meant  *)
(* to be used: whatever the start loop, the status events, the calls and   *)
(* the shutdown do, the breaker's variables go through a behaviour of      *)
(* CircuitBreaker, so what is proved of the breaker on its own holds in    *)
(* the process.  And the breaker follows the connection: the invariant     *)
(* says what it will believe once the events under way are handled.        *)
(*                                                                         *)
(* The database file and its copies (Copies).  A file has one writer, who  *)
(* is in the middle of it; a copy's schema is one the database had; and of *)
(* the copies a start relies on either one is left, or as many newer ones  *)
(* as are kept.                                                            *)
(*                                                                         *)
(* The durables of an inbox key (Durables), for any number of requests and *)
(* processes, any clocks within the tolerance and any number of agents     *)
(* that hold the key one right after the other.  The invariant says what a *)
(* task may rely on: it is of an agent that is there no later than the one *)
(* that has the key now, and what is young enough for the later agent is   *)
(* young enough for the earlier one.                                       *)
(***************************************************************************)
EXTENDS BrokerClient, Copies, Durables, FiniteSetTheorems, SequenceTheorems,
        WellFoundedInduction, TLAPS

-----------------------------------------------------------------------------
(***************************************************************************)
(* The breaker.                                                            *)
(***************************************************************************)

\* No call is ahead of the breaker's generation.
StartedBefore ==
  \A c \in Calls : calls[c].running => calls[c].generation <= generation

\* The inductive invariant.
BreakerInv == TypeOK /\ StartedBefore /\ OneProbe

\* The breaker starts down, with no call under way.
LEMMA BreakerInit == Init => BreakerInv
<1> SUFFICES ASSUME Init PROVE BreakerInv
  OBVIOUS
<1>1. Idle \in Call /\ ~Idle.running
  BY DEF Idle, Call
<1>2. \A c \in Calls : ~calls[c].running
  BY <1>1 DEF Init
<1>3. TypeOK
  BY <1>1 DEF Init, TypeOK
<1>4. StartedBefore
  BY <1>2 DEF StartedBefore
<1>5. Probes = {}
  BY <1>2 DEF Probes
<1>6. OneProbe
  BY <1>5 DEF Init, OneProbe
<1> QED BY <1>3, <1>4, <1>6 DEF BreakerInv

\* A call that ends leaves the other calls alone, and takes the probe's place
\* away only when it is the present probe (circuit-breaker.ts, run's finally).
LEMMA FinishKeeps ==
  ASSUME BreakerInv, NEW c \in Calls, Finish(c)
  PROVE  calls' \in [Calls -> Call] /\ probing' \in BOOLEAN
         /\ StartedBefore' /\ OneProbe'
<1>1. calls \in [Calls -> Call] /\ calls' = [calls EXCEPT ![c] = Idle] /\ Idle \in Call
      /\ ~Idle.running
  BY DEF BreakerInv, TypeOK, Finish, Idle, Call
<1>2. calls' \in [Calls -> Call] /\ probing' \in BOOLEAN
  BY <1>1 DEF Finish
<1>3. StartedBefore'
  BY <1>1 DEF BreakerInv, StartedBefore, Finish
<1>4. Probes' = Probes \ {c}
  BY <1>1 DEF Probes, Current, Finish
<1>5. calls[c].isProbe /\ calls[c].generation = generation <=> c \in Probes
  BY DEF Probes, Current, Finish
<1>6. probing' <=> probing /\ c \notin Probes
  BY <1>5 DEF Finish
<1>7. OneProbe'
  BY <1>4, <1>6 DEF BreakerInv, OneProbe
<1> QED BY <1>2, <1>3, <1>7

\* Every step of the breaker keeps the inductive invariant.
LEMMA BreakerStep == BreakerInv /\ [Next]_vars => BreakerInv'
<1> SUFFICES ASSUME BreakerInv, [Next]_vars PROVE BreakerInv'
  OBVIOUS
<1>1. CASE MarkDown \/ CoolDownEnds \/ UNCHANGED vars
  <2>1. UNCHANGED <<calls, generation, probing>> /\ down' \in BOOLEAN
        /\ cooling' \in {"no", "yes", "over"}
    BY <1>1 DEF MarkDown, CoolDownEnds, vars, BreakerInv, TypeOK
  <2> QED BY <2>1 DEF BreakerInv, TypeOK, StartedBefore, OneProbe, Probes, Current
<1>2. CASE MarkUp
  <2>1. generation \in Nat /\ generation' = generation + 1 /\ calls' = calls /\ probing' = FALSE
    BY <1>2 DEF MarkUp, BreakerInv, TypeOK
  <2>2. \A d \in Calls : calls[d].running => calls[d].generation \in Nat
                                          /\ calls[d].generation <= generation
    BY DEF BreakerInv, TypeOK, Call, StartedBefore
  <2>3. Probes' = {}
    BY <2>1, <2>2 DEF Probes, Current
  <2>4. TypeOK'
    <3>1. generation' \in Nat /\ calls' \in [Calls -> Call]
      BY <2>1 DEF BreakerInv, TypeOK
    <3>2. down' \in BOOLEAN /\ cooling' \in {"no", "yes", "over"} /\ probing' \in BOOLEAN
      BY <1>2 DEF MarkUp
    <3> QED BY <3>1, <3>2 DEF TypeOK
  <2>5. StartedBefore'
    BY <2>1, <2>2 DEF StartedBefore
  <2> QED BY <2>1, <2>3, <2>4, <2>5 DEF BreakerInv, OneProbe
<1>3. ASSUME NEW c \in Calls, Start(c) PROVE BreakerInv'
  <2> DEFINE d == [running |-> TRUE, isProbe |-> State = "half-open", generation |-> generation]
  <2>1. calls' = [calls EXCEPT ![c] = d] /\ ~calls[c].running
        /\ UNCHANGED <<down, cooling, generation>>
        /\ ~(State = "half-open" /\ probing)
        /\ probing' = (probing \/ State = "half-open")
    BY <1>3 DEF Start
  <2>2. d \in Call /\ generation \in Nat /\ calls \in [Calls -> Call]
    BY DEF BreakerInv, TypeOK, Call
  <2>3. TypeOK'
    BY <2>1, <2>2 DEF BreakerInv, TypeOK
  <2>4. StartedBefore'
    BY <2>1, <2>2 DEF BreakerInv, StartedBefore
  <2>5. CASE State = "half-open"
    <3>1. Probes = {}
      BY <2>1, <2>5 DEF BreakerInv, OneProbe
    <3>2. Probes' = {c}
      BY <2>1, <2>2, <2>5, <3>1 DEF Probes, Current
    <3> QED BY <2>1, <2>3, <2>4, <2>5, <3>2 DEF BreakerInv, OneProbe
  <2>6. CASE State # "half-open"
    <3>1. Probes' = Probes
      BY <2>1, <2>2, <2>6 DEF Probes, Current
    <3> QED BY <2>1, <2>3, <2>4, <2>6, <3>1 DEF BreakerInv, OneProbe
  <2> QED BY <2>5, <2>6
<1>4. ASSUME NEW c \in Calls, CallEnds(c) PROVE BreakerInv'
  <2>1. Finish(c) /\ cooling' \in {"no", "yes", cooling}
    BY <1>4 DEF CallEnds, Succeed, Reject, FailOutage, Close
  <2>2. UNCHANGED <<down, generation>>
    BY <2>1 DEF Finish
  <2> QED BY <2>1, <2>2, FinishKeeps DEF BreakerInv, TypeOK
<1> QED BY <1>1, <1>2, <1>3, <1>4 DEF Next

\* The inductive invariant holds in every state of the breaker.
THEOREM BreakerInvariance == Spec => []BreakerInv
BY BreakerInit, BreakerStep, PTL DEF Spec

\* Every variable of the breaker keeps its type.
THEOREM BreakerTypes == Spec => []TypeOK
<1>1. BreakerInv => TypeOK
  BY DEF BreakerInv
<1> QED BY <1>1, BreakerInvariance, PTL

\* On one connection a half-open breaker never lets two probes through, and
\* the probe's place is taken just while one is under way.
THEOREM Probe == Spec => []OneProbe
<1>1. BreakerInv => OneProbe
  BY DEF BreakerInv
<1> QED BY <1>1, BreakerInvariance, PTL

\* A call that started before a reconnect neither opens nor closes the
\* breaker, nor frees or takes the probe's place.
THEOREM StaleCalls == Spec => StaleCallsDoNotCount
<1> DEFINE A == \A c \in Calls :
       calls[c].running /\ ~calls'[c].running /\ calls[c].generation # generation
         => UNCHANGED <<cooling, probing>>
<1>1. BreakerInv /\ [Next]_vars => [A]_vars
  <2> SUFFICES ASSUME BreakerInv, Next, NEW c \in Calls, calls[c].running, ~calls'[c].running,
                      calls[c].generation # generation
               PROVE  UNCHANGED <<cooling, probing>>
    BY DEF vars
  <2>1. calls \in [Calls -> Call] /\ probing \in BOOLEAN
    BY DEF BreakerInv, TypeOK
  <2>2. ~MarkDown /\ ~MarkUp /\ ~CoolDownEnds
    BY DEF MarkDown, MarkUp, CoolDownEnds
  <2>3. \A d \in Calls : ~Start(d)
    BY <2>1 DEF Start
  <2>4. PICK d \in Calls : CallEnds(d)
    BY <2>2, <2>3 DEF Next
  <2>5. d = c
    BY <2>1, <2>4 DEF CallEnds, Succeed, Reject, FailOutage, Finish
  <2>6. probing' = probing
    BY <2>1, <2>4, <2>5 DEF CallEnds, Succeed, Reject, FailOutage, Finish
  <2>7. cooling' = cooling
    BY <2>4, <2>5 DEF CallEnds, Succeed, Reject, FailOutage, Close, Current
  <2> QED BY <2>6, <2>7
<1> QED BY <1>1, BreakerInvariance, PTL DEF Spec, StaleCallsDoNotCount

-----------------------------------------------------------------------------
(***************************************************************************)
(* The connection uses the breaker.                                        *)
(***************************************************************************)

\* The process starts with the breaker as its constructor leaves it.
LEMMA ClientStartsAsBreaker == ClientInit => Init
BY DEF ClientInit

\* What the broker, the client library and the start loop do around the
\* breaker: only a connection that goes into service touches it.
LEMMA SetupIsBreakerStep ==
  ASSUME LinkDrops \/ LinkReturns \/ NoticesLoss \/ Reconnects \/ BeginAttempt \/ SetupStep
  PROVE  [Next]_vars
<1>1. CASE LinkDrops \/ LinkReturns \/ NoticesLoss \/ Reconnects \/ BeginAttempt
  BY <1>1 DEF LinkDrops, LinkReturns, NoticesLoss, Reconnects, BeginAttempt, breaker, vars
<1>2. CASE Attach
  BY <1>2 DEF Attach, Next
<1>3. CASE Connected \/ StreamInfo \/ StreamAdd \/ StreamUpdate \/ AttemptFails
  BY <1>3 DEF Connected, StreamInfo, StreamAdd, StreamUpdate, AttemptFails, breaker, vars
<1> QED BY <1>1, <1>2, <1>3 DEF SetupStep

\* The status events and the calls through `guarded`.
LEMMA ServiceIsBreakerStep ==
  ASSUME HandleEvent \/ Cools \/ \E c \in Calls : CallStarts(c) \/ CallOver(c)
  PROVE  Next
<1>1. CASE HandleEvent
  BY <1>1 DEF HandleEvent, Next
<1>2. CASE Cools
  BY <1>2 DEF Cools, Next
<1>3. ASSUME NEW c \in Calls, CallStarts(c) \/ CallOver(c)
      PROVE  Next
  <2>1. Start(c) \/ CallEnds(c)
    BY <1>3 DEF CallStarts, CallOver, CallAnswered, CallTimesOut, CallEnds
  <2> QED BY <2>1 DEF Next
<1> QED BY <1>1, <1>2, <1>3

\* The shutdown: close() marks the breaker down, once.
LEMMA ShutdownIsBreakerStep ==
  ASSUME Signal \/ CloseBegins \/ DrainEnds \/ StepEnds \/ StepFails
  PROVE  [Next]_vars
<1>1. CASE CloseBegins
  BY <1>1 DEF CloseBegins, Next
<1>2. CASE Signal \/ DrainEnds \/ StepEnds \/ StepFails
  BY <1>2 DEF Signal, DrainEnds, StepEnds, StepFails, breaker, vars
<1> QED BY <1>1, <1>2

-----------------------------------------------------------------------------

\* The connection's breaker (nats.ts) behaves as the circuit breaker does.
THEOREM UsesBreaker == ClientSpec => Spec
<1>1. [ClientNext]_allVars => [Next]_vars
  <2>1. ASSUME ClientNext
        PROVE  [Next]_vars
    BY <2>1, SetupIsBreakerStep, ServiceIsBreakerStep, ShutdownIsBreakerStep DEF ClientNext
  <2>2. ASSUME UNCHANGED allVars
        PROVE  [Next]_vars
    BY <2>2 DEF allVars, breaker, vars
  <2> QED BY <2>1, <2>2
<1> QED BY <1>1, ClientStartsAsBreaker, PTL DEF ClientSpec, Spec

\* In the process, too, one call at a time goes through a half-open breaker,
\* and no outage leaves the probe's place taken by a call that is over.
THEOREM ProbeInProcess == ClientSpec => []OneProbe
BY UsesBreaker, Probe, PTL

\* No outcome of a call from before a reconnect opens or closes the breaker
\* of the process.
THEOREM StaleCallsInProcess == ClientSpec => StaleCallsDoNotCount
BY UsesBreaker, StaleCalls, PTL

-----------------------------------------------------------------------------
(***************************************************************************)
(* The breaker follows the connection.                                     *)
(***************************************************************************)

News == {"disconnect", "staleConnection", "reconnect"}

\* What the breaker will be once the events that came are handled.
WillBeDown == IF events = <<>> THEN down ELSE events[Len(events)] # "reconnect"

\* The inductive invariant: before the shutdown the last event tells how the
\* connection in service is, and before one is in service there is none.
ClientInv ==
  /\ events \in Seq(News)
  /\ shut \in Nat
  /\ closing # "no" => Stopping
  /\ ~Stopping =>
       \/ InService /\ (WillBeDown <=> socket = "lost")
       \/ ~InService /\ events = <<>> /\ down

\* News at the end of the queue are the last to be handled.
LEMMA LastOfNews ==
  ASSUME NEW s \in Seq(News), NEW news \in Seq(News), news # <<>>
  PROVE  /\ s \o news \in Seq(News) /\ s \o news # <<>>
         /\ (s \o news)[Len(s \o news)] = news[Len(news)]
<1>1. Len(s) \in Nat /\ Len(news) \in Nat /\ Len(news) > 0
  BY EmptySeq, LenProperties
<1>2. s \o news \in Seq(News) /\ Len(s \o news) = Len(s) + Len(news)
  BY ConcatProperties
<1>3. s \o news # <<>>
  BY <1>1, <1>2, EmptySeq
<1>4. Len(s) + Len(news) \in 1..(Len(s) + Len(news)) /\ ~(Len(s) + Len(news) <= Len(s))
      /\ Len(s) + Len(news) - Len(s) = Len(news)
  BY <1>1
<1>5. (s \o news)[Len(s) + Len(news)] = news[Len(news)]
  BY <1>4, ConcatProperties
<1> QED BY <1>2, <1>3, <1>5

\* One event after the other: what is left tells the same, and the last one
\* decides (nats.ts, the loop over the status events).
LEMMA HandleEventInv ==
  ASSUME ClientInv, HandleEvent
  PROVE  ClientInv'
<1>1. events \in Seq(News) /\ events # <<>> /\ events' = Tail(events)
      /\ UNCHANGED <<link, stream, socket, stage, shut, closing, faults>>
  BY DEF ClientInv, HandleEvent
<1>2. /\ Tail(events) \in Seq(News) /\ Len(events) \in Nat /\ Len(events) > 0
      /\ Len(Tail(events)) = Len(events) - 1
      /\ \A i \in 1..Len(Tail(events)) : Tail(events)[i] = events[i + 1]
      /\ Head(events) = events[1]
  BY <1>1, HeadTailProperties, EmptySeq, LenProperties
<1>3. down' = (Head(events) # "reconnect")
  BY DEF HandleEvent, MarkUp, MarkDown
<1>4. WillBeDown' = WillBeDown
  <2>1. CASE Tail(events) = <<>>
    <3>1. Len(events) = 1
      <4>1. Len(Tail(events)) = 0
        BY <2>1, EmptySeq
      <4>2. Len(events) \in Nat /\ Len(Tail(events)) = Len(events) - 1
        BY <1>2
      <4> QED BY <4>1, <4>2
    <3> QED BY <1>1, <1>2, <1>3, <2>1, <3>1 DEF WillBeDown
  <2>2. CASE Tail(events) # <<>>
    <3>1. Len(Tail(events)) \in Nat /\ Len(Tail(events)) > 0
      BY <1>2, <2>2, EmptySeq
    <3>2. Tail(events)[Len(Tail(events))] = events[Len(events)]
      BY <1>2, <3>1
    <3> QED BY <1>1, <2>2, <3>2 DEF WillBeDown
  <2> QED BY <2>1, <2>2
<1> QED BY <1>1, <1>2, <1>4 DEF ClientInv, Stopping, InService

\* The client library tells of a connection it lost or restored.
LEMMA ToldInv ==
  ASSUME ClientInv, NoticesLoss \/ Reconnects
  PROVE  ClientInv'
<1>1. UNCHANGED <<breaker, link, stream, stage, shut, closing, faults>>
  BY DEF NoticesLoss, Reconnects
<1>2. PICK news \in Seq(News) :
        /\ news # <<>> /\ events' = (IF InService THEN events \o news ELSE events)
        /\ news[Len(news)] # "reconnect" <=> socket' = "lost"
  <2>1. CASE NoticesLoss
    <3>1. CASE Told(<<"disconnect">>)
      <4>1. <<"disconnect">> \in Seq(News) /\ <<"disconnect">> # <<>>
            /\ <<"disconnect">>[Len(<<"disconnect">>)] = "disconnect"
        BY DEF News
      <4> QED BY <2>1, <3>1, <4>1 DEF NoticesLoss, Told
    <3>2. CASE Told(<<"staleConnection", "disconnect">>)
      <4>1. <<"staleConnection", "disconnect">> \in Seq(News)
            /\ <<"staleConnection", "disconnect">> # <<>>
            /\ <<"staleConnection", "disconnect">>[Len(<<"staleConnection", "disconnect">>)]
                 = "disconnect"
        BY DEF News
      <4> QED BY <2>1, <3>2, <4>1 DEF NoticesLoss, Told
    <3> QED BY <2>1, <3>1, <3>2 DEF NoticesLoss
  <2>2. CASE Reconnects
    <3>1. <<"reconnect">> \in Seq(News) /\ <<"reconnect">> # <<>>
          /\ <<"reconnect">>[Len(<<"reconnect">>)] = "reconnect"
      BY DEF News
    <3> QED BY <2>2, <3>1 DEF Reconnects, Told
  <2> QED BY <2>1, <2>2
<1>3. CASE InService
  <2>1. events' = events \o news /\ events \in Seq(News)
    BY <1>2, <1>3 DEF ClientInv
  <2>2. events' \in Seq(News) /\ events' # <<>> /\ events'[Len(events')] = news[Len(news)]
    BY <2>1, <1>2, LastOfNews
  <2>3. WillBeDown' <=> socket' = "lost"
    BY <1>2, <2>2 DEF WillBeDown
  <2> QED BY <1>1, <1>3, <2>2, <2>3 DEF ClientInv, Stopping, InService
<1>4. CASE ~InService
  BY <1>1, <1>2, <1>4 DEF ClientInv, Stopping, InService, breaker
<1> QED BY <1>3, <1>4

\* The other steps leave the queue of events alone until the shutdown.
LEMMA OtherClientInv ==
  ASSUME ClientInv,
         \/ LinkDrops \/ LinkReturns \/ BeginAttempt \/ SetupStep \/ Cools
         \/ \E c \in Calls : CallStarts(c) \/ CallOver(c)
         \/ Signal \/ CloseBegins \/ DrainEnds \/ StepEnds \/ StepFails
         \/ UNCHANGED allVars
  PROVE  ClientInv'
<1>1. CASE UNCHANGED allVars
  BY <1>1 DEF allVars, client, breaker, ClientInv, Stopping, InService, WillBeDown
<1>2. CASE LinkDrops \/ LinkReturns
  BY <1>2 DEF LinkDrops, LinkReturns, breaker, ClientInv, Stopping, InService, WillBeDown
<1>3. CASE BeginAttempt \/ Connected \/ StreamInfo \/ StreamAdd \/ StreamUpdate
  BY <1>3 DEF BeginAttempt, Connected, StreamInfo, StreamAdd, StreamUpdate, breaker,
              ClientInv, Stopping, InService, WillBeDown
<1>4. CASE Attach
  <2>1. /\ stage = "bucket" /\ stage' = "served" /\ down' = FALSE /\ socket = "open"
        /\ UNCHANGED <<socket, events, shut, closing>>
    BY <1>4 DEF Attach, Answered, MarkUp
  <2> QED BY <2>1 DEF ClientInv, Stopping, InService, WillBeDown
<1>5. CASE Cools \/ \E c \in Calls : CallStarts(c) \/ CallOver(c)
  <2>1. down' = down /\ UNCHANGED client
    BY <1>5 DEF Cools, CoolDownEnds, CallStarts, CallOver, CallAnswered, CallTimesOut, Start, Succeed,
                Reject, FailOutage, Finish
  <2> QED BY <2>1 DEF client, ClientInv, Stopping, InService, WillBeDown
<1>6. CASE Signal \/ CloseBegins \/ DrainEnds \/ StepEnds \/ StepFails
  <2>1. shut' \in Nat /\ shut' # 0
    <3>1. CASE Signal
      BY <3>1 DEF Signal
    <3>2. CASE CloseBegins
      BY <3>2 DEF CloseBegins, InStep, Steps, ClientInv
    <3>3. CASE DrainEnds
      BY <3>3 DEF DrainEnds, ClientInv, Stopping
    <3>4. CASE StepEnds \/ StepFails
      BY <3>4 DEF StepEnds, StepFails, ClientInv
    <3> QED BY <1>6, <3>1, <3>2, <3>3, <3>4
  <2>2. events' \in Seq(News)
    <3>1. <<>> \in Seq(News)
      BY EmptySeq
    <3> QED BY <1>6, <3>1 DEF Signal, CloseBegins, DrainEnds, StepEnds, StepFails, ClientInv
  <2> QED BY <2>1, <2>2 DEF ClientInv, Stopping
<1>7. CASE AttemptFails
  <2>1. /\ stage # "served" /\ stage' = "waiting"
        /\ UNCHANGED <<down, socket, events, shut, closing>>
    BY <1>7 DEF AttemptFails, SetupFails, breaker
  <2> QED BY <2>1 DEF ClientInv, Stopping, InService, WillBeDown
<1> QED BY <1>1, <1>2, <1>3, <1>4, <1>5, <1>6, <1>7 DEF SetupStep

\* The invariant of the connection holds in every state of the process.
THEOREM ClientInvariance == ClientSpec => []ClientInv
<1>1. ClientInit => ClientInv
  <2>1. <<>> \in Seq(News)
    BY EmptySeq
  <2> QED BY <2>1 DEF ClientInit, Init, ClientInv, InService, Stopping
<1>2. ClientInv /\ [ClientNext]_allVars => ClientInv'
  BY HandleEventInv, ToldInv, OtherClientInv DEF ClientNext
<1> QED BY <1>1, <1>2, PTL DEF ClientSpec

\* With all events handled and no shutdown the breaker is down exactly while
\* the connection in service is lost, or none is in service (nats.ts).
THEOREM FollowsConnection == ClientSpec => []BreakerFollowsConnection
<1>1. ClientInv => BreakerFollowsConnection
  BY DEF ClientInv, BreakerFollowsConnection, WillBeDown
<1> QED BY <1>1, ClientInvariance, PTL
-----------------------------------------------------------------------------
(***************************************************************************)
(* The database file and its copies.                                       *)
(***************************************************************************)

\* What a nonempty finite set S has, when each of its parts that has it can get
\* one more element: a greatest, and a least element.
LEMMA FiniteHasGreatest ==
  ASSUME NEW S \in SUBSET Nat, IsFiniteSet(S), S # {}
  PROVE  \E x \in S : \A y \in S : y <= x
<1> DEFINE Bad == {T \in SUBSET S : T # {} /\ ~(\E x \in T : \A y \in T : y <= x)}
<1> SUFFICES ASSUME Bad # {}
             PROVE  FALSE
  OBVIOUS
<1>1. Bad \subseteq FiniteSubsetsOf(S)
  BY FS_Subset DEF FiniteSubsetsOf
<1>2. PICK T \in Bad : \A U \in Bad : ~(<<U, T>> \in StrictSubsetOrdering(S))
  <2> HIDE DEF Bad
  <2> QED BY <1>1, FS_StrictSubsetOrderingWellFounded, WFMin
<1>3. PICK x \in T : TRUE
  OBVIOUS
<1>4. T \ {x} \notin Bad
  BY <1>2, <1>3 DEF StrictSubsetOrdering
<1>5. T \subseteq Nat /\ x \in Nat
  OBVIOUS
<1>6. CASE T \ {x} = {}
  BY <1>5, <1>6
<1>7. CASE T \ {x} # {}
  <2>1. PICK z \in T \ {x} : \A y \in T \ {x} : y <= z
    BY <1>4, <1>7
  <2>2. CASE x <= z
    BY <1>5, <2>1, <2>2
  <2>3. CASE z <= x
    BY <1>5, <2>1, <2>3
  <2> QED BY <1>5, <2>1, <2>2, <2>3
<1> QED BY <1>6, <1>7

LEMMA FiniteHasLeast ==
  ASSUME NEW S \in SUBSET Nat, IsFiniteSet(S), S # {}
  PROVE  \E x \in S : \A y \in S : x <= y
<1> DEFINE Bad == {T \in SUBSET S : T # {} /\ ~(\E x \in T : \A y \in T : x <= y)}
<1> SUFFICES ASSUME Bad # {}
             PROVE  FALSE
  OBVIOUS
<1>1. Bad \subseteq FiniteSubsetsOf(S)
  BY FS_Subset DEF FiniteSubsetsOf
<1>2. PICK T \in Bad : \A U \in Bad : ~(<<U, T>> \in StrictSubsetOrdering(S))
  <2> HIDE DEF Bad
  <2> QED BY <1>1, FS_StrictSubsetOrderingWellFounded, WFMin
<1>3. PICK x \in T : TRUE
  OBVIOUS
<1>4. T \ {x} \notin Bad
  BY <1>2, <1>3 DEF StrictSubsetOrdering
<1>5. T \subseteq Nat /\ x \in Nat
  OBVIOUS
<1>6. CASE T \ {x} = {}
  BY <1>5, <1>6
<1>7. CASE T \ {x} # {}
  <2>1. PICK z \in T \ {x} : \A y \in T \ {x} : z <= y
    BY <1>4, <1>7
  <2>2. CASE z <= x
    BY <1>5, <2>1, <2>2
  <2>3. CASE x <= z
    BY <1>5, <2>1, <2>3
  <2> QED BY <1>5, <2>1, <2>2, <2>3
<1> QED BY <1>6, <1>7

LEMMA MaxIsIn ==
  ASSUME NEW S \in SUBSET Nat, IsFiniteSet(S), S # {}
  PROVE  Max(S) \in S /\ \A y \in S : y <= Max(S)
BY FiniteHasGreatest DEF Max

LEMMA MinIsIn ==
  ASSUME NEW S \in SUBSET Nat, S # {}
  PROVE  Min(S) \in S
<1>1. PICK n \in S : TRUE
  OBVIOUS
<1> DEFINE T == {y \in S : y <= n}
<1>2. IsFiniteSet(T)
  BY FS_BoundedSetOfNaturals
<1>3. n \in T
  OBVIOUS
<1>4. PICK x \in T : \A y \in T : x <= y
  BY <1>2, <1>3, FiniteHasLeast
<1>5. x \in S /\ \A y \in S : x <= y
  BY <1>4
<1> QED BY <1>5 DEF Min

-----------------------------------------------------------------------------
Locals == [pc: Places, release: SUBSET Nat, pending: SUBSET Nat, first: Nat, safe: Nat]

\* Who writes a copy writes one file, and it is the one of this start; nobody
\* else has one in hand, and what is old is in nobody's hand.
OneWriter ==
  /\ \A p \in Servers :
       IF In(p, "check copy")
       THEN \E f \in partials :
              Mine(p) = {f} /\ (f.name.kind = "before" => f.name.of = server[p].first)
       ELSE Mine(p) = {}
  /\ \A f \in partials : f.old => f.by = NoServer

\* What is in the database is recorded there, what is in a copy was in the
\* database, and there is one copy of a name.
HeldOnce ==
  /\ schema = recorded
  /\ \A f \in copies \cup partials : f.schema \subseteq schema
  /\ \A c \in copies : ~c.tokens
  /\ \A c, o \in copies : c.name = o.name => c = o

\* Of the copies before m taken at n or later one is there, or as many of all
\* kinds of migrations as are kept.
Since(n) == {c \in OfKind("before") : c.name.at >= n}

Covered(m, n) ==
  \/ \E c \in BeforeCopiesOf(m) : c.name.at >= n
  \/ Cardinality(Since(n)) >= BeforeKeep

\* A start has in hand what its release brings and is not recorded, and the
\* copy it relies on, if any, is covered.
StartOf(p) ==
  /\ ~In(p, "down") => server[p].release \subseteq recorded \cup server[p].pending
  /\ In(p, "serving") => server[p].pending = {}
  /\ server[p].safe # 0 => Covered(server[p].first, server[p].safe)

\* The inductive invariant.
FilesInv == FilesTypeOK /\ OneWriter /\ HeldOnce /\ (\A p \in Servers : StartOf(p))

\* The other processes are where they were.
OnlyMoves(p) ==
  server' \in [Servers -> Locals] /\ (\A q \in Servers : q # p => server'[q] = server[q])

LEMMA MovesTo ==
  ASSUME FilesInv, NEW p \in Servers, NEW pc \in Places, Goto(p, pc)
  PROVE  OnlyMoves(p) /\ server'[p] = [server[p] EXCEPT !.pc = pc]
BY DEF FilesInv, FilesTypeOK, Goto, OnlyMoves, Locals

LEMMA StopCounts ==
  ASSUME FilesInv, Stop
  PROVE  stops' \in 0..MaxStops
<1>1. stops \in Nat /\ MaxStops \in Nat /\ stops < MaxStops /\ stops' = stops + 1
  BY FilesAssumption DEF FilesInv, FilesTypeOK, Stop
<1> QED BY <1>1

\* A step of a start that leaves the directory alone keeps the invariant when
\* what it puts in its own place is in order.
LEMMA StartMoves ==
  ASSUME FilesInv, NEW p \in Servers, OnlyMoves(p), UNCHANGED <<dirVars, day>>,
         ~In(p, "check copy"), ~In(p, "check copy")',
         schema \subseteq schema', schema' \subseteq Nat, schema' = recorded',
         tokens' \in BOOLEAN, stops' \in 0..MaxStops, StartOf(p)'
  PROVE  FilesInv'
<1>1. FilesTypeOK'
  BY DEF FilesInv, FilesTypeOK, OnlyMoves, Locals, dirVars
<1>2. OneWriter'
  <2>1. \A q : Mine(q)' = Mine(q)
    BY DEF Mine, dirVars
  <2>2. \A q \in Servers : In(q, "check copy")' <=> In(q, "check copy")
    BY DEF In, OnlyMoves
  <2>3. \A q \in Servers : In(q, "check copy") => q # p /\ server'[q] = server[q]
    BY DEF In, OnlyMoves
  <2> QED BY <2>1, <2>2, <2>3 DEF FilesInv, OneWriter, dirVars
<1>3. HeldOnce'
  BY DEF FilesInv, HeldOnce, dirVars
<1>4. \A q \in Servers : StartOf(q)'
  <2> SUFFICES ASSUME NEW q \in Servers, q # p PROVE StartOf(q)'
    OBVIOUS
  <2>1. server'[q] = server[q] /\ StartOf(q) /\ schema = recorded /\ copies' = copies
    BY DEF FilesInv, HeldOnce, OnlyMoves, dirVars
  <2>2. \A m, n : Covered(m, n) => Covered(m, n)'
    BY <2>1 DEF Covered, Since, OfKind, BeforeCopiesOf
  <2> QED BY <2>1, <2>2 DEF StartOf, In
<1> QED BY <1>1, <1>2, <1>3, <1>4 DEF FilesInv

LEMMA StartsInv ==
  ASSUME FilesInv, NEW p \in Servers, NEW release \in Releases, Starts(p, release)
  PROVE  FilesInv'
<1> DEFINE outstanding == release \ recorded
<1>1. release \subseteq Nat /\ outstanding \subseteq Nat /\ recorded \subseteq Nat
  BY FilesAssumption DEF FilesInv, FilesTypeOK
<1>2. PICK first : first = IF outstanding = {} THEN 0 ELSE Min(outstanding)
  OBVIOUS
<1>3. first \in Nat
  BY <1>1, <1>2, MinIsIn
<1>4. PICK pc \in {"check", "migrate"} :
        server' = [server EXCEPT ![p] =
          [pc |-> pc, release |-> release, pending |-> outstanding, first |-> first, safe |-> 0]]
  BY <1>2 DEF Starts
<1> HIDE DEF outstanding
<1>5. server'[p] = [pc |-> pc, release |-> release, pending |-> outstanding, first |-> first, safe |-> 0]
      /\ server'[p] \in Locals /\ OnlyMoves(p)
  BY <1>1, <1>3, <1>4 DEF FilesInv, FilesTypeOK, OnlyMoves, Locals, Places
<1>6. StartOf(p)'
  BY <1>5 DEF StartOf, In, outstanding, Starts, dbVars
<1> QED BY <1>5, <1>6, StartMoves DEF Starts, In, FilesInv, FilesTypeOK, HeldOnce, dbVars, dirVars

LEMMA LooksForCopyInv ==
  ASSUME FilesInv, NEW p \in Servers, LooksForCopy(p)
  PROVE  FilesInv'
<1>1. copies' = copies /\ UNCHANGED <<schema, recorded, tokens, dirVars, day, stops>>
  BY DEF LooksForCopy, dbVars, dirVars
<1>2. \A m, n : Covered(m, n) <=> Covered(m, n)'
  BY <1>1 DEF Covered, Since, OfKind, BeforeCopiesOf
<1>3. OnlyMoves(p) /\ StartOf(p)' /\ ~In(p, "check copy")'
  <2>1. CASE Goto(p, "copy")
    <3>1. OnlyMoves(p) /\ server'[p] = [server[p] EXCEPT !.pc = "copy"] /\ server[p] \in Locals
      BY <2>1, MovesTo DEF Places, FilesInv, FilesTypeOK, Locals
    <3>2. StartOf(p) /\ In(p, "check")
      BY DEF FilesInv, LooksForCopy
    <3> QED BY <1>1, <1>2, <3>1, <3>2 DEF StartOf, In, Locals
  <2>2. ASSUME NEW c \in BeforeCopiesOf(server[p].first),
               server' = [server EXCEPT ![p].pc = "migrate", ![p].safe = c.name.at]
        PROVE  OnlyMoves(p) /\ StartOf(p)' /\ ~In(p, "check copy")'
    <3>1. c \in copies /\ c \in Files /\ c.name.at \in Nat
      BY DEF FilesInv, FilesTypeOK, BeforeCopiesOf, OfKind, Files, Names
    <3>2. server[p] \in Locals /\ StartOf(p) /\ In(p, "check") /\ server \in [Servers -> Locals]
      BY DEF FilesInv, FilesTypeOK, LooksForCopy, Locals
    <3>3. /\ server'[p].pc = "migrate" /\ server'[p].safe = c.name.at
          /\ server'[p].release = server[p].release /\ server'[p].pending = server[p].pending
          /\ server'[p].first = server[p].first
          /\ OnlyMoves(p)
      BY <2>2, <3>1, <3>2 DEF Locals, Places, OnlyMoves
    <3>4. Covered(server[p].first, c.name.at)
      BY <3>1 DEF Covered
    <3> QED BY <1>1, <1>2, <3>2, <3>3, <3>4 DEF StartOf, In
  <2> QED BY <2>1, <2>2 DEF LooksForCopy
<1> QED BY <1>1, <1>3, StartMoves DEF LooksForCopy, In, FilesInv, FilesTypeOK, HeldOnce

LEMMA MigrateInv ==
  ASSUME FilesInv, NEW p \in Servers, Migrate(p)
  PROVE  FilesInv'
<1>1. server[p] \in Locals /\ server \in [Servers -> Locals] /\ schema = recorded
      /\ schema \subseteq Nat /\ StartOf(p)
  BY DEF FilesInv, FilesTypeOK, HeldOnce, Locals
<1>2. PICK m : m = Min(server[p].pending)
  OBVIOUS
<1>3. m \in server[p].pending /\ m \in Nat
  BY <1>1, <1>2, MinIsIn DEF Migrate, Locals
<1>4. /\ schema' = schema \cup {m} /\ recorded' = recorded \cup {m}
      /\ server' = [server EXCEPT ![p].pending = @ \ {m}, ![p].first = 0, ![p].safe = 0]
      /\ tokens' \in BOOLEAN /\ server[p].pc = "migrate"
      /\ UNCHANGED <<dirVars, day, stops>>
  BY <1>2 DEF Migrate, Migrated, In
<1>5. /\ server'[p].pc = "migrate" /\ server'[p].release = server[p].release
      /\ server'[p].pending = server[p].pending \ {m} /\ server'[p].safe = 0
      /\ OnlyMoves(p)
  BY <1>1, <1>4 DEF Locals, OnlyMoves
<1>6. StartOf(p)'
  BY <1>1, <1>4, <1>5 DEF StartOf, In
<1> QED BY <1>1, <1>3, <1>4, <1>5, <1>6, StartMoves DEF In, FilesInv, FilesTypeOK

\* A process that ends while it starts, comes into service or writes a token.
LEMMA OtherStartInv ==
  ASSUME FilesInv, NEW p \in Servers, MigrationFails(p) \/ Serve(p) \/ WritesToken(p)
  PROVE  FilesInv'
<1>1. server[p] \in Locals /\ server \in [Servers -> Locals] /\ schema = recorded
      /\ schema \subseteq Nat /\ StartOf(p) /\ tokens \in BOOLEAN /\ stops \in 0..MaxStops
      /\ MaxStops \in Nat
  BY FilesAssumption DEF FilesInv, FilesTypeOK, HeldOnce, Locals
<1>2. /\ UNCHANGED <<schema, recorded, dirVars, day>> /\ tokens' \in BOOLEAN
      /\ ~In(p, "check copy")
  BY <1>1 DEF MigrationFails, Serve, WritesToken, dbVars, dirVars, In
<1>7. stops' \in 0..MaxStops
  BY <1>1, StopCounts DEF MigrationFails, Serve, WritesToken
<1>3. OnlyMoves(p) /\ StartOf(p)' /\ ~In(p, "check copy")'
  <2>1. CASE MigrationFails(p)
    <3>1. server'[p] = Down /\ OnlyMoves(p)
      BY <1>1, <2>1 DEF MigrationFails, Down, Locals, Places, OnlyMoves
    <3> QED BY <3>1 DEF StartOf, In, Down
  <2>2. CASE Serve(p)
    <3>1. server'[p] = [Down EXCEPT !.pc = "serving", !.release = server[p].release] /\ OnlyMoves(p)
      BY <1>1, <2>2 DEF Serve, Down, Locals, Places, OnlyMoves
    <3>2. server'[p].pc = "serving" /\ server'[p].release = server[p].release
          /\ server'[p].pending = {} /\ server'[p].safe = 0
      BY <3>1 DEF Down
    <3>3. server[p].release \subseteq recorded
      BY <1>1, <2>2 DEF StartOf, In, Serve
    <3> QED BY <1>2, <3>1, <3>2, <3>3 DEF StartOf, In
  <2>3. CASE WritesToken(p)
    <3>1. server' = server /\ copies' = copies
      BY <2>3 DEF WritesToken, dirVars
    <3> QED BY <1>1, <1>2, <2>3, <3>1 DEF StartOf, In, OnlyMoves, WritesToken,
               Covered, Since, OfKind, BeforeCopiesOf
  <2> QED BY <2>1, <2>2, <2>3
<1> QED BY <1>1, <1>2, <1>3, <1>7, StartMoves

LEMMA FiniteImage ==
  ASSUME NEW S, NEW T, NEW F \in [S -> T], IsFiniteSet(S)
  PROVE  IsFiniteSet({F[x] : x \in S})
<1> DEFINE R == {F[x] : x \in S}
<1>1. F \in Surjection(S, R)
  BY DEF Surjection
<1> QED BY <1>1, FS_Surjection

\* The stamps are seconds.
LEMMA StampsAreNat ==
  ASSUME FilesInv
  PROVE  Stamps \subseteq Nat
<1> DEFINE B == {g \in copies \cup partials : g.name.kind = "before"}
           F == [f \in B |-> f.name.at]
           T == {1} \cup {f.name.at : f \in B}
<1>1. copies \subseteq Files /\ partials \subseteq Partials /\ IsFiniteSet(copies) /\ IsFiniteSet(partials)
  BY DEF FilesInv, FilesTypeOK
<1>2. \A f \in B : f.name.at \in Nat
  BY <1>1 DEF Files, Partials, Names
<1>3. IsFiniteSet(B)
  BY <1>1, FS_Union, FS_Subset
<1>4. {F[f] : f \in B} = {f.name.at : f \in B} /\ F \in [B -> Nat]
  BY <1>2
<1>5. IsFiniteSet({f.name.at : f \in B})
  <2>1. F \in [B -> Nat]
    BY <1>4
  <2> HIDE DEF F, B
  <2>2. IsFiniteSet({F[f] : f \in B})
    BY <1>3, <2>1, FiniteImage
  <2> QED BY <1>4, <2>2
<1>6. IsFiniteSet(T)
  BY <1>5, FS_Singleton, FS_Union
<1>7. T \in SUBSET Nat /\ T # {}
  BY <1>2
<1>8. PICK last \in Nat : last = Max(T)
  BY <1>6, <1>7, MaxIsIn
<1>9. Stamps = {last, last + 1}
  BY <1>8 DEF Stamps
<1> QED BY <1>9

\* A process that begins a copy becomes the one writer of one file.
LEMMA CopyInv ==
  ASSUME FilesInv, NEW p \in Servers, NEW name \in Names, Copy(p, name),
         ~In(p, "check copy"), ~In(p, "down"), name.kind = "before" => name.of = server[p].first,
         tokens' \in BOOLEAN
  PROVE  FilesInv'
<1>1. PICK f : f = [name |-> name, schema |-> schema, tokens |-> tokens', by |-> p, old |-> FALSE]
  OBVIOUS
<1>2. /\ partials' = partials \cup {f} /\ OnlyMoves(p)
      /\ server'[p] = [server[p] EXCEPT !.pc = "check copy"] /\ server[p] \in Locals
      /\ schema' = schema /\ recorded' = recorded /\ copies' = copies /\ UNCHANGED <<day, stops>>
  BY <1>1, MovesTo DEF Copy, Places, FilesInv, FilesTypeOK, Locals
<1>3. f \in Partials /\ f.by = p /\ ~f.old /\ f.name = name /\ f.schema = schema
  BY <1>1 DEF Partials, FilesInv, FilesTypeOK
<1>4. IsFiniteSet(partials')
  BY <1>2, FS_AddElement DEF FilesInv, FilesTypeOK
<1>5. FilesTypeOK'
  BY <1>2, <1>3, <1>4 DEF FilesInv, FilesTypeOK, OnlyMoves, Locals
<1>6. OneWriter'
  <2>1. Mine(p) = {} /\ \A q \in Servers : q # p => Mine(q)' = Mine(q)
    BY <1>2, <1>3 DEF FilesInv, OneWriter, Mine
  <2>2. f \in partials' /\ \A g : g \in Mine(p)' <=> g = f
    BY <1>2, <1>3, <2>1 DEF Mine
  <2>3. \A q \in Servers : q # p => (In(q, "check copy")' <=> In(q, "check copy")) /\ server'[q] = server[q]
    BY <1>2 DEF In, OnlyMoves
  <2>4. In(p, "check copy")' /\ server'[p].first = server[p].first
    BY <1>2 DEF In, Locals
  <2>5. Mine(p)' = {f}
    BY <2>2
  <2>6. \A g \in partials' : g.old => g.by = NoServer
    BY <1>2, <1>3 DEF FilesInv, OneWriter
  <2>7. ASSUME NEW q \in Servers, q # p
        PROVE  IF In(q, "check copy")'
               THEN \E g \in partials' :
                      Mine(q)' = {g} /\ (g.name.kind = "before" => g.name.of = server'[q].first)
               ELSE Mine(q)' = {}
    <3>1. /\ Mine(q)' = Mine(q) /\ (In(q, "check copy")' <=> In(q, "check copy"))
          /\ server'[q] = server[q] /\ partials \subseteq partials'
      BY <1>2, <2>1, <2>3, <2>7
    <3>2. IF In(q, "check copy")
          THEN \E g \in partials :
                 Mine(q) = {g} /\ (g.name.kind = "before" => g.name.of = server[q].first)
          ELSE Mine(q) = {}
      BY DEF FilesInv, OneWriter
    <3>3. CASE In(q, "check copy")
      <4>1. PICK g \in partials :
              Mine(q) = {g} /\ (g.name.kind = "before" => g.name.of = server[q].first)
        BY <3>2, <3>3
      <4>2. g \in partials' /\ Mine(q)' = {g} /\ server'[q].first = server[q].first
        BY <3>1, <4>1
      <4> QED BY <3>1, <3>3, <4>1, <4>2
    <3>4. CASE ~In(q, "check copy")
      BY <3>1, <3>2, <3>4
    <3> QED BY <3>3, <3>4
  <2>8. \E g \in partials' :
          Mine(p)' = {g} /\ (g.name.kind = "before" => g.name.of = server'[p].first)
    BY <1>3, <2>2, <2>4, <2>5
  <2> QED BY <2>4, <2>6, <2>7, <2>8 DEF OneWriter
<1>7. HeldOnce'
  BY <1>2, <1>3 DEF FilesInv, HeldOnce
<1>8. \A q \in Servers : StartOf(q)'
  <2>1. \A m, n : Covered(m, n) => Covered(m, n)'
    BY <1>2 DEF Covered, Since, OfKind, BeforeCopiesOf
  <2>2. \A q \in Servers : q # p => server'[q] = server[q]
    BY <1>2 DEF OnlyMoves
  <2>3. /\ server'[p].release = server[p].release /\ server'[p].pending = server[p].pending
        /\ server'[p].first = server[p].first /\ server'[p].safe = server[p].safe
        /\ server'[p].pc = "check copy"
    BY <1>2 DEF Locals
  <2>4. StartOf(p)'
    BY <1>2, <2>1, <2>3 DEF StartOf, In, FilesInv
  <2> QED BY <1>2, <2>1, <2>2, <2>4 DEF StartOf, In, FilesInv
<1> QED BY <1>5, <1>6, <1>7, <1>8 DEF FilesInv

LEMMA CopyBeforeInv ==
  ASSUME FilesInv, NEW p \in Servers, CopyBefore(p)
  PROVE  FilesInv'
<1>1. PICK at \in Stamps : Copy(p, Before(server[p].first, at))
  BY DEF CopyBefore
<1>2. at \in Nat /\ server[p].first \in Nat
  BY StampsAreNat DEF FilesInv, FilesTypeOK
<1>3. Before(server[p].first, at) \in Names /\ Before(server[p].first, at).of = server[p].first
  BY <1>2 DEF Before, Names
<1>4. tokens' \in BOOLEAN /\ ~In(p, "check copy") /\ ~In(p, "down")
  BY DEF CopyBefore, FilesInv, FilesTypeOK, In
<1> QED BY <1>1, <1>3, <1>4, CopyInv

LEMMA SweepInv ==
  ASSUME FilesInv, NEW p \in Servers, Sweep(p)
  PROVE  FilesInv'
<1>1. tokens' \in BOOLEAN /\ In(p, "serving") /\ ~In(p, "check copy") /\ ~In(p, "down")
  BY DEF Sweep, FilesInv, FilesTypeOK, In
<1>2. CASE \E c \in copies : c.name = Daily(day)
  <2>1. UNCHANGED <<schema, recorded, dirVars, server, day, stops>> /\ copies' = copies
    BY <1>2 DEF Sweep, dirVars
  <2>2. OnlyMoves(p) /\ StartOf(p)'
    BY <2>1 DEF FilesInv, FilesTypeOK, OnlyMoves, Locals, StartOf, In, Covered, Since, OfKind,
                BeforeCopiesOf
  <2> QED BY <1>1, <2>1, <2>2, StartMoves DEF In, FilesInv, FilesTypeOK, HeldOnce
<1>3. CASE ~(\E c \in copies : c.name = Daily(day))
  <2>1. Copy(p, Daily(day)) /\ Daily(day) \in Names /\ Daily(day).kind # "before"
    BY <1>3 DEF Sweep, Daily, Names, FilesInv, FilesTypeOK
  <2> QED BY <1>1, <2>1, CopyInv
<1> QED BY <1>2, <1>3

\* Who is done with its file leaves those of the others alone.
LEMMA HandsOff ==
  ASSUME FilesInv, NEW p \in Servers, OnlyMoves(p), In(p, "check copy"), ~In(p, "check copy")',
         partials' = partials \ Mine(p)
  PROVE  OneWriter' /\ partials' \subseteq partials /\ IsFiniteSet(partials')
<1>1. Mine(p)' = {} /\ \A q \in Servers : q # p => Mine(q)' = Mine(q)
  BY DEF Mine
<1>2. \A q \in Servers : q # p => (In(q, "check copy")' <=> In(q, "check copy")) /\ server'[q] = server[q]
  BY DEF In, OnlyMoves
<1>3. ASSUME NEW q \in Servers, q # p, In(q, "check copy")
      PROVE  \E f \in partials' :
               Mine(q)' = {f} /\ (f.name.kind = "before" => f.name.of = server'[q].first)
  <2>1. PICK f \in partials : Mine(q) = {f} /\ (f.name.kind = "before" => f.name.of = server[q].first)
    BY <1>3 DEF FilesInv, OneWriter
  <2>2. Mine(q)' = {f} /\ server'[q] = server[q]
    BY <1>1, <1>2, <1>3, <2>1
  <2>3. f \in partials'
    BY <2>2 DEF Mine
  <2> QED BY <2>1, <2>2, <2>3
<1>4. \A q \in Servers : q # p /\ ~In(q, "check copy") => Mine(q)' = {}
  BY <1>1 DEF FilesInv, OneWriter
<1>5. OneWriter'
  BY <1>1, <1>2, <1>3, <1>4 DEF FilesInv, OneWriter
<1> QED BY <1>5, FS_Difference DEF FilesInv, FilesTypeOK

LEMMA CopyFailsInv ==
  ASSUME FilesInv, NEW p \in Servers, CopyFails(p)
  PROVE  FilesInv'
<1>1. PICK pc \in {"serving", "migrate"} :
        Goto(p, pc) /\ (pc = "serving" => server[p].pending = {})
  BY DEF CopyFails, AfterCopy
<1>2. OnlyMoves(p) /\ server'[p] = [server[p] EXCEPT !.pc = pc] /\ server[p] \in Locals
  BY <1>1, MovesTo DEF Places, FilesInv, FilesTypeOK, Locals
<1>3. /\ UNCHANGED <<schema, recorded, tokens, copies, day>> /\ In(p, "check copy")
      /\ partials' = partials \ Mine(p) /\ ~In(p, "check copy")'
  BY <1>2 DEF CopyFails, dbVars, In, Locals
<1>4. stops' \in 0..MaxStops
  BY StopCounts DEF CopyFails
<1>5. OneWriter' /\ partials' \subseteq partials /\ IsFiniteSet(partials')
  BY <1>2, <1>3, HandsOff
<1>6. FilesTypeOK'
  BY <1>2, <1>3, <1>4, <1>5 DEF FilesInv, FilesTypeOK, OnlyMoves, Locals
<1>7. HeldOnce'
  BY <1>3, <1>5 DEF FilesInv, HeldOnce
<1>8. \A q \in Servers : StartOf(q)'
  <2>1. \A m, n : Covered(m, n) => Covered(m, n)'
    BY <1>3 DEF Covered, Since, OfKind, BeforeCopiesOf
  <2>2. StartOf(p)'
    BY <1>1, <1>2, <1>3, <2>1 DEF StartOf, In, FilesInv, Locals
  <2> QED BY <1>2, <1>3, <2>1, <2>2 DEF StartOf, In, FilesInv, OnlyMoves
<1> QED BY <1>5, <1>6, <1>7, <1>8 DEF FilesInv

\* A copy that gets its name takes at most the place of one that had it.
LEMMA NamedCovers ==
  ASSUME FilesInv, NEW f \in partials,
         copies' = {c \in copies : c.name # f.name} \cup {Scrub(f)},
         NEW m, NEW n, Covered(m, n)
  PROVE  Covered(m, n)'
<1>1. Scrub(f).name = f.name
  BY DEF Scrub
<1>2. CASE \E c \in BeforeCopiesOf(m) : c.name.at >= n
  BY <1>1, <1>2 DEF Covered, BeforeCopiesOf, OfKind
<1>3. CASE Cardinality(Since(n)) >= BeforeKeep
  <2> DEFINE gone == {c \in Since(n) : c.name = f.name}
             others == Since(n) \ gone
  <2>1. IsFiniteSet(Since(n)) /\ IsFiniteSet(others) /\ IsFiniteSet(Since(n)')
    <3>1. IsFiniteSet(copies) /\ IsFiniteSet({c \in copies : c.name # f.name})
      BY FS_Subset DEF FilesInv, FilesTypeOK
    <3>2. IsFiniteSet(copies')
      BY <3>1, FS_AddElement
    <3>3. Since(n) \subseteq copies /\ (Since(n))' \subseteq copies'
      BY DEF Since, OfKind
    <3> QED BY <3>1, <3>2, <3>3, FS_Subset
  <2>2. others \subseteq (Since(n))'
    BY DEF Since, OfKind
  <2>3. CASE gone = {}
    <3>1. Since(n) \subseteq (Since(n))'
      BY <2>2, <2>3
    <3> QED BY <1>3, <2>1, <3>1, FS_Subset, FS_CardinalityType, FilesAssumption DEF Covered
  <2>4. CASE gone # {}
    <3>1. PICK c \in gone : gone = {c}
      BY <2>4 DEF FilesInv, HeldOnce, Since, OfKind
    <3>2. Scrub(f) \in (Since(n))' /\ Scrub(f) \notin others
      BY <1>1, <3>1 DEF Since, OfKind
    <3>3. Cardinality(others) = Cardinality(Since(n)) - 1
      BY <2>1, <3>1, FS_RemoveElement
    <3>4. others \cup {Scrub(f)} \subseteq (Since(n))' /\ IsFiniteSet(others \cup {Scrub(f)})
          /\ Cardinality(others \cup {Scrub(f)}) = Cardinality(others) + 1
      BY <2>1, <2>2, <3>2, FS_AddElement
    <3>5. Cardinality(others \cup {Scrub(f)}) <= Cardinality(Since(n)')
      BY <2>1, <3>4, FS_Subset
    <3> HIDE DEF others
    <3> QED BY <1>3, <2>1, <3>3, <3>4, <3>5, FS_CardinalityType, FilesAssumption DEF Covered
  <2> QED BY <2>3, <2>4
<1> QED BY <1>2, <1>3 DEF Covered

LEMMA NamedInv ==
  ASSUME FilesInv, NEW p \in Servers, Named(p)
  PROVE  FilesInv'
<1>1. PICK f \in Mine(p) :
        /\ copies' = {c \in copies : c.name # f.name} \cup {Scrub(f)}
        /\ server' = [server EXCEPT ![p].pc = "prune",
                                    ![p].safe = IF f.name.kind = "before" THEN f.name.at ELSE @]
  BY DEF Named
<1>2. f \in partials /\ f \in Partials /\ f.name.at \in Nat /\ f.name \in Names /\ f.schema \in SUBSET Nat
  BY DEF Mine, FilesInv, FilesTypeOK, Partials, Names
<1>3. /\ Scrub(f) \in Files /\ Scrub(f).name = f.name /\ Scrub(f).schema = f.schema
      /\ ~Scrub(f).tokens
  BY <1>2 DEF Scrub, Files
<1>4. server[p] \in Locals /\ server \in [Servers -> Locals] /\ In(p, "check copy") /\ StartOf(p)
  BY DEF FilesInv, FilesTypeOK, Locals, Named
<1>5. /\ server'[p].pc = "prune" /\ server'[p].release = server[p].release
      /\ server'[p].pending = server[p].pending /\ server'[p].first = server[p].first
      /\ server'[p].safe = (IF f.name.kind = "before" THEN f.name.at ELSE server[p].safe)
      /\ OnlyMoves(p)
  BY <1>1, <1>2, <1>4 DEF Locals, Places, OnlyMoves
<1>6. /\ UNCHANGED <<schema, recorded, tokens, day, stops>>
      /\ partials' = partials \ Mine(p) /\ ~In(p, "check copy")'
  BY <1>5 DEF Named, dbVars, In
<1>7. OneWriter' /\ partials' \subseteq partials /\ IsFiniteSet(partials')
  BY <1>4, <1>5, <1>6, HandsOff
<1>8. IsFiniteSet(copies') /\ copies' \subseteq Files
  <2>1. IsFiniteSet({c \in copies : c.name # f.name}) /\ {c \in copies : c.name # f.name} \subseteq Files
    BY FS_Subset DEF FilesInv, FilesTypeOK
  <2> QED BY <1>1, <1>3, <2>1, FS_AddElement
<1>9. FilesTypeOK'
  BY <1>5, <1>6, <1>7, <1>8 DEF FilesInv, FilesTypeOK, OnlyMoves, Locals
<1>10. HeldOnce'
  BY <1>1, <1>2, <1>3, <1>6, <1>7 DEF FilesInv, HeldOnce
<1>11. \A q \in Servers : StartOf(q)'
  <2>1. \A m, n : Covered(m, n) => Covered(m, n)'
    BY <1>1, <1>2, NamedCovers
  <2>2. StartOf(p)'
    <3>1. PICK g \in partials :
            Mine(p) = {g} /\ (g.name.kind = "before" => g.name.of = server[p].first)
      BY <1>4 DEF FilesInv, OneWriter
    <3>2. g = f
      BY <1>1, <3>1
    <3>3. PICK m : m = server[p].first /\ m = server'[p].first
      BY <1>5
    <3>4. CASE f.name.kind = "before"
      <4>1. Scrub(f) \in (BeforeCopiesOf(m))' /\ Scrub(f).name.at >= f.name.at
        BY <1>1, <1>2, <1>3, <3>1, <3>2, <3>3, <3>4 DEF BeforeCopiesOf, OfKind
      <4>2. Covered(m, f.name.at)'
        BY <1>3, <4>1 DEF Covered
      <4> QED BY <1>4, <1>5, <1>6, <3>3, <3>4, <4>2 DEF StartOf, In
    <3>5. CASE f.name.kind # "before"
      BY <1>4, <1>5, <1>6, <2>1, <3>5 DEF StartOf, In
    <3> QED BY <3>4, <3>5
  <2> QED BY <1>5, <1>6, <2>1, <2>2 DEF StartOf, In, FilesInv, OnlyMoves
<1> QED BY <1>7, <1>9, <1>10, <1>11 DEF FilesInv

\* What goes is older than all that stays, so either it is none of those since
\* n, or what stays is since n, and as many as are kept.
LEMMA PruneCovers ==
  ASSUME FilesInv, NEW K \in Newest(OfKind("before"), BeforeKeep),
         copies' = OfKind("daily") \cup K, NEW m, NEW n \in Nat, Covered(m, n)
  PROVE  Covered(m, n)'
<1> DEFINE B == OfKind("before")
<1>1. IsFiniteSet(B) /\ B \subseteq copies /\ copies \subseteq Files
  BY FS_Subset DEF OfKind, FilesInv, FilesTypeOK
<1>2. /\ K \subseteq B /\ \A k \in K, o \in B \ K : ~(k.name.at < o.name.at)
      /\ Cardinality(K) = (IF BeforeKeep < Cardinality(B) THEN BeforeKeep ELSE Cardinality(B))
  BY DEF Newest, Kept
<1>3. (OfKind("before"))' = K
  BY <1>2 DEF OfKind
<1>4. (BeforeCopiesOf(m))' = {c \in K : c.name.of = m} /\ (Since(n))' = {c \in K : c.name.at >= n}
  BY <1>3 DEF BeforeCopiesOf, Since
<1>5. CASE Since(n) \subseteq K
  <2>1. (Since(n))' = Since(n)
    BY <1>2, <1>4, <1>5 DEF Since
  <2>2. \A c \in BeforeCopiesOf(m) : c.name.at >= n => c \in (BeforeCopiesOf(m))'
    BY <1>4, <1>5 DEF BeforeCopiesOf, Since
  <2> QED BY <2>1, <2>2 DEF Covered
<1>6. ASSUME NEW o \in Since(n), o \notin K
      PROVE  Covered(m, n)'
  <2>1. \A c \in B : c.name.at \in Nat
    BY <1>1 DEF Files, Names
  <2>2. o \in B /\ o.name.at \in Nat /\ o.name.at >= n
    BY <2>1 DEF Since
  <2>3. \A k \in K : k.name.at >= n
    BY <1>2, <1>6, <2>1, <2>2
  <2>4. (Since(n))' = K
    BY <1>4, <2>3
  <2>5. Cardinality(K) = BeforeKeep
    <3>1. CASE BeforeKeep < Cardinality(B)
      BY <1>2, <3>1
    <3>2. CASE ~(BeforeKeep < Cardinality(B))
      BY <1>1, <1>2, <1>6, <2>2, <3>2, FS_Subset
    <3> QED BY <3>1, <3>2
  <2> QED BY <2>4, <2>5, FilesAssumption DEF Covered
<1> QED BY <1>5, <1>6

LEMMA PruneInv ==
  ASSUME FilesInv, NEW p \in Servers, Prune(p)
  PROVE  FilesInv'
<1>1. PICK pc \in {"serving", "migrate"} :
        Goto(p, pc) /\ (pc = "serving" => server[p].pending = {})
  BY DEF Prune, AfterCopy
<1>2. OnlyMoves(p) /\ server'[p] = [server[p] EXCEPT !.pc = pc] /\ server[p] \in Locals
  BY <1>1, MovesTo DEF Places, FilesInv, FilesTypeOK, Locals
<1>3. /\ UNCHANGED <<schema, recorded, tokens, day, stops>> /\ ~In(p, "check copy")
      /\ partials' \in {partials, {f \in partials : ~f.old}} /\ ~In(p, "check copy")'
  BY <1>2 DEF Prune, dbVars, In, Locals
<1>4. copies' \subseteq copies
  BY DEF Prune, Newest, Kept, OfKind
<1>5. IsFiniteSet(copies') /\ IsFiniteSet(partials') /\ partials' \subseteq partials
  BY <1>3, <1>4, FS_Subset DEF FilesInv, FilesTypeOK
<1>6. OneWriter'
  <2>1. \A q \in Servers : Mine(q)' = Mine(q)
    BY <1>3, FilesAssumption DEF FilesInv, OneWriter, Mine
  <2>2. \A q \in Servers : (In(q, "check copy")' <=> In(q, "check copy"))
                            /\ (In(q, "check copy") => server'[q] = server[q])
    BY <1>2, <1>3 DEF In, OnlyMoves
  <2>3. ASSUME NEW q \in Servers, In(q, "check copy")
        PROVE  \E f \in partials' :
                 Mine(q)' = {f} /\ (f.name.kind = "before" => f.name.of = server'[q].first)
    <3>1. PICK f \in partials : Mine(q) = {f} /\ (f.name.kind = "before" => f.name.of = server[q].first)
      BY <2>3 DEF FilesInv, OneWriter
    <3>2. Mine(q)' = {f} /\ server'[q] = server[q]
      BY <2>1, <2>2, <2>3, <3>1
    <3>3. f \in partials'
      BY <3>2 DEF Mine
    <3> QED BY <3>1, <3>2, <3>3
  <2>4. \A q \in Servers : ~In(q, "check copy") => Mine(q)' = {}
    BY <2>1 DEF FilesInv, OneWriter
  <2>5. \A f \in partials' : f.old => f.by = NoServer
    BY <1>5 DEF FilesInv, OneWriter
  <2> QED BY <2>2, <2>3, <2>4, <2>5 DEF OneWriter
<1>7. FilesTypeOK'
  BY <1>2, <1>3, <1>4, <1>5 DEF FilesInv, FilesTypeOK, OnlyMoves, Locals
<1>8. HeldOnce'
  BY <1>3, <1>4, <1>5 DEF FilesInv, HeldOnce
<1>9. \A q \in Servers : StartOf(q)'
  <2>1. ASSUME NEW m, NEW n \in Nat, Covered(m, n)
        PROVE  Covered(m, n)'
    <3>1. CASE server[p].pending # {}
      BY <2>1, <3>1, PruneCovers DEF Prune
    <3>2. CASE server[p].pending = {}
      <4>1. OfKind("before")' = OfKind("before")
        BY <3>2 DEF Prune, Newest, Kept, OfKind
      <4> QED BY <2>1, <4>1 DEF Covered, BeforeCopiesOf, Since
    <3> QED BY <3>1, <3>2
  <2>2. \A q \in Servers : server[q].safe \in Nat
    BY DEF FilesInv, FilesTypeOK
  <2>3. StartOf(p)'
    BY <1>1, <1>2, <1>3, <2>1, <2>2 DEF StartOf, In, FilesInv, Locals, Prune
  <2> QED BY <1>2, <1>3, <2>1, <2>2, <2>3 DEF StartOf, In, FilesInv, OnlyMoves
<1> QED BY <1>6, <1>7, <1>8, <1>9 DEF FilesInv

LEMMA EndsInv ==
  ASSUME FilesInv, NEW p \in Servers, Ends(p)
  PROVE  FilesInv'
<1> DEFINE F == [f \in partials |-> IF f.by = p THEN [f EXCEPT !.by = NoServer] ELSE f]
<1>1. \A f \in partials : /\ f \in Partials /\ F[f] \in Partials /\ F[f].schema = f.schema
                           /\ F[f].by = (IF f.by = p THEN NoServer ELSE f.by)
                           /\ F[f].old = f.old /\ (f.by # p => F[f] = f)
  BY DEF FilesInv, FilesTypeOK, Partials
<1>2. /\ partials' = {F[f] : f \in partials} /\ F \in [partials -> Partials]
      /\ UNCHANGED <<schema, recorded, tokens, copies, day>>
  BY <1>1 DEF Ends, dbVars
<1> HIDE DEF F
<1>3. server'[p] = Down /\ OnlyMoves(p)
  BY DEF Ends, Down, Locals, Places, OnlyMoves, FilesInv, FilesTypeOK
<1>4. stops' \in 0..MaxStops
  BY StopCounts DEF Ends
<1>5. IsFiniteSet(partials') /\ partials' \subseteq Partials
  <2>1. F \in [partials -> Partials] /\ IsFiniteSet(partials)
    BY <1>2 DEF FilesInv, FilesTypeOK
  <2>2. IsFiniteSet({F[f] : f \in partials})
    BY <2>1, FiniteImage
  <2> QED BY <1>2, <2>1, <2>2
<1>6. FilesTypeOK'
  BY <1>2, <1>3, <1>4, <1>5 DEF FilesInv, FilesTypeOK, OnlyMoves, Locals
<1>7. HeldOnce'
  BY <1>1, <1>2 DEF FilesInv, HeldOnce
<1>8. OneWriter'
  <2>1. \A q \in Servers : q # p => server'[q] = server[q]
    BY <1>3 DEF OnlyMoves
  <2>2. ASSUME NEW q \in Servers, q # p
        PROVE  Mine(q)' = Mine(q) /\ Mine(q) \subseteq partials'
    <3>1. \A g \in Mine(q) : g \in partials /\ F[g] = g /\ g.by = q
      BY <1>1, <2>2 DEF Mine
    <3>2. \A f \in partials : F[f].by = q => F[f] = f
      BY <1>1, <2>2, FilesAssumption
    <3> QED BY <1>2, <3>1, <3>2 DEF Mine
  <2>3. Mine(p)' = {} /\ ~In(p, "check copy")'
    BY <1>1, <1>2, <1>3, FilesAssumption DEF Mine, In, Down
  <2>4. ASSUME NEW g \in partials', g.old
        PROVE  g.by = NoServer
    <3>1. PICK f \in partials : g = F[f]
      BY <1>2
    <3>2. f.by = NoServer
      BY <1>1, <2>4, <3>1 DEF FilesInv, OneWriter
    <3> QED BY <1>1, <3>1, <3>2
  <2>5. ASSUME NEW q \in Servers, q # p
        PROVE  IF In(q, "check copy")'
               THEN \E f \in partials' :
                      Mine(q)' = {f} /\ (f.name.kind = "before" => f.name.of = server'[q].first)
               ELSE Mine(q)' = {}
    BY <2>1, <2>2, <2>5 DEF FilesInv, OneWriter, In
  <2> QED BY <2>3, <2>4, <2>5 DEF OneWriter
<1>9. \A q \in Servers : StartOf(q)'
  <2>1. \A m, n : Covered(m, n) => Covered(m, n)'
    BY <1>2 DEF Covered, Since, OfKind, BeforeCopiesOf
  <2>2. StartOf(p)'
    BY <1>3 DEF StartOf, In, Down
  <2> QED BY <1>2, <1>3, <2>1, <2>2 DEF StartOf, In, FilesInv, OnlyMoves
<1> QED BY <1>6, <1>7, <1>8, <1>9 DEF FilesInv

LEMMA TomorrowInv ==
  ASSUME FilesInv, Tomorrow
  PROVE  FilesInv'
<1> DEFINE F == [f \in partials |-> [f EXCEPT !.old = TRUE]]
<1>1. \A f \in partials : /\ f \in Partials /\ F[f] \in Partials /\ F[f].schema = f.schema
                           /\ F[f].by = f.by
  BY DEF FilesInv, FilesTypeOK, Partials
<1>2. /\ partials' = {F[f] : f \in partials} /\ F \in [partials -> Partials]
      /\ UNCHANGED <<schema, recorded, tokens, copies, stops>> /\ server' = server
  BY <1>1 DEF Tomorrow, dbVars
<1> HIDE DEF F
<1>3. day' \in 0..MaxDay
  <2>1. day \in Nat /\ MaxDay \in Nat /\ day < MaxDay /\ day' = day + 1
    BY FilesAssumption DEF FilesInv, FilesTypeOK, Tomorrow
  <2> QED BY <2>1
<1>4. IsFiniteSet(partials') /\ partials' \subseteq Partials
  <2>1. F \in [partials -> Partials] /\ IsFiniteSet(partials)
    BY <1>2 DEF FilesInv, FilesTypeOK
  <2>2. IsFiniteSet({F[f] : f \in partials})
    BY <2>1, FiniteImage
  <2> QED BY <1>2, <2>1, <2>2
<1>5. FilesTypeOK'
  BY <1>2, <1>3, <1>4 DEF FilesInv, FilesTypeOK
<1>6. HeldOnce'
  BY <1>1, <1>2 DEF FilesInv, HeldOnce
<1>7. \A q \in Servers : ~In(q, "check copy") /\ Mine(q) = {}
  BY DEF Tomorrow, FilesInv, OneWriter
<1>8. \A f \in partials : f.by = NoServer
  BY <1>1, <1>7 DEF Mine, Partials
<1>9. OneWriter'
  <2>1. \A g \in partials' : g.by = NoServer
    BY <1>1, <1>2, <1>8
  <2>2. \A q \in Servers : Mine(q)' = {} /\ ~In(q, "check copy")'
    BY <1>2, <1>7, <2>1, FilesAssumption DEF Mine, In
  <2> QED BY <2>1, <2>2 DEF OneWriter
<1>10. \A q \in Servers : StartOf(q)'
  BY <1>2 DEF FilesInv, StartOf, In, Covered, Since, OfKind, BeforeCopiesOf
<1> QED BY <1>5, <1>6, <1>9, <1>10 DEF FilesInv

LEMMA FilesStart == FilesInit => FilesInv
<1> SUFFICES ASSUME FilesInit PROVE FilesInv
  OBVIOUS
<1>1. Down \in Locals /\ Down.pc = "down" /\ Down.safe = 0
  BY DEF Down, Locals, Places
<1>2. server \in [Servers -> Locals] /\ (\A p \in Servers : server[p] = Down)
      /\ schema \in {{}, {1}} /\ schema = recorded /\ copies = {} /\ partials = {}
      /\ day = 0 /\ stops = 0 /\ tokens = FALSE
  BY <1>1 DEF FilesInit
<1>3. FilesTypeOK
  <2>1. IsFiniteSet(copies) /\ IsFiniteSet(partials)
    BY <1>2, FS_EmptySet
  <2>2. 0 \in 0..MaxDay /\ 0 \in 0..MaxStops
    BY FilesAssumption
  <2>3. schema \subseteq Nat /\ recorded \subseteq Nat /\ tokens \in BOOLEAN
    <3>1. {} \subseteq Nat /\ {1} \subseteq Nat
      OBVIOUS
    <3>2. CASE schema = {}
      BY <1>2, <3>1, <3>2
    <3>3. CASE schema = {1}
      BY <1>2, <3>1, <3>3
    <3> QED BY <1>2, <3>2, <3>3
  <2>4. copies \subseteq Files /\ partials \subseteq Partials
    BY <1>2
  <2>5. day \in 0..MaxDay /\ stops \in 0..MaxStops
    BY <1>2, <2>2
  <2> QED BY <1>2, <2>1, <2>3, <2>4, <2>5 DEF FilesTypeOK, Locals
<1>4. OneWriter
  BY <1>1, <1>2 DEF OneWriter, Mine, In
<1>5. HeldOnce
  BY <1>2 DEF HeldOnce
<1>6. \A p \in Servers : StartOf(p)
  BY <1>1, <1>2 DEF StartOf, In
<1> QED BY <1>3, <1>4, <1>5, <1>6 DEF FilesInv

\* Every step keeps the inductive invariant.
LEMMA FilesStep == FilesInv /\ [FilesNext]_filesVars => FilesInv'
<1> SUFFICES ASSUME FilesInv, [FilesNext]_filesVars PROVE FilesInv'
  OBVIOUS
<1>1. ASSUME NEW p \in Servers, StartStep(p) PROVE FilesInv'
  BY <1>1, LooksForCopyInv, CopyBeforeInv, MigrateInv, OtherStartInv, NamedInv, CopyFailsInv, PruneInv
     DEF StartStep
<1>2. ASSUME NEW p \in Servers, WritesToken(p) \/ Sweep(p) \/ Ends(p) PROVE FilesInv'
  BY <1>2, OtherStartInv, SweepInv, EndsInv
<1>3. CASE UNCHANGED filesVars
  <2>1. UNCHANGED <<schema, recorded, tokens, copies, partials, server, day, stops>>
    BY <1>3 DEF filesVars, dbVars, dirVars
  <2>2. FilesTypeOK'
    BY <2>1 DEF FilesInv, FilesTypeOK
  <2>3. OneWriter'
    BY <2>1 DEF FilesInv, OneWriter, Mine, In
  <2>4. HeldOnce'
    BY <2>1 DEF FilesInv, HeldOnce
  <2>5. \A p \in Servers : StartOf(p)'
    BY <2>1 DEF FilesInv, StartOf, In, Covered, Since, OfKind, BeforeCopiesOf
  <2> QED BY <2>2, <2>3, <2>4, <2>5 DEF FilesInv
<1> QED BY <1>1, <1>2, <1>3, StartsInv, TomorrowInv DEF FilesNext

\* The invariant holds in every state of a deploy.
THEOREM FilesInvariance == FilesSpec => []FilesInv
BY FilesStart, FilesStep, PTL DEF FilesSpec

\* The types of the database file, its copies and the processes' locals.
THEOREM FilesTypes == FilesSpec => []FilesTypeOK
<1>1. FilesInv => FilesTypeOK
  BY DEF FilesInv
<1> QED BY <1>1, FilesInvariance, PTL

\* Nothing half done is taken for done, wherever a process is killed and however
\* many share the volume (backup.ts, db.ts).
THEOREM HalfDone == FilesSpec => []NothingHalfDone
<1>1. FilesInv => NothingHalfDone
  <2> SUFFICES ASSUME FilesInv, NEW p \in Servers
               PROVE  /\ In(p, "check copy") => Cardinality(Mine(p)) = 1
                      /\ In(p, "serving") => server[p].release \subseteq schema
    BY DEF FilesInv, HeldOnce, NothingHalfDone
  <2>1. In(p, "check copy") => \E f \in partials : Mine(p) = {f}
    BY DEF FilesInv, OneWriter
  <2>2. In(p, "serving") => server[p].release \subseteq schema
    BY DEF FilesInv, HeldOnce, StartOf, In
  <2> QED BY <2>1, <2>2, FS_Singleton
<1> QED BY <1>1, FilesInvariance, PTL

\* There is a way back from the first migration of a start that found or made a
\* copy, for any number of copies kept (backup.ts, pruneBackups).
THEOREM AWayBack == FilesSpec => []WayBack
<1>1. FilesInv => WayBack
  BY DEF FilesInv, HeldOnce, StartOf, Covered, Since, WayBack, BeforeCopiesOf, OfKind
<1> QED BY <1>1, FilesInvariance, PTL

-----------------------------------------------------------------------------
(***************************************************************************)
(* The durables of one inbox key.                                          *)
(***************************************************************************)

\* The broker has no durable of this side, or one that an agent since s takes
\* for its own.
Fresh(side, s) == durables[side] # None => ~IsLeftBehind(durables[side], s)
AllFresh(s) == \A side \in Sides : Fresh(side, s)

\* A durable is no older than the agent it was made for, beyond two clocks.
DurableFits(side) ==
  durables[side] # None => durables[side].start - Skew <= durables[side].created

\* What a request or a cleanup knows: its agent was there before the one that
\* has the key, or is that one; an ensure that is to be remembered on behalf of
\* the agent is of that agent; one that has the first side behind it, or a pull
\* that was told by an ensure on behalf of its agent, finds nothing left behind.
TaskFits(t) ==
  LET d == tasks[t] IN
  /\ d.pc # "idle" => d.since <= clock /\ (since # None => d.since <= since)
  /\ Leading(t) /\ d.side = "broadcast" => Fresh("inbox", d.since)
  /\ Leading(t) /\ d.current /\ ~d.foreign => since # None /\ d.since = since
  /\ d.pc = "pull" /\ d.ok /\ ~d.foreign => AllFresh(d.since)
  /\ d.pc = "replace" => \/ durables[d.side] = None
                         \/ durables[d.side].start # d.since
                         \/ durables[d.side].maker # d.proc
  /\ d.pc \in {"authed", "finish"} => ~d.ok

\* What a process remembers on behalf of the agent that has the key.
MemoryFits == \A p \in Procs : ensured[p] /\ ~foreign[p] => since # None /\ AllFresh(since)

\* One ensure at a time in a process.
OneLeader ==
  \A t, u \in Tasks : Leading(t) /\ Leading(u) /\ tasks[t].proc = tasks[u].proc => t = u

\* The inductive invariant.
DurablesInv ==
  /\ DurablesTypeOK
  /\ since # None => since <= clock
  /\ \A side \in Sides : DurableFits(side)
  /\ \A t \in Tasks : TaskFits(t)
  /\ MemoryFits
  /\ OneLeader

-----------------------------------------------------------------------------

LEMMA Numbers ==
  /\ Tolerance \in Nat /\ Skew \in Nat /\ MaxTime \in Nat /\ MaxMishaps \in Nat
  /\ Skew <= Tolerance /\ None \notin Int
BY DurablesAssumption

\* What a task is.
LEMMA TaskType ==
  ASSUME DurablesTypeOK, NEW t \in Tasks
  PROVE  /\ tasks[t] \in Task \cup {IdleTask}
         /\ tasks[t].pc = "idle" => tasks[t] = IdleTask
         /\ tasks[t].pc # "idle" =>
              /\ tasks[t] \in Task /\ tasks[t].proc \in Procs /\ tasks[t].since \in Moments
              /\ tasks[t].side \in Sides
BY DEF DurablesTypeOK, Task, IdleTask

LEMMA DurableType ==
  ASSUME DurablesTypeOK, NEW side \in Sides, durables[side] # None
  PROVE  /\ durables[side].start \in Int /\ durables[side].created \in Int
         /\ durables[side] \in Durable
BY Numbers DEF DurablesTypeOK, Durable, Moments

LEMMA ClockType ==
  ASSUME DurablesTypeOK
  PROVE  /\ clock \in Nat /\ clock <= MaxTime
         /\ since # None => since \in Int
BY Numbers DEF DurablesTypeOK, Moments

\* How a step changes the durables: it removes some, or the leader t makes one
\* for its agent.
Fewer == \A side \in Sides : durables'[side] \in {None, durables[side]}

DurablesChange(t) ==
  /\ durables' \in [Sides -> Durable \cup {None}]
  /\ \A side \in Sides :
       \/ durables'[side] \in {None, durables[side]}
       \/ /\ t \in Tasks /\ Leading(t)
          /\ durables'[side].start = tasks[t].since /\ durables'[side].maker = tasks[t].proc
          /\ durables'[side].created \in {clock - Skew, clock + Skew}

\* A new durable is not left behind by anybody there already.
LEMMA NewIsFresh ==
  ASSUME DurablesInv, NEW s \in Int, s <= clock, NEW c \in {clock - Skew, clock + Skew}
  PROVE  ~(c < s - Tolerance) /\ s - Skew <= c
<1>1. clock \in Nat /\ Skew \in Nat /\ Tolerance \in Nat /\ Skew <= Tolerance
  BY ClockType, Numbers DEF DurablesInv
<1> QED BY <1>1

LEMMA FreshStays ==
  ASSUME DurablesInv, NEW t, DurablesChange(t), NEW s \in Int, s <= clock,
         NEW side \in Sides, Fresh(side, s)
  PROVE  Fresh(side, s)'
<1>1. CASE durables'[side] \in {None, durables[side]}
  BY <1>1 DEF Fresh, IsLeftBehind
<1>2. CASE durables'[side].created \in {clock - Skew, clock + Skew}
  <2>1. ~(durables'[side].created < s - Tolerance)
    BY <1>2, NewIsFresh
  <2> QED BY <2>1 DEF Fresh, IsLeftBehind
<1> QED BY <1>1, <1>2 DEF DurablesChange

LEMMA AllFreshStays ==
  ASSUME DurablesInv, NEW t, DurablesChange(t), NEW s \in Int, s <= clock, AllFresh(s)
  PROVE  AllFresh(s)'
BY FreshStays DEF AllFresh

LEMMA DurablesStayFit ==
  ASSUME DurablesInv, NEW t, DurablesChange(t), NEW side \in Sides
  PROVE  DurableFits(side)'
<1>1. CASE durables'[side] \in {None, durables[side]}
  BY <1>1 DEF DurablesInv, DurableFits
<1>2. CASE /\ t \in Tasks /\ Leading(t) /\ durables'[side].start = tasks[t].since
           /\ durables'[side].created \in {clock - Skew, clock + Skew}
  <2>1. tasks[t].since \in Int /\ tasks[t].since <= clock
    BY <1>2, TaskType, Numbers DEF DurablesInv, TaskFits, Leading, Moments
  <2> QED BY <1>2, <2>1, NewIsFresh DEF DurableFits
<1> QED BY <1>1, <1>2 DEF DurablesChange

\* A task that the step leaves where it is, or only makes an earlier
\* generation's.
Stays(u) ==
  /\ tasks'[u].pc = tasks[u].pc /\ tasks'[u].since = tasks[u].since
  /\ tasks'[u].side = tasks[u].side /\ tasks'[u].ok = tasks[u].ok
  /\ tasks'[u].foreign = tasks[u].foreign /\ tasks'[u].proc = tasks[u].proc
  /\ tasks'[u].current => tasks[u].current

LEMMA OthersStay ==
  ASSUME DurablesInv, NEW t, UNCHANGED life, DurablesChange(t),
         NEW u \in Tasks, Stays(u), u # t \/ Fewer
  PROVE  TaskFits(u)'
<1>1. clock' = clock /\ since' = since
  BY DEF life
<1>2. TaskFits(u) /\ (Leading(u)' <=> Leading(u))
  BY DEF DurablesInv, Stays, Leading
<1>3. tasks[u].pc # "idle" => tasks[u].since \in Int /\ tasks[u].since <= clock
  BY <1>2, TaskType, Numbers DEF DurablesInv, TaskFits, Moments
<1>4. tasks[u].pc = "pull" /\ AllFresh(tasks[u].since) => AllFresh(tasks[u].since)'
  <2> SUFFICES ASSUME tasks[u].pc = "pull", AllFresh(tasks[u].since)
               PROVE  AllFresh(tasks[u].since)'
    BY DEF Stays
  <2> PICK s \in Int : s = tasks[u].since
    BY <1>3
  <2>1. s <= clock /\ tasks'[u].since = s
    BY <1>3 DEF Stays
  <2>2. AllFresh(s)'
    BY <2>1, AllFreshStays
  <2> QED BY <2>1, <2>2 DEF AllFresh, Fresh
<1>5. Leading(u) /\ Fresh("inbox", tasks[u].since) => Fresh("inbox", tasks[u].since)'
  <2> SUFFICES ASSUME Leading(u), Fresh("inbox", tasks[u].since)
               PROVE  Fresh("inbox", tasks[u].since)'
    OBVIOUS
  <2> PICK s \in Int : s = tasks[u].since
    BY <1>3 DEF Leading
  <2>1. s <= clock /\ tasks'[u].since = s
    BY <1>3 DEF Stays, Leading
  <2>2. Fresh("inbox", s)'
    BY <2>1, FreshStays DEF Sides
  <2> QED BY <2>1, <2>2 DEF Fresh
<1>6. tasks[u].pc = "replace" =>
        \/ durables'[tasks[u].side] = None
        \/ durables'[tasks[u].side].start # tasks[u].since
        \/ durables'[tasks[u].side].maker # tasks[u].proc
  <2> SUFFICES ASSUME tasks[u].pc = "replace"
               PROVE  \/ durables'[tasks[u].side] = None
                      \/ durables'[tasks[u].side].start # tasks[u].since
                      \/ durables'[tasks[u].side].maker # tasks[u].proc
    OBVIOUS
  <2>1. Leading(u) /\ tasks[u].side \in Sides
    BY TaskType DEF Leading, DurablesInv
  <2>2. CASE durables'[tasks[u].side] \in {None, durables[tasks[u].side]}
    BY <1>2, <2>2 DEF TaskFits
  <2>3. CASE ~(durables'[tasks[u].side] \in {None, durables[tasks[u].side]})
    <3>1. /\ t \in Tasks /\ Leading(t) /\ u # t
          /\ durables'[tasks[u].side].maker = tasks[t].proc
      BY <2>1, <2>3 DEF DurablesChange, Fewer
    <3> QED BY <2>1, <3>1 DEF DurablesInv, OneLeader
  <2> QED BY <2>2, <2>3
<1> QED BY <1>1, <1>2, <1>4, <1>5, <1>6 DEF TaskFits, Stays

\* A step between two changes of the agent: what is left to show.
LEMMA BetweenAgents ==
  ASSUME DurablesInv, NEW t, UNCHANGED life, DurablesChange(t),
         tasks' \in [Tasks -> Task \cup {IdleTask}],
         \A u \in Tasks : (Stays(u) /\ (u # t \/ Fewer)) \/ TaskFits(u)',
         \A u \in Tasks : Leading(u)' =>
           /\ tasks'[u].proc = tasks[u].proc
           /\ \/ Leading(u)
              \/ u = t /\ \A v \in Tasks : Leading(v) => tasks[v].proc # tasks[u].proc,
         ensured' \in [Procs -> BOOLEAN], foreign' \in [Procs -> BOOLEAN],
         pending' \in [Procs -> BOOLEAN], open' \in [Procs -> BOOLEAN],
         mishaps' \in 0..MaxMishaps,
         \A p \in Procs : ensured'[p] /\ ~foreign'[p] =>
           (ensured[p] /\ ~foreign[p]) \/ (since # None /\ AllFresh(since)')
  PROVE  DurablesInv'
<1>1. clock' = clock /\ since' = since
  BY DEF life
<1>2. DurablesTypeOK'
  BY <1>1 DEF DurablesInv, DurablesTypeOK, DurablesChange
<1>3. \A side \in Sides : DurableFits(side)'
  BY DurablesStayFit
<1>4. \A u \in Tasks : TaskFits(u)'
  BY OthersStay
<1>5. MemoryFits'
  <2>1. since # None => since \in Int /\ since <= clock
    BY ClockType DEF DurablesInv
  <2>2. since # None /\ AllFresh(since) => AllFresh(since)'
    <3> SUFFICES ASSUME since # None, AllFresh(since)
                 PROVE  AllFresh(since)'
      OBVIOUS
    <3> PICK s \in Int : s = since
      BY <2>1
    <3>1. s <= clock /\ s = since'
      BY <1>1, <2>1
    <3>2. AllFresh(s)'
      BY <3>1, AllFreshStays
    <3> QED BY <3>1, <3>2 DEF AllFresh, Fresh
  <2> QED BY <1>1, <2>2 DEF MemoryFits, DurablesInv
<1>6. OneLeader'
  BY DEF DurablesInv, OneLeader
<1> QED BY <1>1, <1>2, <1>3, <1>4, <1>5, <1>6 DEF DurablesInv

-----------------------------------------------------------------------------
(***************************************************************************)
(* The ensure.                                                             *)
(***************************************************************************)

\* What a later agent takes for its own, an earlier one does.
LEMMA FresherStill ==
  ASSUME DurablesTypeOK, NEW s \in Int, NEW u \in Int, s <= u, AllFresh(u)
  PROVE  AllFresh(s)
<1> SUFFICES ASSUME NEW side \in Sides, durables[side] # None
             PROVE  ~(durables[side].created < s - Tolerance)
  BY DEF AllFresh, Fresh, IsLeftBehind
<1>1. durables[side].created \in Int /\ Tolerance \in Int
  BY DurableType, Numbers
<1>2. ~(durables[side].created < u - Tolerance)
  BY DEF AllFresh, Fresh, IsLeftBehind
<1> QED BY <1>1, <1>2

\* Where the ensure of a request that has signed in begins.
LEMMA EnsureEffect ==
  ASSUME DurablesTypeOK, NEW t \in Tasks, NEW d \in Task, d = tasks[t], ~d.ok
  PROVE  /\ Ensure(d) \in Task
         /\ Ensure(d).since = d.since /\ Ensure(d).side = "inbox" /\ Ensure(d).proc = d.proc
         /\ \/ /\ Ensure(d).pc = "pull" /\ Ensure(d).ok
               /\ ensured[d.proc] /\ Ensure(d).foreign = foreign[d.proc]
            \/ Ensure(d).pc = "pull" /\ ~Ensure(d).ok
            \/ Ensure(d).pc = "joined"
            \/ /\ Ensure(d).pc = "info" /\ InFlight(d.proc) = {}
               /\ Ensure(d).current /\ Ensure(d).foreign = (d.since # since)
<1>1. d.proc \in Procs /\ ensured[d.proc] \in BOOLEAN /\ foreign[d.proc] \in BOOLEAN
      /\ open[d.proc] \in BOOLEAN
  BY DEF DurablesTypeOK, Task
<1> DEFINE r == [d EXCEPT !.side = "inbox"]
<1>2. CASE ensured[d.proc]
  <2> DEFINE e == [r EXCEPT !.pc = "pull", !.ok = TRUE, !.foreign = foreign[d.proc]]
  <2>1. Ensure(d) = e
    BY <1>2 DEF Ensure
  <2>2. e \in Task /\ e.since = d.since /\ e.side = "inbox" /\ e.proc = d.proc /\ e.pc = "pull" /\ e.ok
        /\ e.foreign = foreign[d.proc]
    BY <1>1 DEF Task, Sides
  <2> QED BY <1>2, <2>1, <2>2
<1>3. CASE ~ensured[d.proc] /\ open[d.proc]
  <2> DEFINE e == [r EXCEPT !.pc = "pull"]
  <2>1. Ensure(d) = e
    BY <1>3 DEF Ensure
  <2>2. e \in Task /\ e.since = d.since /\ e.side = "inbox" /\ e.proc = d.proc /\ e.pc = "pull" /\ e.ok = d.ok
    BY <1>1 DEF Task, Sides
  <2> QED BY <2>1, <2>2
<1>4. CASE ~ensured[d.proc] /\ ~open[d.proc] /\ InFlight(d.proc) # {}
  <2> DEFINE e == [r EXCEPT !.pc = "joined"]
  <2>1. Ensure(d) = e
    BY <1>4 DEF Ensure
  <2>2. e \in Task /\ e.since = d.since /\ e.side = "inbox" /\ e.proc = d.proc /\ e.pc = "joined"
    BY <1>1 DEF Task, Sides
  <2> QED BY <2>1, <2>2
<1>5. CASE ~ensured[d.proc] /\ ~open[d.proc] /\ InFlight(d.proc) = {}
  <2> DEFINE e == [r EXCEPT !.pc = "info", !.current = TRUE, !.foreign = d.since # since]
  <2>1. Ensure(d) = e
    BY <1>5 DEF Ensure
  <2>2. e \in Task /\ e.since = d.since /\ e.side = "inbox" /\ e.proc = d.proc /\ e.pc = "info" /\ e.current
        /\ e.foreign = (d.since # since)
    BY <1>1 DEF Task, Sides
  <2> QED BY <1>5, <2>1, <2>2
<1> QED BY <1>1, <1>2, <1>3, <1>4, <1>5

\* A task moves, and memory stays.
LEMMA TaskMoves ==
  ASSUME DurablesInv, NEW t \in Tasks, NEW e \in Task \cup {IdleTask}, Become(t, e), UNCHANGED life,
         DurablesChange(t), UNCHANGED memory, TaskFits(t)',
         Leading(t)' => /\ e.proc = tasks[t].proc
                        /\ \/ Leading(t)
                           \/ \A v \in Tasks : Leading(v) => tasks[v].proc # tasks[t].proc,
         pending' \in [Procs -> BOOLEAN], open' \in [Procs -> BOOLEAN], mishaps' \in 0..MaxMishaps
  PROVE  DurablesInv'
<1>1. tasks' \in [Tasks -> Task \cup {IdleTask}] /\ \A u \in Tasks : u # t => tasks'[u] = tasks[u]
  BY DEF DurablesInv, DurablesTypeOK, Become
<1>4. tasks'[t] = e
  BY DEF DurablesInv, DurablesTypeOK, Become
<1>2. \A u \in Tasks : u # t => Stays(u) /\ (Leading(u)' <=> Leading(u))
  BY <1>1 DEF Stays, Leading
<1>3. /\ ensured' = ensured /\ foreign' = foreign /\ ensured' \in [Procs -> BOOLEAN]
      /\ foreign' \in [Procs -> BOOLEAN]
  BY DEF memory, DurablesInv, DurablesTypeOK
<1>5. \A u \in Tasks : u # t => tasks'[u].proc = tasks[u].proc
  BY <1>1
<1> QED BY <1>1, <1>2, <1>3, <1>4, <1>5, BetweenAgents

\* A task that does nothing has nothing to know.
LEMMA IdleFits ==
  ASSUME NEW t \in Tasks, tasks[t] = IdleTask
  PROVE  TaskFits(t) /\ ~Leading(t)
BY DEF TaskFits, Leading, IdleTask

LEMMA RestOfTypes ==
  ASSUME DurablesInv
  PROVE  /\ pending \in [Procs -> BOOLEAN] /\ open \in [Procs -> BOOLEAN]
         /\ mishaps \in 0..MaxMishaps /\ tasks \in [Tasks -> Task \cup {IdleTask}]
         /\ ensured \in [Procs -> BOOLEAN] /\ foreign \in [Procs -> BOOLEAN]
         /\ durables \in [Sides -> Durable \cup {None}]
BY DEF DurablesInv, DurablesTypeOK

\* The durables stay, or one goes.
LEMMA Removes ==
  ASSUME DurablesInv, NEW t, NEW side \in Sides,
         durables' = durables \/ durables' = [durables EXCEPT ![side] = None]
  PROVE  DurablesChange(t) /\ Fewer
BY RestOfTypes DEF DurablesChange, Fewer

\* A call that fails counts.
LEMMA FailTypes ==
  ASSUME DurablesInv, NEW p \in Procs, CallFails(p)
  PROVE  open' \in [Procs -> BOOLEAN] /\ mishaps' \in 0..MaxMishaps
<1>1. mishaps' \in 0..MaxMishaps
  BY RestOfTypes, Numbers DEF CallFails, Mishap
<1>2. open' = open \/ open' = [open EXCEPT ![p] = TRUE]
  BY DEF CallFails
<1> QED BY <1>1, <1>2, RestOfTypes

LEMMA EnsureFits ==
  ASSUME DurablesInv, NEW t \in Tasks, tasks[t].pc \in {"authed", "finish"},
         UNCHANGED life, DurablesChange(t), tasks'[t] = Ensure(tasks[t])
  PROVE  /\ Ensure(tasks[t]) \in Task /\ TaskFits(t)'
         /\ Ensure(tasks[t]).proc = tasks[t].proc
         /\ Leading(t)' => \A v \in Tasks : Leading(v) => tasks[v].proc # tasks[t].proc
<1> DEFINE d == tasks[t]
           e == Ensure(d)
<1>1. DurablesTypeOK /\ d \in Task /\ ~d.ok /\ d.proc \in Procs /\ d.since \in Moments
  BY TaskType DEF DurablesInv, TaskFits
<1>2. /\ e \in Task /\ e.since = d.since /\ e.side = "inbox" /\ e.proc = d.proc
      /\ \/ e.pc = "pull" /\ e.ok /\ ensured[d.proc] /\ e.foreign = foreign[d.proc]
         \/ e.pc = "pull" /\ ~e.ok
         \/ e.pc = "joined"
         \/ /\ e.pc = "info" /\ InFlight(d.proc) = {}
            /\ e.current /\ e.foreign = (d.since # since)
  BY <1>1, EnsureEffect
<1>3. clock' = clock /\ since' = since /\ tasks'[t] = e
  BY DEF life
<1>4. /\ d.since <= clock /\ d.since \in Int
      /\ since # None => d.since <= since /\ since \in Int
  BY <1>1, ClockType, Numbers DEF DurablesInv, TaskFits, Moments
<1>5. e.current /\ e.pc = "info" /\ ~e.foreign => since # None /\ d.since = since
  <2>1. d.since # None
    BY <1>4, Numbers
  <2> QED BY <1>2, <2>1
<1>6. e.pc = "pull" /\ e.ok /\ ~e.foreign => AllFresh(d.since)
  <2> SUFFICES ASSUME e.pc = "pull", e.ok, ~e.foreign
               PROVE  AllFresh(d.since)
    OBVIOUS
  <2>1. since # None /\ AllFresh(since)
    BY <1>1, <1>2 DEF DurablesInv, MemoryFits
  <2> QED BY <1>1, <1>4, <2>1, FresherStill
<1> HIDE DEF e
<1> PICK s \in Int : s = d.since
  BY <1>4
<1>7. s <= clock /\ (AllFresh(s) => AllFresh(s)')
  BY <1>4, AllFreshStays
<1>8. TaskFits(t)'
  <2>1. e.pc = "pull" /\ e.ok /\ ~e.foreign => AllFresh(s)'
    BY <1>6, <1>7
  <2>2. tasks'[t].since = s
    BY <1>2, <1>3
  <2>3. (tasks'[t].pc = "pull" /\ tasks'[t].ok /\ ~tasks'[t].foreign) => AllFresh(tasks[t].since)'
    BY <1>3, <2>1, <2>2 DEF AllFresh, Fresh
  <2>4. (Leading(t)' /\ tasks'[t].current /\ ~tasks'[t].foreign) => since' # None /\ tasks'[t].since = since'
    BY <1>2, <1>3, <1>5 DEF Leading
  <2>5. tasks'[t].since <= clock' /\ (since' # None => tasks'[t].since <= since')
    BY <1>2, <1>3, <1>4
  <2> QED BY <1>2, <1>3, <2>3, <2>4, <2>5 DEF TaskFits, Leading
<1>9. ASSUME Leading(t)', NEW v \in Tasks, Leading(v), tasks[v].proc = d.proc
      PROVE  FALSE
  BY <1>2, <1>3, <1>9 DEF Leading, InFlight
<1> QED BY <1>2, <1>8, <1>9 DEF e

LEMMA BeginStep ==
  ASSUME DurablesInv, NEW t \in Tasks, NEW p \in Procs, Begin(t, p)
  PROVE  DurablesInv'
<1> DEFINE e == [IdleTask EXCEPT !.pc = "authed", !.proc = p, !.since = since]
<1>1. UNCHANGED <<life, durables, memory, pending, open, mishaps>> /\ Become(t, e) /\ since # None
  BY DEF Begin
<1>2. since \in Moments /\ since <= clock /\ since <= since
  BY <1>1, ClockType DEF DurablesInv, DurablesTypeOK
<1>3. /\ e \in Task /\ e.pc = "authed" /\ e.since = since /\ ~e.ok
  BY <1>2 DEF IdleTask, Task, Sides
<1> HIDE DEF e
<1>4. tasks'[t] = e
  BY <1>1, RestOfTypes DEF Become
<1>5. TaskFits(t)' /\ ~Leading(t)'
  BY <1>1, <1>2, <1>3, <1>4 DEF TaskFits, Leading, life
<1>6. "inbox" \in Sides
  BY DEF Sides
<1> QED BY <1>1, <1>3, <1>5, <1>6, Removes, RestOfTypes, TaskMoves

LEMMA EnsureConsumerStep ==
  ASSUME DurablesInv, NEW t \in Tasks, EnsureConsumer(t)
  PROVE  DurablesInv'
<1> DEFINE d == tasks[t]
<1>1. /\ UNCHANGED <<life, durables, memory, pending, open, mishaps>> /\ d.pc = "authed"
      /\ Become(t, IF pending[d.proc] THEN [d EXCEPT !.pc = "finish", !.side = "inbox"]
                   ELSE Ensure(d))
  BY DEF EnsureConsumer, At
<1>2. d \in Task /\ "inbox" \in Sides
  BY <1>1, TaskType DEF DurablesInv, Sides
<1>3. DurablesChange(t)
  BY <1>1, <1>2, Removes
<1>4. CASE pending[d.proc]
  <2> DEFINE e == [d EXCEPT !.pc = "finish", !.side = "inbox"]
  <2>1. e \in Task /\ e.pc = "finish" /\ e.since = d.since /\ e.ok = d.ok
    BY <1>2 DEF Task
  <2>2. Become(t, e)
    BY <1>1, <1>4
  <2> HIDE DEF e
  <2>3. tasks'[t] = e
    BY <2>2, RestOfTypes DEF Become
  <2>4. TaskFits(t)' /\ ~Leading(t)'
    <3>1. TaskFits(t)
      BY DEF DurablesInv
    <3> QED BY <1>1, <2>1, <2>3, <3>1 DEF TaskFits, Leading, life
  <2> QED BY <1>1, <1>3, <2>1, <2>2, <2>4, RestOfTypes, TaskMoves
<1>5. CASE ~pending[d.proc]
  <2>1. Become(t, Ensure(d))
    BY <1>1, <1>5
  <2>2. tasks'[t] = Ensure(d)
    BY <2>1, RestOfTypes DEF Become
  <2>3. /\ Ensure(d) \in Task /\ TaskFits(t)'
        /\ Ensure(d).proc = d.proc
        /\ Leading(t)' => \A v \in Tasks : Leading(v) => tasks[v].proc # d.proc
    BY <1>1, <1>3, <2>2, EnsureFits
  <2> QED BY <1>1, <1>3, <2>1, <2>3, RestOfTypes, TaskMoves
<1> QED BY <1>4, <1>5

-----------------------------------------------------------------------------
(***************************************************************************)
(* The removals.                                                           *)
(***************************************************************************)

\* A removal goes on, with e in the place of what it was.
LEMMA RemovalMoves ==
  ASSUME DurablesInv, NEW t \in Tasks, tasks[t].pc \in {"finish", "cleanup"},
         NEW e \in Task \cup {IdleTask}, Become(t, e), UNCHANGED life, DurablesChange(t),
         UNCHANGED memory,
         e = IdleTask \/ (/\ e.pc \in {"finish", "cleanup", "pull"}
                      /\ e.since = tasks[t].since /\ (e.pc # "cleanup" => ~e.ok)),
         pending' \in [Procs -> BOOLEAN], open' \in [Procs -> BOOLEAN], mishaps' \in 0..MaxMishaps
  PROVE  DurablesInv'
<1>1. tasks'[t] = e
  BY RestOfTypes DEF Become
<1>2. CASE e = IdleTask
  <2>1. TaskFits(t)' /\ ~Leading(t)'
    BY <1>1, <1>2, IdleFits DEF TaskFits, Leading, IdleTask
  <2> QED BY <2>1, TaskMoves
<1>3. CASE /\ e.pc \in {"finish", "cleanup", "pull"}
           /\ e.since = tasks[t].since /\ (e.pc # "cleanup" => ~e.ok)
  <2>1. tasks[t].since <= clock /\ (since # None => tasks[t].since <= since)
    BY DEF DurablesInv, TaskFits
  <2>2. TaskFits(t)' /\ ~Leading(t)'
    BY <1>1, <1>3, <2>1 DEF TaskFits, Leading, life
  <2> QED BY <2>2, TaskMoves
<1> QED BY <1>2, <1>3

\* What a task that removes is.
LEMMA RemovalType ==
  ASSUME DurablesInv, NEW t \in Tasks, tasks[t].pc \in {"finish", "cleanup"}
  PROVE  /\ tasks[t] \in Task /\ tasks[t].proc \in Procs /\ tasks[t].side \in Sides
         /\ tasks[t].pc = "finish" => ~tasks[t].ok
BY TaskType DEF DurablesInv, TaskFits

LEMMA RemoveInboxStep ==
  ASSUME DurablesInv, NEW t \in Tasks, RemoveInbox(t)
  PROVE  DurablesInv'
<1> DEFINE e == [tasks[t] EXCEPT !.side = "broadcast"]
<1>1. /\ tasks[t].pc \in {"finish", "cleanup"} /\ durables' = [durables EXCEPT !["inbox"] = None]
      /\ UNCHANGED <<life, memory, pending, open, mishaps>>
  BY DEF RemoveInbox
<1>2. Become(t, e)
  BY RestOfTypes DEF RemoveInbox, Become
<1>3. "inbox" \in Sides /\ "broadcast" \in Sides
  BY DEF Sides
<1>4. e \in Task /\ e.pc = tasks[t].pc /\ e.since = tasks[t].since /\ e.ok = tasks[t].ok
  BY <1>1, <1>3, RemovalType DEF Task
<1> HIDE DEF e
<1> QED BY <1>1, <1>2, <1>3, <1>4, Removes, RemovalType, RestOfTypes, RemovalMoves

LEMMA RemoveBroadcastStep ==
  ASSUME DurablesInv, NEW t \in Tasks, RemoveBroadcast(t)
  PROVE  DurablesInv'
<1> DEFINE d == tasks[t]
<1>1. /\ d.pc \in {"finish", "cleanup"} /\ durables' = [durables EXCEPT !["broadcast"] = None]
      /\ pending' = [pending EXCEPT ![d.proc] = FALSE]
      /\ Become(t, IF d.pc = "finish" THEN Ensure(d) ELSE IdleTask)
      /\ UNCHANGED <<life, memory, open, mishaps>>
  BY DEF RemoveBroadcast
<1>2. DurablesChange(t)
  BY <1>1, Removes DEF Sides
<1>3. pending' \in [Procs -> BOOLEAN]
  BY <1>1, RestOfTypes
<1>4. CASE d.pc = "cleanup"
  BY <1>1, <1>2, <1>3, <1>4, RestOfTypes, RemovalMoves
<1>5. CASE d.pc = "finish"
  <2>1. Become(t, Ensure(d))
    BY <1>1, <1>5
  <2>2. tasks'[t] = Ensure(d)
    BY <2>1, RestOfTypes DEF Become
  <2>3. /\ Ensure(d) \in Task /\ TaskFits(t)'
        /\ Ensure(d).proc = d.proc
        /\ Leading(t)' => \A v \in Tasks : Leading(v) => tasks[v].proc # d.proc
    BY <1>1, <1>2, <1>5, <2>2, EnsureFits
  <2> QED BY <1>1, <1>2, <1>3, <2>1, <2>3, RestOfTypes, TaskMoves
<1> QED BY <1>1, <1>4, <1>5

LEMMA FailedRemoval ==
  ASSUME DurablesInv, NEW t \in Tasks, tasks[t].pc \in {"finish", "cleanup"}, AfterFailedRemoval(t),
         DurablesChange(t), open' \in [Procs -> BOOLEAN], mishaps' \in 0..MaxMishaps
  PROVE  DurablesInv'
<1> DEFINE d == tasks[t]
           e == [d EXCEPT !.pc = "pull", !.side = "inbox"]
<1>1. /\ pending' = [pending EXCEPT ![d.proc] = @ \/ d.pc = "cleanup"]
      /\ Become(t, IF d.pc = "cleanup" THEN IdleTask ELSE e)
      /\ UNCHANGED life /\ UNCHANGED memory
  BY DEF AfterFailedRemoval
<1>2. pending' \in [Procs -> BOOLEAN]
  BY <1>1, RestOfTypes
<1>3. e \in Task /\ e.pc = "pull" /\ e.since = d.since /\ e.ok = d.ok
  BY RemovalType DEF Task, Sides
<1>4. CASE d.pc = "cleanup"
  BY <1>1, <1>2, <1>4, RemovalMoves
<1>5. CASE d.pc = "finish"
  <2>1. Become(t, e) /\ ~e.ok
    BY <1>1, <1>3, <1>5, RemovalType
  <2> HIDE DEF e
  <2> QED BY <1>1, <1>2, <1>3, <2>1, RemovalMoves
<1> QED BY <1>4, <1>5

LEMMA RemovalFailsStep ==
  ASSUME DurablesInv, NEW t \in Tasks, RemovalFails(t) \/ RemovalRefused(t)
  PROVE  DurablesInv'
<1>1. tasks[t].pc \in {"finish", "cleanup"} /\ AfterFailedRemoval(t)
  BY DEF RemovalFails, RemovalRefused
<1>2. tasks[t].proc \in Procs /\ tasks[t].side \in Sides
  BY <1>1, RemovalType
<1>3. CASE RemovalFails(t)
  <2>1. CallFails(tasks[t].proc) /\ MayRemove(tasks[t].side)
    BY <1>3 DEF RemovalFails
  <2>2. DurablesChange(t)
    BY <1>2, <2>1, Removes DEF MayRemove
  <2> QED BY <1>1, <1>2, <2>1, <2>2, FailTypes, FailedRemoval
<1>4. CASE RemovalRefused(t)
  <2>1. UNCHANGED <<durables, open, mishaps>>
    BY <1>4 DEF RemovalRefused
  <2>2. DurablesChange(t)
    BY <1>2, <2>1, Removes
  <2> QED BY <1>1, <2>1, <2>2, RestOfTypes, FailedRemoval
<1> QED BY <1>3, <1>4

-----------------------------------------------------------------------------
(***************************************************************************)
(* The steps of an ensure.                                                 *)
(***************************************************************************)

\* What the leader of an ensure is.
LEMMA LeaderType ==
  ASSUME DurablesInv, NEW t \in Tasks, Leading(t)
  PROVE  /\ tasks[t] \in Task /\ tasks[t].proc \in Procs /\ tasks[t].side \in Sides
         /\ tasks[t].since \in Moments /\ tasks[t].pc \in {"info", "replace", "add"}
         /\ tasks[t].since <= clock /\ tasks[t].since \in Int
         /\ since # None => tasks[t].since <= since
         /\ tasks[t].side = "broadcast" => Fresh("inbox", tasks[t].since)
         /\ tasks[t].current /\ ~tasks[t].foreign => since # None /\ tasks[t].since = since
BY TaskType, Numbers DEF DurablesInv, TaskFits, Leading, Moments

\* The leader goes on to e.
LEMMA LeaderMoves ==
  ASSUME DurablesInv, NEW t \in Tasks, Leading(t), NEW e \in Task, Become(t, e),
         UNCHANGED life, DurablesChange(t), UNCHANGED <<memory, pending, open, mishaps>>,
         e.pc \in {"info", "replace", "add"}, e.since = tasks[t].since,
         e.current = tasks[t].current, e.foreign = tasks[t].foreign, e.proc = tasks[t].proc,
         NEW s, s = tasks[t].since, e.side = "broadcast" => Fresh("inbox", s)',
         e.pc = "replace" => durables'[e.side] = None \/ durables'[e.side].start # e.since
  PROVE  DurablesInv'
<1>1. tasks'[t] = e
  BY RestOfTypes DEF Become
<1>2. TaskFits(t)'
  <2>1. tasks'[t].side = "broadcast" => Fresh("inbox", tasks[t].since)'
    BY <1>1 DEF Fresh
  <2> QED BY <1>1, <2>1, LeaderType DEF TaskFits, Leading, life
<1> QED BY <1>2, RestOfTypes, TaskMoves

\* The ensure is over, for its leader and those who joined it.
LEMMA SettledStep ==
  ASSUME DurablesInv, NEW t \in Tasks, Leading(t), NEW ok \in BOOLEAN, Settled(t, ok),
         UNCHANGED life, DurablesChange(t),
         NEW s, s = tasks[t].since, ok => AllFresh(s)',
         ensured' \in [Procs -> BOOLEAN], foreign' \in [Procs -> BOOLEAN],
         \A p \in Procs : ensured'[p] /\ ~foreign'[p] =>
           (ensured[p] /\ ~foreign[p]) \/ (since # None /\ AllFresh(since)'),
         UNCHANGED pending, open' \in [Procs -> BOOLEAN], mishaps' \in 0..MaxMishaps
  PROVE  DurablesInv'
<1> DEFINE Hears(u) == u = t \/ (tasks[u].pc = "joined" /\ tasks[u].proc = tasks[t].proc)
           e(u) == [tasks[u] EXCEPT !.pc = "pull", !.side = "inbox", !.ok = ok,
                                    !.foreign = tasks[u].since # tasks[t].since]
<1>1. ASSUME NEW u \in Tasks, Hears(u)
      PROVE  /\ e(u) \in Task /\ e(u).pc = "pull" /\ e(u).since = tasks[u].since /\ e(u).ok = ok
             /\ e(u).foreign = (tasks[u].since # tasks[t].since)
  <2>1. tasks[u] \in Task
    BY <1>1, TaskType DEF DurablesInv, Leading
  <2> QED BY <2>1 DEF Task, Sides
<1>2. \A u \in Tasks : tasks'[u] = IF Hears(u) THEN e(u) ELSE tasks[u]
  BY DEF Settled
<1>3. tasks' \in [Tasks -> Task \cup {IdleTask}]
  BY <1>1, RestOfTypes DEF Settled
<1>4. ASSUME NEW u \in Tasks, Hears(u)
      PROVE  TaskFits(u)' /\ ~Leading(u)'
  <2>1. tasks[u].since <= clock /\ (since # None => tasks[u].since <= since)
    BY <1>4 DEF DurablesInv, TaskFits, Leading
  <2>2. /\ tasks'[u].pc = "pull" /\ tasks'[u].since = tasks[u].since /\ tasks'[u].ok = ok
        /\ ~tasks'[u].foreign => tasks[u].since = s
    BY <1>1, <1>2, <1>4
  <2>3. tasks'[u].ok /\ ~tasks'[u].foreign => AllFresh(tasks[u].since)'
    BY <2>2 DEF AllFresh, Fresh
  <2> HIDE DEF Hears, e
  <2> QED BY <2>1, <2>2, <2>3 DEF TaskFits, Leading, life
<1>5. ASSUME NEW u \in Tasks, ~Hears(u)
      PROVE  Stays(u) /\ u # t /\ (Leading(u)' <=> Leading(u))
  <2>1. tasks'[u] = tasks[u]
    BY <1>2, <1>5
  <2> QED BY <1>5, <2>1 DEF Stays, Leading
<1>6. pending' \in [Procs -> BOOLEAN]
  BY RestOfTypes
<1> HIDE DEF Hears
<1>7. \A u \in Tasks : (Stays(u) /\ (u # t \/ Fewer)) \/ TaskFits(u)'
  BY <1>4, <1>5
<1>8. \A u \in Tasks : Leading(u)' => Leading(u) /\ tasks'[u].proc = tasks[u].proc
  BY <1>4, <1>5 DEF Stays
<1> QED BY <1>3, <1>6, <1>7, <1>8, BetweenAgents

\* A side is there, and not left behind.
LEMMA SideDoneStep ==
  ASSUME DurablesInv, NEW t \in Tasks, Leading(t), SideDone(t), UNCHANGED life, DurablesChange(t),
         NEW side \in Sides, side = tasks[t].side, NEW s, s = tasks[t].since, Fresh(side, s)',
         UNCHANGED <<pending, open, mishaps>>
  PROVE  DurablesInv'
<1> DEFINE d == tasks[t]
<1>1. d \in Task /\ d.proc \in Procs /\ d.side \in {"inbox", "broadcast"}
      /\ s \in Int /\ s <= clock
  BY LeaderType DEF Sides
<1>2. CASE d.side = "inbox"
  <2> DEFINE e == [d EXCEPT !.pc = "info", !.side = "broadcast"]
  <2>1. Become(t, e) /\ UNCHANGED memory
    BY <1>2 DEF SideDone
  <2>2. /\ e \in Task /\ e.pc = "info" /\ e.since = d.since /\ e.current = d.current
        /\ e.foreign = d.foreign /\ e.proc = d.proc
    BY <1>1 DEF Task, Sides
  <2> HIDE DEF e
  <2> QED BY <1>2, <2>1, <2>2, LeaderMoves
<1>3. CASE d.side = "broadcast"
  <2>1. Settled(t, TRUE) /\ Remember(d)
    BY <1>3 DEF SideDone
  <2>2. AllFresh(s)'
    <3>1. Fresh("inbox", s)'
      BY <1>1, <1>3, LeaderType, FreshStays DEF Sides
    <3> QED BY <1>3, <3>1 DEF AllFresh, Sides
  <2>3. ensured' \in [Procs -> BOOLEAN] /\ foreign' \in [Procs -> BOOLEAN]
    <3>1. d.foreign \in BOOLEAN
      BY <1>1 DEF Task
    <3> QED BY <2>1, <3>1, RestOfTypes DEF Remember, memory
  <2>4. ASSUME NEW p \in Procs, ensured'[p] /\ ~foreign'[p]
        PROVE  (ensured[p] /\ ~foreign[p]) \/ (since # None /\ AllFresh(since)')
    <3>1. CASE ~d.current
      BY <2>1, <2>4, <3>1 DEF Remember, memory
    <3>2. CASE d.current /\ p # d.proc
      BY <2>1, <2>4, <3>2, RestOfTypes DEF Remember
    <3>3. CASE d.current /\ p = d.proc
      <4>1. foreign'[p] = d.foreign
        BY <2>1, <3>3, RestOfTypes DEF Remember
      <4>2. since # None /\ s = since /\ since' = since
        BY <2>4, <3>3, <4>1, LeaderType DEF life
      <4> QED BY <2>2, <4>2 DEF AllFresh, Fresh
    <3> QED BY <3>1, <3>2, <3>3
  <2> QED BY <2>1, <2>2, <2>3, <2>4, RestOfTypes, SettledStep
<1> QED BY <1>1, <1>2, <1>3

LEMMA InfoStep ==
  ASSUME DurablesInv, NEW t \in Tasks, Info(t)
  PROVE  DurablesInv'
<1> DEFINE d == tasks[t]
           found == durables[d.side]
<1>1. Leading(t) /\ d.pc = "info" /\ UNCHANGED <<life, durables, pending, open, mishaps>>
  BY DEF Info, At, Leading
<1>2. d \in Task /\ d.side \in Sides /\ d.since \in Int
  BY <1>1, LeaderType
<1> PICK s \in Int : s = d.since
  BY <1>2
<1>3. DurablesChange(t)
  BY <1>1, <1>2, Removes
<1>4. d.side = "broadcast" => Fresh("inbox", s)'
  BY <1>1, LeaderType DEF Fresh, IsLeftBehind
<1>5. CASE found = None
  <2> DEFINE e == [d EXCEPT !.pc = "add"]
  <2>1. Become(t, e) /\ UNCHANGED memory
    BY <1>5 DEF Info
  <2>2. /\ e \in Task /\ e.pc = "add" /\ e.since = d.since /\ e.current = d.current
        /\ e.foreign = d.foreign /\ e.side = d.side /\ e.proc = d.proc
    BY <1>2 DEF Task
  <2> HIDE DEF e
  <2> QED BY <1>1, <1>3, <1>4, <2>1, <2>2, LeaderMoves
<1>6. CASE found # None /\ IsLeftBehind(found, d.since)
  <2> DEFINE e == [d EXCEPT !.pc = "replace"]
  <2>1. Become(t, e) /\ UNCHANGED memory
    BY <1>6 DEF Info
  <2>2. /\ e \in Task /\ e.pc = "replace" /\ e.since = d.since /\ e.current = d.current
        /\ e.foreign = d.foreign /\ e.side = d.side /\ e.proc = d.proc
    BY <1>2 DEF Task
  <2>3. found.start # d.since
    <3>1. found.created < d.since - Tolerance /\ found.start - Skew <= found.created
      BY <1>2, <1>6 DEF IsLeftBehind, DurablesInv, DurableFits
    <3>2. found.start \in Int /\ found.created \in Int
      BY <1>2, <1>6, DurableType DEF DurablesInv
    <3> QED BY <1>2, <3>1, <3>2, Numbers
  <2> HIDE DEF e
  <2> QED BY <1>1, <1>3, <1>4, <2>1, <2>2, <2>3, LeaderMoves
<1>7. CASE found # None /\ ~IsLeftBehind(found, d.since)
  <2>1. SideDone(t)
    BY <1>7 DEF Info
  <2>3. PICK side \in Sides : side = d.side
    BY <1>2
  <2>4. Fresh(side, s)'
    BY <1>1, <1>7, <2>3 DEF Fresh, IsLeftBehind
  <2> QED BY <1>1, <1>3, <2>1, <2>3, <2>4, SideDoneStep
<1> QED BY <1>5, <1>6, <1>7

LEMMA ReplaceStep ==
  ASSUME DurablesInv, NEW t \in Tasks, Replace(t)
  PROVE  DurablesInv'
<1> DEFINE d == tasks[t]
           e == [d EXCEPT !.pc = "add"]
<1>1. /\ Leading(t) /\ durables' = [durables EXCEPT ![d.side] = None] /\ Become(t, e)
      /\ UNCHANGED <<life, memory, pending, open, mishaps>>
  BY DEF Replace, At, Leading
<1>2. d \in Task /\ d.side \in Sides
  BY <1>1, LeaderType
<1>3. DurablesChange(t)
  BY <1>1, <1>2, Removes
<1> PICK s \in Int : s = d.since
  BY <1>1, LeaderType
<1>4. d.side = "broadcast" => Fresh("inbox", s)'
  BY <1>1, <1>3, LeaderType, FreshStays DEF Sides
<1>5. /\ e \in Task /\ e.pc = "add" /\ e.since = d.since /\ e.current = d.current
      /\ e.foreign = d.foreign /\ e.side = d.side /\ e.proc = d.proc
  BY <1>2 DEF Task
<1> HIDE DEF e
<1> QED BY <1>1, <1>3, <1>4, <1>5, LeaderMoves

\* A new durable is the leader's agent's.
LEMMA NewDurableChanges ==
  ASSUME DurablesInv, NEW t \in Tasks, Leading(t), NewDurable(tasks[t])
  PROVE  /\ DurablesChange(t)
         /\ durables'[tasks[t].side].created \in {clock - Skew, clock + Skew}
<1> DEFINE d == tasks[t]
<1>1. PICK c \in {clock - Skew, clock + Skew} :
        durables' = [durables EXCEPT ![d.side] = [created |-> c, start |-> d.since, maker |-> d.proc]]
  BY DEF NewDurable
<1> DEFINE new == [created |-> c, start |-> d.since, maker |-> d.proc]
<1>2. c \in -Skew .. MaxTime + Skew
  BY ClockType, Numbers DEF DurablesInv
<1>3. new \in Durable /\ new.created = c /\ new.start = d.since /\ new.maker = d.proc
  BY <1>2, LeaderType DEF Durable
<1>4. durables' = [durables EXCEPT ![d.side] = new]
  BY <1>1
<1> HIDE DEF new
<1>5. d.side \in Sides
  BY LeaderType
<1> QED BY <1>3, <1>4, <1>5, RestOfTypes DEF DurablesChange

LEMMA AddStep ==
  ASSUME DurablesInv, NEW t \in Tasks, Add(t)
  PROVE  DurablesInv'
<1> DEFINE d == tasks[t]
           found == durables[d.side]
<1>1. Leading(t) /\ d.pc = "add" /\ UNCHANGED <<life, pending, open, mishaps>>
  BY DEF Add, At, Leading
<1>2. d.side \in Sides /\ d.since \in Int /\ d.since <= clock
  BY <1>1, LeaderType
<1> PICK side \in Sides : side = d.side
  BY <1>2
<1> PICK s \in Int : s = d.since
  BY <1>2
<1>3. CASE found = None
  <2>1. NewDurable(d) /\ SideDone(t)
    BY <1>3 DEF Add
  <2>2. DurablesChange(t) /\ durables'[side].created \in {clock - Skew, clock + Skew}
    BY <1>1, <2>1, NewDurableChanges
  <2>3. Fresh(side, s)'
    <3>1. ~(durables'[side].created < s - Tolerance)
      BY <1>2, <2>2, NewIsFresh
    <3> QED BY <3>1 DEF Fresh, IsLeftBehind
  <2> QED BY <1>1, <2>1, <2>2, <2>3, SideDoneStep
<1>4. CASE found # None /\ found.start # d.since
  <2>1. Settled(t, FALSE) /\ UNCHANGED <<memory, durables>>
    BY <1>4 DEF Add
  <2>2. DurablesChange(t)
    BY <1>2, <2>1, Removes
  <2>3. ensured' = ensured /\ foreign' = foreign
    BY <2>1 DEF memory
  <2>4. s = tasks[t].since
    OBVIOUS
  <2> QED BY <1>1, <2>1, <2>2, <2>3, <2>4, RestOfTypes, SettledStep
<1>5. CASE found # None /\ found.start = d.since
  <2>1. SideDone(t) /\ UNCHANGED durables
    BY <1>5 DEF Add
  <2>2. DurablesChange(t)
    BY <1>2, <2>1, Removes
  <2>3. Fresh(side, s)'
    <3>1. s - Skew <= durables[side].created
      BY <1>5 DEF DurablesInv, DurableFits
    <3>2. durables[side].created \in Int
      BY <1>5, DurableType DEF DurablesInv
    <3>3. ~(durables[side].created < s - Tolerance)
      BY <3>1, <3>2, Numbers
    <3> QED BY <2>1, <3>3 DEF Fresh, IsLeftBehind
  <2> QED BY <1>1, <2>1, <2>2, <2>3, SideDoneStep
<1> QED BY <1>3, <1>4, <1>5

LEMMA EnsureFailsStep ==
  ASSUME DurablesInv, NEW t \in Tasks, EnsureFails(t)
  PROVE  DurablesInv'
<1> DEFINE d == tasks[t]
<1>1. /\ Leading(t) /\ CallFails(d.proc) /\ Settled(t, FALSE)
      /\ UNCHANGED <<life, memory, pending>>
      /\ \/ UNCHANGED durables
         \/ MayRemove(d.side)
         \/ NewDurable(d)
  BY DEF EnsureFails
<1>2. d.proc \in Procs /\ d.side \in Sides
  BY <1>1, LeaderType
<1>3. DurablesChange(t)
  BY <1>1, <1>2, Removes, NewDurableChanges DEF MayRemove
<1>4. ensured' = ensured /\ foreign' = foreign
  BY <1>1 DEF memory
<1> QED BY <1>1, <1>2, <1>3, <1>4, FailTypes, RestOfTypes, SettledStep

-----------------------------------------------------------------------------
(***************************************************************************)
(* The pull, and what interrupts: no task learns anything.                 *)
(***************************************************************************)

\* Tasks end or fall behind, durables and memory go.
LEMMA OnlyLess ==
  ASSUME DurablesInv, UNCHANGED life, NEW side \in Sides,
         durables' = durables \/ durables' = [durables EXCEPT ![side] = None],
         tasks' \in [Tasks -> Task \cup {IdleTask}],
         \A u \in Tasks : Stays(u) \/ tasks'[u] = IdleTask,
         ensured' \in [Procs -> BOOLEAN], foreign' \in [Procs -> BOOLEAN],
         \A p \in Procs : ensured'[p] => ensured[p] /\ foreign'[p] = foreign[p],
         pending' \in [Procs -> BOOLEAN], open' \in [Procs -> BOOLEAN], mishaps' \in 0..MaxMishaps
  PROVE  DurablesInv'
<1>1. DurablesChange(None) /\ Fewer
  BY Removes
<1>2. ASSUME NEW u \in Tasks
      PROVE  /\ (Stays(u) /\ (u # None \/ Fewer)) \/ TaskFits(u)'
             /\ Leading(u)' => Leading(u) /\ tasks'[u].proc = tasks[u].proc
  <2>1. CASE Stays(u)
    BY <1>1, <2>1 DEF Stays, Leading
  <2>2. CASE tasks'[u] = IdleTask
    BY <2>2 DEF TaskFits, Leading, IdleTask
  <2> QED BY <1>2, <2>1, <2>2
<1> QED BY <1>1, <1>2, BetweenAgents

LEMMA SameStays ==
  ASSUME NEW u, tasks'[u] = tasks[u]
  PROVE  Stays(u)
BY DEF Stays

LEMMA SidesAre == "inbox" \in Sides /\ "broadcast" \in Sides
BY DEF Sides

\* A task ends.
LEMMA TaskEnds ==
  ASSUME DurablesInv, NEW t \in Tasks, Become(t, IdleTask)
  PROVE  /\ tasks' \in [Tasks -> Task \cup {IdleTask}]
         /\ \A u \in Tasks : Stays(u) \/ tasks'[u] = IdleTask
<1>1. tasks' = [tasks EXCEPT ![t] = IdleTask]
  BY DEF Become
<1>2. \A u \in Tasks : tasks'[u] = tasks[u] \/ tasks'[u] = IdleTask
  BY <1>1, RestOfTypes
<1> QED BY <1>1, <1>2, RestOfTypes, SameStays

LEMMA MemoryStays ==
  ASSUME DurablesInv, UNCHANGED memory
  PROVE  /\ ensured' \in [Procs -> BOOLEAN] /\ foreign' \in [Procs -> BOOLEAN]
         /\ \A p \in Procs : ensured'[p] => ensured[p] /\ foreign'[p] = foreign[p]
BY RestOfTypes DEF memory

LEMMA Forgets ==
  ASSUME DurablesInv, NEW p \in Procs, ForgetKey(p)
  PROVE  /\ ensured' \in [Procs -> BOOLEAN] /\ foreign' \in [Procs -> BOOLEAN]
         /\ ~ensured'[p]
         /\ \A q \in Procs : ensured'[q] => ensured[q] /\ foreign'[q] = foreign[q]
<1>1. ensured' = [ensured EXCEPT ![p] = FALSE] /\ foreign' = [foreign EXCEPT ![p] = FALSE]
  BY DEF ForgetKey
<1> QED BY <1>1, RestOfTypes

\* What an ensure under way becomes, and what everything else stays.
LEMMA FallsBehind ==
  ASSUME DurablesInv, NEW p \in Procs, NEW u \in Tasks
  PROVE  /\ Outdated(p)[u] \in Task \cup {IdleTask}
         /\ Outdated(p)[u].pc = tasks[u].pc /\ Outdated(p)[u].since = tasks[u].since
         /\ Outdated(p)[u].side = tasks[u].side /\ Outdated(p)[u].ok = tasks[u].ok
         /\ Outdated(p)[u].foreign = tasks[u].foreign /\ Outdated(p)[u].proc = tasks[u].proc
         /\ Outdated(p)[u].current => tasks[u].current
         /\ u \in InFlight(p) => ~Outdated(p)[u].current
<1> DEFINE e == [tasks[u] EXCEPT !.current = FALSE]
<1>1. CASE u \in InFlight(p)
  <2>1. tasks[u] \in Task
    BY <1>1, LeaderType DEF InFlight
  <2>2. Outdated(p)[u] = e
    BY <1>1 DEF Outdated
  <2>3. /\ e \in Task /\ e.pc = tasks[u].pc /\ e.since = tasks[u].since /\ e.side = tasks[u].side
        /\ e.ok = tasks[u].ok /\ e.foreign = tasks[u].foreign /\ ~e.current /\ e.proc = tasks[u].proc
    BY <2>1 DEF Task
  <2> HIDE DEF e
  <2> QED BY <2>2, <2>3
<1>2. CASE u \notin InFlight(p)
  <2>1. Outdated(p)[u] = tasks[u]
    BY <1>2 DEF Outdated
  <2> QED BY <1>2, <2>1, RestOfTypes
<1> QED BY <1>1, <1>2

LEMMA PullDirectStep ==
  ASSUME DurablesInv, NEW t \in Tasks, PullDirect(t)
  PROVE  DurablesInv'
<1> DEFINE d == tasks[t]
           e == [d EXCEPT !.side = "broadcast", !.missing = durables["inbox"] = None]
<1>1. /\ Become(t, e) /\ d.pc = "pull" /\ UNCHANGED <<life, durables, memory, pending, open, mishaps>>
  BY DEF PullDirect, At
<1>2. d \in Task
  BY <1>1, TaskType DEF DurablesInv
<1>3. /\ e \in Task /\ e.pc = "pull" /\ e.since = d.since /\ e.ok = d.ok /\ e.foreign = d.foreign
  BY <1>1, <1>2, SidesAre DEF Task
<1> HIDE DEF e
<1>4. tasks'[t] = e
  BY <1>1, RestOfTypes DEF Become
<1>5. DurablesChange(t)
  BY <1>1, SidesAre, Removes
<1>6. TaskFits(t)' /\ ~Leading(t)'
  <2>1. TaskFits(t) /\ (AllFresh(tasks[t].since) => AllFresh(tasks[t].since)')
    BY <1>1, <1>3, <1>4 DEF DurablesInv, AllFresh, Fresh, IsLeftBehind
  <2> QED BY <1>1, <1>3, <1>4, <2>1 DEF TaskFits, Leading, life
<1> QED BY <1>1, <1>3, <1>5, <1>6, RestOfTypes, TaskMoves

LEMMA PullEndsStep ==
  ASSUME DurablesInv, NEW t \in Tasks, Become(t, IdleTask), UNCHANGED <<life, durables, memory, pending>>,
         open' \in [Procs -> BOOLEAN], mishaps' \in 0..MaxMishaps
  PROVE  DurablesInv'
BY TaskEnds, MemoryStays, RestOfTypes, SidesAre, OnlyLess

LEMMA PullBroadcastsStep ==
  ASSUME DurablesInv, NEW t \in Tasks, PullBroadcasts(t)
  PROVE  DurablesInv'
<1> DEFINE d == tasks[t]
<1>1. d.pc = "pull" /\ UNCHANGED <<life, durables, pending, open, mishaps>>
  BY DEF PullBroadcasts, At
<1>2. d.proc \in Procs
  BY <1>1, TaskType DEF DurablesInv
<1>3. CASE d.missing \/ durables["broadcast"] = None
  <2>1. ForgetKey(d.proc) /\ tasks' = [Outdated(d.proc) EXCEPT ![t] = IdleTask]
    BY <1>3 DEF PullBroadcasts
  <2>2. \A u \in Tasks : tasks'[u] = IdleTask \/ tasks'[u] = Outdated(d.proc)[u]
    BY <2>1 DEF Outdated
  <2>3. \A u \in Tasks : Outdated(d.proc)[u] \in Task \cup {IdleTask}
    BY <1>2, FallsBehind
  <2>4. tasks' \in [Tasks -> Task \cup {IdleTask}]
    BY <2>1, <2>3 DEF Outdated
  <2>5. \A u \in Tasks : Stays(u) \/ tasks'[u] = IdleTask
    BY <1>2, <2>2, FallsBehind DEF Stays
  <2> QED BY <1>1, <1>2, <2>1, <2>4, <2>5, Forgets, RestOfTypes, SidesAre, OnlyLess
<1>4. CASE ~(d.missing \/ durables["broadcast"] = None)
  <2>1. Become(t, IdleTask) /\ UNCHANGED memory
    BY <1>4 DEF PullBroadcasts
  <2> QED BY <1>1, <2>1, RestOfTypes, PullEndsStep
<1> QED BY <1>3, <1>4

LEMMA PullStops ==
  ASSUME DurablesInv, NEW t \in Tasks, PullRefused(t) \/ PullFails(t)
  PROVE  DurablesInv'
<1>1. CASE PullRefused(t)
  BY <1>1, RestOfTypes, PullEndsStep DEF PullRefused
<1>2. CASE PullFails(t)
  <2>1. tasks[t].proc \in Procs
    BY <1>2, TaskType DEF PullFails, At, DurablesInv
  <2> QED BY <1>2, <2>1, FailTypes, PullEndsStep DEF PullFails
<1> QED BY <1>1, <1>2

LEMMA ReconnectStep ==
  ASSUME DurablesInv, NEW p \in Procs, Reconnect(p)
  PROVE  DurablesInv'
<1>1. /\ ForgetKey(p) /\ tasks' = Outdated(p) /\ open' = [open EXCEPT ![p] = FALSE]
      /\ UNCHANGED <<life, durables, pending, mishaps>>
  BY DEF Reconnect
<1>2. tasks' \in [Tasks -> Task \cup {IdleTask}]
  <2>1. \A u \in Tasks : Outdated(p)[u] \in Task \cup {IdleTask}
    BY FallsBehind
  <2> QED BY <1>1, <2>1 DEF Outdated
<1>3. \A u \in Tasks : Stays(u)
  BY <1>1, FallsBehind DEF Stays
<1>4. open' \in [Procs -> BOOLEAN]
  BY <1>1, RestOfTypes
<1> QED BY <1>1, <1>2, <1>3, <1>4, Forgets, RestOfTypes, SidesAre, OnlyLess

LEMMA BreakerClosesStep ==
  ASSUME DurablesInv, NEW p \in Procs, BreakerCloses(p)
  PROVE  DurablesInv'
<1>1. open' = [open EXCEPT ![p] = FALSE] /\ UNCHANGED <<life, durables, memory, pending, tasks, mishaps>>
  BY DEF BreakerCloses
<1>2. open' \in [Procs -> BOOLEAN]
  BY <1>1, RestOfTypes
<1>3. \A u \in Tasks : Stays(u)
  BY <1>1, SameStays
<1> QED BY <1>1, <1>2, <1>3, MemoryStays, RestOfTypes, SidesAre, OnlyLess

LEMMA LoseDurableStep ==
  ASSUME DurablesInv, NEW side \in Sides, LoseDurable(side)
  PROVE  DurablesInv'
<1>1. /\ durables' = [durables EXCEPT ![side] = None] /\ Mishap
      /\ UNCHANGED <<life, memory, pending, open, tasks>>
  BY DEF LoseDurable
<1>2. mishaps' \in 0..MaxMishaps
  BY <1>1, RestOfTypes, Numbers DEF Mishap
<1>3. \A u \in Tasks : Stays(u)
  BY <1>1, SameStays
<1> QED BY <1>1, <1>2, <1>3, MemoryStays, RestOfTypes, OnlyLess

LEMMA CrashStep ==
  ASSUME DurablesInv, NEW p \in Procs, Crash(p)
  PROVE  DurablesInv'
<1>1. /\ Mishap /\ ForgetKey(p) /\ UNCHANGED <<life, durables>>
      /\ pending' = [pending EXCEPT ![p] = FALSE] /\ open' = [open EXCEPT ![p] = FALSE]
      /\ tasks' = [t \in Tasks |-> IF tasks[t].proc = p THEN IdleTask ELSE tasks[t]]
  BY DEF Crash
<1>2. mishaps' \in 0..MaxMishaps
  BY <1>1, RestOfTypes, Numbers DEF Mishap
<1>3. pending' \in [Procs -> BOOLEAN] /\ open' \in [Procs -> BOOLEAN]
  BY <1>1, RestOfTypes
<1>4. tasks' \in [Tasks -> Task \cup {IdleTask}]
  BY <1>1, RestOfTypes
<1>5. \A u \in Tasks : Stays(u) \/ tasks'[u] = IdleTask
  BY <1>1, SameStays
<1> QED BY <1>1, <1>2, <1>3, <1>4, <1>5, Forgets, SidesAre, OnlyLess

-----------------------------------------------------------------------------
(***************************************************************************)
(* The agents and time.                                                    *)
(***************************************************************************)

\* Whatever of its predecessor still runs knows less of a new agent than of
\* nobody.
LEMMA CreateStep ==
  ASSUME DurablesInv, Create
  PROVE  DurablesInv'
<1>1. /\ since = None /\ since' = clock
      /\ UNCHANGED <<clock, durables, memory, pending, open, tasks, mishaps>>
  BY DEF Create
<1>2. clock \in Nat /\ clock \in Moments /\ clock # None
  BY ClockType, Numbers DEF DurablesInv, DurablesTypeOK
<1>3. DurablesTypeOK'
  BY <1>1, <1>2 DEF DurablesInv, DurablesTypeOK, memory
<1>4. \A side \in Sides : DurableFits(side)'
  BY <1>1 DEF DurablesInv, DurableFits
<1>5. ASSUME NEW t \in Tasks
      PROVE  TaskFits(t)'
  <2>1. TaskFits(t) /\ tasks'[t] = tasks[t] /\ (Leading(t)' <=> Leading(t))
    BY <1>1 DEF DurablesInv, Leading
  <2>2. /\ Fresh("inbox", tasks[t].since) => Fresh("inbox", tasks[t].since)'
        /\ AllFresh(tasks[t].since) => AllFresh(tasks[t].since)'
    BY <1>1 DEF AllFresh, Fresh, IsLeftBehind
  <2> QED BY <1>1, <2>1, <2>2 DEF TaskFits
<1>6. MemoryFits'
  BY <1>1 DEF DurablesInv, MemoryFits, memory
<1>7. (since # None => since <= clock)'
  BY <1>1, <1>2
<1>8. OneLeader'
  BY <1>1 DEF DurablesInv, OneLeader, Leading
<1> QED BY <1>3, <1>4, <1>5, <1>6, <1>7, <1>8 DEF DurablesInv

\* What is left of the running tasks once the agent is gone.
LEMMA Orphans ==
  ASSUME DurablesInv, NEW p \in Procs, NEW u \in Tasks
  PROVE  /\ Orphaned(p)[u] \in Task \cup {IdleTask}
         /\ Orphaned(p)[u].pc = tasks[u].pc /\ Orphaned(p)[u].since = tasks[u].since
         /\ Orphaned(p)[u].side = tasks[u].side /\ Orphaned(p)[u].ok = tasks[u].ok
         /\ Orphaned(p)[u].proc = tasks[u].proc
         /\ ~Leading(u) => Orphaned(p)[u].foreign = tasks[u].foreign
         /\ Leading(u) /\ Orphaned(p)[u].current => Orphaned(p)[u].foreign
<1> DEFINE o == Outdated(p)[u]
           e == [o EXCEPT !.foreign = TRUE]
<1>1. /\ o \in Task \cup {IdleTask} /\ o.pc = tasks[u].pc /\ o.since = tasks[u].since
      /\ o.side = tasks[u].side /\ o.ok = tasks[u].ok /\ o.proc = tasks[u].proc
      /\ o.foreign = tasks[u].foreign
      /\ u \in InFlight(p) => ~o.current
  BY FallsBehind
<1> HIDE DEF o
<1>2. CASE Leading(u) /\ tasks[u].proc # p
  <2>1. Orphaned(p)[u] = e
    BY <1>2 DEF Orphaned, o
  <2>2. o \in Task
    BY <1>1, <1>2 DEF Leading, IdleTask
  <2>3. /\ e \in Task /\ e.pc = o.pc /\ e.since = o.since /\ e.side = o.side /\ e.ok = o.ok
        /\ e.proc = o.proc /\ e.foreign
    BY <2>2 DEF Task
  <2> HIDE DEF e
  <2> QED BY <1>1, <1>2, <2>1, <2>3
<1>3. CASE ~(Leading(u) /\ tasks[u].proc # p)
  <2>1. Orphaned(p)[u] = o
    BY <1>3 DEF Orphaned, o
  <2>2. Leading(u) => u \in InFlight(p)
    BY <1>3 DEF InFlight
  <2> QED BY <1>1, <2>1, <2>2
<1> QED BY <1>2, <1>3

LEMMA RemoveStep ==
  ASSUME DurablesInv, NEW t \in Tasks, NEW p \in Procs, Remove(t, p)
  PROVE  DurablesInv'
<1> DEFINE e == [IdleTask EXCEPT !.pc = "cleanup", !.proc = p, !.since = since]
<1>1. /\ since # None /\ since' = None
      /\ ensured' = [ensured EXCEPT ![p] = FALSE]
      /\ foreign' = [q \in Procs |-> q # p /\ ensured[q]]
      /\ tasks' = [Orphaned(p) EXCEPT ![t] = e]
      /\ UNCHANGED <<clock, durables, pending, open, mishaps>>
  BY DEF Remove
<1>2. since \in Moments /\ since <= clock
  BY <1>1 DEF DurablesInv, DurablesTypeOK
<1>3. e \in Task /\ e.pc = "cleanup" /\ e.since = since
  BY <1>2 DEF IdleTask, Task, Sides
<1> HIDE DEF e
<1>4. tasks'[t] = e /\ \A u \in Tasks : u # t => tasks'[u] = Orphaned(p)[u]
  BY <1>1 DEF Orphaned
<1>5. tasks' \in [Tasks -> Task \cup {IdleTask}]
  <2>1. \A u \in Tasks : Orphaned(p)[u] \in Task \cup {IdleTask}
    BY Orphans
  <2> QED BY <1>1, <1>3, <2>1 DEF Orphaned
<1>6. ensured' \in [Procs -> BOOLEAN] /\ foreign' \in [Procs -> BOOLEAN]
  BY <1>1, RestOfTypes
<1>7. DurablesTypeOK'
  BY <1>1, <1>5, <1>6 DEF DurablesInv, DurablesTypeOK
<1>8. \A side \in Sides : DurableFits(side)'
  BY <1>1 DEF DurablesInv, DurableFits
<1>9. ASSUME NEW u \in Tasks
      PROVE  TaskFits(u)' /\ (Leading(u)' => Leading(u) /\ tasks'[u].proc = tasks[u].proc)
  <2>1. CASE u = t
    BY <1>1, <1>2, <1>3, <1>4, <2>1 DEF TaskFits, Leading
  <2>2. CASE u # t
    <3>1. TaskFits(u) /\ tasks'[u] = Orphaned(p)[u]
      BY <1>4, <2>2 DEF DurablesInv
    <3>2. /\ tasks'[u].pc = tasks[u].pc /\ tasks'[u].since = tasks[u].since
          /\ tasks'[u].side = tasks[u].side /\ tasks'[u].ok = tasks[u].ok
          /\ tasks'[u].proc = tasks[u].proc
          /\ ~Leading(u) => tasks'[u].foreign = tasks[u].foreign
          /\ Leading(u) /\ tasks'[u].current => tasks'[u].foreign
      BY <3>1, Orphans
    <3>3. Leading(u)' <=> Leading(u)
      BY <3>2 DEF Leading
    <3>4. /\ Fresh("inbox", tasks[u].since) => Fresh("inbox", tasks[u].since)'
          /\ AllFresh(tasks[u].since) => AllFresh(tasks[u].since)'
      BY <1>1, <3>2 DEF AllFresh, Fresh, IsLeftBehind
    <3>5. tasks[u].pc = "pull" => ~Leading(u)
      BY DEF Leading
    <3> HIDE DEF e
    <3> QED BY <1>1, <3>1, <3>2, <3>3, <3>4, <3>5 DEF TaskFits
  <2> QED BY <2>1, <2>2
<1>10. MemoryFits'
  BY <1>1, RestOfTypes DEF MemoryFits
<1>11. OneLeader'
  BY <1>9 DEF DurablesInv, OneLeader
<1> QED BY <1>1, <1>7, <1>8, <1>9, <1>10, <1>11 DEF DurablesInv

LEMMA TickStep ==
  ASSUME DurablesInv, Tick
  PROVE  DurablesInv'
<1>1. /\ clock < MaxTime /\ clock' = clock + 1
      /\ UNCHANGED <<since, durables, memory, pending, open, tasks, mishaps>>
  BY DEF Tick
<1>2. clock \in Nat /\ (since # None => since \in Int)
  BY ClockType DEF DurablesInv
<1>3. clock' \in Moments /\ clock' \in Int /\ clock <= clock'
  BY <1>1, <1>2, Numbers DEF Moments
<1>4. DurablesTypeOK'
  BY <1>1, <1>3 DEF DurablesInv, DurablesTypeOK, memory
<1>5. (since # None => since <= clock)'
  BY <1>1, <1>2, <1>3 DEF DurablesInv
<1>6. \A side \in Sides : DurableFits(side)'
  BY <1>1 DEF DurablesInv, DurableFits
<1>7. ASSUME NEW u \in Tasks
      PROVE  TaskFits(u)'
  <2>1. TaskFits(u) /\ tasks' = tasks /\ since' = since /\ durables' = durables
    BY <1>1 DEF DurablesInv
  <2>2. tasks[u].pc # "idle" => tasks[u].since <= clock'
    <3>1. tasks[u].pc # "idle" => tasks[u].since <= clock /\ tasks[u].since \in Int
      BY <2>1, TaskType, Numbers DEF TaskFits, DurablesInv, Moments
    <3> QED BY <1>2, <1>3, <3>1
  <2>3. /\ Fresh("inbox", tasks[u].since) => Fresh("inbox", tasks[u].since)'
        /\ AllFresh(tasks[u].since) => AllFresh(tasks[u].since)'
    BY <2>1 DEF AllFresh, Fresh, IsLeftBehind
  <2> QED BY <2>1, <2>2, <2>3 DEF TaskFits, Leading
<1>8. MemoryFits' /\ OneLeader'
  BY <1>1 DEF DurablesInv, MemoryFits, OneLeader, Leading, AllFresh, Fresh, IsLeftBehind, memory
<1> QED BY <1>4, <1>5, <1>6, <1>7, <1>8 DEF DurablesInv

-----------------------------------------------------------------------------

LEMMA DurablesBegin == DurablesInit => DurablesInv
<1> SUFFICES ASSUME DurablesInit PROVE DurablesInv
  OBVIOUS
<1>1. DurablesTypeOK
  BY Numbers DEF DurablesInit, DurablesTypeOK, Moments
<1>2. \A t \in Tasks : TaskFits(t) /\ ~Leading(t)
  BY DEF DurablesInit, TaskFits, Leading, IdleTask
<1>3. \A side \in Sides : durables[side] = None
  BY DEF DurablesInit
<1>4. MemoryFits
  BY DEF DurablesInit, MemoryFits
<1>5. since = None
  BY DEF DurablesInit
<1> QED BY <1>1, <1>2, <1>3, <1>4, <1>5 DEF DurablesInv, DurableFits, OneLeader

LEMMA StandsStill ==
  ASSUME DurablesInv, UNCHANGED durablesVars
  PROVE  DurablesInv'
<1>1. UNCHANGED <<life, durables, memory, pending, open, tasks, mishaps>>
  BY DEF durablesVars, life, memory
<1>2. \A u \in Tasks : Stays(u)
  BY <1>1, SameStays
<1> QED BY <1>1, <1>2, MemoryStays, RestOfTypes, SidesAre, OnlyLess

LEMMA DurablesStep ==
  ASSUME DurablesInv, [DurablesNext]_durablesVars
  PROVE  DurablesInv'
<1>1. ASSUME NEW t \in Tasks, Progress(t)
      PROVE  DurablesInv'
  BY <1>1, EnsureConsumerStep, RemoveInboxStep, RemoveBroadcastStep, RemovalFailsStep, InfoStep,
     ReplaceStep, AddStep, PullDirectStep, PullBroadcastsStep, PullStops DEF Progress
<1>2. ASSUME NEW t \in Tasks, Fails(t)
      PROVE  DurablesInv'
  BY <1>2, RemovalFailsStep, EnsureFailsStep, PullStops DEF Fails
<1>3. ASSUME NEW t \in Tasks, NEW p \in Procs, Begin(t, p) \/ Remove(t, p)
      PROVE  DurablesInv'
  BY <1>3, BeginStep, RemoveStep
<1>4. ASSUME NEW p \in Procs, Reconnect(p) \/ BreakerCloses(p) \/ Crash(p)
      PROVE  DurablesInv'
  BY <1>4, ReconnectStep, BreakerClosesStep, CrashStep
<1>5. ASSUME NEW side \in Sides, LoseDurable(side)
      PROVE  DurablesInv'
  BY <1>5, LoseDurableStep
<1>6. CASE Create \/ Tick
  BY <1>6, CreateStep, TickStep
<1>7. CASE UNCHANGED durablesVars
  BY <1>7, StandsStill
<1> QED BY <1>1, <1>2, <1>3, <1>4, <1>5, <1>6, <1>7 DEF DurablesNext

\* The invariant holds for any number of processes and requests, any tolerance
\* that covers the skew of the clocks, and a key that is given again at any time.
THEOREM DurablesInvariance == DurablesSpec => []DurablesInv
<1>1. DurablesInit => DurablesInv
  BY DurablesBegin
<1>2. DurablesInv /\ [DurablesNext]_durablesVars => DurablesInv'
  BY DurablesStep
<1> QED BY <1>1, <1>2, PTL DEF DurablesSpec

LEMMA InvariantOwns ==
  ASSUME DurablesInv
  PROVE  OnlyOwnDurables
<1>1. PullsNothingLeftBehind
  <2> SUFFICES ASSUME NEW t \in Tasks, Inherits(t), ~tasks[t].foreign
               PROVE  FALSE
    BY DEF PullsNothingLeftBehind, DurablesInv, DurablesTypeOK
  <2>1. tasks[t].pc = "pull" /\ tasks[t].ok /\ tasks[t].since = since
    BY DEF Inherits, At
  <2>2. AllFresh(since)
    BY <2>1 DEF DurablesInv, TaskFits
  <2> QED BY <2>2 DEF Inherits, AllFresh, Fresh
<1>2. OwnDurableStays
  BY DEF OwnDurableStays, DurablesInv, TaskFits, At
<1> QED BY <1>1, <1>2 DEF OnlyOwnDurables

\* Nobody who was told by an ensure on behalf of its own agent pulls from what a
\* predecessor left behind, and no process throws away what it made for the
\* agent (consumers.ts, "Whose an existing durable is"): for any number of
\* processes, whatever fails, is lost or is forgotten, and however a
\* predecessor's cleanup and requests overlap with its successor's.
THEOREM OwnDurables == DurablesSpec => []OnlyOwnDurables
<1>1. DurablesSpec => []DurablesInv
  BY DurablesInvariance
<1>2. DurablesInv => OnlyOwnDurables
  BY InvariantOwns
<1> QED BY <1>1, <1>2, PTL
=============================================================================
