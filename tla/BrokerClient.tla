---------------------------- MODULE BrokerClient ----------------------------
(***************************************************************************)
(* The one connection to the broker, from the start of the process to its  *)
(* end (services/nats.ts, stream-config.ts, shutdown.ts, index.tsx).  The  *)
(* start loop connects, brings the stream in line, makes the bucket and    *)
(* only then takes the connection into service.  Afterwards the client     *)
(* library loses and restores the connection by itself and tells of it in  *)
(* status events, handled later and one by one, that steer the breaker of  *)
(* CircuitBreaker while calls of the broker are under way.  A signal ends  *)
(* it all, step by step.                                                   *)
(*                                                                         *)
(* The broker may go away with its connections or only fall silent, and a  *)
(* new one without a stream may come back in its place: to a publish that  *)
(* is one more outage (503), to a ping it is a broker.  Publishes to it    *)
(* and the consumers' memory are in SendPath, Inbox and Durables.          *)
(***************************************************************************)
EXTENDS CircuitBreaker, Sequences

CONSTANTS
  MaxDrops,   \* bound: times the broker goes away
  MaxSlow     \* bound: answers of a reachable broker that come too late

VARIABLES
  link,     \* the broker: "up", "down"
  stream,   \* "none", "gone" (after the setup had seen to it), "stuck" (in what
            \* no update changes), "differs", "wanted"
  socket,   \* this.nc: "none", "open", "doomed" (unnoticed), "lost", "closed"
  stage,    \* the start loop and the attempt under way in it
  events,   \* status events of the connection in service, not handled yet
  shut,     \* 0, then the number of the shutdown's step, then Exited
  closing,  \* close(): "no", "draining", "closed"
  faults    \* [drops, slow]: what the bounds have left to the broker

breaker == <<down, cooling, probing, generation, calls>>
client == <<link, stream, socket, stage, events, shut, closing, faults>>
allVars == <<breaker, client>>

Steps == <<"maintenance", "event-streams", "http", "nats", "database">>
Exited == Len(Steps) + 1
Running == shut < Exited
Stopping == shut # 0
InService == stage = "served"

ClientInit ==
  /\ Init
  /\ link \in {"up", "down"}
  /\ stream \in {"none", "stuck", "differs", "wanted"}
  /\ socket = "none"
  /\ stage = "waiting"
  /\ events = <<>>
  /\ shut = 0
  /\ closing = "no"
  /\ faults = [drops |-> 0, slow |-> 0]

-----------------------------------------------------------------------------
(***************************************************************************)
(* The broker and the client library.                                      *)
(***************************************************************************)

\* The broker goes away: its connections end with it, or it only falls silent.
LinkDrops ==
  /\ link = "up"
  /\ faults.drops < MaxDrops
  /\ link' = "down"
  /\ faults' = [faults EXCEPT !.drops = @ + 1]
  /\ socket' \in {socket} \cup (IF socket = "open" THEN {"doomed"} ELSE {})
  /\ UNCHANGED <<breaker, stream, stage, events, shut, closing>>

\* It comes back, or another one does, without the stream.
LinkReturns ==
  /\ link = "down"
  /\ link' = "up"
  /\ stream' \in {stream, IF stage \in {"update", "bucket", "served"} THEN "gone" ELSE "none"}
  /\ UNCHANGED <<breaker, socket, stage, events, shut, closing, faults>>

\* Only a connection in service has somebody who listens.
Told(news) == events' = IF InService THEN events \o news ELSE events

\* The socket ended, or no ping was answered for a minute.
NoticesLoss ==
  /\ socket' = "lost"
  /\ \/ socket = "doomed" /\ Told(<<"disconnect">>)
     \/ socket = "open" /\ link = "down" /\ Told(<<"staleConnection", "disconnect">>)
  /\ UNCHANGED <<breaker, link, stream, stage, shut, closing, faults>>

Reconnects ==
  /\ socket = "lost"
  /\ link = "up"
  /\ socket' = "open"
  /\ Told(<<"reconnect">>)
  /\ UNCHANGED <<breaker, link, stream, stage, shut, closing, faults>>

-----------------------------------------------------------------------------
(***************************************************************************)
(* connect() and the loop around it.                                       *)
(***************************************************************************)

\* The wait is over.  What is left of the last attempt is closed.
BeginAttempt ==
  /\ stage = "waiting"
  /\ stage' = IF Stopping THEN "ended" ELSE "connecting"
  /\ socket' = IF Stopping \/ socket = "none" THEN socket ELSE "closed"
  /\ UNCHANGED <<breaker, link, stream, events, shut, closing, faults>>

\* The socket is there.  The connection is remembered, and not in service.
Connected ==
  /\ stage = "connecting"
  /\ link = "up"
  /\ socket' = "open"
  /\ stage' = "info"
  /\ UNCHANGED <<breaker, link, stream, events, shut, closing, faults>>

Answered == socket = "open" /\ link = "up"

HasStream == stream \notin {"none", "gone"}

StreamInfo ==
  /\ stage = "info"
  /\ Answered
  /\ stage' = CASE ~HasStream -> "add"
                [] stream = "differs" -> "update"
                [] OTHER -> "bucket"
  /\ UNCHANGED <<breaker, link, stream, socket, events, shut, closing, faults>>

StreamAdd ==
  /\ stage = "add"
  /\ Answered
  /\ stream' = "wanted"
  /\ stage' = "bucket"
  /\ UNCHANGED <<breaker, link, socket, events, shut, closing, faults>>

\* Done, or refused, as for a stream that is gone: then it stays as it is and
\* the setup goes on.
StreamUpdate ==
  /\ stage = "update"
  /\ Answered
  /\ stream' \in {stream} \cup (IF HasStream THEN {"wanted"} ELSE {})
  /\ stage' = "bucket"
  /\ UNCHANGED <<breaker, link, socket, events, shut, closing, faults>>

\* The bucket is there: the connection goes into service.
Attach ==
  /\ stage = "bucket"
  /\ Answered
  /\ stage' = "served"
  /\ MarkUp
  /\ UNCHANGED <<link, stream, socket, events, shut, closing, faults>>

\* Whether the broker did what it did not answer in time.
Unanswered ==
  stream' \in {stream} \cup
             (IF stage = "add" \/ (stage = "update" /\ HasStream) THEN {"wanted"} ELSE {})

\* An error or no answer in time.
SetupFails ==
  /\ stage \in {"connecting", "info", "add", "update", "bucket"}
  /\ \/ /\ link = "down" \/ (stage # "connecting" /\ socket # "open")
        /\ UNCHANGED faults
     \/ /\ faults.slow < MaxSlow
        /\ faults' = [faults EXCEPT !.slow = @ + 1]

AttemptFails_AddGoesOn ==
  /\ SetupFails
  /\ Unanswered
  /\ stage' = IF stage = "add" THEN "bucket" ELSE "waiting"
  /\ UNCHANGED <<breaker, link, socket, events, shut, closing>>

AttemptFails ==
  /\ SetupFails
  /\ Unanswered
  /\ stage' = "waiting"
  /\ UNCHANGED <<breaker, link, socket, events, shut, closing>>

SetupStep ==
  Connected \/ StreamInfo \/ StreamAdd \/ StreamUpdate \/ Attach \/ AttemptFails

-----------------------------------------------------------------------------
(***************************************************************************)
(* The connection in service: its events, and the calls through `guarded`. *)
(***************************************************************************)

HandleEvent_ReconnectOnly ==
  /\ events # <<>>
  /\ events' = Tail(events)
  /\ IF Head(events) = "reconnect" THEN MarkUp ELSE UNCHANGED breaker
  /\ UNCHANGED <<link, stream, socket, stage, shut, closing, faults>>

HandleEvent ==
  /\ events # <<>>
  /\ events' = Tail(events)
  /\ IF Head(events) = "reconnect" THEN MarkUp ELSE MarkDown
  /\ UNCHANGED <<link, stream, socket, stage, shut, closing, faults>>

CallStarts(c) == Start(c) /\ UNCHANGED client

CallAnswered(c) == Answered /\ (Succeed(c) \/ Reject(c)) /\ UNCHANGED client

CallTimesOut(c) == FailOutage(c) /\ UNCHANGED client

CallOver(c) == CallAnswered(c) \/ CallTimesOut(c)

Cools == CoolDownEnds /\ UNCHANGED client

-----------------------------------------------------------------------------
(***************************************************************************)
(* The shutdown.                                                           *)
(***************************************************************************)

\* A second signal changes nothing.
Signal ==
  /\ shut = 0
  /\ shut' = 1
  /\ UNCHANGED <<breaker, link, stream, socket, stage, events, closing, faults>>

InStep(name) == shut \in DOMAIN Steps /\ Steps[shut] = name

\* close(), up to the drain.
CloseBegins ==
  /\ InStep("nats")
  /\ closing = "no"
  /\ closing' = IF socket \in {"none", "closed"} THEN "closed" ELSE "draining"
  /\ MarkDown
  /\ UNCHANGED <<link, stream, socket, stage, events, shut, faults>>

\* Drained, refused or given up on; closed in any case.
DrainEnds ==
  /\ closing = "draining"
  /\ closing' = "closed"
  /\ socket' = "closed"
  /\ events' = <<>>
  /\ UNCHANGED <<breaker, link, stream, stage, shut, faults>>

StepEnds ==
  /\ shut \in DOMAIN Steps
  /\ InStep("nats") => closing = "closed"
  /\ shut' = shut + 1
  /\ UNCHANGED <<breaker, link, stream, socket, stage, events, closing, faults>>

\* It threw, or its time is up: the next one runs all the same.
StepFails ==
  /\ shut \in DOMAIN Steps
  /\ InStep("nats") => closing # "no"
  /\ shut' = shut + 1
  /\ UNCHANGED <<breaker, link, stream, socket, stage, events, closing, faults>>

-----------------------------------------------------------------------------

ClientNext ==
  /\ Running
  /\ \/ LinkDrops \/ LinkReturns \/ NoticesLoss \/ Reconnects
     \/ BeginAttempt \/ SetupStep
     \/ HandleEvent \/ Cools
     \/ \E c \in Calls : CallStarts(c) \/ CallOver(c)
     \/ Signal \/ CloseBegins \/ DrainEnds \/ StepEnds \/ StepFails

ClientSpec == ClientInit /\ [][ClientNext]_allVars

-----------------------------------------------------------------------------
(***************************************************************************)
(* Properties.                                                             *)
(***************************************************************************)

\* What the breaker believes is what the client library last saw: with all
\* events handled and no shutdown it is down exactly while the connection in
\* service is lost, or none is in service yet.  An event that came before the
\* status loop was there does no harm, and none is handled out of turn.
BreakerFollowsConnection ==
  events = <<>> /\ ~Stopping => (down <=> ~InService \/ socket = "lost")

\* A call for the stream can get through: the connection is in service, the
\* breaker not in front of it for ever, half-open with the probe's place taken
\* by nobody, and the stream there.
LetsThrough == ~down /\ (cooling = "no" \/ (cooling = "over" /\ ~probing))
Delivers == InService /\ LetsThrough /\ HasStream

\* Messaging comes into service by itself, at the first start however its
\* attempts fail, and back after every outage that leaves the broker its
\* stream; and a signal ends the process, whatever the steps of its shutdown
\* run into.  It does not come back when the broker returns without the stream
\* after the setup had seen to it: only a setup makes the stream, and a
\* reconnect is none.
ServesOrEnds ==
  []<>(shut = Exited \/ (~Stopping /\ (link = "down" \/ Delivers \/ stream = "gone")))

\* The same without that allowance: an outage "heals itself without any
\* mesh-side intervention" (nats.ts:158).
HealsItself ==
  []<>(shut = Exited \/ (~Stopping /\ (link = "down" \/ Delivers)))
=============================================================================
