------------------------------ MODULE SendPath ------------------------------
(***************************************************************************)
(* The send path of the mesh: mesh_send and mesh_reply end in `deliver`    *)
(* (mcp/tools/send.ts), which records the attempt (services/attempts.ts),  *)
(* publishes to the JetStream broker, writes the history row and queues    *)
(* the recipient's webhook (services/message.ts).  A send whose outcome    *)
(* is unknown is repeated under its id.                                    *)
(*                                                                         *)
(* Many calls of `deliver` run at once: in one process they interleave at  *)
(* every await, and two processes share the SQLite volume during a deploy, *)
(* so every SQL statement and the publish are steps of their own.  The     *)
(* broker answers late or never, and a publish that timed out can still    *)
(* arrive.  Time is abstract: the duplicate window of an id ends at any    *)
(* moment.                                                                 *)
(*                                                                         *)
(* An operator named X_<slip> is X with a plausible programming slip; it   *)
(* takes the place of X in a test of a property and is no part of Spec.    *)
(***************************************************************************)
EXTENDS Naturals, FiniteSets

CONSTANTS
  Agents,         \* inbox keys of the agents that send
  Ids,            \* message ids (ULIDs: never drawn twice)
  Names,          \* names of agents a message can be addressed to
  BroadcastName,  \* the name that stands for every agent: "broadcast"
  Keys,           \* recipients' inbox keys
  Base,           \* name -> the key its agent gets when nobody holds it
  BroadcastKey,   \* the to_key of a broadcast: ""
  NoKey,          \* what a name nobody has stands for
  Bodies,         \* type, payload and reply_to: what a repeat has to match
  Extras,         \* context, priority, ttl, thread: what it need not match
  Calls,          \* calls of `deliver` that can run at the same time
  None,           \* no row, no call
  MaxFaults,      \* bound: failures, lost answers and crashes
  MaxCopies       \* bound: copies after which no duplicate window ends

ASSUME ConstantsAssumption ==
  /\ BroadcastName \notin Names
  /\ BroadcastKey \notin Keys
  /\ NoKey \notin Keys \cup {BroadcastKey}
  /\ Base \in [Names -> Keys]
  /\ None \notin Calls
  /\ None \notin [msg : [from: Agents, body: Bodies, extra: Extras],
                  to : Names \cup {BroadcastName}, key : Keys \cup {BroadcastKey}]
  /\ None \notin [msg: [from: Agents, body: Bodies, extra: Extras],
                  key: Keys \cup {BroadcastKey}, seq: Nat]
  /\ MaxFaults \in Nat
  /\ MaxCopies \in Nat

VARIABLES
  calls,      \* Calls -> what each running call of `deliver` is doing
  used,       \* ids that were drawn
  addr,       \* Names -> inbox key of the agent that has the name now
  attempts,   \* send_attempts: id -> recorded message and address, or none
  rows,       \* messages: id -> history row, or none
  wire,       \* publishes the broker has not seen yet
  copies,     \* the stream: what the broker stored
  lastSeq,    \* the stream's last sequence
  window,     \* ids the broker still recognises as duplicates
  told,       \* id -> outcomes its sender was told that ask for a repeat
  announced,  \* id -> how often it was queued for the recipient's webhook
  faults      \* failures so far

vars == <<calls, used, addr, attempts, rows, wire, copies, lastSeq, window,
          told, announced, faults>>

store == <<attempts, rows, told, announced>>
broker == <<wire, copies, lastSeq, window>>

-----------------------------------------------------------------------------

Targets == Names \cup {BroadcastName}
Addresses == Keys \cup {BroadcastKey}

\* What the recipient reads.  Its `to` is a label and left out: a rename
\* rewrites it in the history.
Message == [from: Agents, body: Bodies, extra: Extras]
Attempt == [msg: Message, to: Targets, key: Addresses]
Row == [msg: Message, key: Addresses, seq: Nat]
Copy == [id: Ids, msg: Message, key: Addresses, seq: Nat]
Publish == [id: Ids, msg: Message, key: Addresses, call: Calls \cup {None}]

Steps == {"look", "match", "record", "publish", "waiting", "acked",
          "stored", "announce"}
Call == [pc: Steps, who: Agents, id: Ids, repeat: BOOLEAN, msg: Message,
         to: Targets, key: Addresses, seq: Nat, dup: BOOLEAN, gap: BOOLEAN]
Idle == [pc |-> "idle"]

TypeOK ==
  /\ calls \in [Calls -> Call \cup {Idle}]
  /\ used \in SUBSET Ids
  /\ addr \in [Names -> Keys \cup {NoKey}]
  /\ attempts \in [Ids -> Attempt \cup {None}]
  /\ rows \in [Ids -> Row \cup {None}]
  /\ wire \in SUBSET Publish
  /\ copies \in SUBSET Copy
  /\ lastSeq \in Nat
  /\ window \in SUBSET Ids
  /\ told \in [Ids -> SUBSET {"delivery_unknown", "history_gap"}]
  /\ announced \in [Ids -> Nat]
  /\ faults \in Nat

Init ==
  /\ calls = [c \in Calls |-> Idle]
  /\ used = {}
  /\ addr = Base
  /\ attempts = [i \in Ids |-> None]
  /\ rows = [i \in Ids |-> None]
  /\ wire = {}
  /\ copies = {}
  /\ lastSeq = 0
  /\ window = {}
  /\ told = [i \in Ids |-> {}]
  /\ announced = [i \in Ids |-> 0]
  /\ faults = 0

-----------------------------------------------------------------------------

At(c, step) == calls[c].pc = step
Goto(c, step) == calls' = [calls EXCEPT ![c].pc = step]
End(c) == calls' = [calls EXCEPT ![c] = Idle]

\* One more thing that went wrong.
Fault == /\ faults < MaxFaults
         /\ faults' = faults + 1

\* The address behind a name: the agent's inbox key, or the broadcast subject.
KeyOf(n) == IF n = BroadcastName THEN BroadcastKey ELSE addr[n]

Draft(c, step, who, i, repeat, n, body, extra) ==
  calls' = [calls EXCEPT ![c] =
    [pc |-> step, who |-> who, id |-> i, repeat |-> repeat,
     msg |-> [from |-> who, body |-> body, extra |-> extra],
     to |-> n, key |-> KeyOf(n), seq |-> 0, dup |-> FALSE, gap |-> FALSE]]

\* mesh_send / mesh_reply without an id: a name that has an agent, a new id.
NewSend(c, who, i, n, body, extra) ==
  /\ calls[c] = Idle
  /\ i \notin used
  /\ KeyOf(n) # NoKey
  /\ used' = used \cup {i}
  /\ Draft(c, "record", who, i, FALSE, n, body, extra)
  /\ UNCHANGED <<addr, store, broker, faults>>

\* An id is known from the error that named it, or from a copy somebody read.
Known(i) == told[i] # {} \/ \E x \in copies : x.id = i

\* The same tools with the id of an earlier send, by anybody who knows one.
\* A name without an agent is answered from the tables; nothing changes.
Repeat(c, who, i, n, body, extra) ==
  /\ calls[c] = Idle
  /\ Known(i)
  /\ KeyOf(n) # NoKey
  /\ Draft(c, "look", who, i, TRUE, n, body, extra)
  /\ UNCHANGED <<used, addr, store, broker, faults>>

\* alreadyDelivered: a row answers the repeat, whatever the answer is.
AlreadyDelivered(c) ==
  /\ At(c, "look")
  /\ IF rows[calls[c].id] # None THEN End(c) ELSE Goto(c, "match")
  /\ UNCHANGED <<used, addr, store, broker, faults>>

OwnAttempt(c) ==
  LET a == attempts[calls[c].id] IN a # None /\ a.msg.from = calls[c].who

SameAsAttempt_ByName(d, a) ==
  /\ a.to = d.to
  /\ a.msg.body = d.msg.body

SameAsAttempt(d, a) ==
  /\ IF a.key # BroadcastKey THEN a.key = d.key ELSE a.to = d.to
  /\ a.msg.body = d.msg.body

\* envelopeOf: the first attempt's envelope around the caller's payload.
EnvelopeOf(a, d) == [a.msg EXCEPT !.body = d.msg.body]

\* repeatOf: the caller's own attempt, and the same message.
RepeatOf(c) ==
  LET d == calls[c]
      a == attempts[d.id]
  IN  /\ At(c, "match")
      /\ IF OwnAttempt(c) /\ SameAsAttempt(d, a)
         THEN calls' = [calls EXCEPT ![c] =
                [d EXCEPT !.pc = "record", !.msg = EnvelopeOf(a, d), !.to = a.to]]
         ELSE End(c)
      /\ UNCHANGED <<used, addr, store, broker, faults>>

\* The rate limit refuses the call, or the attempt cannot be recorded:
\* nothing was sent.
Refuse(c) ==
  /\ At(c, "record")
  /\ Fault
  /\ End(c)
  /\ UNCHANGED <<used, addr, store, broker>>

\* recordAttempt: INSERT OR IGNORE.
RecordAttempt(c) ==
  LET d == calls[c] IN
  /\ At(c, "record")
  /\ attempts' =
       IF attempts[d.id] = None
       THEN [attempts EXCEPT ![d.id] = [msg |-> d.msg, to |-> d.to, key |-> d.key]]
       ELSE attempts
  /\ Goto(c, "publish")
  /\ UNCHANGED <<used, addr, rows, told, announced, broker, faults>>

SendPublish(c) ==
  LET d == calls[c] IN
  /\ At(c, "publish")
  /\ wire' = wire \cup {[id |-> d.id, msg |-> d.msg, key |-> d.key, call |-> c]}
  /\ Goto(c, "waiting")
  /\ UNCHANGED <<used, addr, store, copies, lastSeq, window, faults>>

PublishRefused_Forgets(c) ==
  /\ At(c, "publish")
  /\ Fault
  /\ attempts' = [attempts EXCEPT ![calls[c].id] = None]
  /\ End(c)
  /\ UNCHANGED <<used, addr, rows, told, announced, broker>>

\* The breaker or the connection refuses the publish: `nats_unavailable`.
\* A new send takes its record back; a repeat leaves it for the next one.
PublishRefused(c) ==
  LET d == calls[c] IN
  /\ At(c, "publish")
  /\ Fault
  /\ attempts' = IF d.repeat THEN attempts ELSE [attempts EXCEPT ![d.id] = None]
  /\ End(c)
  /\ UNCHANGED <<used, addr, rows, told, announced, broker>>

\* The call no longer waits for its publish, wherever that is.
Detach(c) ==
  wire' = {IF p.call = c THEN [p EXCEPT !.call = None] ELSE p : p \in wire}

\* No answer in time: `delivery_unknown`, and the record stays.
PublishTimeout(c) ==
  /\ At(c, "waiting")
  /\ Fault
  /\ told' = [told EXCEPT ![calls[c].id] = @ \cup {"delivery_unknown"}]
  /\ Detach(c)
  /\ End(c)
  /\ UNCHANGED <<used, addr, attempts, rows, announced, copies, lastSeq, window>>

\* Whoever still waits for publish p gets the broker's answer: the sequence
\* of the copy, and whether the broker had it before.
Answer(p, seq, dup) ==
  IF p.call \in Calls
  THEN calls' = [calls EXCEPT ![p.call].pc = "acked",
                              ![p.call].seq = seq, ![p.call].dup = dup]
  ELSE UNCHANGED calls

\* The broker stores a publish whose id is not in its duplicate window.
BrokerStores(p) ==
  /\ p.id \notin window
  /\ lastSeq' = lastSeq + 1
  /\ copies' = copies \cup
       {[id |-> p.id, msg |-> p.msg, key |-> p.key, seq |-> lastSeq + 1]}
  /\ window' = window \cup {p.id}
  /\ wire' = wire \ {p}
  /\ Answer(p, lastSeq + 1, FALSE)
  /\ UNCHANGED <<used, addr, store, faults>>

\* A duplicate is not stored: the answer names the newest copy of its id.
BrokerRecognises(p) ==
  /\ p.id \in window
  /\ \E x \in copies :
       /\ x.id = p.id
       /\ \A y \in copies : y.id = p.id => y.seq <= x.seq
       /\ Answer(p, x.seq, TRUE)
  /\ wire' = wire \ {p}
  /\ UNCHANGED <<used, addr, store, copies, lastSeq, window, faults>>

\* A publish is lost on the way: the caller runs into its timeout.
PublishLost(p) ==
  /\ Fault
  /\ wire' = wire \ {p}
  /\ UNCHANGED <<calls, used, addr, store, copies, lastSeq, window>>

\* Five minutes after the copy was stored its id is forgotten.
WindowEnds(i) ==
  /\ i \in window
  /\ Cardinality(copies) < MaxCopies
  /\ window' = window \ {i}
  /\ UNCHANGED <<calls, used, addr, store, wire, copies, lastSeq, faults>>

Persist_AddressNow(c) ==
  LET d == calls[c] IN
  /\ At(c, "acked")
  /\ rows' = IF rows[d.id] = None
             THEN [rows EXCEPT ![d.id] = [msg |-> d.msg, key |-> KeyOf(d.to), seq |-> d.seq]]
             ELSE rows
  /\ Goto(c, "stored")
  /\ UNCHANGED <<used, addr, attempts, told, announced, broker, faults>>

\* persistMessage: a new row, or the row another repeat wrote (hasRow).
Persist(c) ==
  LET d == calls[c] IN
  /\ At(c, "acked")
  /\ rows' = IF rows[d.id] = None
             THEN [rows EXCEPT ![d.id] = [msg |-> d.msg, key |-> d.key, seq |-> d.seq]]
             ELSE rows
  /\ Goto(c, "stored")
  /\ UNCHANGED <<used, addr, attempts, told, announced, broker, faults>>

\* The insert fails and there is no row: delivered with a history gap.
PersistFails(c) ==
  /\ At(c, "acked")
  /\ rows[calls[c].id] = None
  /\ Fault
  /\ calls' = [calls EXCEPT ![c].pc = "announce", ![c].gap = TRUE]
  /\ UNCHANGED <<used, addr, store, broker>>

ForgetAttempt(c) ==
  /\ At(c, "stored")
  /\ attempts' = [attempts EXCEPT ![calls[c].id] = None]
  /\ Goto(c, "announce")
  /\ UNCHANGED <<used, addr, rows, told, announced, broker, faults>>

Announce_Always(c) ==
  LET d == calls[c] IN
  /\ At(c, "announce")
  /\ announced' = [announced EXCEPT ![d.id] = @ + 1]
  /\ told' = IF d.gap THEN [told EXCEPT ![d.id] = @ \cup {"history_gap"}] ELSE told
  /\ End(c)
  /\ UNCHANGED <<used, addr, attempts, rows, broker, faults>>

\* enqueueWebhooks, unless the broker had the message already; the answer.
Announce(c) ==
  LET d == calls[c] IN
  /\ At(c, "announce")
  /\ announced' = IF d.dup THEN announced ELSE [announced EXCEPT ![d.id] = @ + 1]
  /\ told' = IF d.gap THEN [told EXCEPT ![d.id] = @ \cup {"history_gap"}] ELSE told
  /\ End(c)
  /\ UNCHANGED <<used, addr, attempts, rows, broker, faults>>

\* enqueueWebhooks cannot write: it says so in the log and the send goes on.
EnqueueFails(c) ==
  LET d == calls[c] IN
  /\ At(c, "announce")
  /\ ~d.dup
  /\ Fault
  /\ told' = IF d.gap THEN [told EXCEPT ![d.id] = @ \cup {"history_gap"}] ELSE told
  /\ End(c)
  /\ UNCHANGED <<used, addr, attempts, rows, announced, broker>>

\* The process dies, or forgetAttempt throws: the call ends where it is.
\* What is in SQLite and at the broker stays.
Crash(c) ==
  /\ calls[c] # Idle
  /\ Fault
  /\ Detach(c)
  /\ End(c)
  /\ UNCHANGED <<used, addr, store, copies, lastSeq, window>>

Held(k) == \E n \in Names : addr[n] = k

\* An agent is deleted or deactivated: its name is nobody's.
Remove(n) ==
  /\ addr[n] # NoKey
  /\ addr' = [addr EXCEPT ![n] = NoKey]
  /\ UNCHANGED <<calls, used, store, broker, faults>>

\* An agent is created.  allocateInboxKey: the lower-cased name, or, while an
\* agent that was renamed away from it holds that key, one with a new suffix.
Create(n, k) ==
  /\ addr[n] = NoKey
  /\ IF Held(Base[n])
     THEN /\ \A m \in Names : k # Base[m]
          /\ ~Held(k)
          /\ \A x \in copies \cup wire : x.key # k
          /\ \A i \in Ids : attempts[i] # None => attempts[i].key # k
          /\ \A c \in Calls : calls[c] # Idle => calls[c].key # k
     ELSE k = Base[n]
  /\ addr' = [addr EXCEPT ![n] = k]
  /\ UNCHANGED <<calls, used, store, broker, faults>>

\* An agent keeps its key under another name.
Rename(n, m) ==
  /\ addr[n] # NoKey
  /\ addr[m] = NoKey
  /\ addr' = [addr EXCEPT ![m] = addr[n], ![n] = NoKey]
  /\ UNCHANGED <<calls, used, store, broker, faults>>

-----------------------------------------------------------------------------

CallStep(c) ==
  \/ AlreadyDelivered(c)
  \/ RepeatOf(c)
  \/ RecordAttempt(c)
  \/ SendPublish(c)
  \/ Persist(c)
  \/ ForgetAttempt(c)
  \/ Announce(c)

CallFails(c) ==
  \/ Refuse(c)
  \/ PublishRefused(c)
  \/ PublishTimeout(c)
  \/ PersistFails(c)
  \/ EnqueueFails(c)
  \/ Crash(c)

BrokerStep(p) == BrokerStores(p) \/ BrokerRecognises(p)

SomeSend(c) ==
  \E who \in Agents, i \in Ids, n \in Targets, b \in Bodies, x \in Extras :
    NewSend(c, who, i, n, b, x) \/ Repeat(c, who, i, n, b, x)

AddressStep ==
  \/ \E n \in Names : Remove(n)
  \/ \E n \in Names, k \in Keys : Create(n, k)
  \/ \E n, m \in Names : Rename(n, m)

Next ==
  \/ \E c \in Calls : SomeSend(c) \/ CallStep(c) \/ CallFails(c)
  \/ \E p \in wire : BrokerStep(p) \/ PublishLost(p)
  \/ \E i \in Ids : WindowEnds(i)
  \/ AddressStep

Spec == Init /\ [][Next]_vars

\* The owner repeats what is on record, to the name it used.
OwnerRepeats(i) ==
  /\ attempts[i] # None
  /\ \E c \in Calls :
       LET a == attempts[i] IN
       Repeat(c, a.msg.from, i, a.to, a.msg.body, a.msg.extra)

\* The event loop runs every call on, the broker gets to every publish, and a
\* sender that was told to repeat does so again and again.
FairSpec ==
  /\ Spec
  /\ \A c \in Calls : WF_vars(CallStep(c))
  /\ WF_vars(\E p \in wire : BrokerStep(p))
  /\ \A i \in Ids : SF_vars(OwnerRepeats(i))

-----------------------------------------------------------------------------
(***************************************************************************)
(* Properties.                                                             *)
(***************************************************************************)

Content(x) == [msg |-> x.msg, key |-> x.key]

Carriers(i) ==
  {Content(x) : x \in {y \in copies \cup wire : y.id = i}}
    \cup {Content(x) : x \in {attempts[i], rows[i]} \ {None}}

\* Everything that carries one id is one message for one address: the copies
\* in the stream and on their way, the recorded attempt and the history row
\* (send.ts, repeatOf: "so that the recipient's copy and the history row
\* agree").  Another agent, another text or another recipient never comes in
\* through a repeat, however repeats, late publishes and renames interleave.
OneMessagePerId ==
  \A i \in Ids : \A x, y \in Carriers(i) : x = y

\* SendPath's variables as MessageLog sees them.
Sent == {[id |-> x.id, content |-> Content(x)] : x \in copies}
Kept == {[id |-> i, content |-> Content(rows[i])] :
           i \in {j \in Ids : rows[j] # None}}

Log == INSTANCE MessageLog
         WITH Contents <- [msg: Message, key: Addresses], sent <- Sent, kept <- Kept

\* The send path implements MessageLog: the stream's copies of an id are one
\* delivery, and its row is that delivery, kept.
ImplementsMessageLog == Log!Spec

\* No phantom send: a history row belongs to a message the broker stored, and
\* its stream sequence is that of such a copy (message.ts, "a failed publish
\* leaves no row in the DB").
NoPhantomSend ==
  \A i \in Ids : rows[i] # None =>
    \E x \in copies : x.id = i /\ x.seq = rows[i].seq

\* A sender that was told to send again can: its attempt is still recorded,
\* or the history has the row that answers the repeat (send.ts, "the next
\* repeat has to find it").
ToldToRepeatCanRepeat ==
  \A i \in Ids : told[i] # {} => attempts[i] # None \/ rows[i] # None

\* A stored copy wakes the recipient's hook at most once (send.ts: "Not for a
\* repeat the broker deduplicated").
AnnouncedOncePerCopy ==
  \A i \in Ids : announced[i] <= Cardinality({x \in copies : x.id = i})

\* The reason send.ts gives for that: when the broker recognises a repeat,
\* "that message was announced when it first went out", or the call that sent
\* it is still on its way to do so.
DuplicateWasAnnounced ==
  \A c \in Calls : At(c, "announce") /\ calls[c].dup =>
    \/ announced[calls[c].id] > 0
    \/ \E o \in Calls : /\ calls[o].pc \in {"acked", "stored", "announce"}
                        /\ calls[o].id = calls[c].id
                        /\ ~calls[o].dup

\* A sender that repeats what it was told to repeat gets its message into the
\* history, once failures stop (README, Delivery: "The same repeat writes the
\* row").
RepeatsMendHistory ==
  \A i \in Ids : told[i] # {} ~> rows[i] # None
=============================================================================
