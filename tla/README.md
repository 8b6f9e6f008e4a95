# moshi in TLA+

moshi is a message mesh for agents: an HTTP and MCP server (`src/src/`) that
keeps its records in SQLite, carries its messages through a NATS JetStream
broker and calls the agents' webhooks. This directory holds models of its core
logic, the TLC configurations that check them on small instances, and proofs of
the theorems that matter most for every instance.

    tlc -config SendPathSafety.cfg MCSendPath     # one run
    tlapm SendPathProofs.tla                      # one module's proofs

All paths below are relative to the repository, `services/` is
`src/src/services/`, `mcp/` is `src/src/mcp/`.

## 1. The system

### Processes and what they share

One Node process serves everything. Inside it, handlers interleave at every
`await`; `better-sqlite3` is synchronous, so what stands between two awaits runs
without a break. During a deploy two processes run on one SQLite volume and one
broker: a single SQL statement or transaction is then the unit of atomicity, and
whatever a process keeps in memory (breaker, caches, pending deletes, leases it
holds) the other does not see. The broker answers late or never, redelivers what
was not acked within 30 s, gives a copy up after five deliveries, and recognises
a repeated message id for five minutes.

### Inventory

| Component | State it keeps | Operations | What is hard | What makes it correct |
|---|---|---|---|---|
| Send path: `mcp/tools/send.ts`, `services/message.ts`, `services/attempts.ts` | `send_attempts`, `messages`, the stream | send, reply, repeat under an id | a publish that timed out may still arrive; two repeats at once; failures between record, publish, row, webhook; names that change hands | an id is one message for one address; no phantom row; who is told to repeat can |
| Receive path: `mcp/tools/receive.ts`, `services/inbox.ts`, `services/reads.ts` | two durables per agent, `message_reads` | pull, drop, ack, record reads, answer | redeliveries, second copies, acks that are fire-and-forget, reads that cannot be written, overlapping receives | handed out once; nothing acked away; no delivery wasted |
| Expiry: `services/expiry.ts` | audit rows | note from a receive, hourly sweep | a deadline during a receive | nobody's message runs out in silence |
| Dead letters: `services/dead-letter.ts` | audit rows | advisory of the broker | the advisory comes once | the row belongs to the copy |
| Circuit breaker: `services/circuit-breaker.ts` in `services/nats.ts` | state, probe, generation | run, markDown, markUp | calls that end after a reconnect | one probe; stale outcomes do not count; it opens again |
| Durables: `services/consumers.ts`, `services/nats.ts` | per key: ensured, generation, running; pending deletes | ensure, forget, remove, remove pending | an agent deleted and created again under one key; in-memory bookkeeping of two processes | an agent pulls its own mail only; its durables come back |
| Stream and connection: `services/stream-config.ts`, `services/nats.ts` | the socket, the stream's configuration, the start loop, status events not handled yet | connect until it works, reconcile the stream once, attach, handle status events, drain | a broker that goes away or falls silent during the setup; events handled later; a signal at any moment | it serves again by itself, or ends |
| Webhooks: `services/webhook-queue.ts`, `webhook-dispatcher.ts`, `webhooks.ts` | hook row, deliveries, their messages, leases | set, delete, enqueue, claim, call, record the outcome | a message during a call; two dispatchers; a replaced hook; lost outcomes | no message lost, no double call, a replaced hook left alone, everything settles |
| Agents: `services/agent.ts` | names, inbox keys, tokens, a memory of tokens per process | create, rename, delete, (de)activate, reset the token | inbox keys are reused; a process is not told what another one ended | unique keys; tokens never shared; a token ended here is dead here |
| Registration tokens: `services/registration.ts`, `routes/register-api.ts` | tokens, audit rows, slots for checks per process | issue, register, revoke, prune | the row is read before scrypt is awaited; count, agent and audit row are three statements | the hourly cap; nothing made after expiry; slots are given back |
| Sessions and sign-in: `src/src/auth.ts`, `routes/session.tsx`, `services/signin-*.ts` | two cookies and form tokens in the browser, failures by address per process | sign-in page, sign in, sign out, the middleware with its renewal, the throttle | answers out of order or lost; tabs that poll; a process with a stale memory | a session ends with its token, its use, its thirty days, and not before; a block ends |
| OAuth: `src/src/oauth*.ts`, `seal.ts` | codes not yet redeemed, the secret of each process | show the form, authorize, redeem, clean up | a code tried twice at once; a process with another secret; expiry | one try, and for its own connector; a good code works |
| Rate limiter: `services/ratelimit.ts` | buckets | take | boundaries of the refill | never above its budget |
| Presence: `services/presence.ts` | `last_seen_at`, the broker's bucket by name, announced states | touch, register, list | two records of one fact, a bucket by name that outlives its agent | what is shown is of this agent |
| Live events: `routes/sse.ts`, `services/message-events.ts`, `views/v2/live-refresh.ts` | one handler per stream; in the tab timers, tags, requests, the stream | subscribe, send, heartbeat, end; tick, answer, burst, hide, show | answers out of order with events; a section in use; a stream that breaks while a request is under way | a tab never rests on less than it was told of; what is stored is shown |
| Connect flow and HTTP surface: `routes/agent-connect.ts`, `agent-admin.ts`, `views/` | session, flash, the pages' fragments | name, token, client, handshake | a restart or a second process between the steps; a name used before | the hello is the new agent's own; the steps stay open while it is awaited |
| Board and history queries: `services/board.ts`, `result-titles.ts`, `message-queries.ts`, `section-loaders.ts`, `attention.ts`, `dashboard-stats.ts` | derived from `messages`; a cache of titles | threads, list, pane, log, attention, who has the ball | threads without a root, a clock that steps back, equal times, a rename, a rotation | every page tells the same of a thread |
| Maintenance, backup, shutdown, bootstrap: `services/db.ts`, `backup.ts`, `maintenance-tasks.ts`, `shutdown.ts`, `index.tsx` | the file, its copies, partial files | migrate with a copy before it, the daily copy, removal of old ones; the shutdown's steps | a kill at any step; two processes on one volume | nothing half done; a way back; it comes up |
| Command line client and its distribution | none on the server | downloads | - | - |

How they interact: `deliver` (send) records an attempt, publishes through the
breaker, writes the history row and enqueues the recipient's webhook; the
dispatcher takes due deliveries once a second; `mesh_receive` ensures the
durables, pulls, acks and marks reads; the sweep and the advisory listener write
audit rows; agent changes invalidate names (send), keys (durables) and hooks.

`PROJECT.json` lists every component with its status and every hazard with the
line where it bites and the properties that cover it.

## 2. Modules

| Module | Models | Composes |
|---|---|---|
| `MessageLog` | what sending promises: an id is delivered once, the history keeps what was delivered | - |
| `SendPath` | `deliver` and the broker's side of a publish, agents created, renamed, removed | instantiates `MessageLog` (refinement) |
| `SendPathProofs` | its theorems | extends `SendPath` |
| `Inbox` | one agent's receive path, redelivery, dead letters, expiry | - |
| `InboxCounts` | the counts under the answers, step by step, and `mesh_inbox` | extends `Inbox` |
| `InboxProofs` | the theorems of these two | extends `InboxCounts` |
| `CircuitBreaker` | the breaker | - |
| `BrokerClient` | the process's connection from the start loop to the drain, and its shutdown | extends `CircuitBreaker` |
| `Copies` | the database file, its migrations, its copies, on two processes | - |
| `Durables` | one inbox key: its durables, the agents that hold it one after the other, the requests that ensure | - |
| `ProcessProofs` | the theorems of these four, that the client implements the breaker among them | extends `BrokerClient`, `Copies` and `Durables` |
| `WebhookQueue`, `WebhookQueueProofs` | one agent's hook, its queue, the dispatchers; its theorems | - |
| `AgentTokens`, `AgentTokensProofs` | agents, their tokens and each process's memory of tokens; its theorem | - |
| `Sessions` | a browser's sign-ins and sessions on two processes | extends `AgentTokens` |
| `SignInGuard` | wrong credentials by address, the throttle | - |
| `Registration` | registration tokens and what they make | extends `AgentTokens` and `SignInGuard` |
| `OAuthCodes` | the consent page, codes, their redemption, two processes with their secrets | extends `AgentTokens` and `SignInGuard` |
| `RegistrationProofs` | the theorems of these three | extends `Registration`, `OAuthCodes` and `AgentTokensProofs` |
| `Connect` | the connect flow, `/agents`' forms, presence | extends `AgentTokens` |
| `History` | the queries over `messages` as operators | - |
| `MessageTable` | the table while sends and the rotation change it | extends `History` |
| `Board` | the board's rows over a table and a team | extends `History` |
| `HistoryProofs` | the theorems of these three | extends `MessageTable` and `Board` |
| `ResultTitles` | the queue and cache that look up the titles of result links | - |
| `MessageStream` | `/sse/messages`, a handler per connection | - |
| `LiveRefresh` | an open tab: its sections, timers and stream | extends `MessageStream` |
| `SessionsProofs` | the theorems of what the browser is shown: sessions, the connect flow, the titles, an open tab | extends `Sessions`, `Connect`, `ResultTitles`, `LiveRefresh` and `AgentTokensProofs` |
| `MC*` | constants and symmetry for TLC; `MCProcess` takes `BrokerClient` and `Copies` in one run, one part per behaviour, `MCPages` likewise `Connect`, `MessageTable`, `Board` and `ResultTitles` | extend the above |

An operator `X_slip` next to an operator `X` is `X` with a plausible programming
slip. It is no part of the specification: it takes `X`'s place in a test that a
property notices the slip. Each module has a `TypeOK`; most are proved
(§4), and no run spends its time on them.

### SendPath

State: `attempts` is `send_attempts`, `rows` is `messages`, `copies`, `lastSeq`
and `window` are the stream with its duplicate window, `wire` are publishes the
broker has not seen, `addr` maps a name to the inbox key of the agent that has
it now, and `calls` holds the local variables and the program counter of each
running call of `deliver`. `used`, `told`, `announced` are observations: ids
drawn, errors a sender got that ask for a repeat, webhooks queued.

Every SQL statement and the publish is a step, because a second process can come
between any two of them. Steps in the code's order: `NewSend`/`Repeat` (resolve
the recipient) → `AlreadyDelivered` → `RepeatOf` → (`Refuse`) → `RecordAttempt`
→ `SendPublish` or `PublishRefused` → the broker's `BrokerStores` or
`BrokerRecognises`, or `PublishTimeout`/`PublishLost` → `Persist` or
`PersistFails` → `ForgetAttempt` → `Announce` or `EnqueueFails`; `Crash`
anywhere. `Remove`, `Create`, `Rename` are what an agent's life does to names and
keys: `allocateInboxKey` gives the lower-cased name, or a key with a fresh random
suffix while a renamed agent still holds that key. That a suffixed key was never
used is the code's assumption (random suffix) and a guard of `Create`.

Abstractions. The sender's name inside an envelope is left out: the sender is
its agent. Payload, type and reply_to are one value `body` (what a repeat has to
match), context, priority, ttl and thread one value `extra` (what it need not).
The duplicate window of an id ends at any moment. An id is known to whoever was
told it by an error or could read a copy.

### Inbox

State: `stream` holds the copies meant for one agent in stream order, with their
place in the durable (`ready`, `out`, `acked`, `dead`) and their deliveries;
`acks` and `advisories` are under way; `reads`, `noted`, `unrecorded`,
`deadNoted` are `message_reads` and the three audit actions; `pulls` is each
running `mesh_receive`. `handed`, `misses`, `cut` are observations.

`Begin` prepares the read check (or cannot: a blind pull), `Look` is `pendingOf`,
`Take*` one message the fetch hands over and what the drop rule makes of it,
`FetchEnds` the end of one round of `pullFrom`, which fetches again only after a
full round that dropped something. From the acks to the answer a receive runs
without a break (`HandOut`), unless the first `markRead` throws and is tried again
after 50 ms (`MarkReadFails`, `MarkReadAgain`, `MarkReadGivesUp`). `PullFails` is a
broker that stops answering or a process that dies.

Abstractions. The ack wait of a copy (30 s) ends at any moment, but not during
the fetch that took it (two seconds at most): `taken` is what the present fetch
has been handed. A pull is up to 25 fetches on either side and can outlast the
ack wait of what it keeps. Whether it does is the constant `QuickPulls`: with it
no ack wait ends while the copy is kept by a pull (`Held`) or its ack is on its
way. `AckedIsAccountedFor` is about quick pulls. In slow ones a pull meets the
redelivery of a copy it keeps, takes it for a second copy and acks it, and a
failure then loses the message (`KeptIsNotAcked`, section 3). The sweep's select and its note are one step. Who sent a
broadcast is the constant `Own`; the fallback by name for a broadcast without a
row is `Namesake`. A durable that is missing when it is pulled belongs to the
durables and is not modelled here, nor is the rotation of `message_reads`, nor a
stream that is lost and made anew with its sequences starting over.

### InboxCounts

`counts` is what each answer under way has counted: of a tool that asks the broker
(`Counters`), and of each `mesh_receive`, which counts from its own pull. A tool's
count goes `CountBegins` (the agent's own durable) → `CountGoesOn` (the
broadcasts') → `StreamBounds` while broadcasts wait, which can fail → the SQL over
the rows of that moment (`OwnBroadcastsBehind`) → `CountEnds`; a pull's
(`CountedPull`) takes its looks as `pullFrom` does, less what it fetched
(`Fetched`), and ends with the answer. In between everything of `Inbox` goes on:
mail arrives and is stored, other pulls fetch and ack. `WaitingFor` is the
number in the answer. `MeshInbox` is `mesh_inbox` with its marks; it reads SQLite
alone, in one step, before its answer counts.

`CountsHideNothing` compares the answer with what was there for the agent from
others when the count began and still is (`StillThere`). It allows for what came
meanwhile and unsettled the count (`CameBetween`): an own broadcast the stream's
last sequence takes in, which is subtracted and was never counted, and a copy the
pull fetched after it had looked. The comment in `mcp/shared.ts` allows for
neither, which is one of the places in section 3. `UnreadCanCome` is about the two
numbers and the marks of `mesh_inbox`.

Abstractions. The stream stands: that it is lost and made anew, with the bounds on
a row's age that are for that case, is left out, and so are the caps of
`mesh_inbox` (its page, 100 unread).

### Durables

State: `since` is the `inbox_since` of the agent that has the key now,
`durables` the broker's two durables with the broker's creation time and the
start they were made with (and, for the property, their maker), `ensured`,
`pending` and `open` what a process remembers (`ConsumerRegistry.ensured`,
`pendingDeletes`, the breaker), `tasks` the requests and background deletes.
`foreign`, of a process and of a task, is an observation: what is remembered, or
what a request was told, was ensured on behalf of an agent that is gone.
`inFlight` is derived (`InFlight`: the task that leads an ensure), and the
registry's generation is kept where it matters, as the leading task's `current`.

`Create` gives the key to the next agent, or back to the same one, at any moment:
`AgentService` waits for nothing, and the predecessor's requests and its cleanup
(`Remove` starts it) may still run, succeed late, or fail late and stay pending.
Another process is not told (`Orphaned`).

A request goes `Begin` (sign-in) → `EnsureConsumer` → perhaps `RemoveInbox`,
`RemoveBroadcast` to finish a pending delete → `Info`, `Replace`, `Add` per side,
or it joins the ensure that runs, or memory answers → `PullDirect`,
`PullBroadcasts`, which forgets the key when a durable is missing. Between the
sign-in and the ensure a request may wait: the body limit reads a chunked body to
its end there. An ensure that fails does not end the request
(`routes/mcp.ts`: "Non-fatal").

Abstractions. A failed call took effect or did not, and none takes effect later.
The breaker is open or not; which call is its probe is `CircuitBreaker`'s matter.
The settings `alignSettings` updates are left out, and so are agents from before
`inbox_since` (whose durables are never replaced). A durable younger than
`CLOCK_TOLERANCE_MS` passes as the successor's own, whoever made it: that is what
`IsLeftBehind` says in the code, and `PullsNothingLeftBehind` promises no more.

### CircuitBreaker

`down`, `cooling` (openUntil as no, ahead, passed), `probing`, `generation` are
the class's fields, `calls` the constants each `run` keeps across its await.
Status events come at any moment (`MarkDown`, `MarkUp`), `Start` and
`Succeed`/`Reject`/`FailOutage` are the two halves of `run`.

### BrokerClient

`stage` is where the start loop is (waiting, connecting, reconciling the stream,
making the bucket, `served`), `socket` is the library's connection with
"doomed" and "lost" apart: between the two the library has not noticed. `events`
are status events that the status loop has not handled; `link` and `stream` are
the broker, which may come back without its stream: "none" before a setup has
asked for it, "gone" after, when nothing makes it again until the next start. `BeginAttempt` → `Connected` → `StreamInfo` →
`StreamAdd`/`StreamUpdate` → `Attach`, any of them with `AttemptFails`
(which may leave what the broker did without an answer, `Unanswered`);
`NoticesLoss` and `Reconnects` are the library's, `HandleEvent` what the code
makes of an event: `MarkDown` or `MarkUp` of the breaker. `CallStarts`,
`CallAnswered`, `CallTimesOut` are the breaker's `run` around a call of the
broker. `Signal` begins the shutdown, whose steps run one after the other with a
time limit (`StepEnds`, `StepFails`); of them the broker's close is modelled in
two steps (`CloseBegins`, `DrainEnds`).

Abstractions. Which field of the stream differs is two classes: what an update
changes and what it cannot. The start loop's waits have no length. The dead-letter
subscription is `Inbox`'s, the entries of the presence bucket are `Connect`'s.

### Copies

`schema` is what the file is, `recorded` the table `_migrations`, both changed in
one transaction by `Migrate`. `copies` are files with their final name,
`partials` those under a temporary name. A start goes `Starts` → `LooksForCopy` →
`CopyBefore` → `Named` (checked and renamed) → `Prune` → `Migrate`, one
migration at a time → `Serve`; a serving process takes the day's copy the same
way (`Sweep`). `Ends` stops a process in any step, `CopyFails` and
`MigrationFails` are the errors the code handles. A stamp is a second: two copies
of one second have one name. `WritesToken` is a release from before `Sealing`,
whose rows must not be found in a copy.

Abstractions. A migration is a number, its statements are one transaction. The
clock is not set back. The compaction, which changes no row, is left out.

### WebhookQueue

State: `hook` is the `agent_webhooks` row, `queue` the deliveries with their
messages, `enqueuing` a send between reading the hook and its transaction,
`calls` the claims in flight; `queued`, `woken`, `givenUp` are observations. Time
counts down: a column with a moment is the time left until it. `claimDue` is one
transaction that takes every due delivery (`Claim`); `Post`, `Drop` read what to
call; `Succeed`, `Defer`, `Retry`, `GiveUp`, `FailGone`, `Unrecorded` are the
outcomes. `Turn` says that a process does not leave what it runs without a break.

Abstractions. One agent, whose filters let every message through; the room
MAX_IN_FLIGHT leaves is never short; the two statements of a deactivation are
one step; a call is shorter than the lease (the code's timeouts of lookup and
request add up to less, and `ConstantsAssumption` says so). `Set` comes at any
moment because `checkTarget` is awaited before it.

### AgentTokens

`row` is the table `agents` as far as names and tokens go, `cache` is
`tokenCache` per process, `minted` counts the tokens drawn (random means not
drawn before), `ended` is history: which process took a token from its agent.
Every operation of `AgentService` is synchronous and one action. `RevokeById` and
`DeleteById` clear the memory also when nothing was there to revoke, as the code
does. The operator and two registrations come between each other's operations,
never into them, but for `Registration`, which separates the count, the agent
and its audit row.

### Sessions

State: `jar` is the session cookie in the browser and `nonce` the pre-session
cookie, `page` the form token each tab shows, `answer` what is under way to it.
The history variables are ages: `signedIn`, `viewed` (handled by the server) and
`shown` (arrived in the browser). A cookie is who it names, the token its
fingerprint is made from, and two ages; a MAC means that the browser presents
only what it was given. A request is handled with the cookies it was sent with
(`SignInPage`, `SignIn`, `Serve`, `SignOut`), and its answer arrives or is lost
later (`Arrive`, `Lose`), in any order between tabs. `Serve` is the whole
middleware on a cookie: page views and actions (`byHand`) renew it, an open tab's
fragments and streams do not. `Elsewhere` is the operator, a Bearer call or a
restart in either process.

Abstractions. Requests are short against the clock: none is under way over a
tick. The browser's own expiry of a cookie (Max-Age) is never before the server
would refuse it and is left out. The admin tokens do not change.

### SignInGuard and Registration

`failures` is the throttle's table per process, as ages; `Counted` is `fail` with
its eviction, `Failure` is the guard's `failure`, which does not count a client
that is throttled. A call of `register` goes `Arrive` (throttle, free slot, the
token's row is read) → scrypt → `Unauthorised`, `Declined` or `Count` →
`MakeAgent` or `NotMade` → `Record` or `RecordFails`. Once scrypt is done, its
process runs nothing else (`thread`), and the other process anything. `Crash`
ends a process between any two statements with its calls, slots and memories.
History: `made`, `lost`, `asked`, `late`.

Abstractions. One prefix rule: a name that is malformed or outside the prefix is
`NoName`. `Mint` waits for scrypt too, but nobody knows the token before its row
is there. That the body is read between the throttle's look and the free slot
is left out. Which clients an eviction takes is left open where the code sorts by
their last failure (`Evictions`: the quiet ones before those that are blocked); no
property depends on it.

### OAuthCodes

`secret` is what each process seals with, `form` the challenge a consent page in
the browser carries, `codes` the rows of `oauth_codes` with the ticks they have
left, `issued`, `tried` and `handed` are history. `HandOff` is `POST
/oauth/authorize` with a good token (the throttle of `SignInGuard`, the
classification by `AgentTokens`, the row), `Refuse` with any other. `RedeemCode`
is `POST /oauth/token`: one `DELETE … RETURNING` takes the row before expiry,
challenge and seal are looked at. A request has no await that matters, and is one
action. `CleanupExpiredOAuthCodes` is the sweep's task.

Abstractions. A sealed token opens under its own secret only. A verifier is its
connector. A code is its row's name, and everybody may try it.

### MessageStream and LiveRefresh

A handler of `/sse/messages` writes and waits in turns (`at`); a message puts its
thread into the queue of every subscribed connection in the sender's own step.
`over` is set when too much is queued, `old` when the half hour is over, and both
are looked at only when the handler is not inside an awaited comment.

`LiveRefresh` is the script of one tab: per section `sec` the request under way or
answered (`req`, `got`), whether a second one follows it (`again`), the armed
timer with the class of its delay, the tag, what is shown, and whether the user
holds it. `TimerFires` → `Respond` or `FetchFails` → `NotModified`, `NewMarkup`,
`CatchFailure`, `Denied`; the stream's side is `Subscribe`/`Refused` → `OnOpen` → `OnMessage` →
`Burst` (the debounce), `StreamEnds`, `StreamBreaks`, `Retry`. `Sent` is a message
the process of the streams stored, `SentElsewhere` one that another process did.
`Hide`, `Show`, `Online`, `Use`, `Release`, `Load` are the user. `due` is history:
what a section's fragment rendered when the section was last told of it.

Abstractions. A fragment is the number of messages of each thread it is made
from, and its tag is the fragment. The chunks in the
sockets' buffers are left out, and so is an event that cannot be parsed.

### Connect

`lastSeen` is the column, `bucket` the broker's entry by name, `writes` the
bucket's writes that are awaited, `registers` calls of `mesh_register` past their
authentication, `known` the name a process's token cache would touch. `session`
and `flash` are kept by the process that made them. `ConnectCreate` is the flow's
first step, `Handshake` what the last one asks; `NewToken`, `Change`, `ShowBand`
are the forms of `/agents`. `Contact` is any authenticated call, with the touch in
it; its write lands later or never (`WriteLands`, `WriteFails`). `cameAs` and
`cameItself` are history.

Abstractions. A tick is at most as long as the bucket keeps an entry (`LiveFor`
ticks, ten minutes), and longer than a flash, a write and a request live. One
flow at a time.

### History, MessageTable, Board, ResultTitles

`History` states each query as its SQL selects and orders it, two queries of one
thing as two operators: `ListRow` and `Pane`, `ExistingThread` (what a send
joins), `MeshHistory`, `LogItems`, `LoadLatestThread`, `OpenIncidents` and
`LatestIncidents`. `MessageTable` gives them the tables there can be: a send
looks up its thread and is stored later, at a time that may be earlier than its
predecessor's, next to the rotation, from an empty table or one with a thread of
a release that let a `correlation_id` name any row (`LegacyTables`). `Board` is
`loadBoard` over a table and a team (`IsBoard`); its inputs are enumerated in
`MCPages`, a rename with a namesake among them. `ResultTitles` is the only part of the board
with a state of its own: lookups under way, those that wait, the cache in order
of insertion, the status.

Every `LIMIT` is a constant. `MeshHistory` takes the limit its caller gives and
returns that many of the thread's oldest messages. Where a query sorts by time
only, what it does with messages of one time is left open: `NewestOf` is the set
of choices a `LIMIT` has, `OpenIncidents` of the band's (`PerSource`), `PairsRead`
of the board's pairs (`PairsListed`), `QuietLists` of the quiet rows, and
`RecentBetween` the set of orders in which a pair's recent messages may come. The
properties hold for every choice.

Abstractions. The activity log, the attention band's other items and the words
of `working_on` are left out.

## 3. Runs

| Run (configuration, module) | Question | Instance |
|---|---|---|
| `send_safety` (`SendPathSafety.cfg`, `MCSendPath`) | is an id one message; one announcement per copy; does the path implement `MessageLog` | 2 agents, 2 names, 3 keys, 1 id, 2 calls, 2 copies, 1 fault |
| `send_mends` (`SendPathMends.cfg`, `MCSendPath`) | can a sender that is told to repeat do so, and do its repeats mend the history | broadcast, 2 agents, 2 extras, 2 calls, 2 faults, fairness |
| `inbox_receive` (`InboxReceive.cfg`, `MCInboxCounts`) | handed out once; nothing acked away; does a count hide anything; can what is unread come | a direct message, a broadcast, an own broadcast, up to 2 messages in an answer, 2 copies, 2 faults, quick pulls; beside the pull another answer's count, with 1 fault and no deadline |
| `inbox_ends` (`InboxEnds.cfg`, `MCInbox`) | does every copy come to its end, is what ran out noted | 1 direct message, 2 copies, 1 fault, slow pulls too, fairness |
| `durables` (`Durables.cfg`, `MCDurables`) | own mail only and own durables stay; do lost ones come back | 1 process, 2 tasks, clock to 2, 1 fault, fairness |
| `webhook_delivers` (`WebhookDelivers.cfg`, `MCWebhookQueue`) | nothing lost, no double call, replaced hook left alone, everything settles | 2 processes, 2 messages, hook set twice, 2 faults, fairness |
| `sessions` (`Sessions.cfg`, `MCSessions`) | does a session end with its token, its use and its thirty days, and not before | 1 agent, 2 agent tokens, 1 admin token, 2 processes, 2 tabs, limits 0, 2 and 3 |
| `registration` (`Registration.cfg`, `MCRegistration`) | how far do the hourly cap, the end of a token, the slots and the block hold | 2 processes, 2 calls, 2 agents and names, 1 registration token, cap 1, 1 fault |
| `process` (`Process.cfg`, `MCProcess`) | does the breaker follow the connection; does the process serve again or end; is a copy whole and a way back there; does a start come up | broker: 2 calls, 3 generations, 2 drops, 1 late answer; files: 2 processes, releases {1, 4} and {1, 3, 4}, keep 1, 2 days, 1 stop; fairness |
| `live` (`Live.cfg`, `MCLiveRefresh`) | does a tab rest on less than it was told of; is what is stored shown | 1 section on 1 of 2 threads, 1 place for a stream, 1 event queued, 2 messages, 2 events, fairness |
| `oauth` (`OAuthCodes.cfg`, `MCOAuthCodes`) | one try for its connector; does a good code work | 1 agent, 2 processes, 2 connectors, 2 codes, 2 secrets, code life 2 |
| `pages` (`Pages.cfg`, `MCPages`) | is the hello the agent's own; do all pages tell the same of a thread and of an incident; is the board right; does every title get looked up | connect: 2 agents, names and processes, 2 tokens, 3 moments; 3 messages, 1 send under way, 2 moments, history limits 1 and 2, 1 incident listed; every board of a last message, earlier ones and a team, 2 pairs and 1 quiet row listed; 3 links, 1 lookup at a time, cache of 2 |

Why the bounds are enough to show the interesting cases: with two calls and two
copies of one id every pair of overlapping sends, a late publish and a repeat
after the duplicate window occur; one fault is one lost answer, one refused write
or one crash (in `Inbox` a failure can outlast the retry), and the code answers
each fault on its own; two faults are spent
where a property is about a failure after a failure. Two agents and two names
with three keys make a renamed agent, a new agent under its old name and a
foreign repeat. In `Inbox` a limit of two with two rounds makes a second round, a
full answer and one with two messages; two deliveries instead of five reach the broker's giving up. In
`WebhookQueue` a unit is ten seconds: window and lease three, retries after one
and six, two failures instead of the code's number switch the hook off. In
`Durables` tolerance and skew are one unit, so that a durable made at 0 is left
behind for an agent of 2, two tasks are a cleanup and a request, two requests, or
two cleanups, and one fault is a delete that stays pending or a durable that is
lost. What a failure after a failure does there, in more processes, is proved. In `Sessions` a
renewal is due after zero ticks, use ends after two and the session after three:
a session can be renewed once or twice and still be ended by either limit; a
form token lives for the tick it was made in. Two tabs make every order of two
answers, two tokens a reset and a sign-in before and after it. In `Registration`
an hour is one tick and the cap one agent: two calls on two processes are enough
to be one agent above the cap, and one fault to lose an audit row. In
`BrokerClient` two drops make an outage during the setup and one in service, three
generations a call that is two reconnects old, and two calls a probe and
another. In `Copies` the second process is the deploy's overlap, migration 3 is
the one that seals tokens and sorts before 4, which the older release already
ran, and a limit of one copy makes every removal matter. In `LiveRefresh` one
place for streams and one queued event make both limits bite, and two messages
one that comes while the other's answer is under way. In `OAuthCodes` two codes
and two connectors make a foreign code, a life of two ticks the one before the
last. In `MCPages` three messages are a root, a reply and a reply to it, a
second thread, or an incident, its answer and a later one; limits of one and two
cut a thread, an incident, a pair and a quiet row off, with and without a tie; three ids against a
cache of two make it drop one. In `Connect` a tick is what the bucket keeps an
entry for, and the flow lives for two: a hello, the end of an entry an earlier
agent left, and the question after it. A write that was under way when the flow
began lands in it. Every
counter's bound is a constant named in the module: `MaxFaults`, `MaxMishaps`, `MaxCopies`,
`MaxSets`, `MaxGeneration`, `MaxRounds`, `MaxDeliver`, `MaxTokens`, `MaxNonces`,
`MaxDrops`, `MaxSlow`, `MaxStops`, `MaxDay`, `MaxMessages`, `MaxEvents`,
`MaxDrafts`, `MaxPending`, `MaxTime`, `LastTime`, `LastMoment`.

Symmetry is used in `send_safety` (calls, agents), `sessions` (processes, tabs),
`registration` (processes, agents, calls, names), `oauth` (processes, connectors,
codes, secrets) and `pages` (processes, names, agents); these runs have no
liveness property. The tokens are numbers and not symmetric. Deadlock is checked
except where the system may come to rest: in `send_mends` and `pages`, whose bounds
on ids, messages and time let everything end, and in `process`, which exits.

### Where the code and what is said of it differ

`PROJECT.json` lists twelve places where a comment or the documentation says one
thing and the code does another, with both quoted. Six have a configuration of
their own, kept to be run by hand; TLC answers it with the behaviour, so they are
no part of the runs above:

- `SendPathAnnounce.cfg` (`MCSendPath`, `DuplicateWasAnnounced`): a first send
  whose publish timed out was not announced, and its repeat is not either.
- `InboxTwice.cfg` (`MCInbox`, `NeverHandedOutAgain`): two receives at once both
  find a message unread and hand it out.
- `InboxSlowPull.cfg` (`MCInbox`, `KeptIsNotAcked`): a pull that keeps one message
  and drops others for longer than the ack wait is handed the kept one again,
  finds its id among the kept ones and acks it. Until the answer nobody has the
  message; a pull that throws then has lost it.
- `InboxHides.cfg` (`MCInboxCounts`, `NoCountHidesMail`): an own broadcast that is
  stored between a count's look at the durable and the stream's last sequence is
  subtracted though it was not counted, and another's message is hidden.
- `DurablesInherit.cfg` (`MCDurables`, `NoInheritedMail`): a request that ensures
  for an agent which was deleted in the meantime is remembered, or joined while it
  runs, and the next agent with the key pulls from its predecessor's durable,
  without any failure. `OnlyOwnDurables` excepts just this.
- `ProcessHeals.cfg` (`MCProcess`, `HealsItself`): a broker that comes back without
  its stream is served from then on, and no message gets through until the next
  start. `ServesOrEnds` promises what is left: it serves again after every other
  outage.

The others were met while reading: a reader that does not read and keeps its
handler in an awaited write, which neither limit of the stream ends, which of two
records of presence is preferred, an hourly cap that the overlap of two processes and a lost audit row
exceed (`HourlyCap` says by how much), a copy before a migration that another process has already done (in `Copies`; `WayBack` says what
is left of the promise), and two of the webhook queue: the due time of a delivery
that is open while an earlier one is retried, and a deferred delivery that no
longer collects.

### Fairness

`SendPath`: weak fairness of each call's own steps (the event loop runs every
promise that is settled, and a publish has a timeout), of the broker's answer to
some publish, and strong fairness of the owner's repeat: the error asks the
sender to send again, and the property is about a sender that does. `Inbox`: an
agent that keeps polling, a broker that works off acks and ack waits, the hourly
sweep. `MCProcess`: the library notices a loss and tries again, the start loop's
waits end, every request and call has a timeout, status events are handled in
turn, the cool-down ends, a shutdown's step ends or its time does; a container
that died is started again and a start goes on. Nothing makes a broker come back
or a signal come. `LiveRefresh`: a section's timer fires and its request is
answered, and the user lets go; a stream may never work, so a message has to be
shown without one. `Durables`: an agent that keeps calling, a broker that
answers, a cool-down that ends. `WebhookQueue`: the dispatcher's timer of one
second, calls that end by their timeouts, a transaction that follows its read,
time. No failure is fair anywhere, and no property relies on one. Weak fairness of the
publishes as a whole would let one publish wait for ever, and the model's bounds
keep that sound: only finitely many publishes fit under `MaxCopies` and
`MaxFaults`, the others are repeats that end.

## 4. Proofs

All theorems hold for every value of the constants that meets the
assumptions its module names: any number of agents, ids, names, calls, faults.

`SendPathProofs`. `TypeOK` is not enough by itself: that an answer goes to a
call that exists needs `WaitedFor` (a publish someone waits for carries that
call's id, and a call waits for one publish). `OneMessagePerId` is not inductive
either. `IInv` adds, in named parts: what carries an id drew it (`Drawn`); a new
send is alone with its id until it publishes (`NewIsAlone`); from its record on a
send can be repeated (`OnRecord`); rows and answered calls have their copy in the
stream (`InStream`); there is one content per id on which copies, publishes,
attempts, rows and sending calls agree (`Agreement`); and the broadcast subject
has one name (`Addressed`), without which a repeat could carry a broadcast to one
agent's inbox. `Invariance` is `Spec => []IInv`; `TypeCorrect`, `OneMessage`,
`NoPhantom`, `CanRepeat` follow from it; `NoPhantomSend` (no row without its copy)
is no run's property: the proof covers every instance. `Implements` is the refinement
`Spec => Log!Spec`: storing a copy is `Deliver` or, for a second copy of the same
content, a stutter; the first row is `Keep`. `Announcements`
(`AnnouncedOncePerCopy`) counts: beside what was announced stand the calls that
still owe an announcement, because the broker told them their copy is a new one,
and each copy of an id pays for one of the two (`CopiesPay`). A copy's sequence is
above all that were there, so it is a copy nobody has been told of; a call that
dies with its process takes what it owes with it.

`AgentTokensProofs`. `DeadWhereItEnded`, no run's property but a theorem
(`DeadTokens`), says what a process remembers: a step in another process can falsify it unless the token of an active row has not
been ended. So `TokenInv` adds: tokens in rows were drawn, and no two rows have
the same one (`RowTokensDrawn`, `TokensDiffer`), what was ended was drawn
(`EndedWereDrawn`), and an active row's token was never ended
(`ActiveHasNotEnded`). The next token is then fresh, and a process that ends a
token forgets everything in the same step. `TokenInvariance` is
`TokenSpec => []TokenInv`, with one lemma per operation.

`InboxProofs`. `Types` is `Spec => []Shape`: `TypeOK` with the two facts it needs,
that a pull keeps copies of the stream and that a copy that waits has a delivery
left. The other two theorems have an invariant of their own on top of it.
`AllAccountedFor` (`AckedIsAccountedFor`, for quick pulls and any number of
overlapping receives) rests on `NothingLost`: what a pull keeps is out and unacked
until its answer, no two pulls keep one copy, an ack on its way is for a copy that
is out, a read is of a message that was handed out, and every copy, acked or not,
is of a message that is accounted for. `Once` (`OncePerReader`, for receives that
come one after the other, `OneAtATime`) rests on `Bounds`: what is not in the
reads, what a blind pull meets and what a pull keeps was handed out no more often
than reads were missed. That is the reason for the allowance: each miss pays for
one more time. `Steps` lists what a step can be, one effect lemma follows each,
and the invariants use the effects only.

`Counts` is `CountsHideNothing`, of `CountsSpec`: for any number of counts, pulls,
messages, copies and faults, and slow pulls too. The property looks at an answer;
`CountsSound` follows a count from its first look on. What it has counted, with
what its pull fetched of later copies, covers the copies that were there when it
began and still wait, of the durables it has looked at (`Covers`), and what a
count has of durables and sequences fits (`Fit`): a broadcast the durable has not
reached is covered also when its copy was acked meanwhile, and the own broadcasts
that are subtracted are such copies, or came between. `UnreadIsThere`
(`UnreadCanCome`, for quick pulls) adds to `NothingLost` that who was handed a
message has its read, or a miss accounts for that (`ReadOrMissed`).

`ProcessProofs` has four parts: the breaker, the client, the files, an inbox
key's durables. The breaker: `OneProbe` needs that no call is from a generation
still to come, and with it is inductive (`BreakerInvariance`); `StaleCalls` is
the action property `StaleCallsDoNotCount`, from the types alone. The client:
`UsesBreaker` is the refinement `ClientSpec => Spec`: a step of the connection,
the broker or the shutdown is one of the breaker's operations or leaves its
variables alone. So what is proved of the breaker under every sequence of its
operations holds in the process: `ProbeInProcess`, `StaleCallsInProcess`.
`FollowsConnection` is about the state with no event left, which the events on
their way decide; `ClientInv` looks at the last one of them: once it is handled,
the breaker is down or not (`WillBeDown`), and that is what the socket is. The
files: `NothingHalfDone` and `WayBack` are about single places of a start and say
nothing of the steps between. `FilesInv` adds that a partial file has one writer
and what is old has none (`OneWriter`), that what a file holds the database held
(`HeldOnce`), and for each start (`StartOf`) that what its release brings is
recorded or still to do and that the copy it relies on is `Covered` from the look
for it on: there, or as many of its kind that are not older as `BeforeKeep`. The
proof's weight is in the pruning: what `Kept` removes has that many younger ones,
and they stay. That a set of files has a least stamp is proved there from
finiteness, without the library's theorem, whose parameter is an operator. The
durables: `OwnDurables` is `OnlyOwnDurables`, of any number of processes and a key
that is given again at any moment; assumed is only that the clocks differ by no
more than the tolerance. `DurablesInv` says of a durable that the broker made it
no earlier, up to the skew, than the agent it was made for began (`DurableFits`),
of each request and cleanup what it may rely on (`TaskFits`: an ensure on behalf
of the present agent has left nothing older behind on its first side, a pull that
was told so on neither, one that replaces does not replace its own), of the memory
the same (`MemoryFits`), and that a process runs one ensure at a time
(`OneLeader`). A step changes durables in two ways only, one goes or a leader makes
one for an agent no older than the one before, so what is fresh stays so
(`FreshStays`), whichever agent's cleanup it is.

`WebhookQueueProofs`. `NotCalledTwiceAtOnce` rests on the lease: what a call has
left is less than what its delivery's lease has, so no second claim finds it due.
That needs that a call and its delivery fit (`CallsFit`): same attempt, same hook,
the delivery closed, and the messages that were read are all the delivery has.
The last is what `NothingSlipsThrough` needs: when a call succeeds and its
delivery goes, everything in it was announced. New messages go into a new
delivery (`IdsGrow`, `QueueingIsNew`), and that attempts and failures keep within
the model's types needs their count (`TriesBounded`, `FailuresCounted`).
`ReplacedHookLeftAlone` follows: a call of an older hook has no delivery any more.

`RegistrationProofs`. The tokens' invariant carries over, and four facts are added:
the slots are the calls in a check, counted; a call that is past the count is
alone in its process; an agent that was made is in the audit, or lost, or just
being made; and a call that makes an agent with an ended token had asked before.
`SlotsHeld`, `Audited`, `CapHolds` and `EndedTokens` follow. That slots are given
back once is a matter of cardinality, which is why `Calls` is finite. The throttle
has an invariant of its own, `GuardInv`: a throttled client's block is no older
than its last failure that counted. `Blocks` (`BlockEnds`) follows, for who is
throttled has all its failures inside the window.

The codes for connectors are in the same module. `CodesInv` follows one code: a code
that was issued has a connector, what was tried was issued, a row that is there says what the page said
and nobody has tried it, and a row goes by a try or by its age only. `OneTry` and
`GoodCode` read off it.

`SessionsProofs`. Whatever the browser does, the tokens' variables change as in
`AgentTokens` or not at all, so the lemmas carry over: `Invariance`, and with it
`DeadTokens`. `EndedSessions` is the action property `EndedTokenEndsSessions`:
who is let in has a cookie whose token is that of an active row, and by
`ActiveHasNotEnded` nobody ended that token. It holds for sessions a stale
process made, too: those are refused on their next request. `BrowserInv`
is about the browser alone: a cookie is one its last sign-in and uses could have
made (`Possible`), a token is remembered for one agent (`OneAccount`), and an answer under way that brings no renewal was
made when the cookie was younger than `RenewAfter` (`Fresh`), in whichever order
the tabs' answers arrive. `SessionsEndInTime` and `ActiveStays` are `SessionsEnd` and
`ActiveUserStays`. Three parts follow.

- The connect flow. `OwnHandshake` is `HandshakeIsOwn`, for any agents, names,
  processes, renames, late writes and restarts. The bucket goes by name, so an
  earlier agent's entry, or a write of it that lands late, can look like a hello.
  `ConnectInv` says why it does not once the flow's first tick is over: writes and
  entries from before the flow have ended (`EntriesLast`), what came since came
  under a name that is on record (`CameUnder`), and the agent's own hello is in
  its row (`ItselfSeen`). It assumes that an entry of the bucket lives less long
  than the flow's session.
- The titles. `NobodyWaits` is `NothingWaitsForNobody`, for any links, limits and
  times to live. `TitleInv` needs that the queue and the lookups have every id
  once, and that an id waits only behind a full set of lookups. It assumes that
  the links are finitely many and the cache holds at least one.
- An open tab. `TabCatchesUp` is `CaughtUp`, for any sections, threads, connections
  and limits. The property looks at a tab at rest and says nothing of the steps
  before; `LiveInv` follows the word (`NothingMissed`): what a stream that is up
  told a section is in the connection's queue, in the burst that waits, or in the
  section's own requests, as a request under way, one that follows it, or a timer
  that is not the slow one. A 304 keeps that because a tag is always that of what
  is shown, and an answer with new markup because none under way is older than
  what is shown (`RecordOK`). It rests on a fragment's messages growing only; the
  rotation of `messages` is not in this model.

`HistoryProofs`. Every order on the pages is a set that is sorted (`Sorted`): by time
and insertion (`InOrder`), or by appearance (`PartiesInOrder`). Nothing says by itself that
a set can be sorted. `SortedIs` does, without an induction: an element's place is
the number of those before it and one (`PlaceIs`), the places are one to one into
as many places as there are elements, so onto them (`FS_Injection`), and that is the
sorting. From there each query is a set of rows, and two queries agree when their
sets do.

- The table. `PagesAgree` is `ThreadsAgree`, `IncidentsTold` is `IncidentsAgree`,
  `StaysWithItsThread` is `PaneStays`, for any ids, exchanges, times, filters, sends
  under way and rotations. Most of it holds of any rows (`ListFits`, `SendsJoin`,
  `LogFits`, `HomeIsNewest`, `IncidentsFit`, the last for every choice the band's
limit has: `NewestAre` says that what a limit leaves out is no newer than what it
keeps). That `mesh_history`, of any limit, gives the messages a pane begins with does
not:
  it has not the condition that the pane has, and a table where somebody names
  a thread after a message of another sets them apart. `TableInv` says that without
  a legacy thread nobody does, in the table or in a send under way, and with one only
  the table's oldest row is named so (`NamedRight`). The rotation takes rows and
  names no thread; a send names one that the table has when it looks (`JoinsThread`),
  and its row may come when that thread is gone. `PaneStays` needs the
  invariant for the rotation: a pane could change its thread only when the thread's
  last row went and a message of that id in another thread stayed; but
  such a message is of the oldest time there is, and nothing that is younger goes
  before it. Assumed of the constants (`TableAssumption`): ids differ, and null is
  none of them.
- The board. `BoardTells` is `BoardTellsTheBall`, of any messages and any team with
  names and keys (`IsBoard`, of which TLC sees that the run's inputs meet it), any
  limits, and any order of messages of one time. The pairs are finitely many, so
  a limit that leaves one out is full, of pairs no older (`NewestAre`). The board's
  recent messages of a pair begin with one of its last moment (`StrandIs`,
  `RecentIs`), not always the one whose row it is: so "delivered" speaks of what
  the two said last, and of one message only where that moment has one. `Find`
  gives the agent with the key because nobody's key is null (`OwnerIs`).

Only model-checked: liveness (`RepeatsMendHistory`, `EveryCopyEnds`,
`ExpiredIsNoted`, `InboxComesBack`, `ServesOrEnds`, `ComesUp`, `EveryMessageShows`,
`EveryMessageSettles`), which is out of the proof system's reach. Every invariant and
every action property that a run checks is a theorem.

## 5. Not modelled

The rate limiter's bucket is one process's arithmetic on one clock; a send sees
its refusal (`SendPath.Refuse`). Cryptography (seal, HMAC, scrypt) is a secret or
token that fits or does not. Markup, styles, HTTP headers, client metadata and
registration, avatars, the Go client and its download pages keep no state the
properties are about. The rotations of `send_attempts`, `message_reads` and the
activity log delete what is past its retention by one statement each, and the
models have no row as old as that; the rotation of `messages` is in
`MessageTable`. `Durables` and `Copies` leave out what their sections name. Two
processes between the statements of one operation of `AgentService`, the filters
and address checks of webhooks, MAX_IN_FLIGHT, and a change of the admin tokens
are not modelled either.

Bounds that hide something: one key in `Durables`; one stop in
`Copies`, so that no process dies twice; one flow in `Connect`; one section in
`LiveRefresh`, whose sections share only the stream.

## 6. Plan

1. A stream that is made anew with its sequences starting over: the counts' bounds
   on a row's age and the rows of the stream before it.
2. Registration, sessions and OAuth with a change of the admin token; the
   statements of `AgentService.create` in two processes.
3. Rotation of attempts and reads next to the send and receive paths.
4. A composition of `SendPath` and `Inbox`: what is sent is handed out once.
5. The rate limiter's bucket against a reference definition.
