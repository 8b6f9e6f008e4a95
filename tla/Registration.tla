---------------------------- MODULE Registration ----------------------------
(***************************************************************************)
(* Registration tokens (services/registration.ts, routes/register-api.ts): *)
(* tokens that create agents and nothing else, on two processes with one   *)
(* database during a deploy.                                               *)
(*                                                                         *)
(* A call reads its token's row, awaits scrypt, and then runs to its end   *)
(* without a break in its process; the other process runs between any two  *)
(* of its statements.  What agents.create does is one step here.           *)
(* Moments are kept as ages.  Audit rows of refusals, which nothing reads  *)
(* but the operator, are left out.  An operator named X_<slip> is X with a *)
(* plausible programming slip.                                             *)
(***************************************************************************)
EXTENDS AgentTokens, SignInGuard

CONSTANTS
  RegTokens,
  NoRegToken,   \* also what a credential of the wrong shape names
  Calls,        \* bound: calls under way at a time
  NoCall,
  MaxPerHour,   \* max_per_hour, of every token
  MaxInflight,  \* MAX_INFLIGHT_CHECKS
  Hour,         \* HOUR_MS
  Retention,    \* AUDIT_RETENTION_DAYS
  Lifetime,     \* ticks until the tokens with an expiry end
  MaxFaults     \* bound: crashes and writes that fail

ASSUME RegistrationAssumption ==
  /\ Guards = Procs /\ NoCall \notin Calls /\ IsFiniteSet(Calls)
  /\ NoRegToken \notin RegTokens
  /\ {MaxPerHour, MaxInflight, Hour, Retention, Lifetime, MaxFaults} \subseteq Nat
  /\ 0 < Hour /\ Hour <= Retention
  /\ Cardinality(Agents) <= MaxTokens

VARIABLES
  tokens,    \* registration_tokens: revoked, and the ticks left
  audit,     \* registration_audit: the rows that say "created"
  inflight,  \* process -> RegistrationService.inflight
  thread,    \* process -> the call whose statements it is in
  calls,     \* call -> its stage and locals
  faults,    \* bound: spent so far
  made,      \* history: agent -> the token that made it, and how long ago
  lost,      \* history: agents whose audit row could not be written
  asked,     \* history: token -> the checks under way when it was revoked
  late       \* history: token -> agents made after that

regVars == <<tokens, audit, inflight, thread, calls, faults, made, lost, asked, late>>
vars == <<tokenVars, guardVars, regVars>>

Never == Lifetime + 1   \* no expiry

Stages == {"idle", "hashing", "counted", "created"}
IdleCall == [stage |-> "idle", proc |-> NoProc, client |-> NoProc, token |-> NoRegToken,
             genuine |-> FALSE, name |-> NoName, row |-> "none", agent |-> NoName]

Locals ==
  [stage: Stages, proc: Procs \union {NoProc}, client: Clients \union {NoProc},
   token: RegTokens \union {NoRegToken}, genuine: BOOLEAN, name: Names \union {NoName},
   row: {"none", "live", "revoked"}, agent: Agents \union {NoName}]

TypeOK ==
  /\ TokenTypeOK /\ GuardTypeOK
  /\ tokens \in [RegTokens -> [is: {"none", "live", "revoked"}, left: 0..Never]]
  /\ audit \subseteq [token: RegTokens, agent: Agents, age: 0..(Retention + 1)]
  /\ inflight \in [Procs -> 0..MaxInflight]
  /\ thread \in [Procs -> Calls \union {NoCall}]
  /\ calls \in [Calls -> Locals]
  /\ faults \in 0..MaxFaults
  /\ made \in [Agents -> [by: RegTokens \union {NoRegToken}, age: 0..(Retention + 1)]]
  /\ lost \subseteq Agents
  /\ asked \in [RegTokens -> Nat] /\ late \in [RegTokens -> Nat]

Init ==
  /\ TokenInit /\ GuardInit
  /\ tokens = [t \in RegTokens |-> [is |-> "none", left |-> Never]]
  /\ audit = {}
  /\ inflight = [p \in Procs |-> 0]
  /\ thread = [p \in Procs |-> NoCall]
  /\ calls = [c \in Calls |-> IdleCall]
  /\ faults = 0
  /\ made = [a \in Agents |-> [by |-> NoRegToken, age |-> 0]]
  /\ lost = {}
  /\ asked = [t \in RegTokens |-> 0]
  /\ late = [t \in RegTokens |-> 0]

-----------------------------------------------------------------------------
(***************************************************************************)
(* Steps of a call.                                                        *)
(***************************************************************************)

\* The process is at nobody's statements, or at this call's.
Runs(c, p) == thread[p] \in {c, NoCall}
At(c, stage) == calls[c].stage = stage /\ Runs(c, calls[c].proc)
Goto(c, stage) == calls' = [calls EXCEPT ![c].stage = stage]
Done(c) == calls' = [calls EXCEPT ![c] = IdleCall]
Fault == faults < MaxFaults /\ faults' = faults + 1

Expired(t) == tokens[t].left = 0

\* Only a live token takes a client past the throttle.
NamesKnownToken(t) == t # NoRegToken /\ tokens[t].is = "live" /\ ~Expired(t)

\* POST /api/register/agents, register and authenticate up to the await of
\* scrypt: a throttled client gets 429 unless its token is live, a process
\* whose slots are taken answers 429 too, else the token's row is read (that
\* the body is read in between is left out).  A row
\* that is not there costs as much.  A name that is none, or not behind the
\* token's prefix, is NoName; without the secret it is not looked at.
Busy(p) == inflight[p] >= MaxInflight

RowOf(t) == IF t = NoRegToken THEN "none" ELSE tokens[t].is

Arrive(c, p, client, t, genuine, name) ==
  /\ calls[c].stage = "idle" /\ Runs(c, p)
  /\ t = NoRegToken => ~genuine
  /\ ~genuine => name = NoName
  /\ Throttled(p, client) => NamesKnownToken(t)
  /\ ~Busy(p)
  /\ inflight' = [inflight EXCEPT ![p] = @ + 1]
  /\ calls' = [calls EXCEPT ![c] =
       [stage |-> "hashing", proc |-> p, client |-> client, token |-> t, genuine |-> genuine,
        name |-> name, row |-> RowOf(t), agent |-> NoName]]
  /\ UNCHANGED <<tokenVars, guardVars, tokens, audit, thread, faults, made, lost, asked, late>>

\* register's finally.
Leave(p) == inflight' = [inflight EXCEPT ![p] = @ - 1]

\* The row as it was read, and the time as it is now.
Valid_EvenRevoked(c) == calls[c].genuine /\ ~Expired(calls[c].token)
Valid(c) ==
  /\ calls[c].genuine /\ calls[c].row = "live"
  /\ ~Expired(calls[c].token)

\* 401: counted against the client.
Unauthorised_KeepsSlot(c) ==
  /\ At(c, "hashing") /\ ~Valid(c)
  /\ Failure(calls[c].proc, calls[c].client)
  /\ Done(c)
  /\ UNCHANGED <<tokenVars, tokens, audit, inflight, thread, faults, made, lost, asked, late>>

Unauthorised(c) ==
  /\ At(c, "hashing") /\ ~Valid(c)
  /\ Failure(calls[c].proc, calls[c].client)
  /\ Done(c) /\ Leave(calls[c].proc)
  /\ UNCHANGED <<tokenVars, tokens, audit, thread, faults, made, lost, asked, late>>

\* `created_at > since`: an agent of an hour ago no longer counts.
Recent(t) == {r \in audit : r.token = t /\ r.age < Hour}
MayCreateMore_AtMost(t) == Cardinality(Recent(t)) <= MaxPerHour
MayCreateMore(t) == Cardinality(Recent(t)) < MaxPerHour

\* 400, 403, or 429 when the hour is used up.
Declined(c) ==
  /\ At(c, "hashing") /\ Valid(c)
  /\ calls[c].name = NoName \/ ~MayCreateMore(calls[c].token)
  /\ Done(c) /\ Leave(calls[c].proc)
  /\ UNCHANGED <<tokenVars, guardVars, tokens, audit, thread, faults, made, lost, asked, late>>

\* The bound on agents stops no call halfway.
Room ==
  Cardinality({c \in Calls : calls[c].stage = "counted"}) <
    Cardinality({a \in Agents : row[a].is = "unborn"})

Count(c) ==
  /\ At(c, "hashing") /\ Valid(c)
  /\ calls[c].name # NoName /\ MayCreateMore(calls[c].token)
  /\ Room
  /\ thread' = [thread EXCEPT ![calls[c].proc] = c]
  /\ Goto(c, "counted")
  /\ UNCHANGED <<tokenVars, guardVars, tokens, audit, inflight, faults, made, lost, asked, late>>

MakeAgent(c, a) ==
  LET t == calls[c].token IN
  /\ At(c, "counted")
  /\ Create(calls[c].proc, a, calls[c].name)
  /\ calls' = [calls EXCEPT ![c].stage = "created", ![c].agent = a]
  /\ made' = [made EXCEPT ![a] = [by |-> t, age |-> 0]]
  /\ late' = IF tokens[t].is = "revoked" THEN [late EXCEPT ![t] = @ + 1] ELSE late
  /\ UNCHANGED <<guardVars, tokens, audit, inflight, thread, faults, lost, asked>>

\* The name is taken, there are too many agents, or the row cannot be written.
NotMade(c) ==
  /\ At(c, "counted")
  /\ IF MayCreate(calls[c].name) THEN Fault ELSE UNCHANGED faults
  /\ Done(c) /\ Leave(calls[c].proc)
  /\ thread' = [thread EXCEPT ![calls[c].proc] = NoCall]
  /\ UNCHANGED <<tokenVars, guardVars, tokens, audit, made, lost, asked, late>>

Row(c) == [token |-> calls[c].token, agent |-> calls[c].agent, age |-> 0]

Record(c) ==
  /\ At(c, "created")
  /\ audit' = audit \union {Row(c)}
  /\ Done(c) /\ Leave(calls[c].proc)
  /\ thread' = [thread EXCEPT ![calls[c].proc] = NoCall]
  /\ UNCHANGED <<tokenVars, guardVars, tokens, faults, made, lost, asked, late>>

\* The catch is for the agent and its row alike: 400, and the agent is there.
RecordFails(c) ==
  /\ At(c, "created")
  /\ Fault
  /\ lost' = lost \union {calls[c].agent}
  /\ Done(c) /\ Leave(calls[c].proc)
  /\ thread' = [thread EXCEPT ![calls[c].proc] = NoCall]
  /\ UNCHANGED <<tokenVars, guardVars, tokens, audit, made, asked, late>>

-----------------------------------------------------------------------------
(***************************************************************************)
(* The operator, the clock, the sweep, a deploy.                           *)
(***************************************************************************)

Mint(t, left) ==
  /\ tokens[t].is = "none"
  /\ tokens' = [tokens EXCEPT ![t] = [is |-> "live", left |-> left]]
  /\ UNCHANGED <<tokenVars, guardVars, audit, inflight, thread, calls, faults, made, lost, asked, late>>

Revoke(t) ==
  /\ tokens[t].is = "live"
  /\ tokens' = [tokens EXCEPT ![t].is = "revoked"]
  /\ asked' = [asked EXCEPT ![t] =
       Cardinality({c \in Calls : calls[c].token = t /\ calls[c].stage \in {"hashing", "counted"}})]
  /\ UNCHANGED <<tokenVars, guardVars, audit, inflight, thread, calls, faults, made, lost, late>>

\* The operator removes an agent from the dashboard.
RemoveAgent(p, a) ==
  /\ thread[p] = NoCall
  /\ DeleteById(p, a)
  /\ UNCHANGED <<guardVars, regVars>>

\* A wrong Bearer token or a wrong sign-in from the same address.
WrongCredential(p, client) ==
  /\ thread[p] = NoCall
  /\ Failure(p, client)
  /\ UNCHANGED <<tokenVars, regVars>>

\* pruneRegistrationAudit, in the hourly sweep.
Kept(r) == r.age <= Retention

Prune ==
  /\ \E r \in audit : ~Kept(r)
  /\ audit' = {r \in audit : Kept(r)}
  /\ UNCHANGED <<tokenVars, guardVars, tokens, inflight, thread, calls, faults, made, lost, asked, late>>

Older(age) == IF age > Retention THEN age ELSE age + 1

\* The statements of a call take no time.
Tick ==
  /\ \A p \in Procs : thread[p] = NoCall
  /\ GuardTick
  /\ tokens' = [t \in RegTokens |->
       IF tokens[t].left \in 1..Lifetime THEN [tokens[t] EXCEPT !.left = @ - 1] ELSE tokens[t]]
  /\ audit' = {[r EXCEPT !.age = Older(@)] : r \in audit}
  /\ made' = [a \in Agents |->
       IF made[a].by = NoRegToken THEN made[a] ELSE [made[a] EXCEPT !.age = Older(@)]]
  /\ UNCHANGED <<tokenVars, inflight, thread, calls, faults, lost, asked, late>>

\* Between any two statements; its calls and its memory go with it.
Crash(p) ==
  /\ Fault
  /\ calls' = [c \in Calls |-> IF calls[c].proc = p THEN IdleCall ELSE calls[c]]
  /\ inflight' = [inflight EXCEPT ![p] = 0]
  /\ thread' = [thread EXCEPT ![p] = NoCall]
  /\ GuardRestart(p) /\ Restart(p)
  /\ lost' = lost \union {calls[c].agent : c \in {d \in Calls : calls[d].proc = p /\ calls[d].stage = "created"}}
  /\ UNCHANGED <<tokens, audit, made, asked, late>>

Next ==
  \/ \E c \in Calls :
       \/ \E p \in Procs, client \in Clients, t \in RegTokens \union {NoRegToken},
             genuine \in BOOLEAN, name \in Names \union {NoName} :
            Arrive(c, p, client, t, genuine, name)
       \/ Unauthorised(c) \/ Declined(c) \/ Count(c)
       \/ \E a \in Agents : MakeAgent(c, a)
       \/ NotMade(c) \/ Record(c) \/ RecordFails(c)
  \/ \E t \in RegTokens : Revoke(t) \/ \E left \in {Lifetime, Never} : Mint(t, left)
  \/ \E p \in Procs :
       \/ Crash(p)
       \/ \E a \in Agents : RemoveAgent(p, a)
       \/ \E client \in Clients : WrongCredential(p, client)
  \/ Prune \/ Tick

Spec == Init /\ [][Next]_vars

-----------------------------------------------------------------------------
(***************************************************************************)
(* Properties.                                                             *)
(***************************************************************************)

\* The slots taken are those of the calls in a check: none is given back
\* twice or kept for ever, whichever way a call ends.
SlotsAreHeld ==
  \A p \in Procs : inflight[p] =
    Cardinality({c \in Calls : calls[c].proc = p /\ calls[c].stage # "idle"})

\* Between its creation and its audit row.
BeingMade == {calls[c].agent : c \in {d \in Calls : calls[d].stage = "created"}}

\* Every agent a token made is in the audit as long as its rows are kept,
\* unless the row could not be written: the process died, or the write failed
\* after the agent was there.
AuditAgrees ==
  \A a \in Agents \ (BeingMade \union lost) :
    made[a].by # NoRegToken /\ made[a].age <= Retention
      => \E r \in audit : r.agent = a /\ r.token = made[a].by

\* max_per_hour is "counted from the audit rows, so it holds across restarts
\* and containers" (migrations/0015): the audit names who made which agent, and
\* a call goes past the count only while the hour's agents are fewer, but for
\* those whose rows other processes are about to write, or could not write.
\* So the agents of an hour go beyond the cap by one for each other process
\* and by those lost.
InHour(t) == {a \in Agents : made[a].by = t /\ made[a].age < Hour}
HourlyCap ==
  /\ []AuditAgrees
  /\ [][\A c \in Calls : calls[c].stage = "hashing" /\ calls'[c].stage = "counted"
          => Cardinality(InHour(calls[c].token) \ (BeingMade \union lost)) < MaxPerHour]_vars

\* Revoking "ends it at once" (README): but for the checks under way, of
\* which each makes one agent at most.  After its expiry a token makes no
\* agent, also in a call that began before.
EndedTokenMakesNothing ==
  [][/\ \A t \in RegTokens : late'[t] <= asked'[t]
     /\ \A a \in Agents : made'[a].by # made[a].by => ~Expired(made'[a].by)]_vars
=============================================================================
