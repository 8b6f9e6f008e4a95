------------------------- MODULE RegistrationProofs -------------------------
(***************************************************************************)
(* What holds of the registration tokens for any number of tokens, calls,  *)
(* processes and agents, any cap, hour and retention, and any number of    *)
(* crashes and lost writes.  The inductive invariant says of every call    *)
(* what its process's thread lets it rely on, and of every agent a token   *)
(* made the very audit row that stands for it.                             *)
(*                                                                         *)
(* And of the codes a connector gets its token for, for any number of      *)
(* connectors, codes, browsers, processes and secrets, and any life of a   *)
(* code.  The inductive invariant follows one code: while its row is there *)
(* nobody has tried it and the row says what the page said that it was     *)
(* issued on; and the row is there until a try or the end of its life.     *)
(***************************************************************************)
EXTENDS Registration, OAuthCodes, AgentTokensProofs, FiniteSetTheorems, SequenceTheorems

RegTypes ==
  /\ tokens \in [RegTokens -> [is: {"none", "live", "revoked"}, left: 0..Never]]
  /\ inflight \in [Procs -> Int]
  /\ thread \in [Procs -> Calls \union {NoCall}]
  /\ calls \in [Calls -> Locals]
  /\ made \in [Agents -> [by: RegTokens \union {NoRegToken}, age: 0..(Retention + 1)]]
  /\ asked \in [RegTokens -> Nat] /\ late \in [RegTokens -> Nat]

\* A call that is not over runs somewhere, and a row that was live when it
\* was read is a token's.
IsSomewhere(c) ==
  calls[c].stage # "idle" =>
    /\ calls[c].proc \in Procs
    /\ calls[c].row = "live" =>
         calls[c].token \in RegTokens /\ tokens[calls[c].token].is # "none"

\* From the count on a call has its process's thread to itself.  Its token
\* was live when it was read and has not run out.
HasThread(c) ==
  calls[c].stage \in {"counted", "created"} =>
    /\ thread[calls[c].proc] = c
    /\ calls[c].name \in Names
    /\ calls[c].row = "live" /\ ~Expired(calls[c].token)

\* The agent a call has made is there, made by its token and just now.
HasAgent(c) ==
  calls[c].stage = "created" =>
    /\ calls[c].agent \in Agents
    /\ row[calls[c].agent].is # "unborn"
    /\ made[calls[c].agent] = [by |-> calls[c].token, age |-> 0]

\* Nobody has made an agent that is not there yet.
UnbornNotMade == \A a \in Agents : row[a].is = "unborn" => made[a].by = NoRegToken

\* The row that stands for an agent.
RowFor(a) == [token |-> made[a].by, agent |-> a, age |-> made[a].age]

\* Whose row is there as long as it is kept.
Accounted(a) ==
  made[a].by # NoRegToken /\ made[a].age <= Retention => RowFor(a) \in audit

AuditIsKept ==
  /\ audit \subseteq [token: RegTokens, agent: Agents, age: 0..(Retention + 1)]
  /\ IsFiniteSet(audit)
  /\ \A a \in Agents \ (BeingMade \union lost) : Accounted(a)

\* The calls that a revoked token can still make an agent with: its row was
\* read before.
StillGood(t) ==
  {c \in Calls : calls[c].token = t /\ calls[c].row = "live"
                 /\ calls[c].stage \in {"hashing", "counted"}}

LateWereAsked(t) ==
  IF tokens[t].is = "revoked" THEN late[t] + Cardinality(StillGood(t)) <= asked[t]
  ELSE late[t] = 0

\* The slots that are taken.
Held(p) == {c \in Calls : calls[c].proc = p /\ calls[c].stage # "idle"}

CallsInv == \A c \in Calls : IsSomewhere(c) /\ HasThread(c) /\ HasAgent(c)

IInv ==
  /\ TokenInv /\ RegTypes
  /\ CallsInv
  /\ UnbornNotMade
  /\ AuditIsKept
  /\ \A t \in RegTokens : LateWereAsked(t)
  /\ SlotsAreHeld

-----------------------------------------------------------------------------

\* Sets of calls are finite.
LEMMA FiniteCalls ==
  ASSUME NEW S, S \subseteq Calls
  PROVE  IsFiniteSet(S) /\ Cardinality(S) \in Nat
BY RegistrationAssumption, FS_Subset, FS_CardinalityType

\* The server starts with no tokens and no calls.
LEMMA InitIInv == Init => IInv
<1> SUFFICES ASSUME Init
             PROVE  IInv
  OBVIOUS
<1>1. TokenInv
  BY TokenInitInv DEF Init
<1>2. Never \in Nat /\ Retention \in Nat
  BY RegistrationAssumption DEF Never
<1>3. \A c \in Calls : calls[c] = IdleCall /\ IdleCall.stage = "idle" /\ IdleCall \in Locals
  BY DEF Init, IdleCall, Locals, Stages
<1>4. RegTypes
  BY <1>2, <1>3, RegistrationAssumption DEF Init, RegTypes
<1>5. CallsInv
  BY <1>3 DEF CallsInv, IsSomewhere, HasThread, HasAgent
<1>6. UnbornNotMade /\ AuditIsKept
  BY FS_EmptySet DEF Init, UnbornNotMade, AuditIsKept, Accounted
<1>7. \A t \in RegTokens : LateWereAsked(t)
  BY DEF Init, LateWereAsked
<1>8. SlotsAreHeld
  <2>1. \A p \in Procs : Held(p) = {}
    BY <1>3 DEF Held
  <2> QED BY <2>1, FS_EmptySet DEF Init, SlotsAreHeld, Held
<1> QED BY <1>1, <1>4, <1>5, <1>6, <1>7, <1>8 DEF IInv

\* A call goes: its slot is free again, and nobody else's is.
LEMMA SlotIsFreed ==
  ASSUME RegTypes, SlotsAreHeld, NEW c \in Calls, calls[c].stage # "idle",
         calls[c].proc \in Procs, Done(c), Leave(calls[c].proc)
  PROVE  SlotsAreHeld'
<1>1. /\ calls'[c] = IdleCall /\ IdleCall.stage = "idle"
      /\ \A d \in Calls \ {c} : calls'[d] = calls[d]
  BY DEF Done, RegTypes, IdleCall
<1>2. SUFFICES ASSUME NEW p \in Procs
               PROVE  inflight'[p] = Cardinality(Held(p)')
  BY DEF SlotsAreHeld, Held
<1>3. inflight[p] = Cardinality(Held(p)) /\ inflight[p] \in Int
  BY DEF SlotsAreHeld, Held, RegTypes
<1>4. CASE p = calls[c].proc
  <2>1. Held(p)' = Held(p) \ {c} /\ c \in Held(p)
    BY <1>1, <1>4 DEF Held
  <2>2. Cardinality(Held(p)') = Cardinality(Held(p)) - 1
    BY <2>1, FiniteCalls, FS_RemoveElement DEF Held
  <2>3. inflight'[p] = inflight[p] - 1
    BY <1>4 DEF Leave, RegTypes
  <2> QED BY <1>3, <2>2, <2>3
<1>5. CASE p # calls[c].proc
  <2>1. Held(p)' = Held(p)
    BY <1>1, <1>5 DEF Held
  <2>2. inflight'[p] = inflight[p]
    BY <1>5 DEF Leave, RegTypes
  <2> QED BY <1>3, <2>1, <2>2
<1> QED BY <1>4, <1>5

\* A call that goes is no longer among those a revoked token can use.
LEMMA FewerAreGood ==
  ASSUME RegTypes, NEW t \in RegTokens, LateWereAsked(t),
         \A d \in Calls : calls'[d] = calls[d] \/ calls'[d].stage = "idle",
         UNCHANGED <<tokens, asked, late>>
  PROVE  LateWereAsked(t)'
<1>1. StillGood(t)' \subseteq StillGood(t)
  BY DEF StillGood
<1>2. IsFiniteSet(StillGood(t)) /\ Cardinality(StillGood(t)) \in Nat
  BY FiniteCalls DEF StillGood
<1>3. Cardinality(StillGood(t)') <= Cardinality(StillGood(t)) /\ Cardinality(StillGood(t)') \in Nat
  BY <1>1, <1>2, FS_Subset, FS_CardinalityType
<1> QED BY <1>2, <1>3 DEF LateWereAsked, RegTypes

\* A call ends, having made an agent or not: what it made is in the audit by
\* then, or lost.
LEMMA CallIsOver ==
  ASSUME IInv, NEW c \in Calls, calls[c].stage # "idle", Done(c), Leave(calls[c].proc),
         TokenInv', row' = row,
         \/ thread' = thread
         \/ calls[c].stage \in {"counted", "created"}
            /\ thread' = [thread EXCEPT ![calls[c].proc] = NoCall],
         UNCHANGED <<tokens, made, asked, late>>,
         audit' \subseteq [token: RegTokens, agent: Agents, age: 0..(Retention + 1)],
         IsFiniteSet(audit'), audit \subseteq audit', lost \subseteq lost',
         calls[c].stage = "created" =>
           calls[c].agent \in lost' \/ RowFor(calls[c].agent) \in audit'
  PROVE  IInv'
<1>1. /\ calls'[c] = IdleCall /\ IdleCall.stage = "idle" /\ IdleCall \in Locals
      /\ \A d \in Calls \ {c} : calls'[d] = calls[d]
  BY DEF IInv, Done, RegTypes, IdleCall, Locals, Stages
<1>2. IsSomewhere(c) /\ HasThread(c) /\ HasAgent(c)
  BY DEF IInv, CallsInv
<1>3. RegTypes'
  <2>1. calls' \in [Calls -> Locals]
    BY <1>1 DEF IInv, RegTypes, Done
  <2>2. inflight' \in [Procs -> Int]
    BY <1>2 DEF IInv, RegTypes, Leave, IsSomewhere
  <2>3. thread' \in [Procs -> Calls \union {NoCall}]
    BY DEF IInv, RegTypes
  <2> QED BY <2>1, <2>2, <2>3 DEF IInv, RegTypes
<1>4. CallsInv'
  <2> SUFFICES ASSUME NEW d \in Calls
               PROVE  IsSomewhere(d)' /\ HasThread(d)' /\ HasAgent(d)'
    BY DEF CallsInv
  <2>1. CASE d = c
    BY <1>1, <2>1 DEF IsSomewhere, HasThread, HasAgent
  <2>2. CASE d # c
    <3>1. calls'[d] = calls[d] /\ IsSomewhere(d) /\ HasThread(d) /\ HasAgent(d)
      BY <1>1, <2>2 DEF IInv, CallsInv
    <3>2. calls[d].stage \in {"counted", "created"} => thread'[calls[d].proc] = d
      BY <1>2, <2>2, <3>1 DEF HasThread, IsSomewhere, IInv, RegTypes
    <3> QED BY <3>1, <3>2 DEF IsSomewhere, HasThread, HasAgent, Expired
  <2> QED BY <2>1, <2>2
<1>5. UnbornNotMade'
  BY DEF IInv, UnbornNotMade
<1>6. AuditIsKept'
  <2> SUFFICES ASSUME NEW a \in Agents, a \notin BeingMade', a \notin lost'
               PROVE  Accounted(a)'
    BY DEF AuditIsKept
  <2>1. CASE a \in BeingMade
    <3>1. calls[c].stage = "created" /\ calls[c].agent = a
      BY <1>1, <2>1 DEF BeingMade
    <3> QED BY <3>1 DEF Accounted, RowFor
  <2>2. CASE a \notin BeingMade
    <3>1. Accounted(a)
      BY <2>2 DEF IInv, AuditIsKept
    <3> QED BY <3>1 DEF Accounted, RowFor
  <2> QED BY <2>1, <2>2
<1>7. \A t \in RegTokens : LateWereAsked(t)'
  BY <1>1, FewerAreGood DEF IInv
<1>8. SlotsAreHeld'
  BY <1>2, SlotIsFreed DEF IInv, IsSomewhere
<1> QED BY <1>3, <1>4, <1>5, <1>6, <1>7, <1>8 DEF IInv

\* The ends of a call, as the code has them.
LEMMA EndingsInv ==
  ASSUME IInv, NEW c \in Calls,
         Unauthorised(c) \/ Declined(c) \/ NotMade(c) \/ Record(c) \/ RecordFails(c)
  PROVE  IInv'
<1>1. UNCHANGED tokenVars
  BY DEF Unauthorised, Declined, NotMade, Record, RecordFails
<1>2. TokenInv' /\ row' = row
  BY <1>1, TokenStutter DEF IInv, tokenVars
<1>3. /\ audit \subseteq [token: RegTokens, agent: Agents, age: 0..(Retention + 1)]
      /\ IsFiniteSet(audit)
  BY DEF IInv, AuditIsKept
<1>4. CASE Unauthorised(c) \/ Declined(c) \/ NotMade(c)
  <2>1. /\ calls[c].stage \in {"hashing", "counted"} /\ Done(c) /\ Leave(calls[c].proc)
        /\ UNCHANGED <<tokens, audit, lost, made, asked, late>>
        /\ \/ thread' = thread
           \/ calls[c].stage \in {"counted", "created"}
              /\ thread' = [thread EXCEPT ![calls[c].proc] = NoCall]
    BY <1>4 DEF Unauthorised, Declined, NotMade, At
  <2> QED BY <1>2, <1>3, <2>1, CallIsOver
<1>5. CASE Record(c)
  <2>1. /\ calls[c].stage = "created" /\ Done(c) /\ Leave(calls[c].proc)
        /\ audit' = audit \union {Row(c)}
        /\ UNCHANGED <<tokens, lost, made, asked, late>>
        /\ thread' = [thread EXCEPT ![calls[c].proc] = NoCall]
    BY <1>5 DEF Record, At
  <2>2. /\ calls[c].agent \in Agents /\ calls[c].token \in RegTokens
        /\ made[calls[c].agent] = [by |-> calls[c].token, age |-> 0]
    BY <2>1 DEF IInv, CallsInv, IsSomewhere, HasThread, HasAgent
  <2>3. Row(c) = RowFor(calls[c].agent)
    BY <2>2 DEF Row, RowFor
  <2>4. Row(c) \in [token: RegTokens, agent: Agents, age: 0..(Retention + 1)]
    BY <2>2, RegistrationAssumption DEF Row
  <2>5. IsFiniteSet(audit')
    BY <1>3, <2>1, FS_AddElement
  <2> QED BY <1>2, <1>3, <2>1, <2>3, <2>4, <2>5, CallIsOver
<1>6. CASE RecordFails(c)
  <2>1. /\ calls[c].stage = "created" /\ Done(c) /\ Leave(calls[c].proc)
        /\ lost' = lost \union {calls[c].agent}
        /\ UNCHANGED <<tokens, audit, made, asked, late>>
        /\ thread' = [thread EXCEPT ![calls[c].proc] = NoCall]
    BY <1>6 DEF RecordFails, At
  <2> QED BY <1>2, <1>3, <2>1, CallIsOver
<1> QED BY <1>4, <1>5, <1>6

\* A new call takes a slot; it is good for something only if its token's row
\* was not revoked when it was read.
LEMMA ArriveInv ==
  ASSUME IInv, NEW c \in Calls, NEW p \in Procs, NEW client \in Clients,
         NEW t \in RegTokens \union {NoRegToken}, NEW genuine \in BOOLEAN,
         NEW name \in Names \union {NoName}, Arrive(c, p, client, t, genuine, name)
  PROVE  IInv'
<1> DEFINE new == [stage |-> "hashing", proc |-> p, client |-> client, token |-> t,
                   genuine |-> genuine, name |-> name, row |-> RowOf(t), agent |-> NoName]
<1>1. /\ calls[c].stage = "idle" /\ (t = NoRegToken => ~genuine)
      /\ inflight' = [inflight EXCEPT ![p] = @ + 1]
      /\ calls' = [calls EXCEPT ![c] = new]
      /\ UNCHANGED <<tokenVars, tokens, audit, thread, made, lost, asked, late>>
  BY DEF Arrive
<1>2. RowOf(t) \in {"none", "live", "revoked"}
  BY DEF RowOf, IInv, RegTypes
<1>3. new \in Locals
  BY <1>2 DEF Locals, Stages
<1>4. new.stage = "hashing" /\ new.proc = p /\ new.token = t /\ new.genuine = genuine /\ new.row = RowOf(t)
  OBVIOUS
<1> HIDE DEF new
<1>5. calls'[c] = new /\ \A d \in Calls \ {c} : calls'[d] = calls[d]
  BY <1>1 DEF IInv, RegTypes
<1>6. TokenInv' /\ row' = row
  BY <1>1, TokenStutter DEF IInv, tokenVars
<1>7. RegTypes'
  BY <1>1, <1>3 DEF IInv, RegTypes
<1>8. CallsInv'
  <2> SUFFICES ASSUME NEW d \in Calls
               PROVE  IsSomewhere(d)' /\ HasThread(d)' /\ HasAgent(d)'
    BY DEF CallsInv
  <2>1. CASE d = c
    <3>1. RowOf(t) = "live" => t \in RegTokens /\ tokens[t].is # "none"
      BY DEF RowOf
    <3> QED BY <1>1, <1>4, <1>5, <2>1, <3>1 DEF IsSomewhere, HasThread, HasAgent
  <2>2. CASE d # c
    BY <1>1, <1>5, <1>6, <2>2 DEF IInv, CallsInv, IsSomewhere, HasThread, HasAgent, Expired
  <2> QED BY <2>1, <2>2
<1>9. UnbornNotMade'
  BY <1>1, <1>6 DEF IInv, UnbornNotMade
<1>10. AuditIsKept'
  <2>1. BeingMade' = BeingMade
    BY <1>1, <1>4, <1>5 DEF BeingMade
  <2> QED BY <1>1, <2>1 DEF IInv, AuditIsKept, Accounted, RowFor
<1>11. ASSUME NEW u \in RegTokens
       PROVE  LateWereAsked(u)'
  <2>1. CASE tokens[u].is = "revoked"
    <3>1. ~(new.token = u /\ new.row = "live")
      BY <1>4, <2>1, RegistrationAssumption DEF RowOf
    <3>2. StillGood(u)' = StillGood(u)
      BY <1>1, <1>5, <3>1 DEF StillGood
    <3> QED BY <1>1, <2>1, <3>2 DEF IInv, LateWereAsked
  <2>2. CASE tokens[u].is # "revoked"
    BY <1>1, <2>2 DEF IInv, LateWereAsked
  <2> QED BY <2>1, <2>2
<1>12. SlotsAreHeld'
  <2> SUFFICES ASSUME NEW q \in Procs
               PROVE  inflight'[q] = Cardinality(Held(q)')
    BY DEF SlotsAreHeld, Held
  <2>1. inflight[q] = Cardinality(Held(q)) /\ inflight[q] \in Int
    BY DEF IInv, SlotsAreHeld, Held, RegTypes
  <2>2. CASE q = p
    <3>1. Held(q)' = Held(q) \union {c} /\ c \notin Held(q)
      BY <1>1, <1>4, <1>5, <2>2 DEF Held
    <3>2. Cardinality(Held(q)') = Cardinality(Held(q)) + 1
      BY <3>1, FiniteCalls, FS_AddElement DEF Held
    <3>3. inflight'[q] = inflight[q] + 1
      BY <1>1, <2>2 DEF IInv, RegTypes
    <3> QED BY <2>1, <3>2, <3>3
  <2>3. CASE q # p
    <3>1. Held(q)' = Held(q)
      BY <1>1, <1>4, <1>5, <2>3 DEF Held
    <3>2. inflight'[q] = inflight[q]
      BY <1>1, <2>3 DEF IInv, RegTypes
    <3> QED BY <2>1, <3>1, <3>2
  <2> QED BY <2>2, <2>3
<1> QED BY <1>6, <1>7, <1>8, <1>9, <1>10, <1>11, <1>12 DEF IInv

\* A call that stays under way keeps its slot, its process and its token.
LEMMA SlotIsKept ==
  ASSUME SlotsAreHeld, RegTypes, inflight' = inflight,
         \A d \in Calls : calls'[d].proc = calls[d].proc
                          /\ (calls'[d].stage = "idle" <=> calls[d].stage = "idle")
  PROVE  SlotsAreHeld'
<1>1. \A p \in Procs : Held(p)' = Held(p)
  BY DEF Held
<1> QED BY <1>1 DEF SlotsAreHeld, Held

\* Past the count the process's thread is the call's.
LEMMA CountInv ==
  ASSUME IInv, NEW c \in Calls, Count(c)
  PROVE  IInv'
<1> DEFINE p == calls[c].proc
<1>1. /\ calls[c].stage = "hashing" /\ thread[p] \in {c, NoCall}
      /\ calls[c].genuine /\ calls[c].row = "live" /\ ~Expired(calls[c].token)
      /\ calls[c].name # NoName
      /\ thread' = [thread EXCEPT ![p] = c]
      /\ calls' = [calls EXCEPT ![c].stage = "counted"]
      /\ UNCHANGED <<tokenVars, tokens, audit, inflight, made, lost, asked, late>>
  BY DEF Count, At, Runs, Valid, Goto
<1>2. /\ calls'[c].stage = "counted" /\ calls'[c].proc = p /\ calls'[c].token = calls[c].token
      /\ calls'[c].genuine = calls[c].genuine /\ calls'[c].name = calls[c].name
      /\ calls'[c].row = calls[c].row
      /\ \A d \in Calls \ {c} : calls'[d] = calls[d]
      /\ calls[c].name \in Names /\ calls' \in [Calls -> Locals]
  <2>1. calls \in [Calls -> Locals] /\ calls[c] \in Locals
    BY DEF IInv, RegTypes
  <2>2. /\ calls'[c] = [calls[c] EXCEPT !.stage = "counted"]
        /\ \A d \in Calls \ {c} : calls'[d] = calls[d]
    BY <1>1, <2>1
  <2>3. calls'[c] \in Locals
    BY <2>1, <2>2 DEF Locals, Stages
  <2>4. calls' \in [Calls -> Locals]
    BY <1>1, <2>1, <2>2, <2>3
  <2>5. calls[c].name \in Names
    BY <1>1, <2>1 DEF Locals
  <2> QED BY <2>1, <2>2, <2>4, <2>5 DEF Locals
<1>3. p \in Procs /\ calls[c].token \in RegTokens /\ tokens[calls[c].token].is # "none"
  BY <1>1 DEF IInv, CallsInv, IsSomewhere
<1>4. TokenInv' /\ row' = row
  BY <1>1, TokenStutter DEF IInv, tokenVars
<1>5. RegTypes'
  BY <1>1, <1>2 DEF IInv, RegTypes
<1>6. CallsInv'
  <2> SUFFICES ASSUME NEW d \in Calls
               PROVE  IsSomewhere(d)' /\ HasThread(d)' /\ HasAgent(d)'
    BY DEF CallsInv
  <2>1. CASE d = c
    <3>1. thread'[p] = c
      BY <1>1, <1>3 DEF IInv, RegTypes
    <3> QED BY <1>1, <1>2, <1>3, <2>1, <3>1 DEF IsSomewhere, HasThread, HasAgent, Expired
  <2>2. CASE d # c
    <3>1. calls'[d] = calls[d] /\ IsSomewhere(d) /\ HasThread(d) /\ HasAgent(d)
      BY <1>2, <2>2 DEF IInv, CallsInv
    <3>2. calls[d].stage \in {"counted", "created"} => thread'[calls[d].proc] = d
      BY <1>1, <2>2, <3>1, RegistrationAssumption DEF HasThread, IsSomewhere, IInv, RegTypes
    <3> QED BY <1>1, <1>4, <3>1, <3>2 DEF IsSomewhere, HasThread, HasAgent, Expired
  <2> QED BY <2>1, <2>2
<1>7. UnbornNotMade'
  BY <1>1, <1>4 DEF IInv, UnbornNotMade
<1>8. AuditIsKept'
  <2>1. BeingMade' = BeingMade
    BY <1>1, <1>2 DEF BeingMade
  <2> QED BY <1>1, <2>1 DEF IInv, AuditIsKept, Accounted, RowFor
<1>9. ASSUME NEW u \in RegTokens
      PROVE  LateWereAsked(u)'
  <2>1. StillGood(u)' = StillGood(u)
    BY <1>1, <1>2 DEF StillGood
  <2> QED BY <1>1, <2>1 DEF IInv, LateWereAsked
<1>10. SlotsAreHeld'
  BY <1>1, <1>2, SlotIsKept DEF IInv
<1> QED BY <1>4, <1>5, <1>6, <1>7, <1>8, <1>9, <1>10 DEF IInv

\* The agent is there, its row in the audit not yet.
LEMMA MakeAgentInv ==
  ASSUME IInv, NEW c \in Calls, NEW a \in Agents, MakeAgent(c, a)
  PROVE  IInv'
<1> DEFINE t == calls[c].token
<1>1. /\ calls[c].stage = "counted" /\ Create(calls[c].proc, a, calls[c].name)
      /\ calls' = [calls EXCEPT ![c].stage = "created", ![c].agent = a]
      /\ made' = [made EXCEPT ![a] = [by |-> t, age |-> 0]]
      /\ late' = IF tokens[t].is = "revoked" THEN [late EXCEPT ![t] = @ + 1] ELSE late
      /\ UNCHANGED <<tokens, audit, inflight, thread, lost, asked>>
  BY DEF MakeAgent, At
<1>2. /\ calls[c].proc \in Procs /\ t \in RegTokens /\ calls[c].name \in Names
      /\ thread[calls[c].proc] = c /\ calls[c].row = "live" /\ ~Expired(t)
      /\ tokens[t].is # "none"
  BY <1>1 DEF IInv, CallsInv, IsSomewhere, HasThread
<1>3. /\ calls'[c].stage = "created" /\ calls'[c].agent = a /\ calls'[c].proc = calls[c].proc
      /\ calls'[c].token = t /\ calls'[c].genuine = calls[c].genuine
      /\ calls'[c].name = calls[c].name /\ calls'[c].row = calls[c].row
      /\ \A d \in Calls \ {c} : calls'[d] = calls[d]
      /\ calls' \in [Calls -> Locals]
  <2>1. calls \in [Calls -> Locals] /\ calls[c] \in Locals
    BY DEF IInv, RegTypes
  <2>2. /\ calls'[c] = [calls[c] EXCEPT !.stage = "created", !.agent = a]
        /\ \A d \in Calls \ {c} : calls'[d] = calls[d]
    BY <1>1, <2>1
  <2>3. calls'[c] \in Locals
    BY <2>1, <2>2 DEF Locals, Stages
  <2>4. calls' \in [Calls -> Locals]
    BY <1>1, <2>1, <2>2, <2>3
  <2> QED BY <2>1, <2>2, <2>4 DEF Locals
<1>4. TokenInv'
  BY <1>1, <1>2, CreateInv DEF IInv
<1>5. /\ row[a].is = "unborn" /\ row'[a].is = "active"
      /\ \A b \in Agents \ {a} : row'[b] = row[b]
  BY <1>1 DEF Create, IInv, TokenInv, TokenTypeOK
<1>6. /\ made'[a] = [by |-> t, age |-> 0]
      /\ \A b \in Agents \ {a} : made'[b] = made[b]
  BY <1>1 DEF IInv, RegTypes
<1>7. RegTypes'
  BY <1>1, <1>2, <1>3, RegistrationAssumption DEF IInv, RegTypes
<1>8. CallsInv'
  <2> SUFFICES ASSUME NEW d \in Calls
               PROVE  IsSomewhere(d)' /\ HasThread(d)' /\ HasAgent(d)'
    BY DEF CallsInv
  <2>1. CASE d = c
    <3>1. IsSomewhere(d)'
      BY <1>1, <1>2, <1>3, <2>1 DEF IsSomewhere
    <3>2. HasThread(d)'
      BY <1>1, <1>2, <1>3, <2>1 DEF HasThread, Expired
    <3>3. HasAgent(d)'
      BY <1>3, <1>5, <1>6, <2>1 DEF HasAgent
    <3> QED BY <3>1, <3>2, <3>3
  <2>2. CASE d # c
    <3>1. calls'[d] = calls[d] /\ IsSomewhere(d) /\ HasThread(d) /\ HasAgent(d)
      BY <1>3, <2>2 DEF IInv, CallsInv
    <3>2. calls[d].stage = "created" => calls[d].agent # a
      BY <1>5, <3>1 DEF HasAgent
    <3>3. IsSomewhere(d)' /\ HasThread(d)'
      BY <1>1, <3>1 DEF IsSomewhere, HasThread, Expired
    <3>4. HasAgent(d)'
      BY <1>5, <1>6, <3>1, <3>2 DEF HasAgent
    <3> QED BY <3>3, <3>4
  <2> QED BY <2>1, <2>2
<1>9. UnbornNotMade'
  BY <1>5, <1>6 DEF IInv, UnbornNotMade
<1>10. AuditIsKept'
  <2>1. a \in BeingMade' /\ BeingMade \subseteq BeingMade'
    BY <1>1, <1>3 DEF BeingMade
  <2>2. ASSUME NEW b \in Agents, b \notin BeingMade', b \notin lost'
        PROVE  Accounted(b)'
    <3>1. b # a /\ Accounted(b)
      BY <1>1, <2>1, <2>2 DEF IInv, AuditIsKept
    <3> QED BY <1>1, <1>6, <3>1 DEF Accounted, RowFor
  <2> QED BY <1>1, <2>2 DEF IInv, AuditIsKept
<1>11. ASSUME NEW u \in RegTokens
       PROVE  LateWereAsked(u)'
  <2>1. LateWereAsked(u) /\ late[u] \in Nat /\ asked[u] \in Nat
    BY DEF IInv, RegTypes
  <2>2. CASE u = t
    <3>1. StillGood(u)' = StillGood(u) \ {c} /\ c \in StillGood(u)
      BY <1>1, <1>2, <1>3, <2>2 DEF StillGood
    <3>2. Cardinality(StillGood(u)') = Cardinality(StillGood(u)) - 1
          /\ Cardinality(StillGood(u)) \in Nat
      <4>1. IsFiniteSet(StillGood(u)) /\ Cardinality(StillGood(u)) \in Nat
        BY FiniteCalls DEF StillGood
      <4> QED BY <3>1, <4>1, FS_RemoveElement
    <3>3. late'[u] = IF tokens[u].is = "revoked" THEN late[u] + 1 ELSE late[u]
      BY <1>1, <2>2 DEF IInv, RegTypes
    <3> QED BY <1>1, <2>1, <3>2, <3>3 DEF LateWereAsked
  <2>3. CASE u # t
    <3>1. StillGood(u)' = StillGood(u)
      BY <1>1, <1>3, <2>3 DEF StillGood
    <3>2. late'[u] = late[u]
      BY <1>1, <2>3 DEF IInv, RegTypes
    <3> QED BY <1>1, <2>1, <3>1, <3>2 DEF LateWereAsked
  <2> QED BY <2>2, <2>3
<1>12. SlotsAreHeld'
  BY <1>1, <1>3, SlotIsKept DEF IInv
<1> QED BY <1>4, <1>7, <1>8, <1>9, <1>10, <1>11, <1>12 DEF IInv

\* A step that is nobody's call, and leaves the audit and the agents' makers
\* alone.
LEMMA NoCallsStep ==
  ASSUME IInv, TokenInv',
         \A a \in Agents : row'[a].is = "unborn" <=> row[a].is = "unborn",
         UNCHANGED <<tokens, audit, inflight, thread, calls, made, lost, asked, late>>
  PROVE  IInv'
<1>1. RegTypes' /\ SlotsAreHeld'
  BY DEF IInv, RegTypes, SlotsAreHeld
<1>2. CallsInv'
  <2> SUFFICES ASSUME NEW d \in Calls
               PROVE  IsSomewhere(d)' /\ HasThread(d)' /\ HasAgent(d)'
    BY DEF CallsInv
  <2>1. IsSomewhere(d) /\ HasThread(d) /\ HasAgent(d)
    BY DEF IInv, CallsInv
  <2> QED BY <2>1 DEF IsSomewhere, HasThread, HasAgent, Expired
<1>3. UnbornNotMade' /\ AuditIsKept'
  BY DEF IInv, UnbornNotMade, AuditIsKept, Accounted, RowFor, BeingMade
<1>4. \A t \in RegTokens : LateWereAsked(t)'
  BY DEF IInv, LateWereAsked, StillGood
<1> QED BY <1>1, <1>2, <1>3, <1>4 DEF IInv

\* The operator removes an agent; somebody's credential is wrong.
LEMMA OtherInv ==
  ASSUME IInv, NEW p \in Procs,
         \/ \E a \in Agents : RemoveAgent(p, a)
         \/ \E client \in Clients : WrongCredential(p, client)
  PROVE  IInv'
<1>1. ASSUME NEW a \in Agents, RemoveAgent(p, a)
      PROVE  IInv'
  <2>1. TokenInv'
    BY <1>1, DeleteInv DEF RemoveAgent, IInv
  <2>2. \A b \in Agents : row'[b].is = "unborn" <=> row[b].is = "unborn"
    BY <1>1 DEF RemoveAgent, DeleteById, Stored, IInv, TokenInv, TokenTypeOK
  <2>3. UNCHANGED regVars
    BY <1>1 DEF RemoveAgent
  <2> QED BY <2>1, <2>2, <2>3, NoCallsStep DEF regVars
<1>2. ASSUME NEW client \in Clients, WrongCredential(p, client)
      PROVE  IInv'
  <2>1. UNCHANGED <<tokenVars, regVars>>
    BY <1>2 DEF WrongCredential
  <2> QED BY <2>1, TokenStutter, NoCallsStep DEF regVars, tokenVars, IInv
<1> QED BY <1>1, <1>2

\* What happens to a token changes nothing of what the calls rely on, if its
\* row stays and it does not run out.
LEMMA TokenRowStep ==
  ASSUME IInv, RegTypes', \A t \in RegTokens : LateWereAsked(t)',
         \A t \in RegTokens : tokens[t].is # "none" =>
           tokens'[t].is # "none" /\ tokens'[t].left = tokens[t].left,
         UNCHANGED <<tokenVars, audit, inflight, thread, calls, made, lost>>
  PROVE  IInv'
<1>1. TokenInv' /\ row' = row
  BY TokenStutter DEF IInv, tokenVars
<1>2. CallsInv'
  <2> SUFFICES ASSUME NEW d \in Calls
               PROVE  IsSomewhere(d)' /\ HasThread(d)' /\ HasAgent(d)'
    BY DEF CallsInv
  <2>1. IsSomewhere(d) /\ HasThread(d) /\ HasAgent(d)
    BY DEF IInv, CallsInv
  <2> QED BY <1>1, <2>1 DEF IsSomewhere, HasThread, HasAgent, Expired
<1>3. UnbornNotMade' /\ AuditIsKept' /\ SlotsAreHeld'
  BY <1>1 DEF IInv, UnbornNotMade, AuditIsKept, Accounted, RowFor, BeingMade, SlotsAreHeld
<1> QED BY <1>1, <1>2, <1>3 DEF IInv

\* A new token was never revoked.
LEMMA MintInv ==
  ASSUME IInv, NEW t \in RegTokens, NEW left \in {Lifetime, Never}, Mint(t, left)
  PROVE  IInv'
<1>1. /\ tokens[t].is = "none"
      /\ tokens' = [tokens EXCEPT ![t] = [is |-> "live", left |-> left]]
      /\ UNCHANGED <<tokenVars, audit, inflight, thread, calls, made, lost, asked, late>>
  BY DEF Mint
<1>2. /\ tokens'[t] = [is |-> "live", left |-> left]
      /\ \A u \in RegTokens \ {t} : tokens'[u] = tokens[u]
  BY <1>1 DEF IInv, RegTypes
<1>3. left \in 0..Never
  BY RegistrationAssumption DEF Never
<1>4. RegTypes'
  BY <1>1, <1>3 DEF IInv, RegTypes
<1>5. \A u \in RegTokens : LateWereAsked(u)'
  BY <1>1, <1>2 DEF IInv, LateWereAsked, StillGood
<1> QED BY <1>1, <1>2, <1>4, <1>5, TokenRowStep

\* The checks under way are counted when the token is revoked.
LEMMA RevokeTokenInv ==
  ASSUME IInv, NEW t \in RegTokens, Revoke(t)
  PROVE  IInv'
<1> DEFINE under == {c \in Calls : calls[c].token = t /\ calls[c].stage \in {"hashing", "counted"}}
<1>1. /\ tokens[t].is = "live"
      /\ tokens' = [tokens EXCEPT ![t].is = "revoked"]
      /\ asked' = [asked EXCEPT ![t] = Cardinality(under)]
      /\ UNCHANGED <<tokenVars, audit, inflight, thread, calls, made, lost, late>>
  BY DEF Revoke
<1>2. /\ tokens'[t].is = "revoked" /\ tokens'[t].left = tokens[t].left
      /\ \A u \in RegTokens \ {t} : tokens'[u] = tokens[u]
  BY <1>1 DEF IInv, RegTypes
<1>3. IsFiniteSet(under) /\ Cardinality(under) \in Nat
  BY FiniteCalls
<1>4. RegTypes'
  BY <1>1, <1>3 DEF IInv, RegTypes
<1>5. LateWereAsked(t)'
  <2>1. late[t] = 0 /\ late' = late
    BY <1>1 DEF IInv, LateWereAsked
  <2>2. StillGood(t)' \subseteq under
    BY <1>1 DEF StillGood
  <2>3. Cardinality(StillGood(t)') <= Cardinality(under) /\ Cardinality(StillGood(t)') \in Nat
    BY <1>3, <2>2, FS_Subset, FS_CardinalityType
  <2>4. asked'[t] = Cardinality(under)
    BY <1>1 DEF IInv, RegTypes
  <2> HIDE DEF under
  <2> QED BY <1>2, <1>3, <2>1, <2>3, <2>4 DEF LateWereAsked
<1>6. ASSUME NEW u \in RegTokens, u # t
      PROVE  LateWereAsked(u)'
  <2>1. asked'[u] = asked[u] /\ late' = late
    BY <1>1, <1>6 DEF IInv, RegTypes
  <2>2. StillGood(u)' = StillGood(u)
    BY <1>1 DEF StillGood
  <2> QED BY <1>2, <1>6, <2>1, <2>2 DEF IInv, LateWereAsked
<1> QED BY <1>1, <1>2, <1>4, <1>5, <1>6, TokenRowStep

\* The hourly sweep takes rows that are past their time.
LEMMA PruneInv ==
  ASSUME IInv, Prune
  PROVE  IInv'
<1>1. /\ audit' = {r \in audit : Kept(r)}
      /\ UNCHANGED <<tokenVars, tokens, inflight, thread, calls, made, lost, asked, late>>
  BY DEF Prune
<1>2. TokenInv' /\ row' = row
  BY <1>1, TokenStutter DEF IInv, tokenVars
<1>3. RegTypes' /\ SlotsAreHeld' /\ UnbornNotMade'
  BY <1>1, <1>2 DEF IInv, RegTypes, SlotsAreHeld, UnbornNotMade
<1>4. CallsInv'
  <2> SUFFICES ASSUME NEW d \in Calls
               PROVE  IsSomewhere(d)' /\ HasThread(d)' /\ HasAgent(d)'
    BY DEF CallsInv
  <2>1. IsSomewhere(d) /\ HasThread(d) /\ HasAgent(d)
    BY DEF IInv, CallsInv
  <2> QED BY <1>1, <1>2, <2>1 DEF IsSomewhere, HasThread, HasAgent, Expired
<1>5. \A t \in RegTokens : LateWereAsked(t)'
  BY <1>1 DEF IInv, LateWereAsked, StillGood
<1>6. AuditIsKept'
  <2>1. audit' \subseteq audit /\ IsFiniteSet(audit')
    BY <1>1, FS_Subset DEF IInv, AuditIsKept
  <2>2. ASSUME NEW a \in Agents, a \notin BeingMade', a \notin lost'
        PROVE  Accounted(a)'
    <3>1. Accounted(a)
      BY <1>1, <2>2 DEF IInv, AuditIsKept, BeingMade
    <3> QED BY <1>1, <3>1 DEF Accounted, RowFor, Kept
  <2> QED BY <2>1, <2>2 DEF IInv, AuditIsKept
<1> QED BY <1>2, <1>3, <1>4, <1>5, <1>6 DEF IInv

\* While time passes no call is past its count; an agent and its row grow old
\* together.
LEMMA TickInv ==
  ASSUME IInv, Tick
  PROVE  IInv'
<1> DEFINE older(r) == [token |-> r.token, agent |-> r.agent, age |-> Older(r.age)]
<1>1. /\ \A p \in Procs : thread[p] = NoCall
      /\ tokens' = [t \in RegTokens |->
           IF tokens[t].left \in 1..Lifetime THEN [tokens[t] EXCEPT !.left = @ - 1] ELSE tokens[t]]
      /\ audit' = {[r EXCEPT !.age = Older(@)] : r \in audit}
      /\ made' = [a \in Agents |->
           IF made[a].by = NoRegToken THEN made[a] ELSE [made[a] EXCEPT !.age = Older(@)]]
      /\ UNCHANGED <<tokenVars, inflight, thread, calls, lost, asked, late>>
  BY DEF Tick
<1>2. TokenInv' /\ row' = row
  BY <1>1, TokenStutter DEF IInv, tokenVars
<1>3. \A n \in 0..(Retention + 1) : Older(n) \in 0..(Retention + 1)
  BY RegistrationAssumption DEF Older
<1>4. \A t \in RegTokens : tokens'[t].is = tokens[t].is
                           /\ tokens'[t] \in [is: {"none", "live", "revoked"}, left: 0..Never]
  BY <1>1, RegistrationAssumption DEF IInv, RegTypes, Never
<1>5. \A a \in Agents :
        /\ made'[a].by = made[a].by
        /\ made'[a] \in [by: RegTokens \union {NoRegToken}, age: 0..(Retention + 1)]
        /\ made[a].by # NoRegToken => made'[a].age = Older(made[a].age)
  BY <1>1, <1>3 DEF IInv, RegTypes
<1>6. RegTypes'
  BY <1>1, <1>4, <1>5 DEF IInv, RegTypes
<1>7. \A c \in Calls : calls[c].stage \notin {"counted", "created"}
  BY <1>1, RegistrationAssumption DEF IInv, CallsInv, IsSomewhere, HasThread
<1>8. CallsInv'
  <2> SUFFICES ASSUME NEW d \in Calls
               PROVE  IsSomewhere(d)' /\ HasThread(d)' /\ HasAgent(d)'
    BY DEF CallsInv
  <2>1. IsSomewhere(d)
    BY DEF IInv, CallsInv
  <2> QED BY <1>1, <1>4, <1>7, <2>1 DEF IsSomewhere, HasThread, HasAgent
<1>9. UnbornNotMade'
  BY <1>2, <1>5 DEF IInv, UnbornNotMade
<1>10. AuditIsKept'
  <2>1. audit \subseteq [token: RegTokens, agent: Agents, age: 0..(Retention + 1)]
    BY DEF IInv, AuditIsKept
  <2>2. \A r \in audit : [r EXCEPT !.age = Older(@)] = older(r)
    BY <2>1
  <2>3. audit' = {older(r) : r \in audit}
    <3>1. ASSUME NEW x
          PROVE  x \in audit' <=> \E r \in audit : x = [r EXCEPT !.age = Older(@)]
      BY <1>1
    <3>2. ASSUME NEW x
          PROVE  x \in audit' <=> \E r \in audit : x = older(r)
      <4> HIDE DEF older
      <4> QED BY <2>2, <3>1
    <3> HIDE DEF older
    <3> QED BY <3>2
  <2>4. IsFiniteSet(audit')
    <3> DEFINE f == [r \in audit |-> older(r)]
    <3>1. f \in Surjection(audit, audit')
      BY <2>3 DEF Surjection
    <3> QED BY <3>1, FS_Surjection DEF IInv, AuditIsKept
  <2>5. audit' \subseteq [token: RegTokens, agent: Agents, age: 0..(Retention + 1)]
    BY <1>3, <2>1, <2>3
  <2>6. ASSUME NEW a \in Agents, a \notin BeingMade', a \notin lost'
        PROVE  Accounted(a)'
    <3> SUFFICES ASSUME made'[a].by # NoRegToken, made'[a].age <= Retention
                 PROVE  RowFor(a)' \in audit'
      BY DEF Accounted
    <3>1. made[a].by # NoRegToken /\ made'[a].age = Older(made[a].age)
          /\ made[a].age \in 0..(Retention + 1)
      BY <1>5 DEF IInv, RegTypes
    <3>2. made[a].age <= Retention
      BY <3>1, RegistrationAssumption DEF Older
    <3>3. Accounted(a)
      BY <1>1, <2>6 DEF IInv, AuditIsKept, BeingMade
    <3>4. RowFor(a) \in audit
      BY <3>1, <3>2, <3>3 DEF Accounted
    <3>5. older(RowFor(a)) = RowFor(a)'
      BY <1>5, <3>1 DEF RowFor
    <3> QED BY <2>3, <3>4, <3>5
  <2> QED BY <2>4, <2>5, <2>6 DEF AuditIsKept
<1>11. ASSUME NEW t \in RegTokens
       PROVE  LateWereAsked(t)'
  <2>1. StillGood(t)' = StillGood(t) /\ tokens'[t].is = tokens[t].is
    BY <1>1, <1>4 DEF StillGood
  <2> QED BY <1>1, <2>1 DEF IInv, LateWereAsked
<1>12. SlotsAreHeld'
  BY <1>1 DEF IInv, SlotsAreHeld
<1> QED BY <1>2, <1>6, <1>8, <1>9, <1>10, <1>11, <1>12 DEF IInv

\* A process that dies takes its calls along: what they made is lost to the
\* audit.
LEMMA CrashInv ==
  ASSUME IInv, NEW p \in Procs, Crash(p)
  PROVE  IInv'
<1>1. /\ calls' = [c \in Calls |-> IF calls[c].proc = p THEN IdleCall ELSE calls[c]]
      /\ inflight' = [inflight EXCEPT ![p] = 0]
      /\ thread' = [thread EXCEPT ![p] = NoCall]
      /\ Restart(p)
      /\ lost' = lost \union {calls[c].agent :
                   c \in {d \in Calls : calls[d].proc = p /\ calls[d].stage = "created"}}
      /\ UNCHANGED <<tokens, audit, made, asked, late>>
  BY DEF Crash
<1>2. IdleCall.stage = "idle" /\ IdleCall \in Locals
  BY DEF IdleCall, Locals, Stages
<1>3. /\ \A c \in Calls : calls[c].proc = p => calls'[c] = IdleCall
      /\ \A c \in Calls : calls[c].proc # p => calls'[c] = calls[c]
  BY <1>1
<1>4. TokenInv' /\ row' = row
  BY <1>1, RestartInv DEF IInv, Restart
<1>5. RegTypes'
  BY <1>1, <1>2 DEF IInv, RegTypes
<1>6. CallsInv'
  <2> SUFFICES ASSUME NEW d \in Calls
               PROVE  IsSomewhere(d)' /\ HasThread(d)' /\ HasAgent(d)'
    BY DEF CallsInv
  <2>1. CASE calls[d].proc = p
    BY <1>2, <1>3, <2>1 DEF IsSomewhere, HasThread, HasAgent
  <2>2. CASE calls[d].proc # p
    <3>1. calls'[d] = calls[d] /\ IsSomewhere(d) /\ HasThread(d) /\ HasAgent(d)
      BY <1>3, <2>2 DEF IInv, CallsInv
    <3>2. calls[d].stage # "idle" => thread'[calls[d].proc] = thread[calls[d].proc]
      BY <1>1, <2>2, <3>1 DEF IsSomewhere, IInv, RegTypes
    <3> QED BY <1>1, <1>4, <3>1, <3>2 DEF IsSomewhere, HasThread, HasAgent, Expired
  <2> QED BY <2>1, <2>2
<1>7. UnbornNotMade'
  BY <1>1, <1>4 DEF IInv, UnbornNotMade
<1>8. AuditIsKept'
  <2>1. BeingMade \subseteq BeingMade' \union lost'
    BY <1>1, <1>3 DEF BeingMade
  <2>2. ASSUME NEW a \in Agents, a \notin BeingMade', a \notin lost'
        PROVE  Accounted(a)'
    <3>1. Accounted(a)
      BY <1>1, <2>1, <2>2 DEF IInv, AuditIsKept
    <3> QED BY <1>1, <3>1 DEF Accounted, RowFor
  <2> QED BY <1>1, <2>2 DEF IInv, AuditIsKept
<1>9. \A t \in RegTokens : LateWereAsked(t)'
  BY <1>1, <1>2, <1>3, FewerAreGood DEF IInv
<1>10. SlotsAreHeld'
  <2> SUFFICES ASSUME NEW q \in Procs
               PROVE  inflight'[q] = Cardinality(Held(q)')
    BY DEF SlotsAreHeld, Held
  <2>1. inflight[q] = Cardinality(Held(q))
    BY DEF IInv, SlotsAreHeld, Held
  <2>2. CASE q = p
    <3>1. Held(q)' = {}
      BY <1>2, <1>3, <2>2 DEF Held
    <3>2. inflight'[q] = 0
      BY <1>1, <2>2 DEF IInv, RegTypes
    <3> QED BY <3>1, <3>2, FS_EmptySet
  <2>3. CASE q # p
    <3>1. Held(q)' = Held(q)
      BY <1>2, <1>3, <2>3 DEF Held, IdleCall
    <3>2. inflight'[q] = inflight[q]
      BY <1>1, <2>3 DEF IInv, RegTypes
    <3> QED BY <2>1, <3>1, <3>2
  <2> QED BY <2>2, <2>3
<1> QED BY <1>4, <1>5, <1>6, <1>7, <1>8, <1>9, <1>10 DEF IInv

\* Every step keeps the invariant.
LEMMA StepInv ==
  ASSUME IInv, [Next]_vars
  PROVE  IInv'
<1>1. CASE UNCHANGED vars
  <2>1. UNCHANGED <<tokenVars, regVars>>
    BY <1>1 DEF vars
  <2> QED BY <2>1, TokenStutter, NoCallsStep DEF regVars, tokenVars, IInv
<1>2. ASSUME NEW c \in Calls,
             \/ \E p \in Procs, client \in Clients, t \in RegTokens \union {NoRegToken},
                   genuine \in BOOLEAN, name \in Names \union {NoName} :
                  Arrive(c, p, client, t, genuine, name)
             \/ Unauthorised(c) \/ Declined(c) \/ Count(c)
             \/ \E a \in Agents : MakeAgent(c, a)
             \/ NotMade(c) \/ Record(c) \/ RecordFails(c)
      PROVE  IInv'
  BY <1>2, ArriveInv, EndingsInv, CountInv, MakeAgentInv
<1>3. ASSUME NEW t \in RegTokens, Revoke(t) \/ \E left \in {Lifetime, Never} : Mint(t, left)
      PROVE  IInv'
  BY <1>3, RevokeTokenInv, MintInv
<1>4. ASSUME NEW p \in Procs,
             \/ Crash(p)
             \/ \E a \in Agents : RemoveAgent(p, a)
             \/ \E client \in Clients : WrongCredential(p, client)
      PROVE  IInv'
  BY <1>4, CrashInv, OtherInv
<1>5. CASE Prune \/ Tick
  BY <1>5, PruneInv, TickInv
<1> QED BY <1>1, <1>2, <1>3, <1>4, <1>5 DEF Next

-----------------------------------------------------------------------------

\* The invariant holds of every behaviour.
THEOREM Invariance == Spec => []IInv
<1>1. IInv /\ [Next]_vars => IInv'
  BY StepInv
<1> QED BY <1>1, InitIInv, PTL DEF Spec

\* No way a call can end keeps its slot or gives it back twice
\* (registration.ts:195-205).
THEOREM SlotsHeld == Spec => []SlotsAreHeld
<1>1. IInv => SlotsAreHeld
  BY DEF IInv
<1> QED BY <1>1, Invariance, PTL

\* Every agent a token made is in the audit while its rows are kept, but for
\* one just being made and those whose row was lost (registration.ts:254-280).
THEOREM Audited == Spec => []AuditAgrees
<1>1. IInv => AuditAgrees
  <2> SUFFICES ASSUME IInv, NEW a \in Agents \ (BeingMade \union lost),
                      made[a].by # NoRegToken, made[a].age <= Retention
               PROVE  \E r \in audit : r.agent = a /\ r.token = made[a].by
    BY DEF AuditAgrees
  <2>1. RowFor(a) \in audit
    BY DEF IInv, AuditIsKept, Accounted
  <2> QED BY <2>1 DEF RowFor
<1> QED BY <1>1, Invariance, PTL

\* The agents of the hour are no more than their rows.
LEMMA RowsOfTheHour ==
  ASSUME IInv, NEW t \in RegTokens
  PROVE  /\ IsFiniteSet(InHour(t) \ (BeingMade \union lost))
         /\ Cardinality(InHour(t) \ (BeingMade \union lost)) <= Cardinality(Recent(t))
<1> DEFINE agents == InHour(t) \ (BeingMade \union lost)
           named == {r.agent : r \in Recent(t)}
<1>1. IsFiniteSet(Recent(t)) /\ Cardinality(Recent(t)) \in Nat
  BY FS_Subset, FS_CardinalityType DEF IInv, AuditIsKept, Recent
<1>2. IsFiniteSet(named) /\ Cardinality(named) <= Cardinality(Recent(t))
  <2> DEFINE f == [r \in Recent(t) |-> r.agent]
  <2>1. f \in Surjection(Recent(t), named)
    BY DEF Surjection
  <2> QED BY <1>1, <2>1, FS_Surjection
<1>3. agents \subseteq named
  <2> SUFFICES ASSUME NEW a \in agents
               PROVE  a \in named
    OBVIOUS
  <2>1. a \in Agents /\ made[a].by = t /\ made[a].age < Hour /\ a \notin BeingMade \union lost
    BY DEF InHour
  <2>2. made[a].age <= Retention
    BY <2>1, RegistrationAssumption DEF IInv, RegTypes
  <2>3. RowFor(a) \in audit
    BY <2>1, <2>2, RegistrationAssumption DEF IInv, AuditIsKept, Accounted
  <2>4. RowFor(a) \in Recent(t) /\ RowFor(a).agent = a
    BY <2>1, <2>3 DEF Recent, RowFor
  <2> QED BY <2>4
<1>4. IsFiniteSet(agents) /\ Cardinality(agents) <= Cardinality(named)
  BY <1>2, <1>3, FS_Subset
<1>5. Cardinality(agents) \in Nat /\ Cardinality(named) \in Nat
  BY <1>2, <1>4, FS_CardinalityType
<1> HIDE DEF agents, named
<1>6. IsFiniteSet(agents) /\ Cardinality(agents) <= Cardinality(Recent(t))
  BY <1>1, <1>2, <1>4, <1>5
<1> QED BY <1>6 DEF agents

\* No other step takes a call past the count.
LEMMA OnlyCountCounts ==
  ASSUME IInv, Next, NEW c \in Calls, calls[c].stage = "hashing", calls'[c].stage = "counted"
  PROVE  Count(c)
<1>1. calls'[c] # calls[c] /\ calls'[c] # IdleCall /\ calls \in [Calls -> Locals]
  BY DEF IdleCall, IInv, RegTypes
<1>2. ASSUME NEW d \in Calls, Done(d)
      PROVE  FALSE
  BY <1>1, <1>2 DEF Done
<1>3. ASSUME NEW d \in Calls, Count(d)
      PROVE  Count(c)
  BY <1>1, <1>3 DEF Count, Goto
<1>4. ASSUME NEW d \in Calls, NEW a \in Agents, MakeAgent(d, a)
      PROVE  FALSE
  <2>1. calls[d].stage = "counted"
    BY <1>4 DEF MakeAgent, At
  <2> QED BY <1>1, <1>4, <2>1 DEF MakeAgent
<1>5. ASSUME NEW d \in Calls, NEW p, NEW client, NEW t, NEW genuine, NEW name,
             Arrive(d, p, client, t, genuine, name)
      PROVE  FALSE
  <2>1. calls[d].stage = "idle"
    BY <1>5 DEF Arrive
  <2> QED BY <1>1, <1>5, <2>1 DEF Arrive
<1>6. ASSUME NEW d \in Calls,
             Unauthorised(d) \/ Declined(d) \/ NotMade(d) \/ Record(d) \/ RecordFails(d)
      PROVE  FALSE
  BY <1>2, <1>6 DEF Unauthorised, Declined, NotMade, Record, RecordFails
<1>7. ASSUME NEW p \in Procs, Crash(p)
      PROVE  FALSE
  BY <1>1, <1>7 DEF Crash
<1>8. ASSUME UNCHANGED calls
      PROVE  FALSE
  BY <1>1, <1>8
<1> QED BY <1>3, <1>4, <1>5, <1>6, <1>7, <1>8
        DEF Next, Revoke, Mint, RemoveAgent, WrongCredential, Prune, Tick, regVars

\* A call goes past the count only while its token's agents of the last hour
\* are fewer than its cap, but for those whose rows other processes are about
\* to write, or could not write (registration.ts:254).
THEOREM CapHolds == Spec => HourlyCap
<1>1. IInv /\ [Next]_vars =>
        [\A c \in Calls : calls[c].stage = "hashing" /\ calls'[c].stage = "counted"
           => Cardinality(InHour(calls[c].token) \ (BeingMade \union lost)) < MaxPerHour]_vars
  <2> SUFFICES ASSUME IInv, Next, NEW c \in Calls,
                      calls[c].stage = "hashing", calls'[c].stage = "counted"
               PROVE  Cardinality(InHour(calls[c].token) \ (BeingMade \union lost)) < MaxPerHour
    BY DEF vars
  <2>1. Count(c)
    BY OnlyCountCounts
  <2>2. calls[c].genuine /\ calls[c].row = "live"
        /\ Cardinality(Recent(calls[c].token)) < MaxPerHour
    BY <2>1 DEF Count, Valid, MayCreateMore
  <2>3. calls[c].token \in RegTokens
    BY <2>2 DEF IInv, CallsInv, IsSomewhere
  <2>4. Cardinality(Recent(calls[c].token)) \in Nat
    BY FS_Subset, FS_CardinalityType DEF IInv, AuditIsKept, Recent
  <2>5. /\ Cardinality(InHour(calls[c].token) \ (BeingMade \union lost)) \in Nat
        /\ Cardinality(InHour(calls[c].token) \ (BeingMade \union lost))
             <= Cardinality(Recent(calls[c].token))
    BY <2>3, RowsOfTheHour, FS_CardinalityType
  <2> QED BY <2>2, <2>4, <2>5, RegistrationAssumption
<1> QED BY <1>1, Audited, Invariance, PTL DEF Spec, HourlyCap

\* An agent's maker is written when it is made, and not again.
LEMMA OnlyMakeAgentMakes ==
  ASSUME IInv, Next, NEW a \in Agents, made'[a].by # made[a].by
  PROVE  \E c \in Calls : MakeAgent(c, a)
<1>1. made' # made /\ made \in [Agents -> [by: RegTokens \union {NoRegToken}, age: 0..(Retention + 1)]]
  BY DEF IInv, RegTypes
<1>2. ASSUME Tick
      PROVE  FALSE
  <2>1. made'[a] = IF made[a].by = NoRegToken THEN made[a] ELSE [made[a] EXCEPT !.age = Older(@)]
    BY <1>2 DEF Tick
  <2> QED BY <1>1, <2>1
<1>3. ASSUME NEW c \in Calls, NEW b \in Agents, MakeAgent(c, b)
      PROVE  MakeAgent(c, a)
  BY <1>1, <1>3 DEF MakeAgent
<1>4. ASSUME NEW c \in Calls,
             \/ \E p \in Procs, client \in Clients, t \in RegTokens \union {NoRegToken},
                   genuine \in BOOLEAN, name \in Names \union {NoName} :
                  Arrive(c, p, client, t, genuine, name)
             \/ Unauthorised(c) \/ Declined(c) \/ Count(c)
             \/ NotMade(c) \/ Record(c) \/ RecordFails(c)
      PROVE  FALSE
  BY <1>1, <1>4 DEF Arrive, Unauthorised, Declined, Count, NotMade, Record, RecordFails
<1>5. ASSUME \/ \E t \in RegTokens : Revoke(t) \/ \E left \in {Lifetime, Never} : Mint(t, left)
             \/ \E p \in Procs :
                  \/ Crash(p)
                  \/ \E b \in Agents : RemoveAgent(p, b)
                  \/ \E client \in Clients : WrongCredential(p, client)
             \/ Prune
      PROVE  FALSE
  BY <1>1, <1>5 DEF Revoke, Mint, Crash, RemoveAgent, WrongCredential, Prune, regVars
<1> QED BY <1>2, <1>3, <1>4, <1>5 DEF Next

\* After its revocation a token makes at most as many agents as there were
\* checks under way, and none after its expiry (registration.ts:207-262).
THEOREM EndedTokens == Spec => EndedTokenMakesNothing
<1>1. ASSUME IInv, IInv', [Next]_vars
      PROVE  [/\ \A t \in RegTokens : late'[t] <= asked'[t]
              /\ \A a \in Agents : made'[a].by # made[a].by => ~Expired(made'[a].by)]_vars
  <2>1. ASSUME NEW t \in RegTokens
        PROVE  late'[t] <= asked'[t]
    <3>1. Cardinality(StillGood(t)') \in Nat
      BY FiniteCalls DEF StillGood
    <3>2. LateWereAsked(t)' /\ late'[t] \in Nat /\ asked'[t] \in Nat
      BY <1>1 DEF IInv, RegTypes
    <3> QED BY <3>1, <3>2 DEF LateWereAsked
  <2>2. ASSUME NEW a \in Agents, made'[a].by # made[a].by
        PROVE  ~Expired(made'[a].by)
    <3>1. PICK c \in Calls : MakeAgent(c, a)
      BY <1>1, <2>2, OnlyMakeAgentMakes DEF vars, regVars
    <3>2. /\ calls[c].stage = "counted"
          /\ made' = [made EXCEPT ![a] = [by |-> calls[c].token, age |-> 0]]
      BY <3>1 DEF MakeAgent, At
    <3>3. made'[a].by = calls[c].token
      BY <1>1, <3>2 DEF IInv, RegTypes
    <3> QED BY <1>1, <3>2, <3>3 DEF IInv, CallsInv, HasThread
  <2> QED BY <2>1, <2>2
<1> QED BY <1>1, Invariance, PTL DEF Spec, EndedTokenMakesNothing

-----------------------------------------------------------------------------
(***************************************************************************)
(* The throttle.  The block of a client is no older than the last failure  *)
(* that counted, and a throttled client's failures are all in the window.  *)
(***************************************************************************)

BlockedSince(ages, b) == Len(Live(ages)) >= FailureLimit => b <= ages[Len(ages)]

OfClient(ages, b) ==
  /\ ages \in Seq(Nat) /\ Len(ages) <= FailureLimit
  /\ b \in Nat
  /\ BlockedSince(ages, b)

\* The inductive invariant of the throttle.
GuardInv ==
  /\ failures \in [Guards -> [Clients -> Seq(Nat)]]
  /\ blocked \in [Guards -> [Clients -> Nat]]
  /\ \A g \in Guards, c \in Clients : OfClient(failures[g][c], blocked[g][c])

LEMMA GuardNumbers ==
  FailureLimit \in Nat /\ FailureLimit > 0 /\ FailureWindow \in Nat /\ FailureWindow > 0
BY SignInGuardAssumption

\* What counts is as many failures fewer as are gone.
LEMMA LiveCounts ==
  ASSUME NEW ages \in Seq(Nat)
  PROVE  /\ Live(ages) \in Seq(Nat) /\ Len(ages) \in Nat
         /\ IsFiniteSet(Gone(ages)) /\ Cardinality(Gone(ages)) \in Nat
         /\ Len(Live(ages)) = Len(ages) - Cardinality(Gone(ages))
<1> DEFINE n == Len(ages)
           k == Cardinality(Gone(ages))
<1>1. n \in Nat /\ DOMAIN ages = 1..n /\ \A i \in 1..n : ages[i] \in Nat
  BY LenProperties
<1>2. Gone(ages) \in SUBSET (1..n)
  BY <1>1 DEF Gone
<1>3. IsFiniteSet(1..n) /\ Cardinality(1..n) = n
  BY <1>1, FS_Interval
<1>4. IsFiniteSet(Gone(ages)) /\ k \in Nat /\ k <= n
  BY <1>2, <1>3, FS_Subset, FS_CardinalityType
<1> HIDE DEF n, k
<1>5. k + 1 \in Int /\ n \in Int /\ \A i \in (k + 1)..n : ages[i] \in Nat
  BY <1>1, <1>4
<1>6. /\ SubSeq(ages, k + 1, n) \in Seq(Nat)
      /\ Len(SubSeq(ages, k + 1, n)) = IF k + 1 <= n THEN n - (k + 1) + 1 ELSE 0
  BY <1>5, SubSeqProperties
<1>7. Len(SubSeq(ages, k + 1, n)) = n - k
  BY <1>1, <1>4, <1>6
<1> QED BY <1>1, <1>4, <1>6, <1>7 DEF Live, n, k

\* A full row of failures that count has none that is gone.
LEMMA NoneGone ==
  ASSUME NEW ages \in Seq(Nat), Len(ages) <= FailureLimit, Len(Live(ages)) >= FailureLimit
  PROVE  /\ Len(ages) = FailureLimit /\ Live(ages) = ages
         /\ \A i \in 1..Len(ages) : ages[i] < FailureWindow
<1>1. Len(ages) = FailureLimit /\ Cardinality(Gone(ages)) = 0
  <2>1. /\ Len(Live(ages)) = Len(ages) - Cardinality(Gone(ages))
        /\ Len(ages) \in Nat /\ Cardinality(Gone(ages)) \in Nat /\ FailureLimit \in Nat
    BY LiveCounts, GuardNumbers
  <2> QED BY <2>1
<1>2. Gone(ages) = {}
  BY <1>1, LiveCounts, FS_EmptySet
<1>3. DOMAIN ages = 1..Len(ages) /\ \A i \in 1..Len(ages) : ages[i] \in Nat
  BY LenProperties
<1>4. \A i \in 1..Len(ages) : ages[i] < FailureWindow
  BY <1>2, <1>3, GuardNumbers DEF Gone
<1>5. Live(ages) = SubSeq(ages, 1, Len(ages))
  BY <1>1 DEF Live
<1>6. SubSeq(ages, 1, Len(ages)) = ages
  <2>1. /\ SubSeq(ages, 1, Len(ages)) \in Seq(Nat)
        /\ Len(SubSeq(ages, 1, Len(ages))) = Len(ages)
        /\ \A i \in 1..Len(ages) : SubSeq(ages, 1, Len(ages))[i] = ages[i]
    BY <1>1, <1>3, GuardNumbers, SubSeqProperties
  <2> QED BY <2>1, SeqEqual
<1> QED BY <1>1, <1>4, <1>5, <1>6

\* A failure that is counted is the last one, and no more are kept than decide.
LEMMA CountedIsLast ==
  ASSUME NEW ages \in Seq(Nat), Len(ages) <= FailureLimit
  PROVE  OfClient(Newest(Append(Live(ages), 0)), 0)
<1> DEFINE s == Append(Live(ages), 0)
           n == Len(s)
<1>1. Live(ages) \in Seq(Nat) /\ Len(Live(ages)) \in Nat
  BY LiveCounts, LenProperties
<1>2. s \in Seq(Nat) /\ n \in Nat /\ n > 0 /\ s[n] = 0
  BY <1>1, AppendProperties
<1>3. \A i \in 1..n : s[i] \in Nat
  BY <1>2
<1> HIDE DEF s, n
<1> DEFINE Is(r) == r \in Seq(Nat) /\ Len(r) <= FailureLimit /\ r[Len(r)] = 0
<1>4. ASSUME n > FailureLimit PROVE Is(Newest(s))
  <2> DEFINE m == n - FailureLimit + 1
             t == SubSeq(s, m, n)
  <2>1. m \in Int /\ n \in Int /\ m <= n /\ n - m + 1 = FailureLimit /\ FailureLimit \in 1..(n - m + 1)
        /\ m + FailureLimit - 1 = n /\ (\A i \in m..n : i \in 1..n)
    BY <1>2, <1>4, GuardNumbers
  <2> HIDE DEF m
  <2>2. \A i \in m..n : s[i] \in Nat
    BY <1>3, <2>1
  <2>3. t \in Seq(Nat) /\ Len(t) = FailureLimit /\ t[FailureLimit] = s[n]
    BY <2>1, <2>2, SubSeqProperties
  <2>4. Newest(s) = t
    BY <1>4 DEF Newest, n, m
  <2> HIDE DEF t
  <2> QED BY <1>2, <2>3, <2>4, GuardNumbers
<1>5. ASSUME ~(n > FailureLimit) PROVE Is(Newest(s))
  <2>1. Newest(s) = s /\ Len(s) = n
    BY <1>5 DEF Newest, n
  <2> QED BY <1>2, <1>5, <2>1, GuardNumbers
<1>6. Is(Newest(s))
  BY <1>4, <1>5
<1>7. 0 <= Newest(s)[Len(Newest(s))]
  BY <1>6
<1> QED BY <1>6, <1>7 DEF OfClient, BlockedSince, s

\* Who is forgotten is not blocked.
LEMMA ForgottenIsFree ==
  ASSUME NEW b \in Nat
  PROVE  OfClient(<<>>, b)
<1>1. <<>> \in Seq(Nat) /\ Len(<<>>) = 0
  BY EmptySeq
<1>2. Cardinality(Gone(<<>>)) \in Nat /\ Len(Live(<<>>)) = 0 - Cardinality(Gone(<<>>))
  BY <1>1, LiveCounts
<1>3. ~(Len(Live(<<>>)) >= FailureLimit)
  BY <1>2, GuardNumbers
<1> QED BY <1>1, <1>3, GuardNumbers DEF OfClient, BlockedSince

\* Time passes for one client: who is blocked afterwards was before, and lost
\* no failure.
LEMMA AgesGrow ==
  ASSUME NEW ages, NEW b, OfClient(ages, b), NEW older, NEW c,
         older = [i \in DOMAIN ages |-> ages[i] + 1],
         c = IF Len(Live(ages)) >= FailureLimit THEN b + 1 ELSE 0
  PROVE  OfClient(Live(older), c)
<1>1. /\ ages \in Seq(Nat) /\ Len(ages) \in Nat /\ DOMAIN ages = 1..Len(ages)
      /\ \A i \in 1..Len(ages) : ages[i] \in Nat
  BY LenProperties DEF OfClient
<1>2. /\ older \in Seq(Nat) /\ Len(older) = Len(ages)
      /\ \A i \in 1..Len(ages) : older[i] = ages[i] + 1
  <2>1. older \in [1..Len(ages) -> Nat]
    BY <1>1
  <2>2. older \in Seq(Nat) /\ Len(older) = Len(ages)
    BY <1>1, <2>1, IsASeq, LenProperties
  <2> QED BY <1>1, <2>2
<1>3. Live(older) \in Seq(Nat) /\ Len(Live(older)) \in Nat /\ Len(Live(older)) <= FailureLimit
  <2>1. /\ Live(older) \in Seq(Nat) /\ Cardinality(Gone(older)) \in Nat
        /\ Len(Live(older)) = Len(older) - Cardinality(Gone(older))
    BY <1>2, LiveCounts
  <2>2. Len(Live(older)) \in Nat
    BY <2>1, LenProperties
  <2> QED BY <1>1, <1>2, <2>1, <2>2, GuardNumbers DEF OfClient
<1>4. b \in Nat /\ c \in Nat
  BY DEF OfClient
<1>5. ASSUME Len(Live(Live(older))) >= FailureLimit
      PROVE  c <= Live(older)[Len(Live(older))]
  <2>1. Len(Live(older)) = FailureLimit
    BY <1>3, <1>5, NoneGone
  <2>2. Len(older) <= FailureLimit /\ Len(Live(older)) >= FailureLimit
    <3>1. Len(older) <= FailureLimit
      BY <1>2 DEF OfClient
    <3> QED BY <2>1, <3>1, GuardNumbers
  <2>3. /\ Len(older) = FailureLimit /\ Live(older) = older
        /\ \A i \in 1..Len(older) : older[i] < FailureWindow
    BY <1>2, <2>2, NoneGone
  <2>4. Len(ages) = FailureLimit /\ Len(ages) \in 1..Len(ages)
    <3>1. Len(ages) = FailureLimit
      BY <1>2, <2>3
    <3> QED BY <3>1, GuardNumbers
  <2>5. \A i \in 1..Len(ages) : ages[i] < FailureWindow
    BY <1>1, <1>2, <2>3, GuardNumbers
  <2>6. Gone(ages) = {}
    BY <1>1, <2>5, GuardNumbers DEF Gone
  <2>7. Len(Live(ages)) = FailureLimit
    <3>1. Len(Live(ages)) = Len(ages) - Cardinality(Gone(ages)) /\ Cardinality(Gone(ages)) = 0
      BY <1>1, <2>6, LiveCounts, FS_EmptySet
    <3>2. Len(Live(ages)) = Len(ages)
      BY <1>1, <3>1
    <3> QED BY <2>4, <3>2
  <2>8. Len(Live(ages)) >= FailureLimit
    BY <2>7, GuardNumbers
  <2>9. b <= ages[Len(ages)] /\ c = b + 1
    BY <2>8 DEF OfClient, BlockedSince
  <2>10. Live(older)[Len(Live(older))] = ages[Len(ages)] + 1
    BY <1>2, <2>1, <2>3, <2>4
  <2> QED BY <1>1, <1>4, <2>4, <2>9, <2>10
<1> QED BY <1>3, <1>4, <1>5 DEF OfClient, BlockedSince

\* A failure counts for its client, who was not blocked, and at most makes the
\* table forget others (signin-throttle.ts:56-72).
LEMMA FailureKeeps ==
  ASSUME GuardInv, NEW g, NEW c, Failure(g, c)
  PROVE  GuardInv'
<1>1. CASE Throttled(g, c)
  BY <1>1 DEF Failure, guardVars, GuardInv, OfClient, BlockedSince, Live, Gone
<1>2. CASE ~Throttled(g, c)
  <2> DEFINE table == [failures[g] EXCEPT ![c] = Newest(Append(Live(@), 0))]
  <2>1. PICK S : failures' = [failures EXCEPT ![g] = [d \in Clients |-> IF d \in S THEN <<>> ELSE table[d]]]
    BY <1>2 DEF Failure, Counted
  <2>2. blocked' = [blocked EXCEPT ![g][c] = 0]
    BY <1>2 DEF Failure, Counted
  <2>3. ASSUME NEW h \in Guards, NEW d \in Clients
        PROVE  OfClient(failures'[h][d], blocked'[h][d])
    <3>1. /\ OfClient(failures[h][d], blocked[h][d]) /\ blocked[h][d] \in Nat
          /\ failures[h][d] \in Seq(Nat) /\ Len(failures[h][d]) <= FailureLimit
      BY DEF GuardInv, OfClient
    <3>2. CASE h # g
      <4>1. failures'[h] = failures[h] /\ blocked'[h] = blocked[h]
        BY <2>1, <2>2, <3>2 DEF GuardInv
      <4> QED BY <3>1, <4>1
    <3>3. CASE h = g
      <4>1. failures'[h][d] = IF d \in S THEN <<>> ELSE table[d]
        BY <2>1, <3>3 DEF GuardInv
      <4>2. blocked'[h][d] = IF d = c THEN 0 ELSE blocked[h][d]
        BY <2>2, <3>3 DEF GuardInv
      <4>3. table[d] = IF d = c THEN Newest(Append(Live(failures[h][d]), 0)) ELSE failures[h][d]
        BY <3>3 DEF GuardInv
      <4>4. OfClient(<<>>, blocked'[h][d])
        BY <3>1, <4>2, ForgottenIsFree
      <4>5. OfClient(table[d], blocked'[h][d])
        BY <3>1, <4>2, <4>3, CountedIsLast
      <4> QED BY <4>1, <4>4, <4>5
    <3> QED BY <3>2, <3>3
  <2>4. failures' \in [Guards -> [Clients -> Seq(Nat)]] /\ blocked' \in [Guards -> [Clients -> Nat]]
    <3>1. \A h \in Guards, d \in Clients : failures'[h][d] \in Seq(Nat)
      BY <2>3 DEF OfClient
    <3>2. failures' \in [Guards -> [Clients -> Seq(Nat)]]
      <4> DEFINE new == [d \in Clients |-> IF d \in S THEN <<>> ELSE table[d]]
      <4>1. g \in Guards => failures'[g] = new
        BY <2>1 DEF GuardInv
      <4>2. g \in Guards => new \in [Clients -> Seq(Nat)]
        BY <3>1, <4>1
      <4> HIDE DEF new, table
      <4>3. failures' = [failures EXCEPT ![g] = new]
        BY <2>1 DEF new
      <4> QED BY <4>2, <4>3 DEF GuardInv
    <3> QED BY <2>2, <3>2 DEF GuardInv
  <2> QED BY <2>3, <2>4 DEF GuardInv
<1> QED BY <1>1, <1>2

LEMMA GuardTickKeeps ==
  ASSUME GuardInv, GuardTick
  PROVE  GuardInv'
<1>1. ASSUME NEW g \in Guards, NEW c \in Clients
      PROVE  OfClient(failures'[g][c], blocked'[g][c])
  <2> DEFINE older == [i \in DOMAIN failures[g][c] |-> failures[g][c][i] + 1]
  <2>1. failures'[g][c] = Live(older)
    BY DEF GuardTick
  <2>2. blocked'[g][c] = IF Len(Live(failures[g][c])) >= FailureLimit THEN blocked[g][c] + 1 ELSE 0
    BY DEF GuardTick, Throttled
  <2>3. OfClient(failures[g][c], blocked[g][c])
    BY DEF GuardInv
  <2> HIDE DEF older
  <2>4. OfClient(Live(older), blocked'[g][c])
    BY <2>2, <2>3, AgesGrow DEF older
  <2> QED BY <2>1, <2>4
<1>2. /\ failures' = [g \in Guards |-> [c \in Clients |-> failures'[g][c]]]
      /\ blocked' = [g \in Guards |-> [c \in Clients |-> blocked'[g][c]]]
  BY DEF GuardTick
<1>3. \A g \in Guards, c \in Clients : failures'[g][c] \in Seq(Nat) /\ blocked'[g][c] \in Nat
  BY <1>1 DEF OfClient
<1>4. failures' \in [Guards -> [Clients -> Seq(Nat)]] /\ blocked' \in [Guards -> [Clients -> Nat]]
  BY <1>2, <1>3
<1> QED BY <1>1, <1>4 DEF GuardInv

\* A process that ends takes its table along.
LEMMA GuardRestartKeeps ==
  ASSUME GuardInv, NEW p, GuardRestart(p)
  PROVE  GuardInv'
<1>1. OfClient(<<>>, 0) /\ <<>> \in Seq(Nat)
  BY ForgottenIsFree, EmptySeq
<1>2. /\ failures' = [failures EXCEPT ![p] = [c \in Clients |-> <<>>]]
      /\ blocked' = [blocked EXCEPT ![p] = [c \in Clients |-> 0]]
  BY DEF GuardRestart
<1>3. failures' \in [Guards -> [Clients -> Seq(Nat)]] /\ blocked' \in [Guards -> [Clients -> Nat]]
  BY <1>1, <1>2 DEF GuardInv
<1>4. ASSUME NEW g \in Guards, NEW c \in Clients
      PROVE  OfClient(failures'[g][c], blocked'[g][c])
  <2>1. CASE g = p
    BY <1>1, <1>2, <2>1 DEF GuardInv
  <2>2. CASE g # p
    <3>1. failures'[g] = failures[g] /\ blocked'[g] = blocked[g]
      BY <1>2, <2>2 DEF GuardInv
    <3> QED BY <3>1 DEF GuardInv
  <2> QED BY <2>1, <2>2
<1> QED BY <1>3, <1>4 DEF GuardInv

LEMMA GuardInitInv == Init => GuardInv
<1> SUFFICES ASSUME Init PROVE GuardInv
  OBVIOUS
<1>1. OfClient(<<>>, 0) /\ <<>> \in Seq(Nat)
  BY ForgottenIsFree, EmptySeq
<1> QED BY <1>1 DEF Init, GuardInit, GuardInv

LEMMA GuardStepInv ==
  ASSUME GuardInv, [Next]_vars
  PROVE  GuardInv'
<1>1. ASSUME UNCHANGED guardVars PROVE GuardInv'
  BY <1>1 DEF guardVars, GuardInv, OfClient, BlockedSince, Live, Gone
<1>2. CASE UNCHANGED vars
  BY <1>1, <1>2 DEF vars
<1>3. ASSUME NEW c \in Calls, NEW p \in Procs, NEW client \in Clients,
             NEW t \in RegTokens \union {NoRegToken}, NEW genuine \in BOOLEAN,
             NEW name \in Names \union {NoName}, Arrive(c, p, client, t, genuine, name)
      PROVE  GuardInv'
  BY <1>1, <1>3 DEF Arrive
<1>4. ASSUME NEW c \in Calls, Unauthorised(c)
      PROVE  GuardInv'
  BY <1>4, FailureKeeps DEF Unauthorised
<1>5. ASSUME NEW c \in Calls, \/ Declined(c) \/ Count(c) \/ \E a \in Agents : MakeAgent(c, a)
                             \/ NotMade(c) \/ Record(c) \/ RecordFails(c)
      PROVE  GuardInv'
  BY <1>1, <1>5 DEF Declined, Count, MakeAgent, NotMade, Record, RecordFails
<1>6. ASSUME NEW t \in RegTokens, Revoke(t) \/ \E left \in {Lifetime, Never} : Mint(t, left)
      PROVE  GuardInv'
  BY <1>1, <1>6 DEF Revoke, Mint
<1>7. ASSUME NEW p \in Procs, Crash(p)
      PROVE  GuardInv'
  BY <1>7, GuardRestartKeeps DEF Crash
<1>8. ASSUME NEW p \in Procs, NEW a \in Agents, RemoveAgent(p, a)
      PROVE  GuardInv'
  BY <1>1, <1>8 DEF RemoveAgent
<1>9. ASSUME NEW p \in Procs, NEW client \in Clients, WrongCredential(p, client)
      PROVE  GuardInv'
  BY <1>9, FailureKeeps DEF WrongCredential
<1>10. CASE Prune
  BY <1>1, <1>10 DEF Prune
<1>11. CASE Tick
  BY <1>11, GuardTickKeeps DEF Tick
<1> QED BY <1>2, <1>3, <1>4, <1>5, <1>6, <1>7, <1>8, <1>9, <1>10, <1>11 DEF Next

\* A client's block ends with the window in every process, whatever the client
\* and the others do meanwhile: a throttled client's failures do not count
\* (signin-guard.ts:77-79).
THEOREM Blocks == Spec => []BlockEnds
<1>1. GuardInv /\ [Next]_vars => GuardInv'
  BY GuardStepInv
<1>2. ASSUME GuardInv PROVE BlockEnds
  <2> SUFFICES ASSUME NEW g \in Guards, NEW c \in Clients, Throttled(g, c)
               PROVE  blocked[g][c] < FailureWindow
    BY DEF BlockEnds
  <2>1. OfClient(failures[g][c], blocked[g][c])
    BY <1>2 DEF GuardInv
  <2>2. Len(Live(failures[g][c])) >= FailureLimit /\ Len(failures[g][c]) <= FailureLimit
        /\ failures[g][c] \in Seq(Nat)
    BY <2>1 DEF Throttled, OfClient
  <2>3. Len(failures[g][c]) = FailureLimit
        /\ \A i \in 1..Len(failures[g][c]) : failures[g][c][i] < FailureWindow
    BY <2>2, NoneGone
  <2>4. Len(failures[g][c]) \in 1..Len(failures[g][c])
    BY <2>3, GuardNumbers
  <2>5. failures[g][c][Len(failures[g][c])] < FailureWindow
        /\ failures[g][c][Len(failures[g][c])] \in Nat
    BY <2>2, <2>3, <2>4, LenProperties
  <2>6. blocked[g][c] \in Nat /\ blocked[g][c] <= failures[g][c][Len(failures[g][c])]
    BY <2>1, <2>2 DEF OfClient, BlockedSince
  <2> QED BY <2>5, <2>6, GuardNumbers
<1> QED BY <1>1, <1>2, GuardInitInv, PTL DEF Spec

-----------------------------------------------------------------------------
(***************************************************************************)
(* Codes for connectors.                                                   *)
(***************************************************************************)

\* The types of what the pages and the exchange keep.
CodeRows == [there: BOOLEAN, token: Tokens \union {NoToken}, sealed: Secrets \union {NoSecret},
             challenge: Connectors \union {NoPage}, left: 0..CodeLife]
Issues == [to: Connectors \union {NoPage}, under: Secrets \union {NoSecret}, age: 0..CodeLife]

CodeShapes ==
  /\ secret \in [Procs -> Secrets]
  /\ form \in [Clients -> Connectors \union {NoPage}]
  /\ codes \in [Codes -> CodeRows]
  /\ issued \in [Codes -> Issues]

\* A code that was issued has a connector it was issued for.
HasConnector(c) == issued[c] # NotIssued => issued[c].to \in Connectors

\* Nobody can try what was not issued.
TriedIsIssued(c) == c \in tried => issued[c] # NotIssued

\* What a row that is there says.
RowIsAsIssued(c) ==
  codes[c].there =>
    /\ issued[c] # NotIssued /\ c \notin tried
    /\ codes[c].challenge = issued[c].to
    /\ codes[c].sealed = issued[c].under
    /\ codes[c].left = CodeLife - issued[c].age

\* A row goes by a try or by its age.
RowIsThere(c) ==
  issued[c] # NotIssued /\ c \notin tried /\ issued[c].age < CodeLife => codes[c].there

CodesInv ==
  /\ CodeShapes
  /\ \A c \in Codes : HasConnector(c) /\ TriedIsIssued(c) /\ RowIsAsIssued(c) /\ RowIsThere(c)

\* The types of one code's fields.
LEMMA CodeFieldTypes ==
  ASSUME CodeShapes, NEW c \in Codes
  PROVE  /\ codes[c].there \in BOOLEAN /\ codes[c].token \in Tokens \union {NoToken}
         /\ codes[c].sealed \in Secrets \union {NoSecret}
         /\ codes[c].challenge \in Connectors \union {NoPage}
         /\ issued[c].to \in Connectors \union {NoPage}
         /\ issued[c].under \in Secrets \union {NoSecret}
         /\ codes[c].left \in Nat /\ codes[c].left <= CodeLife
         /\ issued[c].age \in Nat /\ issued[c].age <= CodeLife
         /\ CodeLife \in Nat /\ CodeLife > 0
<1>1. codes[c] \in CodeRows /\ issued[c] \in Issues
  BY DEF CodeShapes
<1> QED BY <1>1, OAuthAssumption DEF CodeRows, Issues

\* The server starts with no codes.
LEMMA CodesBegin == OAuthInit => CodesInv
<1> SUFFICES ASSUME OAuthInit
             PROVE  CodesInv
  OBVIOUS
<1>1. NoRow \in CodeRows /\ NotIssued \in Issues /\ NoRow.there = FALSE
  BY OAuthAssumption DEF NoRow, NotIssued, CodeRows, Issues, NoToken
<1>2. CodeShapes
  BY <1>1 DEF OAuthInit, CodeShapes
<1>3. \A c \in Codes : codes[c] = NoRow /\ issued[c] = NotIssued /\ c \notin tried
  BY DEF OAuthInit
<1> QED BY <1>1, <1>2, <1>3 DEF CodesInv, HasConnector, TriedIsIssued, RowIsAsIssued, RowIsThere

\* A step that leaves the codes and their histories alone, and no page
\* without a connector.
LEMMA CodesStutter ==
  ASSUME CodesInv, UNCHANGED <<codes, issued, tried>>,
         form' \in [Clients -> Connectors \union {NoPage}], secret' \in [Procs -> Secrets]
  PROVE  CodesInv'
BY DEF CodesInv, CodeShapes, HasConnector, TriedIsIssued, RowIsAsIssued, RowIsThere

\* The consent page and what answers a token that is no agent's.
LEMMA PageStep ==
  ASSUME CodesInv, NEW b \in Clients,
         \/ \E k \in Connectors, uri \in RedirectUris : Authorize(b, k, uri)
         \/ \E p \in Procs, t \in Tokens \union AdminTokens : Refuse(p, b, t)
  PROVE  CodesInv'
<1>1. UNCHANGED <<codes, issued, tried>>
  BY DEF Authorize, Refuse
<1>2. form' \in [Clients -> Connectors \union {NoPage}]
  BY DEF CodesInv, CodeShapes, Authorize, Refuse, ConsentPage, OtherPage
<1>3. secret' \in [Procs -> Secrets]
  BY DEF CodesInv, CodeShapes, Authorize, Refuse
<1> QED BY <1>1, <1>2, <1>3, CodesStutter

\* A new code: its row and its history are written together.
LEMMA HandOffStep ==
  ASSUME CodesInv, NEW p \in Procs, NEW b \in Clients, NEW t \in Tokens \union AdminTokens,
         NEW c \in Codes, HandOff(p, b, t, c)
  PROVE  CodesInv'
<1>1. form[b] \in Connectors
  BY DEF HandOff, CodesInv, CodeShapes
<1>2. /\ codes' = [codes EXCEPT ![c] = [there |-> TRUE, token |-> t, sealed |-> secret[p],
                                        challenge |-> form[b], left |-> CodeLife]]
      /\ issued' = [issued EXCEPT ![c] = [to |-> form[b], under |-> secret[p], age |-> 0]]
      /\ tried' = tried /\ secret' = secret /\ issued[c] = NotIssued
  BY DEF HandOff, IssueCode
<1>3. form' \in [Clients -> Connectors \union {NoPage}]
  BY DEF HandOff, OtherPage, CodesInv, CodeShapes
<1>4. CodeShapes'
  <2>1. t \in Tokens
    BY DEF HandOff, ClassifyToken
  <2>2. codes'[c] \in CodeRows /\ issued'[c] \in Issues
    BY <1>1, <1>2, <2>1, OAuthAssumption DEF CodesInv, CodeShapes, CodeRows, Issues
  <2> QED
    BY <1>1, <1>2, <1>3, <2>1, <2>2, OAuthAssumption DEF CodesInv, CodeShapes, CodeRows, Issues
<1>5. issued'[c] # NotIssued /\ c \notin tried'
  BY <1>1, <1>2, OAuthAssumption DEF CodesInv, CodeShapes, TriedIsIssued, NotIssued
<1>6. HasConnector(c)' /\ TriedIsIssued(c)' /\ RowIsAsIssued(c)' /\ RowIsThere(c)'
  BY <1>1, <1>2, <1>5, OAuthAssumption
     DEF CodesInv, CodeShapes, HasConnector, TriedIsIssued, RowIsAsIssued, RowIsThere
<1>7. ASSUME NEW d \in Codes, d # c
      PROVE  HasConnector(d)' /\ TriedIsIssued(d)' /\ RowIsAsIssued(d)' /\ RowIsThere(d)'
  <2>1. codes'[d] = codes[d] /\ issued'[d] = issued[d]
    BY <1>2, <1>7 DEF CodesInv, CodeShapes
  <2> QED BY <1>2, <2>1 DEF CodesInv, HasConnector, TriedIsIssued, RowIsAsIssued, RowIsThere
<1> QED BY <1>4, <1>6, <1>7 DEF CodesInv

\* A try: the row goes, and the code is among those tried.
LEMMA RedeemStep ==
  ASSUME CodesInv, NEW p \in Procs, NEW c \in Codes, NEW k \in Connectors, RedeemCode(p, c, k)
  PROVE  CodesInv'
<1>1. /\ codes' = [codes EXCEPT ![c] = NoRow] /\ issued' = issued /\ form' = form
      /\ secret' = secret /\ tried' = tried \union {c} /\ issued[c] # NotIssued
  BY DEF RedeemCode, Spend
<1>2. CodeShapes'
  BY <1>1, OAuthAssumption DEF CodesInv, CodeShapes, CodeRows, NoRow, NoToken
<1>3. HasConnector(c)' /\ TriedIsIssued(c)' /\ RowIsAsIssued(c)' /\ RowIsThere(c)'
  BY <1>1 DEF CodesInv, CodeShapes, HasConnector, TriedIsIssued, RowIsAsIssued, RowIsThere, NoRow
<1>4. ASSUME NEW d \in Codes, d # c
      PROVE  HasConnector(d)' /\ TriedIsIssued(d)' /\ RowIsAsIssued(d)' /\ RowIsThere(d)'
  <2>1. codes'[d] = codes[d]
    BY <1>1, <1>4 DEF CodesInv, CodeShapes
  <2> QED BY <1>1, <1>4, <2>1 DEF CodesInv, HasConnector, TriedIsIssued, RowIsAsIssued, RowIsThere
<1> QED BY <1>2, <1>3, <1>4 DEF CodesInv

\* The cleanup takes rows that have no time left: their codes are as old as
\* a code gets.
LEMMA CleanupStep ==
  ASSUME CodesInv, CleanupExpiredOAuthCodes
  PROVE  CodesInv'
<1>1. /\ codes' = [c \in Codes |-> IF RanOut(c) THEN NoRow ELSE codes[c]]
      /\ UNCHANGED <<issued, tried, form, secret>>
  BY DEF CleanupExpiredOAuthCodes
<1>2. CodeShapes'
  BY <1>1, OAuthAssumption DEF CodesInv, CodeShapes, CodeRows, NoRow, NoToken
<1>3. ASSUME NEW c \in Codes
      PROVE  HasConnector(c)' /\ TriedIsIssued(c)' /\ RowIsAsIssued(c)' /\ RowIsThere(c)'
  <2>1. CASE RanOut(c)
    <3>1. codes[c].there => issued[c].age = CodeLife
      BY <2>1, CodeFieldTypes DEF CodesInv, RanOut, RowIsAsIssued
    <3>2. codes'[c] = NoRow
      BY <1>1, <2>1
    <3> QED BY <1>1, <3>1, <3>2, OAuthAssumption
            DEF CodesInv, CodeShapes, CodeRows, Issues, HasConnector, TriedIsIssued, RowIsAsIssued,
                RowIsThere, NoRow
  <2>2. CASE ~RanOut(c)
    <3>1. codes'[c] = codes[c]
      BY <1>1, <2>2
    <3> QED BY <1>1, <3>1 DEF CodesInv, HasConnector, TriedIsIssued, RowIsAsIssued, RowIsThere
  <2> QED BY <2>1, <2>2
<1> QED BY <1>2, <1>3 DEF CodesInv

\* A tick ages a code and takes as much from what its row has left.
LEMMA OAuthTickStep ==
  ASSUME CodesInv, OAuthTick
  PROVE  CodesInv'
<1>1. /\ codes' = [c \in Codes |->
                     IF codes[c].left > 0 THEN [codes[c] EXCEPT !.left = @ - 1] ELSE codes[c]]
      /\ issued' = [c \in Codes |->
                      IF issued[c] # NotIssued /\ issued[c].age < CodeLife
                        THEN [issued[c] EXCEPT !.age = @ + 1] ELSE issued[c]]
      /\ form' = form /\ tried' = tried /\ secret' = secret
  BY DEF OAuthTick
<1>2. ASSUME NEW c \in Codes
      PROVE  /\ codes'[c] = [there |-> codes[c].there, token |-> codes[c].token,
                             sealed |-> codes[c].sealed, challenge |-> codes[c].challenge,
                             left |-> IF codes[c].left > 0 THEN codes[c].left - 1
                                      ELSE codes[c].left]
             /\ issued'[c] = [to |-> issued[c].to, under |-> issued[c].under,
                              age |-> IF issued[c] # NotIssued /\ issued[c].age < CodeLife
                                      THEN issued[c].age + 1 ELSE issued[c].age]
  BY <1>1 DEF CodesInv, CodeShapes, CodeRows, Issues
<1>3. CodeShapes'
  <2>1. ASSUME NEW c \in Codes
        PROVE  codes'[c] \in CodeRows /\ issued'[c] \in Issues
    <3> DEFINE left == IF codes[c].left > 0 THEN codes[c].left - 1 ELSE codes[c].left
               age == IF issued[c] # NotIssued /\ issued[c].age < CodeLife
                      THEN issued[c].age + 1 ELSE issued[c].age
    <3>1. left \in 0..CodeLife /\ age \in 0..CodeLife
      BY CodeFieldTypes DEF CodesInv
    <3>2. /\ codes'[c] = [there |-> codes[c].there, token |-> codes[c].token,
                          sealed |-> codes[c].sealed, challenge |-> codes[c].challenge,
                          left |-> left]
          /\ issued'[c] = [to |-> issued[c].to, under |-> issued[c].under, age |-> age]
      BY <1>2
    <3> HIDE DEF left, age
    <3> QED BY <3>1, <3>2, CodeFieldTypes DEF CodesInv, CodeRows, Issues
  <2> QED BY <1>1, <2>1 DEF CodesInv, CodeShapes
<1>4. ASSUME NEW c \in Codes
      PROVE  HasConnector(c)' /\ TriedIsIssued(c)' /\ RowIsAsIssued(c)' /\ RowIsThere(c)'
  <2>1. (issued'[c] # NotIssued) <=> (issued[c] # NotIssued)
    <3>1. CASE issued[c] = NotIssued
      BY <1>2, <3>1 DEF NotIssued
    <3>2. CASE issued[c] # NotIssued
      <4>1. issued[c].to \in Connectors
        BY <3>2 DEF CodesInv, HasConnector
      <4>2. issued'[c] = issued[c] \/ issued'[c] = [issued[c] EXCEPT !.age = @ + 1]
        BY <1>1
      <4>3. issued'[c].to = issued[c].to
        BY <4>2 DEF CodesInv, CodeShapes, Issues
      <4> QED BY <3>2, <4>1, <4>3, OAuthAssumption DEF NotIssued
    <3> QED BY <3>1, <3>2
  <2>2. HasConnector(c)' /\ TriedIsIssued(c)'
    BY <1>1, <1>2, <2>1 DEF CodesInv, HasConnector, TriedIsIssued
  <2>3. RowIsAsIssued(c)'
    BY <1>1, <1>2, <2>1, OAuthAssumption DEF CodesInv, CodeShapes, CodeRows, Issues, RowIsAsIssued
  <2>4. RowIsThere(c)'
    BY <1>1, <1>2, <2>1, OAuthAssumption DEF CodesInv, CodeShapes, CodeRows, Issues, RowIsThere
  <2> QED BY <2>2, <2>3, <2>4
<1> QED BY <1>3, <1>4 DEF CodesInv

\* Every step keeps the invariant.
LEMMA CodesStep ==
  ASSUME CodesInv, [OAuthNext]_oauthVars
  PROVE  CodesInv'
<1>1. CASE UNCHANGED oauthVars
  BY <1>1, CodesStutter DEF oauthVars, codeVars, CodesInv, CodeShapes
<1>2. ASSUME NEW p \in Procs, NEW b \in Clients, NEW t \in Tokens \union AdminTokens,
             Refuse(p, b, t) \/ \E c \in Codes : HandOff(p, b, t, c)
      PROVE  CodesInv'
  BY <1>2, PageStep, HandOffStep
<1>3. ASSUME NEW p \in Procs, NEW s \in Secrets, Redeploy(p, s)
      PROVE  CodesInv'
  BY <1>3, CodesStutter DEF Redeploy, CodesInv, CodeShapes
<1>4. CASE Elsewhere
  BY <1>4, CodesStutter DEF Elsewhere, codeVars, CodesInv, CodeShapes
<1>5. CASE \E b \in Clients, k \in Connectors, uri \in RedirectUris : Authorize(b, k, uri)
  BY <1>5, PageStep
<1> QED BY <1>1, <1>2, <1>3, <1>4, <1>5, RedeemStep, CleanupStep, OAuthTickStep DEF OAuthNext


\* The invariant holds of every behaviour of the server.
THEOREM CodesInvariance == OAuthSpec => []CodesInv
<1>1. CodesInv /\ [OAuthNext]_oauthVars => CodesInv'
  BY CodesStep
<1> QED BY <1>1, CodesBegin, PTL DEF OAuthSpec

\* A token is handed over at the first try at its code only, and to the
\* connector whose page it was pasted into (oauth-codes.ts:67).
THEOREM OneTry == OAuthSpec => OneTryForItsConnector
<1>1. ASSUME CodesInv, [OAuthNext]_oauthVars
      PROVE  [\A h \in handed' \ handed : h.to = issued[h.code].to /\ h.code \notin tried]_oauthVars
  <2> SUFFICES ASSUME NEW h \in handed' \ handed
               PROVE  h.to = issued[h.code].to /\ h.code \notin tried
    OBVIOUS
  <2>1. PICK p \in Procs, c \in Codes, k \in Connectors : RedeemCode(p, c, k)
    <3>1. handed' # handed
      OBVIOUS
    <3> QED BY <1>1, <3>1
            DEF OAuthNext, oauthVars, codeVars, Refuse, HandOff, Redeploy, Authorize,
                CleanupExpiredOAuthCodes, OAuthTick, Elsewhere
  <2>2. Opens(p, c, k) /\ h = [code |-> c, to |-> k]
    BY <2>1 DEF RedeemCode
  <2>3. RowIsAsIssued(c)
    BY <1>1 DEF CodesInv
  <2> QED BY <2>2, <2>3 DEF Opens, RowIsAsIssued
<1> QED BY <1>1, CodesInvariance, PTL DEF OAuthSpec, OneTryForItsConnector

\* A code that was not tried and is not five minutes old gives its connector
\* the token wherever the secret is still the one it was sealed under
\* (oauth-codes.ts:60-90).
THEOREM GoodCode == OAuthSpec => []GoodCodeWorks
<1>1. CodesInv => GoodCodeWorks
  <2> SUFFICES ASSUME CodesInv, NEW c \in Codes, NEW p \in Procs,
                      issued[c] # NotIssued, c \notin tried, issued[c].age < CodeLife,
                      issued[c].under = secret[p]
               PROVE  Opens(p, c, issued[c].to)
    BY DEF GoodCodeWorks
  <2>1. codes[c].there
    BY DEF CodesInv, RowIsThere
  <2>2. codes[c].challenge = issued[c].to /\ codes[c].sealed = secret[p]
    BY <2>1 DEF CodesInv, RowIsAsIssued
  <2>3. codes[c].left > 0
    BY <2>1, OAuthAssumption DEF CodesInv, CodeShapes, CodeRows, Issues, RowIsAsIssued
  <2> QED BY <2>1, <2>2, <2>3 DEF Opens
<1> QED BY <1>1, CodesInvariance, PTL
=============================================================================
