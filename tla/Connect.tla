------------------------------- MODULE Connect -------------------------------
(***************************************************************************)
(* The operator connects an agent (routes/agent-connect.ts, agent-admin    *)
(* .ts): a new token waits on the server that made it until it was pasted  *)
(* into a client, in the connect flow's session or in a flash, and the     *)
(* flow's last step asks whether the agent has said hello.  The answer     *)
(* comes from presence (services/presence.ts), which is kept under the     *)
(* agent's NAME in two places: the column last_seen_at, and an entry of    *)
(* the broker's bucket that ends by itself.                                *)
(*                                                                         *)
(* A request runs to its await in one step.  What comes after it, the      *)
(* bucket's write and a mesh_register, is a step of its own and may find   *)
(* that the name is another agent's.  A tick is at most as long as the     *)
(* bucket keeps an entry, and longer than a flash, a write and a request   *)
(* live.  The reserved and malformed names, the empty fields and the forms *)
(* without a CSRF token, which change nothing, are left out, and so are    *)
(* what an agent announces, what the step's page makes of the answers, and *)
(* a second flow at the same time.  An operator named X_<slip> is X with a *)
(* plausible slip.                                                         *)
(***************************************************************************)
EXTENDS AgentTokens

CONSTANTS
  Never,       \* no moment
  MaxTime,     \* bound: ticks
  LiveFor,     \* PRESENCE_THRESHOLDS.liveMs, the bucket's TTL
  StaleFor,    \* PRESENCE_THRESHOLDS.staleMs
  SessionLife, \* CONNECT_SESSION_TTL_MS
  MaxPending,  \* bound: writes, and requests, under way at a time
  NoAgent

ASSUME ConnectAssumption ==
  /\ {MaxTime, LiveFor, StaleFor, SessionLife, MaxPending} \subseteq Nat
  /\ 0 < LiveFor /\ LiveFor < StaleFor /\ LiveFor < SessionLife
  /\ Never = -1 /\ NoAgent \notin Agents

VARIABLES
  now,
  lastSeen,    \* agent -> last_seen_at
  bucket,      \* name -> the timestamp of its entry in mesh-presence
  writes,      \* the bucket's writes on their way
  registers,   \* calls of mesh_register past the authentication: their names
  known,       \* process, token -> the name in the cached row
  session,     \* the connect flow's entry, and the process that keeps it
  flash,       \* the flash that carries a new token, likewise
  cameAs,      \* history: the names somebody came under since the flow began
  cameItself   \* history: when the flow's agent last came itself, under its name

presenceVars == <<lastSeen, bucket, writes, registers, cameAs, cameItself>>
pageVars == <<session, flash>>
connectVars == <<tokenVars, now, known, presenceVars, pageVars>>

Moments == Never..MaxTime
NoSession == [proc |-> NoProc, agent |-> NoAgent, token |-> NoToken, at |-> Never]
NoFlash == [proc |-> NoProc, token |-> NoToken]

ConnectTypeOK ==
  /\ TokenTypeOK
  /\ now \in 0..MaxTime
  /\ lastSeen \in [Agents -> Moments]
  /\ bucket \in [Names -> Moments]
  /\ writes \subseteq [name: Names, at: 0..MaxTime] /\ registers \subseteq Names
  /\ known \in [Procs -> [Tokens -> Names \union {NoName}]]
  /\ session \in [proc: Procs \union {NoProc}, agent: Agents \union {NoAgent},
                  token: Tokens \union {NoToken}, at: Moments]
  /\ flash \in [proc: Procs \union {NoProc}, token: Tokens \union {NoToken}]
  /\ cameAs \subseteq Names /\ cameItself \in Moments

ConnectInit ==
  /\ TokenInit
  /\ now = 0
  /\ lastSeen = [a \in Agents |-> Never]
  /\ bucket = [n \in Names |-> Never] /\ writes = {} /\ registers = {}
  /\ known = [p \in Procs |-> [t \in Tokens |-> NoName]]
  /\ session = NoSession /\ flash = NoFlash
  /\ cameAs = {} /\ cameItself = Never

-----------------------------------------------------------------------------
(***************************************************************************)
(* Presence.                                                               *)
(***************************************************************************)

Bears(n) == {a \in Stored : row[a].name = n}

\* touch: the column of whoever has the name now, then the bucket's write,
\* waited for 300 ms at most.
Touch(n) ==
  /\ lastSeen' = [a \in Agents |-> IF a \in Bears(n) THEN now ELSE lastSeen[a]]
  /\ writes' = writes \union {[name |-> n, at |-> now]}
  /\ Cardinality(writes') <= MaxPending
  /\ cameAs' = cameAs \union {n}

\* The name in the row that authMiddleware found, remembered or read.
NameOf(p, t, a) == IF InCache(p, t) # {} THEN known[p][t] ELSE row[a].name

\* A request with a Bearer token.  If it is a mesh_register, it goes on.
Contact(p, t) ==
  \E a \in Found(p, t) :
    LET n == NameOf(p, t, a) IN
    /\ Bearer(p, t)
    /\ known' = [known EXCEPT ![p][t] = n]
    /\ Touch(n)
    /\ cameItself' = IF a = session.agent /\ a \in Bears(n) THEN now ELSE cameItself
    /\ \/ registers' = registers
       \/ registers' = registers \union {n} /\ Cardinality(registers') <= MaxPending
    /\ UNCHANGED <<now, bucket, pageVars>>

\* mesh_register, after the rate check: the same touch once more.
Register(n) ==
  /\ n \in registers
  /\ registers' = registers \ {n}
  /\ Touch(n)
  /\ UNCHANGED <<tokenVars, now, known, bucket, cameItself, pageVars>>

WriteLands(w) ==
  /\ bucket' = [bucket EXCEPT ![w.name] = w.at]
  /\ writes' = writes \ {w}
  /\ UNCHANGED <<tokenVars, now, known, lastSeen, registers, cameAs, cameItself, pageVars>>

WriteFails(w) ==
  /\ writes' = writes \ {w}
  /\ UNCHANGED <<tokenVars, now, known, lastSeen, bucket, registers, cameAs, cameItself, pageVars>>

\* list: the bucket's timestamp if there is one, and only the column's while
\* the bucket cannot be read.
EffectiveLastSeen(a, reads) ==
  IF reads /\ bucket[row[a].name] # Never THEN bucket[row[a].name] ELSE lastSeen[a]

InBucket(a, reads) ==
  IF reads THEN bucket[row[a].name] # Never
  ELSE lastSeen[a] # Never /\ now - lastSeen[a] < LiveFor

\* computePresenceState
Presence(a, reads) ==
  CASE InBucket(a, reads) -> "live"
    [] ~InBucket(a, reads) /\ lastSeen[a] = Never -> "never"
    [] OTHER -> IF now - EffectiveLastSeen(a, reads) < StaleFor THEN "stale" ELSE "offline"

BucketEnds(n) == IF bucket[n] # Never /\ now' - bucket[n] >= LiveFor THEN Never ELSE bucket[n]

\* A tick is longer than a flash lives.
Later ==
  /\ now < MaxTime
  /\ now' = now + 1
  /\ bucket' = [n \in Names |-> BucketEnds(n)]
  /\ flash' = NoFlash

-----------------------------------------------------------------------------
(***************************************************************************)
(* The forms of /agents.                                                   *)
(***************************************************************************)

\* clearTokenCache takes the remembered names along.
ForgetNames(p) == known' = [known EXCEPT ![p] = [t \in Tokens |-> NoName]]

\* The answer that redirects to the page with the new token.
Flash(p, t) == flash' = [proc |-> p, token |-> t]

\* POST /agents/create, /reactivate and /reset-token.
NewToken(p) ==
  /\ \E a \in Agents :
       \/ \E n \in Names : Create(p, a, n)
       \/ Reactivate(p, a)
       \/ ResetToken(p, a)
  /\ ForgetNames(p)
  /\ Flash(p, minted')
  /\ UNCHANGED <<now, presenceVars, session>>

\* POST /agents/revoke, /rename and /delete: nothing to show.
Change(p) ==
  /\ \E a \in Agents : RevokeById(p, a) \/ DeleteById(p, a) \/ \E n \in Names : Rename(p, a, n)
  /\ ForgetNames(p)
  /\ UNCHANGED <<now, presenceVars, pageVars>>

\* GET /agents?flash=: getFlash gives it away once, in its own process.
ShowBand(p) ==
  /\ flash.proc = p
  /\ flash' = NoFlash
  /\ UNCHANGED <<tokenVars, now, known, presenceVars, session>>

-----------------------------------------------------------------------------
(***************************************************************************)
(* The connect flow.                                                       *)
(***************************************************************************)

\* POST /agents/connect/create.  It takes a tick, so that whatever was before
\* it is older; what was under way still is.
ConnectCreate(p, n) ==
  /\ Later
  /\ \E a \in Agents :
       /\ Create(p, a, n)
       /\ session' = [proc |-> p, agent |-> a, token |-> minted', at |-> now']
  /\ ForgetNames(p)
  /\ cameAs' = {} /\ cameItself' = Never
  /\ UNCHANGED <<lastSeen, writes, registers>>

\* readConnectSession: every step reads it, none takes it away.
HasSession(p) == session.proc = p /\ now - session.at < SessionLife

\* What the four steps show: without the token, that it is gone.
StepPage(p, step) ==
  IF step = 1 THEN "name"
  ELSE IF ~HasSession(p) THEN "expired"
  ELSE CASE step = 2 -> "token" [] step = 3 -> "client" [] step = 4 -> "verify"

Seen_Ever(reads) == EffectiveLastSeen(session.agent, reads) # Never

\* `seen` of the handshake.
Seen(reads) ==
  /\ EffectiveLastSeen(session.agent, reads) # Never
  /\ EffectiveLastSeen(session.agent, reads) >= session.at

\* GET /agents/connect/handshake: 410 without a session, 404 without the agent.
Handshake(p, reads) ==
  IF ~HasSession(p) \/ session.agent \notin Stored THEN "stopped"
  ELSE IF Seen(reads) THEN "seen" ELSE "waiting"

-----------------------------------------------------------------------------

\* A restart takes the process's sessions and flashes along.
ProcRestarts(p) ==
  /\ Restart(p) /\ ForgetNames(p)
  /\ session' = IF session.proc = p THEN [session EXCEPT !.proc = NoProc] ELSE session
  /\ flash' = IF flash.proc = p THEN NoFlash ELSE flash
  /\ UNCHANGED <<now, presenceVars>>

\* ...and longer than a request or a write.
ConnectTick ==
  /\ Later
  /\ writes' = {} /\ registers' = {}
  /\ UNCHANGED <<tokenVars, known, lastSeen, cameAs, cameItself, session>>

ConnectNext ==
  \/ \E p \in Procs :
       \/ NewToken(p) \/ Change(p) \/ ShowBand(p) \/ ProcRestarts(p)
       \/ \E t \in Tokens : Contact(p, t)
       \/ \E n \in Names : ConnectCreate(p, n)
  \/ \E n \in Names : Register(n)
  \/ \E w \in writes : WriteLands(w) \/ WriteFails(w)
  \/ ConnectTick

ConnectSpec == ConnectInit /\ [][ConnectNext]_connectVars

-----------------------------------------------------------------------------
(***************************************************************************)
(* Properties.                                                             *)
(***************************************************************************)

Followed(p) == HasSession(p) /\ session.agent \in Stored

\* "A reactivated name must not report a handshake that happened in a previous
\* life" (agent-connect.ts:177): the last step says that the agent is there
\* only if since the flow began somebody came under a name the agent had then,
\* whatever the agents before it left under that name.
NoEarlierLife ==
  \A p \in Procs, reads \in BOOLEAN :
    Followed(p) /\ Handshake(p, reads) = "seen" =>
      lastSeen[session.agent] >= session.at \/ row[session.agent].name \in cameAs

\* An agent that said hello under its name is seen, at the latest when the
\* entry an agent before it left in the bucket has ended: the flow outlives it.
HelloIsSeen ==
  \A p \in Procs, reads \in BOOLEAN :
    Followed(p) /\ cameItself # Never /\ now - cameItself >= LiveFor
      => Handshake(p, reads) = "seen"

\* Its steps stay open as long as the handshake is asked for, and the agents
\* page does not call an agent new that the last step has seen.
PagesAgree ==
  \A p \in Procs, reads \in BOOLEAN :
    Followed(p) =>
      /\ \A step \in 2..4 : StepPage(p, step) # "expired"
      /\ Handshake(p, reads) = "seen" => Presence(session.agent, reads) # "never"

\* The connect flow's last step tells of this agent's own hello, and tells it.
HandshakeIsOwn == NoEarlierLife /\ HelloIsSeen /\ PagesAgree
=============================================================================
