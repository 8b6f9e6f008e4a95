---------------------------- MODULE AgentTokens ----------------------------
(***************************************************************************)
(* The agents' records as far as their tokens go (src/services/agent.ts):  *)
(* one row per agent in the shared database, and in every process a cache  *)
(* of rows by token hash that only the process's own changes clear.        *)
(* Every operation is one synchronous run of the process that serves it.   *)
(*                                                                         *)
(* Sessions, Registration and OAuthCodes build on this module.             *)
(*                                                                         *)
(* An operator named X_<slip> is X with a plausible programming slip; it   *)
(* takes the place of X in a test of a property and is no part of Spec.    *)
(***************************************************************************)
EXTENDS Integers, FiniteSets

CONSTANTS
  Agents,      \* agent ids (ULIDs), never given out twice
  Names,       \* names up to case, the reserved and the malformed left out
  NoName,
  Procs,       \* the processes on one database: two during a deploy
  NoProc,
  MaxActive,   \* MAX_AGENTS
  MaxTokens    \* bound: agent tokens drawn in a behaviour

ASSUME AgentTokensAssumption ==
  /\ NoName \notin Names
  /\ NoProc \notin Procs
  /\ MaxActive \in Nat
  /\ MaxTokens \in Nat

Tokens == 1..MaxTokens
NoToken == 0

VARIABLES
  row,     \* agent id -> its row in `agents`
  cache,   \* process -> tokenCache: the rows it remembers by token
  minted,  \* tokens drawn so far: the n-th is n, and random means unused
  ended    \* history: token -> the process that took it from its agent

tokenVars == <<row, cache, minted, ended>>

Rows == [is: {"unborn", "active", "revoked", "deleted"},
         name: Names \union {NoName}, token: Tokens \union {NoToken}]
Cached == [token: Tokens, agent: Agents]

TokenTypeOK ==
  /\ row \in [Agents -> Rows]
  /\ cache \in [Procs -> SUBSET Cached]
  /\ minted \in 0..MaxTokens
  /\ ended \in [Tokens -> Procs \union {NoProc}]

TokenInit ==
  /\ row = [a \in Agents |-> [is |-> "unborn", name |-> NoName, token |-> NoToken]]
  /\ cache = [p \in Procs |-> {}]
  /\ minted = 0
  /\ ended = [t \in Tokens |-> NoProc]

Stored == {a \in Agents : row[a].is \in {"active", "revoked"}}
Active == {a \in Agents : row[a].is = "active"}
\* A token that opens its agent's account today.
Current(t) == \E a \in Active : row[a].token = t

\* getByTokenHash: what the process remembers, else the active row.
InCache(p, t) == {e.agent : e \in {c \in cache[p] : c.token = t}}
Holders(t) == {a \in Active : row[a].token = t}
Found(p, t) == IF InCache(p, t) # {} THEN InCache(p, t) ELSE Holders(t)
Remember(p, t) ==
  cache' = [cache EXCEPT ![p] = @ \union {[token |-> t, agent |-> a] : a \in Found(p, t)}]

\* clearTokenCache: the memory of this process only.
Forget(p) == cache' = [cache EXCEPT ![p] = {}]

\* generateToken: the next unused one.
DrawToken == minted < MaxTokens /\ minted' = minted + 1
End(p, t) == ended' = [ended EXCEPT ![t] = p]

\* create throws before it writes anything.
NameTaken(n) == \E a \in Stored : row[a].name = n
MayCreate(n) == ~NameTaken(n) /\ Cardinality(Active) < MaxActive

Create(p, a, n) ==
  /\ row[a].is = "unborn"
  /\ MayCreate(n)
  /\ DrawToken
  /\ row' = [row EXCEPT ![a] = [is |-> "active", name |-> n, token |-> minted']]
  /\ Forget(p)
  /\ UNCHANGED ended

\* The label moves, the token stays.
Rename(p, a, n) ==
  /\ a \in Stored /\ n # row[a].name /\ ~NameTaken(n)
  /\ row' = [row EXCEPT ![a].name = n]
  /\ Forget(p)
  /\ UNCHANGED <<minted, ended>>

\* The row keeps its token hash; is_active says that it opens nothing.  The
\* memory goes also when there was nothing to revoke.
RevokeById(p, a) ==
  /\ a \in Stored
  /\ row' = [row EXCEPT ![a].is = "revoked"]
  /\ Forget(p)
  /\ IF a \in Active THEN End(p, row[a].token) ELSE UNCHANGED ended
  /\ UNCHANGED minted

\* A new token, never the old one. The limit is not asked again.
Reactivate(p, a) ==
  /\ row[a].is = "revoked"
  /\ DrawToken
  /\ row' = [row EXCEPT ![a].is = "active", ![a].token = minted']
  /\ Forget(p)
  /\ UNCHANGED ended

ResetToken(p, a) ==
  /\ a \in Active
  /\ DrawToken
  /\ row' = [row EXCEPT ![a].token = minted']
  /\ Forget(p)
  /\ End(p, row[a].token)

DeleteById(p, a) ==
  /\ a \in Stored
  /\ row' = [row EXCEPT ![a] = [is |-> "deleted", name |-> NoName, token |-> NoToken]]
  /\ Forget(p)
  /\ IF a \in Active THEN End(p, row[a].token) ELSE UNCHANGED ended
  /\ UNCHANGED minted

\* A request with a Bearer token, as authMiddleware looks it up.
Bearer(p, t) == Remember(p, t) /\ UNCHANGED <<row, minted, ended>>

\* A process that ends takes its memory along.
Restart(p) == Forget(p) /\ UNCHANGED <<row, minted, ended>>

\* What the operator does to one agent.
Administer(p) ==
  \E a \in Agents :
    \/ \E n \in Names : Create(p, a, n) \/ Rename(p, a, n)
    \/ RevokeById(p, a)
    \/ Reactivate(p, a)
    \/ ResetToken(p, a)
    \/ DeleteById(p, a)

TokenNext ==
  \E p \in Procs : Administer(p) \/ Restart(p) \/ \E t \in Tokens : Bearer(p, t)

TokenSpec == TokenInit /\ [][TokenNext]_tokenVars

(***************************************************************************)
(* A process never lets in a token that it has itself ended: whatever it   *)
(* remembers opens an account today, or was ended in another process, so   *)
(* that nobody told this one (agent.ts:82-86, clearTokenCache).            *)
(***************************************************************************)
DeadWhereItEnded ==
  \A p \in Procs : \A e \in cache[p] :
    \/ e.agent \in Active /\ row[e.agent].token = e.token
    \/ ended[e.token] \notin {p, NoProc}

============================================================================
