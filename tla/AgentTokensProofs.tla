------------------------- MODULE AgentTokensProofs -------------------------
(***************************************************************************)
(* What holds of the agents' tokens for any number of agents, processes    *)
(* and tokens.  The proof goes operation by operation: the lemmas below    *)
(* also carry the modules that build on AgentTokens.                       *)
(***************************************************************************)
EXTENDS AgentTokens, TLAPS

\* Tokens of stored rows were drawn, and no two rows have the same.
RowTokensDrawn == \A a \in Stored : row[a].token \in 1..minted
TokensDiffer == \A a, b \in Stored : row[a].token = row[b].token => a = b

\* A token that ended was drawn, and is no active row's.
EndedWereDrawn == \A t \in Tokens : ended[t] # NoProc => t \in 1..minted
ActiveHasNotEnded == \A a \in Active : ended[row[a].token] = NoProc

TokenInv ==
  /\ TokenTypeOK
  /\ RowTokensDrawn
  /\ TokensDiffer
  /\ EndedWereDrawn
  /\ ActiveHasNotEnded
  /\ DeadWhereItEnded

-----------------------------------------------------------------------------

\* No process has taken a token from an agent before there is one.
LEMMA TokenInitInv == TokenInit => TokenInv
BY AgentTokensAssumption DEF TokenInit, TokenInv, TokenTypeOK, RowTokensDrawn, TokensDiffer,
   EndedWereDrawn, ActiveHasNotEnded, DeadWhereItEnded, Rows, Cached, Stored, Active, NoToken, Tokens

\* A step that leaves the agents alone keeps the invariant.
LEMMA TokenStutter == TokenInv /\ UNCHANGED tokenVars => TokenInv'
BY DEF TokenInv, TokenTypeOK, RowTokensDrawn, TokensDiffer, EndedWereDrawn, ActiveHasNotEnded,
   DeadWhereItEnded, Stored, Active, Tokens, tokenVars

\* create: the new row's token is one nobody had.
LEMMA CreateInv ==
  ASSUME TokenInv, NEW p \in Procs, NEW a \in Agents, NEW n \in Names, Create(p, a, n)
  PROVE  TokenInv'
<1>1. TokenTypeOK'
  BY AgentTokensAssumption
  DEF TokenInv, TokenTypeOK, Create, DrawToken, Forget, Rows, Cached, Tokens
<1>2. /\ Stored' = Stored \union {a} /\ Active' = Active \union {a} /\ a \notin Stored
      /\ row'[a].token = minted + 1 /\ minted' = minted + 1 /\ minted \in Nat
      /\ \A b \in Stored : row'[b] = row[b]
  BY AgentTokensAssumption
  DEF TokenInv, TokenTypeOK, Create, DrawToken, Rows, Stored, Active
<1>3. Active \subseteq Stored
  BY DEF Active, Stored
<1>4. RowTokensDrawn' /\ TokensDiffer'
  BY <1>2 DEF TokenInv, RowTokensDrawn, TokensDiffer
<1>5. EndedWereDrawn'
  BY <1>2 DEF TokenInv, EndedWereDrawn, Create
<1>6. ActiveHasNotEnded'
  <2>1. ended[minted + 1] = NoProc
    BY <1>2, AgentTokensAssumption DEF TokenInv, EndedWereDrawn, Create, DrawToken, Tokens
  <2> QED BY <1>2, <1>3, <2>1 DEF TokenInv, ActiveHasNotEnded, Create
<1>7. DeadWhereItEnded'
  BY <1>2, <1>3 DEF TokenInv, DeadWhereItEnded, TokenTypeOK, Create, Forget
<1> QED BY <1>1, <1>4, <1>5, <1>6, <1>7 DEF TokenInv

\* rename: tokens stay where they are.
LEMMA RenameInv ==
  ASSUME TokenInv, NEW p \in Procs, NEW a \in Agents, NEW n \in Names, Rename(p, a, n)
  PROVE  TokenInv'
<1>1. TokenTypeOK'
  BY DEF TokenInv, TokenTypeOK, Rename, Forget, Rows, Cached, Stored
<1>2. /\ Stored' = Stored /\ Active' = Active
      /\ \A b \in Agents : row'[b].token = row[b].token
      /\ minted' = minted /\ ended' = ended
  BY DEF TokenInv, TokenTypeOK, Rename, Rows, Stored, Active
<1>3. RowTokensDrawn' /\ TokensDiffer' /\ EndedWereDrawn' /\ ActiveHasNotEnded'
  BY <1>2 DEF TokenInv, RowTokensDrawn, TokensDiffer, EndedWereDrawn, ActiveHasNotEnded, Stored, Active
<1>4. DeadWhereItEnded'
  BY <1>2 DEF TokenInv, DeadWhereItEnded, TokenTypeOK, Rename, Forget, Active
<1> QED BY <1>1, <1>3, <1>4 DEF TokenInv

\* When an active row's token ends in a process, and the row is the only one
\* that changes, no other row's token has ended, and what other processes
\* remember of it was ended elsewhere.
LEMMA EndInv ==
  ASSUME TokenInv, TokenTypeOK', NEW p \in Procs, NEW a \in Active,
         End(p, row[a].token), Forget(p),
         minted' \in Nat, minted <= minted',
         \A b \in Agents \ {a} : row'[b] = row[b],
         a \notin Active' \/ (row'[a].token = minted + 1 /\ ended[minted + 1] = NoProc)
  PROVE  EndedWereDrawn' /\ ActiveHasNotEnded' /\ DeadWhereItEnded'
<1>1. /\ a \in Agents /\ a \in Stored /\ Active \subseteq Stored /\ minted \in Nat
      /\ row[a].token \in 1..minted
  BY DEF TokenInv, TokenTypeOK, RowTokensDrawn, Active, Stored
<1>2. row[a].token \in Tokens
  BY <1>1, AgentTokensAssumption DEF TokenInv, TokenTypeOK, Tokens
<1>3. /\ ended'[row[a].token] = p
      /\ \A t \in Tokens \ {row[a].token} : ended'[t] = ended[t]
  BY <1>2 DEF TokenInv, TokenTypeOK, End
<1>4. EndedWereDrawn'
  BY <1>1, <1>3 DEF TokenInv, EndedWereDrawn
<1>5. Active' \subseteq Active /\ \A b \in Active' \ {a} : row'[b] = row[b] /\ b \in Stored
  BY <1>1 DEF Active, Stored
<1>6. ASSUME NEW b \in Active' PROVE ended'[row'[b].token] = NoProc
  <2>1. CASE b = a
    <3>1. row'[b].token = minted + 1 /\ ended[minted + 1] = NoProc /\ minted + 1 # row[a].token
      BY <1>1, <2>1
    <3>2. row'[b].token \in Tokens
      BY <1>1, <2>1, <3>1 DEF TokenTypeOK, Rows, NoToken
    <3> QED BY <1>3, <3>1, <3>2
  <2>2. CASE b # a
    <3>1. row'[b] = row[b] /\ b \in Stored /\ b \in Active
      BY <1>5, <2>2
    <3>2. row[b].token # row[a].token
      BY <1>1, <2>2, <3>1 DEF TokenInv, TokensDiffer
    <3>3. row[b].token \in Tokens
      BY <3>1, AgentTokensAssumption DEF TokenInv, TokenTypeOK, RowTokensDrawn, Tokens
    <3> QED BY <1>3, <3>1, <3>2, <3>3 DEF TokenInv, ActiveHasNotEnded
  <2> QED BY <2>1, <2>2
<1>7. ASSUME NEW q \in Procs, NEW e \in cache'[q]
      PROVE  \/ e.agent \in Active' /\ row'[e.agent].token = e.token
             \/ ended'[e.token] \notin {q, NoProc}
  <2>1. q # p /\ e \in cache[q]
    BY DEF Forget, TokenInv, TokenTypeOK
  <2>2. e.token \in Tokens /\ e.agent \in Agents
    BY <2>1 DEF TokenInv, TokenTypeOK, Cached
  <2>3. CASE e.token = row[a].token
    BY <1>3, <2>1, <2>3, AgentTokensAssumption
  <2>4. CASE e.token # row[a].token
    <3>1. ended'[e.token] = ended[e.token]
      BY <1>3, <2>2, <2>4
    <3>2. CASE ended[e.token] \notin {q, NoProc}
      BY <3>1, <3>2
    <3>3. CASE e.agent \in Active /\ row[e.agent].token = e.token
      <4>1. e.agent # a
        BY <2>4, <3>3
      <4> QED BY <2>2, <3>3, <4>1 DEF Active
    <3> QED BY <2>1, <3>2, <3>3 DEF TokenInv, DeadWhereItEnded
  <2> QED BY <2>3, <2>4
<1> QED BY <1>4, <1>6, <1>7 DEF ActiveHasNotEnded, DeadWhereItEnded

\* revokeById: the row stays as it is but for its state.
LEMMA RevokeInv ==
  ASSUME TokenInv, NEW p \in Procs, NEW a \in Agents, RevokeById(p, a)
  PROVE  TokenInv'
<1>1. TokenTypeOK'
  BY DEF TokenInv, TokenTypeOK, RevokeById, Forget, End, Rows, Cached, Stored, Active
<1>2. /\ Stored' = Stored /\ Active' = Active \ {a} /\ minted' = minted /\ minted \in Nat
      /\ \A b \in Agents : row'[b].token = row[b].token
      /\ \A b \in Agents \ {a} : row'[b] = row[b]
  BY DEF TokenInv, TokenTypeOK, RevokeById, Rows, Stored, Active
<1>3. RowTokensDrawn' /\ TokensDiffer'
  BY <1>2 DEF TokenInv, RowTokensDrawn, TokensDiffer, Stored
<1>4. CASE a \in Active
  <2>1. /\ End(p, row[a].token) /\ Forget(p)
        /\ minted' \in Nat /\ minted <= minted' /\ a \notin Active'
    BY <1>2, <1>4 DEF RevokeById
  <2>2. EndedWereDrawn' /\ ActiveHasNotEnded' /\ DeadWhereItEnded'
    <3>1. \A b \in Agents \ {a} : row'[b] = row[b]
      BY <1>2
    <3> QED BY <1>1, <1>4, <2>1, <3>1, EndInv
  <2> QED BY <1>1, <1>3, <2>2 DEF TokenInv
<1>5. CASE a \notin Active
  <2>1. Active' = Active /\ ended' = ended /\ Forget(p)
    BY <1>2, <1>5 DEF RevokeById
  <2>2. EndedWereDrawn' /\ ActiveHasNotEnded'
    BY <1>2, <2>1 DEF TokenInv, EndedWereDrawn, ActiveHasNotEnded, Active
  <2>3. DeadWhereItEnded'
    BY <1>2, <2>1 DEF TokenInv, DeadWhereItEnded, TokenTypeOK, Forget, Active
  <2> QED BY <1>1, <1>3, <2>2, <2>3 DEF TokenInv
<1> QED BY <1>4, <1>5

\* deleteById: the row goes.
LEMMA DeleteInv ==
  ASSUME TokenInv, NEW p \in Procs, NEW a \in Agents, DeleteById(p, a)
  PROVE  TokenInv'
<1>1. TokenTypeOK'
  BY AgentTokensAssumption
  DEF TokenInv, TokenTypeOK, DeleteById, Forget, End, Rows, Cached, Stored, Active, NoToken
<1>2. /\ Stored' = Stored \ {a} /\ Active' = Active \ {a} /\ minted' = minted /\ minted \in Nat
      /\ \A b \in Agents \ {a} : row'[b] = row[b]
  BY DEF TokenInv, TokenTypeOK, DeleteById, Rows, Stored, Active
<1>3. RowTokensDrawn' /\ TokensDiffer'
  BY <1>2 DEF TokenInv, RowTokensDrawn, TokensDiffer, Stored
<1>4. CASE a \in Active
  <2>1. /\ End(p, row[a].token) /\ Forget(p)
        /\ minted' \in Nat /\ minted <= minted' /\ a \notin Active'
    BY <1>2, <1>4 DEF DeleteById
  <2>2. EndedWereDrawn' /\ ActiveHasNotEnded' /\ DeadWhereItEnded'
    <3>1. \A b \in Agents \ {a} : row'[b] = row[b]
      BY <1>2
    <3> QED BY <1>1, <1>4, <2>1, <3>1, EndInv
  <2> QED BY <1>1, <1>3, <2>2 DEF TokenInv
<1>5. CASE a \notin Active
  <2>1. Active' = Active /\ ended' = ended /\ Forget(p)
    BY <1>2, <1>5 DEF DeleteById
  <2>2. EndedWereDrawn' /\ ActiveHasNotEnded'
    BY <1>2, <1>5, <2>1 DEF TokenInv, EndedWereDrawn, ActiveHasNotEnded, Active
  <2>3. DeadWhereItEnded'
    BY <1>2, <1>5, <2>1 DEF TokenInv, DeadWhereItEnded, TokenTypeOK, Forget, Active, Cached
  <2> QED BY <1>1, <1>3, <2>2, <2>3 DEF TokenInv
<1> QED BY <1>4, <1>5

\* The token drawn next has not ended.
LEMMA NextTokenIsFresh ==
  ASSUME TokenInv, DrawToken
  PROVE  /\ minted \in Nat /\ minted' = minted + 1 /\ minted + 1 \in Tokens
         /\ ended[minted + 1] = NoProc
<1>1. minted \in Nat /\ minted' = minted + 1 /\ minted + 1 \in Tokens
  BY AgentTokensAssumption DEF TokenInv, TokenTypeOK, DrawToken, Tokens
<1> QED BY <1>1 DEF TokenInv, EndedWereDrawn

\* resetToken: an active row gets a token nobody had.
LEMMA ResetInv ==
  ASSUME TokenInv, NEW p \in Procs, NEW a \in Agents, ResetToken(p, a)
  PROVE  TokenInv'
<1>1. /\ minted \in Nat /\ minted' = minted + 1 /\ minted + 1 \in Tokens
      /\ ended[minted + 1] = NoProc
  BY NextTokenIsFresh DEF ResetToken
<1>2. TokenTypeOK'
  <2>1. [row[a] EXCEPT !.is = "active", !.token = minted + 1] \in Rows
    <3>1. row[a] \in Rows
      BY DEF TokenInv, TokenTypeOK
    <3> QED BY <1>1, <3>1 DEF Rows
  <2>2. row' \in [Agents -> Rows]
    BY <1>1, <2>1 DEF TokenInv, TokenTypeOK, ResetToken, Active, Rows
  <2>3. cache' \in [Procs -> SUBSET Cached] /\ ended' \in [Tokens -> Procs \union {NoProc}]
    BY DEF TokenInv, TokenTypeOK, ResetToken, Forget, End, Active
  <2>4. minted' \in 0..MaxTokens
    BY <1>1, AgentTokensAssumption DEF Tokens
  <2> QED BY <2>2, <2>3, <2>4 DEF TokenTypeOK
<1>3. /\ Stored' = Stored /\ Active' = Active /\ a \in Active
      /\ row'[a].token = minted + 1
      /\ \A b \in Agents \ {a} : row'[b] = row[b]
  BY <1>1 DEF TokenInv, TokenTypeOK, ResetToken, Rows, Stored, Active
<1>4. RowTokensDrawn' /\ TokensDiffer'
  BY <1>1, <1>3 DEF TokenInv, RowTokensDrawn, TokensDiffer, Stored
<1>5. EndedWereDrawn' /\ ActiveHasNotEnded' /\ DeadWhereItEnded'
  <2>1. End(p, row[a].token) /\ Forget(p)
    BY DEF ResetToken
  <2> QED BY <1>1, <1>2, <1>3, <2>1, EndInv
<1> QED BY <1>2, <1>4, <1>5 DEF TokenInv

\* reactivate: a revoked row gets a token nobody had.
LEMMA ReactivateInv ==
  ASSUME TokenInv, NEW p \in Procs, NEW a \in Agents, Reactivate(p, a)
  PROVE  TokenInv'
<1>1. /\ minted \in Nat /\ minted' = minted + 1 /\ minted + 1 \in Tokens
      /\ ended[minted + 1] = NoProc
  BY NextTokenIsFresh DEF Reactivate
<1>2. TokenTypeOK'
  <2>1. [row[a] EXCEPT !.is = "active", !.token = minted + 1] \in Rows
    <3>1. row[a] \in Rows
      BY DEF TokenInv, TokenTypeOK
    <3> QED BY <1>1, <3>1 DEF Rows
  <2>2. row' \in [Agents -> Rows]
    BY <1>1, <2>1 DEF TokenInv, TokenTypeOK, Reactivate, Active, Rows
  <2>3. cache' \in [Procs -> SUBSET Cached] /\ ended' \in [Tokens -> Procs \union {NoProc}]
    BY DEF TokenInv, TokenTypeOK, Reactivate, Forget
  <2>4. minted' \in 0..MaxTokens
    BY <1>1, AgentTokensAssumption DEF Tokens
  <2> QED BY <2>2, <2>3, <2>4 DEF TokenTypeOK
<1>3. /\ Stored' = Stored /\ Active' = Active \union {a} /\ a \in Stored /\ a \notin Active
      /\ row'[a].token = minted + 1 /\ ended' = ended
      /\ \A b \in Agents \ {a} : row'[b] = row[b]
  BY <1>1 DEF TokenInv, TokenTypeOK, Reactivate, Rows, Stored, Active
<1>4. RowTokensDrawn' /\ TokensDiffer'
  BY <1>1, <1>3 DEF TokenInv, RowTokensDrawn, TokensDiffer, Stored
<1>5. EndedWereDrawn' /\ ActiveHasNotEnded'
  BY <1>1, <1>3 DEF TokenInv, EndedWereDrawn, ActiveHasNotEnded, Active
<1>6. DeadWhereItEnded'
  BY <1>3 DEF TokenInv, DeadWhereItEnded, TokenTypeOK, Reactivate, Forget, Active, Cached
<1> QED BY <1>2, <1>4, <1>5, <1>6 DEF TokenInv

\* A look at the memory and the rows: what is added is an active row's token,
\* or was remembered before.
LEMMA RememberInv ==
  ASSUME TokenInv, NEW p \in Procs, NEW t \in Tokens, Remember(p, t),
         UNCHANGED <<row, minted, ended>>
  PROVE  TokenInv'
<1>1. TokenTypeOK'
  BY DEF TokenInv, TokenTypeOK, Remember, Found, InCache, Holders, Active, Cached
<1>2. RowTokensDrawn' /\ TokensDiffer' /\ EndedWereDrawn' /\ ActiveHasNotEnded'
  BY DEF TokenInv, RowTokensDrawn, TokensDiffer, EndedWereDrawn, ActiveHasNotEnded, Stored, Active
<1>3. ASSUME NEW q \in Procs, NEW e \in cache'[q]
      PROVE  e \in cache[q] \/ (e.agent \in Active /\ row[e.agent].token = e.token)
  <2>1. CASE q # p
    BY <2>1 DEF TokenInv, TokenTypeOK, Remember
  <2>2. CASE q = p
    <3>1. CASE e \notin cache[q]
      <4>1. PICK a \in Found(p, t) : e = [token |-> t, agent |-> a]
        BY <2>2, <3>1 DEF TokenInv, TokenTypeOK, Remember
      <4>2. CASE InCache(p, t) # {}
        <5>1. PICK d \in cache[p] : d.token = t /\ d.agent = a
          BY <4>1, <4>2 DEF Found, InCache
        <5>2. d \in [token: Tokens, agent: Agents]
          BY <5>1 DEF TokenInv, TokenTypeOK, Cached
        <5> QED BY <2>2, <4>1, <5>1, <5>2
      <4>3. CASE InCache(p, t) = {}
        BY <4>1, <4>3 DEF Found, Holders
      <4> QED BY <4>2, <4>3
    <3> QED BY <3>1
  <2> QED BY <2>1, <2>2
<1>4. DeadWhereItEnded'
  BY <1>3 DEF TokenInv, DeadWhereItEnded, Active
<1> QED BY <1>1, <1>2, <1>4 DEF TokenInv

\* A process that ends forgets.
LEMMA RestartInv ==
  ASSUME TokenInv, NEW p \in Procs, Restart(p)
  PROVE  TokenInv'
BY DEF TokenInv, TokenTypeOK, RowTokensDrawn, TokensDiffer, EndedWereDrawn, ActiveHasNotEnded,
   DeadWhereItEnded, Stored, Active, Restart, Forget, Cached

\* Whatever the operator does to an agent.
LEMMA AdministerInv ==
  ASSUME TokenInv, NEW p \in Procs, Administer(p)
  PROVE  TokenInv'
<1>1. PICK a \in Agents :
        \/ \E n \in Names : Create(p, a, n) \/ Rename(p, a, n)
        \/ RevokeById(p, a) \/ Reactivate(p, a) \/ ResetToken(p, a) \/ DeleteById(p, a)
  BY DEF Administer
<1>2. CASE \E n \in Names : Create(p, a, n) \/ Rename(p, a, n)
  BY <1>2, CreateInv, RenameInv
<1>3. CASE RevokeById(p, a) \/ Reactivate(p, a) \/ ResetToken(p, a) \/ DeleteById(p, a)
  BY <1>3, RevokeInv, ReactivateInv, ResetInv, DeleteInv
<1> QED BY <1>1, <1>2, <1>3

-----------------------------------------------------------------------------

\* The invariant holds of every behaviour of the agents' tokens, so that no
\* process lets in a token that it has itself ended (agent.ts:82-86).
THEOREM TokenInvariance == TokenSpec => []TokenInv
<1>1. TokenInv /\ [TokenNext]_tokenVars => TokenInv'
  <2> SUFFICES ASSUME TokenInv, [TokenNext]_tokenVars PROVE TokenInv'
    OBVIOUS
  <2>1. CASE UNCHANGED tokenVars
    BY <2>1, TokenStutter
  <2>2. CASE TokenNext
    <3>1. PICK p \in Procs : Administer(p) \/ Restart(p) \/ \E t \in Tokens : Bearer(p, t)
      BY <2>2 DEF TokenNext
    <3>2. CASE \E t \in Tokens : Bearer(p, t)
      BY <3>2, RememberInv DEF Bearer
    <3> QED BY <3>1, <3>2, AdministerInv, RestartInv
  <2> QED BY <2>1, <2>2
<1> QED BY <1>1, TokenInitInv, PTL DEF TokenSpec

============================================================================
