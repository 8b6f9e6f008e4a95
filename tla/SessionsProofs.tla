--------------------------- MODULE SessionsProofs ---------------------------
(***************************************************************************)
(* What holds of the sessions for any number of tabs, agents, processes    *)
(* and tokens, and any ages; and, in the last three parts, of the connect  *)
(* flow, of the titles of the board's links and of the live sections of an *)
(* open tab.                                                               *)
(*                                                                         *)
(* Whom a process lets in rests on the invariant of AgentTokens: an active *)
(* row's token has not ended.  When a session ends rests on the ages: no   *)
(* cookie, in the browser or under way to it, is younger than what the     *)
(* person did, and none is older than the last answer that arrived by more *)
(* than RenewAfter.  The second holds only because an answer that carries  *)
(* no renewal was given to a cookie that needed none, and the browser has  *)
(* that one or a younger one when it arrives.                              *)
(***************************************************************************)
EXTENDS Sessions, Connect, ResultTitles, LiveRefresh, AgentTokensProofs,
        FiniteSetTheorems, SequenceTheorems

\* One answer per tab.
AnswerPerTab == answer = [t \in Tabs |-> answer[t]]

IInv == TokenInv /\ AnswerPerTab

\* The browser opens with no answer under way.
LEMMA InitIInv == Init => IInv
BY TokenInitInv DEF Init, IInv, AnswerPerTab

\* A request that is handled: its own tab waits, the others' answers stay.
LEMMA AnswerOfTab ==
  ASSUME AnswerPerTab, NEW t \in Tabs, NEW of, NEW jars, NEW ns, NEW pages,
         Answer(t, of, jars, ns, pages)
  PROVE  /\ AnswerPerTab' /\ answer'[t].of = of
         /\ \A u \in Tabs \ {t} : answer'[u] = answer[u]
BY DEF AnswerPerTab, Answer

\* What one tab does changes the agents' tokens at most in a memory.
LEMMA TabStepInv ==
  ASSUME IInv, NEW t \in Tabs,
         \/ SignInPage(t)
         \/ \E p \in Procs, typed \in (1..minted) \union AdminTokens : SignIn(t, p, typed)
         \/ \E p \in Procs, byHand \in BOOLEAN : Serve(t, p, byHand)
         \/ SignOut(t)
  PROVE  /\ IInv'
         /\ \A u \in Tabs \ {t} : answer'[u] = answer[u]
         /\ answer'[t].of \in {"view", "poll"} => \E p \in Procs : Stands(p, jar)
<1>1. CASE SignInPage(t)
  <2>1. PICK n : Answer(t, "other", {}, {n}, {SignInForm(n)}) /\ UNCHANGED tokenVars
    BY <1>1 DEF SignInPage
  <2> QED BY <2>1, AnswerOfTab, TokenStutter DEF IInv
<1>2. CASE SignOut(t)
  <2>1. UNCHANGED tokenVars
    BY <1>2 DEF SignOut
  <2>2. PICK jars, pages : Answer(t, "other", jars, {}, pages)
    BY <1>2 DEF SignOut
  <2> QED BY <2>1, <2>2, AnswerOfTab, TokenStutter DEF IInv
<1>3. ASSUME NEW p \in Procs, NEW byHand \in BOOLEAN, Serve(t, p, byHand)
      PROVE  /\ IInv'
             /\ \A u \in Tabs \ {t} : answer'[u] = answer[u]
             /\ answer'[t].of \in {"view", "poll"} => Stands(p, jar)
  <2>1. UNCHANGED tokenVars
    BY <1>3 DEF Serve
  <2>2. PICK of, jars, pages :
          Answer(t, of, jars, {}, pages) /\ (of \in {"view", "poll"} => Stands(p, jar))
    <3>1. CASE Stands(p, jar)
      BY <1>3, <3>1 DEF Serve
    <3>2. CASE ~Stands(p, jar)
      BY <1>3, <3>2 DEF Serve
    <3> QED BY <3>1, <3>2
  <2> QED BY <2>1, <2>2, AnswerOfTab, TokenStutter DEF IInv
<1>4. ASSUME NEW p \in Procs, NEW typed \in (1..minted) \union AdminTokens, SignIn(t, p, typed)
      PROVE  /\ IInv'
             /\ \A u \in Tabs \ {t} : answer'[u] = answer[u]
             /\ answer'[t].of \notin {"view", "poll"}
  <2>1. UNCHANGED <<row, minted, ended>>
    BY <1>4 DEF SignIn
  <2>2. TokenInv'
    <3>1. CASE typed \notin AdminTokens /\ Remember(p, typed)
      <4>1. typed \in Tokens
        BY <3>1, AgentTokensAssumption DEF IInv, TokenInv, TokenTypeOK, Tokens
      <4> QED BY <2>1, <3>1, <4>1, RememberInv DEF IInv
    <3>2. CASE UNCHANGED cache
      BY <2>1, <3>2, TokenStutter DEF IInv, tokenVars
    <3> QED BY <1>4, <3>1, <3>2 DEF SignIn
  <2>3. PICK of, jars, ns, pages :
          Answer(t, of, jars, ns, pages) /\ of \notin {"view", "poll"}
    BY <1>4 DEF SignIn
  <2> QED BY <2>2, <2>3, AnswerOfTab DEF IInv
<1> QED BY <1>1, <1>2, <1>3, <1>4

\* Steps at which no request is handled.
LEMMA OtherStepInv ==
  ASSUME IInv,
         \/ \E t \in Tabs : Arrive(t) \/ Lose(t)
         \/ \E p \in Procs : Elsewhere(p)
         \/ Tick
  PROVE  IInv' /\ \A t \in Tabs : answer'[t] = answer[t] \/ Waits(t)
<1>1. CASE \E t \in Tabs : Arrive(t) \/ Lose(t)
  <2>1. UNCHANGED tokenVars
    BY <1>1 DEF Arrive, Lose
  <2>2. AnswerPerTab' /\ \A t \in Tabs : answer'[t] = answer[t] \/ Waits(t)
    BY <1>1 DEF Arrive, Lose, IInv, AnswerPerTab
  <2> QED BY <2>1, <2>2, TokenStutter DEF IInv
<1>2. CASE \E p \in Procs : Elsewhere(p)
  <2>1. answer' = answer
    BY <1>2 DEF Elsewhere
  <2>2. PICK p \in Procs : Administer(p) \/ Restart(p) \/ \E t \in Tokens : Bearer(p, t)
    BY <1>2 DEF Elsewhere
  <2>3. TokenInv'
    <3>1. CASE \E t \in Tokens : Bearer(p, t)
      BY <3>1, RememberInv DEF IInv, Bearer
    <3> QED BY <2>2, <3>1, AdministerInv, RestartInv DEF IInv
  <2> QED BY <2>1, <2>3 DEF IInv, AnswerPerTab
<1>3. CASE Tick
  BY <1>3, TokenStutter DEF Tick, IInv, AnswerPerTab
<1> QED BY <1>1, <1>2, <1>3

\* Every step keeps the invariant, and lets in only a cookie whose token has
\* not ended.
LEMMA StepInv ==
  ASSUME IInv, [Next]_vars
  PROVE  IInv' /\ (LetsIn => \E p \in Procs : Stands(p, jar))
<1>1. CASE UNCHANGED vars
  <2>1. UNCHANGED tokenVars /\ answer' = answer
    BY <1>1 DEF vars
  <2> QED BY <2>1, TokenStutter DEF IInv, AnswerPerTab, LetsIn, Waits
<1>2. CASE \E t \in Tabs :
             \/ SignInPage(t)
             \/ \E p \in Procs, typed \in (1..minted) \union AdminTokens : SignIn(t, p, typed)
             \/ \E p \in Procs, byHand \in BOOLEAN : Serve(t, p, byHand)
             \/ SignOut(t)
  BY <1>2, TabStepInv DEF LetsIn, Waits
<1>3. CASE (\E t \in Tabs : Arrive(t) \/ Lose(t)) \/ (\E p \in Procs : Elsewhere(p)) \/ Tick
  BY <1>3, OtherStepInv DEF LetsIn, Waits
<1> QED BY <1>1, <1>2, <1>3 DEF Next

-----------------------------------------------------------------------------

\* The invariant holds of every behaviour of the sessions.
THEOREM Invariance == Spec => []IInv
<1>1. IInv /\ [Next]_vars => IInv'
  BY StepInv
<1> QED BY <1>1, InitIInv, PTL DEF Spec

\* No process lets in a token that it has itself ended (agent.ts:82-86).
THEOREM DeadTokens == Spec => []DeadWhereItEnded
<1>1. IInv => DeadWhereItEnded
  BY DEF IInv, TokenInv
<1> QED BY <1>1, Invariance, PTL

\* A session whose token was reset, revoked or deleted is let in by no
\* process, whatever it remembers (auth.ts:403-431).
THEOREM EndedSessions == Spec => EndedTokenEndsSessions
<1>1. IInv /\ [Next]_vars => [LetsIn /\ jar.who # Operator => ended[jar.token] = NoProc]_vars
  <2> SUFFICES ASSUME IInv, [Next]_vars, LetsIn, jar.who # Operator
               PROVE  ended[jar.token] = NoProc
    OBVIOUS
  <2>1. PICK p \in Procs : Stands(p, jar)
    BY StepInv
  <2>2. jar.who \in Active /\ row[jar.who].token = jar.token
    BY <2>1 DEF Stands
  <2> QED BY <2>2 DEF IInv, TokenInv, ActiveHasNotEnded
<1> QED BY <1>1, Invariance, PTL DEF Spec, EndedTokenEndsSessions

-----------------------------------------------------------------------------
(***************************************************************************)
(* The browser and the ages.                                               *)
(***************************************************************************)

\* A token is remembered for one agent.
OneAccount == \A p \in Procs : \A e, f \in cache[p] : e.token = f.token => e = f

Cookies == [who: Agents \union {Operator}, token: Tokens \union AdminTokens \union {NoToken},
            created: 0..(AbsoluteMax + 1), issued: Nat]
Forms == [for: {"nothing", "sign-in", "session"}, nonce: 0..MaxNonces, who: Agents \union {Operator},
          token: Tokens \union AdminTokens \union {NoToken}, age: Nat]
Answers == [of: {"no request", "sign-in", "view", "poll", "other"}, jar: SUBSET Cookies,
            nonce: SUBSET (0..MaxNonces), page: SUBSET Forms]

BrowserTypes ==
  /\ jar \in Cookies /\ nonce \in 0..MaxNonces
  /\ page \in [Tabs -> Forms] /\ answer \in [Tabs -> Answers]
  /\ {signedIn, viewed, shown} \subseteq 0..(AbsoluteMax + 1)

\* A cookie a process could have made, not younger than what the person did.
Possible(c) ==
  c # NoCookie => /\ c.token # NoToken
                  /\ c.issued <= c.created /\ c.issued <= IdleMax + 1
                  /\ signedIn <= c.created /\ viewed <= c.issued

\* An answer under way brings one new cookie or none, and one to a person
\* brings a new one unless that in the browser was renewed not long ago.
Fresh(t) ==
  /\ \A c \in answer[t].jar : Possible(c) /\ c.issued = 0
  /\ \A c, d \in answer[t].jar : c = d
  /\ answer[t].of \in {"sign-in", "view"} /\ answer[t].jar = {} /\ jar # NoCookie =>
       jar.issued <= RenewAfter
  /\ ~Waits(t) => answer[t].jar = {}

\* The inductive invariant of the browser.
BrowserInv ==
  /\ BrowserTypes
  /\ OneAccount
  /\ Possible(jar)
  /\ jar # NoCookie => jar.issued <= shown + RenewAfter
  /\ \A t \in Tabs : Fresh(t)

LEMMA NumbersOfSessions ==
  /\ RenewAfter \in Nat /\ IdleMax \in Nat /\ AbsoluteMax \in Nat /\ MaxNonces \in Nat
  /\ RenewAfter < IdleMax /\ IdleMax <= AbsoluteMax
BY SessionsAssumption

LEMMA ZeroAge == 0 \in 0..(AbsoluteMax + 1) /\ 0 \in 0..MaxNonces
BY NumbersOfSessions

LEMMA NoCookieTypes ==
  /\ NoCookie \in Cookies /\ NoCookie.issued = 0
  /\ NoForm \in Forms
BY NumbersOfSessions DEF NoCookie, NewCookie, Cookies, NoForm, Forms

LEMMA BrowserInit == Init => BrowserInv
<1> SUFFICES ASSUME Init PROVE BrowserInv
  OBVIOUS
<1>1. NoAnswer \in Answers /\ NoAnswer.jar = {} /\ NoAnswer.of = "no request"
  BY DEF NoAnswer, Answers
<1>2. /\ jar = NoCookie /\ nonce = 0 /\ page = [t \in Tabs |-> NoForm]
      /\ answer = [t \in Tabs |-> NoAnswer] /\ signedIn = 0 /\ viewed = 0 /\ shown = 0
      /\ cache = [p \in Procs |-> {}]
  BY DEF Init, TokenInit
<1>3. BrowserTypes
  <2>1. 0 \in 0..(AbsoluteMax + 1) /\ 0 \in 0..MaxNonces
    BY NumbersOfSessions
  <2> QED BY <1>1, <1>2, <2>1, NoCookieTypes DEF BrowserTypes
<1>4. Possible(jar) /\ OneAccount /\ \A t \in Tabs : Fresh(t)
  BY <1>1, <1>2 DEF Possible, OneAccount, Fresh, Waits
<1> QED BY <1>2, <1>3, <1>4 DEF BrowserInv

\* A process that remembers one more token remembers it for the agent that has it.
LEMMA RememberOne ==
  ASSUME TokenInv, OneAccount, NEW p \in Procs, NEW t \in Tokens, Remember(p, t)
  PROVE  OneAccount'
<1>1. cache \in [Procs -> SUBSET Cached]
  BY DEF TokenInv, TokenTypeOK
<1> DEFINE new == {[token |-> t, agent |-> a] : a \in Found(p, t)}
<1>2. \A e \in new : e.token = t /\ e.agent \in Found(p, t) /\ e = [token |-> t, agent |-> e.agent]
  OBVIOUS
<1>3. cache'[p] = cache[p] \union new /\ \A q \in Procs : q # p => cache'[q] = cache[q]
  BY <1>1 DEF Remember
<1> HIDE DEF new
<1>4. CASE InCache(p, t) # {}
  <2>1. \A a \in Found(p, t) : [token |-> t, agent |-> a] \in cache[p]
    <3>1. \A c \in cache[p] : c = [token |-> c.token, agent |-> c.agent]
      BY <1>1 DEF Cached
    <3> QED BY <1>4, <3>1 DEF Found, InCache
  <2>2. new \subseteq cache[p]
    BY <1>2, <2>1
  <2> QED BY <1>3, <2>2 DEF OneAccount
<1>5. CASE InCache(p, t) = {}
  <2>1. \A a, b \in Found(p, t) : a = b
    BY <1>5 DEF Found, Holders, TokenInv, TokensDiffer, Active, Stored
  <2>2. \A c \in cache[p] : c.token # t
    BY <1>5 DEF InCache
  <2>3. \A e, f \in new : e = f
    BY <1>2, <2>1
  <2>4. \A e, f \in cache[p] \union new : e.token = f.token => e = f
    BY <1>2, <2>2, <2>3 DEF OneAccount
  <2> QED BY <1>3, <2>4 DEF OneAccount
<1> QED BY <1>4, <1>5

LEMMA PossibleStays ==
  ASSUME NEW c \in Cookies, Possible(c), signedIn' \in {0, signedIn}, viewed' \in {0, viewed}
  PROVE  Possible(c)'
<1>1. c.created \in Nat /\ c.issued \in Nat
  BY NumbersOfSessions DEF Cookies
<1> QED BY <1>1 DEF Possible

\* A request that is handled keeps the invariant if what it answers with does.
LEMMA Handled ==
  ASSUME BrowserInv, NEW t \in Tabs, NEW a \in Answers, Answer(t, a.of, a.jar, a.nonce, a.page),
         a.of # "no request", UNCHANGED <<jar, nonce, shown>>, signedIn' \in {0, signedIn}, viewed' \in {0, viewed},
         \A c \in a.jar : Possible(c)' /\ c.issued = 0,
         \A c, d \in a.jar : c = d,
         a.of \in {"sign-in", "view"} /\ a.jar = {} /\ jar # NoCookie => jar.issued <= RenewAfter,
         OneAccount'
  PROVE  BrowserInv'
<1>1. answer' = [answer EXCEPT ![t] = a]
  BY DEF Answer, Answers
<1>2. answer \in [Tabs -> Answers] /\ page \in [Tabs -> Forms]
      /\ signedIn \in 0..(AbsoluteMax + 1) /\ viewed \in 0..(AbsoluteMax + 1)
  BY DEF BrowserInv, BrowserTypes
<1>3. page' \in [Tabs -> Forms]
  BY <1>2, NoCookieTypes DEF Answer
<1>4. signedIn' \in 0..(AbsoluteMax + 1) /\ viewed' \in 0..(AbsoluteMax + 1)
  BY <1>2, ZeroAge
<1>5. BrowserTypes'
  BY <1>1, <1>2, <1>3, <1>4 DEF BrowserInv, BrowserTypes
<1>6. ASSUME NEW c \in Cookies, Possible(c)
      PROVE  Possible(c)'
  BY <1>6, PossibleStays
<1>7. Possible(jar)'
  <2>1. jar \in Cookies /\ Possible(jar) /\ jar' = jar
    BY DEF BrowserInv, BrowserTypes
  <2> QED BY <1>6, <2>1 DEF Possible
<1>8. ASSUME NEW u \in Tabs
      PROVE  Fresh(u)'
  <2>1. CASE u = t
    <3>1. answer'[u] = a
      BY <1>1, <1>2, <2>1
    <3> QED BY <3>1 DEF Fresh, Possible, Waits
  <2>2. CASE u # t
    <3>1. answer'[u] = answer[u] /\ answer[u].jar \subseteq Cookies /\ Fresh(u)
      BY <1>1, <1>2, <2>2 DEF BrowserInv, Answers
    <3> QED BY <1>6, <3>1 DEF Fresh, Possible, Waits
  <2> QED BY <2>1, <2>2
<1>9. (jar # NoCookie => jar.issued <= shown + RenewAfter)'
  BY DEF BrowserInv
<1> QED BY <1>5, <1>7, <1>8, <1>9 DEF BrowserInv

LEMMA SignInPageBrowser ==
  ASSUME BrowserInv, NEW t \in Tabs, SignInPage(t)
  PROVE  BrowserInv'
<1>1. PICK n \in IF nonce # 0 THEN {nonce} ELSE DrawNonce :
        Answer(t, "other", {}, {n}, {SignInForm(n)})
  BY DEF SignInPage
<1>2. n \in 0..MaxNonces
  BY <1>1, NumbersOfSessions DEF DrawNonce, BrowserInv, BrowserTypes
<1>3. SignInForm(n) \in Forms
  BY <1>2, NoCookieTypes DEF SignInForm, Forms
<1>4. PICK a : a = [of |-> "other", jar |-> {}, nonce |-> {n}, page |-> {SignInForm(n)}]
  OBVIOUS
<1>5. a \in Answers /\ a.of = "other" /\ a.jar = {} /\ a.nonce = {n} /\ a.page = {SignInForm(n)}
  BY <1>2, <1>3, <1>4 DEF Answers
<1>6. UNCHANGED <<jar, nonce, shown, signedIn, viewed, cache>>
  BY DEF SignInPage, history, tokenVars
<1>7. OneAccount'
  BY <1>6 DEF BrowserInv, OneAccount
<1> QED BY <1>1, <1>5, <1>6, <1>7, Handled

LEMMA SignOutBrowser ==
  ASSUME BrowserInv, NEW t \in Tabs, SignOut(t)
  PROVE  BrowserInv'
<1>1. jar \in Cookies /\ NoForm \in Forms /\ SessionForm(jar) \in Forms
  BY NoCookieTypes DEF BrowserInv, BrowserTypes, SessionForm, Forms, Cookies
<1>2. PICK jars \in {{}, {NoCookie}}, pages \in {{NoForm}, {SessionForm(jar)}} :
        Answer(t, "other", jars, {}, pages)
  BY DEF SignOut
<1>3. PICK a : a = [of |-> "other", jar |-> jars, nonce |-> {}, page |-> pages]
  OBVIOUS
<1>4. jars \subseteq Cookies /\ pages \subseteq Forms
  BY <1>1, <1>2, NoCookieTypes
<1>5. a \in Answers /\ a.of = "other" /\ a.jar = jars /\ a.nonce = {} /\ a.page = pages
  BY <1>3, <1>4 DEF Answers
<1>6. UNCHANGED <<jar, nonce, shown, signedIn, viewed, cache>>
  BY DEF SignOut, history, tokenVars
<1>7. OneAccount'
  BY <1>6 DEF BrowserInv, OneAccount
<1>8. \A c \in jars : Possible(c)' /\ c.issued = 0
  BY <1>2, NoCookieTypes DEF Possible
<1>9. \A c, d \in jars : c = d
  BY <1>2
<1> QED BY <1>2, <1>5, <1>6, <1>7, <1>8, <1>9, Handled

\* What renewal answers with is younger than what it was made from.
LEMMA ServeBrowser ==
  ASSUME BrowserInv, NEW t \in Tabs, NEW p \in Procs, NEW byHand \in BOOLEAN, Serve(t, p, byHand)
  PROVE  BrowserInv'
<1>1. UNCHANGED <<jar, nonce, shown, signedIn, cache>>
  BY DEF Serve, tokenVars
<1>2. OneAccount'
  BY <1>1 DEF BrowserInv, OneAccount
<1>3. jar \in Cookies /\ NoForm \in Forms /\ SessionForm(jar) \in Forms
  BY NoCookieTypes DEF BrowserInv, BrowserTypes, SessionForm, Forms, Cookies
<1>4. CASE Stands(p, jar)
  <2>1. PICK of \in {"view", "poll"}, jars \in {RenewalFor(byHand, jar)},
             pages \in {{SessionForm(jar)}, {}} :
          /\ Answer(t, of, jars, {}, pages) /\ (of = "view" => byHand)
          /\ viewed' = IF byHand THEN 0 ELSE viewed
    BY <1>4 DEF Serve
  <2>2. jar # NoCookie
    BY <1>4 DEF Stands, InTime
  <2>3. /\ Renewed(jar) \in Cookies /\ Renewed(jar).issued = 0 /\ Renewed(jar).created = jar.created
        /\ Renewed(jar).token = jar.token
    BY <1>3 DEF Renewed, Cookies
  <2>4. jars \subseteq {Renewed(jar)} /\ (jars # {} => byHand)
        /\ (byHand /\ jars = {} => jar.issued <= RenewAfter)
    BY <1>3, <2>1, NumbersOfSessions DEF RenewalFor, Cookies
  <2>5. PICK a : a = [of |-> of, jar |-> jars, nonce |-> {}, page |-> pages]
    OBVIOUS
  <2>6. a \in Answers /\ a.of = of /\ a.jar = jars /\ a.nonce = {} /\ a.page = pages
    <3>1. jars \subseteq Cookies /\ pages \subseteq Forms
      BY <1>3, <2>1, <2>3, <2>4
    <3> QED BY <2>1, <2>5, <3>1 DEF Answers
  <2>7. \A c \in jars : Possible(c)' /\ c.issued = 0
    <3>1. jar.token # NoToken /\ signedIn <= jar.created /\ jar.created \in Nat
      BY <1>3, <2>2 DEF BrowserInv, Possible, Cookies
    <3>2. jars # {} => viewed' = 0
      BY <2>1, <2>4
    <3>3. PICK r : r = Renewed(jar)
      OBVIOUS
    <3>4. jars # {} => Possible(r)'
      BY <1>1, <2>3, <3>1, <3>2, <3>3, NumbersOfSessions DEF Possible
    <3> QED BY <2>3, <2>4, <3>3, <3>4 DEF Possible
  <2> QED BY <1>1, <1>2, <2>1, <2>4, <2>6, <2>7, Handled
<1>5. CASE ~Stands(p, jar)
  <2>1. Answer(t, "other", {}, {}, {NoForm}) /\ viewed' = viewed
    BY <1>5 DEF Serve
  <2>2. PICK a : a = [of |-> "other", jar |-> {}, nonce |-> {}, page |-> {NoForm}]
    OBVIOUS
  <2>3. a \in Answers /\ a.of = "other" /\ a.jar = {} /\ a.nonce = {} /\ a.page = {NoForm}
    BY <1>3, <2>2 DEF Answers
  <2> QED BY <1>1, <1>2, <2>1, <2>3, Handled
<1> QED BY <1>4, <1>5

\* A sign-in is the first thing the new cookie is younger than.
LEMMA SignInBrowser ==
  ASSUME IInv, BrowserInv, NEW t \in Tabs, NEW p \in Procs,
         NEW typed \in (1..minted) \union AdminTokens, SignIn(t, p, typed)
  PROVE  BrowserInv'
<1> DEFINE who == IF typed \in AdminTokens THEN {Operator} ELSE Found(p, typed)
<1>1. /\ UNCHANGED <<jar, nonce, shown>> /\ typed \in Tokens \union AdminTokens
      /\ typed # NoToken /\ (typed \notin AdminTokens => typed \in Tokens)
  BY AgentTokensAssumption, SessionsAssumption
     DEF SignIn, IInv, TokenInv, TokenTypeOK, Tokens, NoToken
<1>2. OneAccount'
  <2>1. CASE typed \notin AdminTokens /\ Remember(p, typed)
    BY <1>1, <2>1, RememberOne DEF IInv, BrowserInv
  <2>2. CASE UNCHANGED cache
    BY <2>2 DEF BrowserInv, OneAccount
  <2> QED BY <2>1, <2>2 DEF SignIn
<1>3. who \subseteq Agents \union {Operator} /\ \A v, w \in who : v = w
  <2>1. CASE typed \in AdminTokens
    BY <2>1
  <2>2. CASE typed \notin AdminTokens
    <3>1. cache[p] \subseteq Cached
      BY DEF IInv, TokenInv, TokenTypeOK
    <3>2. InCache(p, typed) \subseteq Agents /\ \A v, w \in InCache(p, typed) : v = w
      BY <3>1 DEF InCache, BrowserInv, OneAccount, Cached
    <3>3. Holders(typed) \subseteq Agents /\ \A v, w \in Holders(typed) : v = w
      BY DEF Holders, IInv, TokenInv, TokensDiffer, Active, Stored
    <3> QED BY <2>2, <3>2, <3>3 DEF Found
  <2> QED BY <2>1, <2>2
<1> HIDE DEF who
<1>4. NoForm \in Forms
  BY NoCookieTypes
<1>5. CASE OwnSignInForm(page[t]) /\ who # {}
  <2>1. PICK w \in who : who = {w}
    BY <1>3, <1>5
  <2>2. PICK c : c = NewCookie(w, typed)
    OBVIOUS
  <2>3. c \in Cookies /\ c.issued = 0 /\ c.created = 0 /\ c.token = typed
    BY <1>1, <1>3, <2>2, NumbersOfSessions DEF NewCookie, Cookies
  <2>4. /\ Answer(t, "sign-in", {NewCookie(v, typed) : v \in who}, {0}, {NoForm})
        /\ signedIn' = 0 /\ viewed' = 0
    BY <1>5 DEF SignIn, who
  <2>5. Answer(t, "sign-in", {c}, {0}, {NoForm})
    BY <2>1, <2>2, <2>4
  <2>6. PICK a : a = [of |-> "sign-in", jar |-> {c}, nonce |-> {0}, page |-> {NoForm}]
    OBVIOUS
  <2>7. a \in Answers /\ a.of = "sign-in" /\ a.jar = {c} /\ a.nonce = {0} /\ a.page = {NoForm}
    <3>1. 0 \in 0..MaxNonces
      BY NumbersOfSessions
    <3> QED BY <1>4, <2>3, <2>6, <3>1 DEF Answers
  <2>8. Possible(c)'
    BY <1>1, <2>3, <2>4, NumbersOfSessions DEF Possible
  <2> QED BY <1>1, <1>2, <2>3, <2>4, <2>5, <2>7, <2>8, Handled
<1>6. CASE ~(OwnSignInForm(page[t]) /\ who # {})
  <2>1. Answer(t, "other", {}, {}, {NoForm}) /\ signedIn' = signedIn /\ viewed' = viewed
    BY <1>6 DEF SignIn, who
  <2>2. PICK a : a = [of |-> "other", jar |-> {}, nonce |-> {}, page |-> {NoForm}]
    OBVIOUS
  <2>3. a \in Answers /\ a.of = "other" /\ a.jar = {} /\ a.nonce = {} /\ a.page = {NoForm}
    BY <1>4, <2>2 DEF Answers
  <2> QED BY <1>1, <1>2, <2>1, <2>3, Handled
<1> QED BY <1>5, <1>6

\* An answer that arrives puts a fresh cookie in the browser, or leaves one
\* that was renewed not long before.
LEMMA ArriveBrowser ==
  ASSUME BrowserInv, NEW t \in Tabs, Arrive(t)
  PROVE  BrowserInv'
<1>1. PICK a : a = answer[t]
  OBVIOUS
<1>2. a \in Answers /\ Fresh(t) /\ answer \in [Tabs -> Answers] /\ page \in [Tabs -> Forms]
      /\ jar \in Cookies /\ shown \in 0..(AbsoluteMax + 1)
  BY <1>1 DEF BrowserInv, BrowserTypes
<1>3. /\ jar' = The(a.jar, jar) /\ nonce' = The(a.nonce, nonce)
      /\ page' = [page EXCEPT ![t] = The(a.page, @)]
      /\ shown' = (IF a.of \in {"sign-in", "view"} THEN 0 ELSE shown)
      /\ answer' = [answer EXCEPT ![t] = NoAnswer]
      /\ UNCHANGED <<signedIn, viewed, cache>>
  BY <1>1 DEF Arrive, tokenVars
<1>4. \A S, else : The(S, else) \in S \/ (S = {} /\ The(S, else) = else)
  BY DEF The
<1>5. jar' \in a.jar \/ (a.jar = {} /\ jar' = jar)
  BY <1>3, <1>4
<1>6. NoAnswer \in Answers /\ NoAnswer.jar = {} /\ NoAnswer.of = "no request"
  BY DEF NoAnswer, Answers
<1>7. shown' \in 0..(AbsoluteMax + 1)
  BY <1>2, <1>3, NumbersOfSessions
<1>8. BrowserTypes'
  <2>1. jar' \in Cookies
    BY <1>2, <1>5 DEF Answers
  <2>2. nonce' \in 0..MaxNonces
    BY <1>2, <1>3, <1>4 DEF Answers, BrowserInv, BrowserTypes
  <2>3. The(a.page, page[t]) \in Forms
    <3>1. page[t] \in Forms /\ a.page \subseteq Forms
      BY <1>2 DEF Answers
    <3>2. The(a.page, page[t]) \in a.page \/ The(a.page, page[t]) = page[t]
      BY <1>4
    <3> QED BY <3>1, <3>2
  <2> QED BY <1>2, <1>3, <1>6, <1>7, <2>1, <2>2, <2>3 DEF BrowserInv, BrowserTypes
<1>9. \A c : Possible(c) => Possible(c)'
  BY <1>3 DEF Possible
<1>10. Possible(jar)'
  <2>1. PICK c : c = jar'
    OBVIOUS
  <2>2. Possible(c)
    BY <1>1, <1>2, <1>5, <2>1 DEF Fresh, BrowserInv
  <2> QED BY <1>9, <2>1, <2>2 DEF Possible
<1>11. (jar # NoCookie => jar.issued <= shown + RenewAfter)'
  <2>1. CASE jar' \in a.jar
    BY <1>1, <1>2, <1>7, <2>1, NumbersOfSessions DEF Fresh
  <2>2. CASE a.jar = {} /\ jar' = jar
    <3>1. jar.issued \in Nat
      BY <1>2 DEF Cookies
    <3>2. CASE a.of \in {"sign-in", "view"} /\ jar # NoCookie
      BY <1>1, <1>2, <1>3, <2>2, <3>1, <3>2, NumbersOfSessions DEF Fresh
    <3> QED BY <1>3, <2>2, <3>2 DEF BrowserInv
  <2> QED BY <1>5, <2>1, <2>2
<1>12. ASSUME NEW u \in Tabs
       PROVE  Fresh(u)'
  <2>1. CASE u = t
    <3>1. answer'[u] = NoAnswer
      BY <1>2, <1>3, <2>1
    <3> QED BY <1>6, <3>1 DEF Fresh, Waits
  <2>2. CASE u # t
    <3>1. answer'[u] = answer[u] /\ Fresh(u)
      BY <1>2, <1>3, <2>2 DEF BrowserInv
    <3>2. jar' # NoCookie /\ jar # NoCookie /\ jar.issued <= RenewAfter => jar'.issued <= RenewAfter
      BY <1>1, <1>2, <1>5, NumbersOfSessions DEF Fresh
    <3>3. jar' # NoCookie /\ jar = NoCookie => jar'.issued <= RenewAfter
      BY <1>1, <1>2, <1>5, NumbersOfSessions DEF Fresh
    <3> QED BY <1>9, <3>1, <3>2, <3>3 DEF Fresh, Waits
  <2> QED BY <2>1, <2>2
<1>13. OneAccount'
  BY <1>3 DEF BrowserInv, OneAccount
<1> QED BY <1>8, <1>10, <1>11, <1>12, <1>13 DEF BrowserInv

LEMMA LoseBrowser ==
  ASSUME BrowserInv, NEW t \in Tabs, Lose(t)
  PROVE  BrowserInv'
<1>1. NoAnswer \in Answers /\ NoAnswer.jar = {} /\ NoAnswer.of = "no request"
  BY DEF NoAnswer, Answers
<1>2. /\ answer' = [answer EXCEPT ![t] = NoAnswer] /\ answer \in [Tabs -> Answers]
      /\ UNCHANGED <<cache, jar, nonce, page, signedIn, viewed, shown>>
  BY DEF Lose, tokenVars, browser, history, BrowserInv, BrowserTypes
<1>3. BrowserTypes'
  BY <1>1, <1>2 DEF BrowserInv, BrowserTypes
<1>4. \A c : Possible(c) => Possible(c)'
  BY <1>2 DEF Possible
<1>5. \A u \in Tabs : Fresh(u)'
  BY <1>1, <1>2, <1>4 DEF BrowserInv, Fresh, Waits
<1>6. Possible(jar)' /\ OneAccount'
  BY <1>2 DEF BrowserInv, Possible, OneAccount
<1> QED BY <1>2, <1>3, <1>5, <1>6 DEF BrowserInv

\* A tick ages everything alike, up to the limits.
LEMMA OlderTypes ==
  ASSUME NEW age \in Nat, NEW most \in Nat
  PROVE  /\ Older(age, most) \in Nat
         /\ age <= most + 1 => Older(age, most) <= most + 1
         /\ \A n \in Nat : n <= age => Older(n, most) <= Older(age, most)
BY DEF Older

LEMMA OlderApart ==
  ASSUME NEW a \in Nat, NEW b \in Nat, NEW m \in Nat, NEW n \in Nat, m <= n,
         a <= b, b <= n + 1
  PROVE  Older(a, m) <= Older(b, n)
BY DEF Older

LEMMA OlderBehind ==
  ASSUME NEW i \in Nat, NEW v \in Nat, NEW k \in Nat, NEW m \in Nat, i <= v + k, i <= m + 1
  PROVE  Older(i, m) <= Older(v, m) + k
BY DEF Older

LEMMA TickBrowser ==
  ASSUME BrowserInv, Tick
  PROVE  BrowserInv'
<1>1. /\ jar \in Cookies /\ page \in [Tabs -> Forms] /\ answer \in [Tabs -> Answers]
      /\ signedIn \in 0..(AbsoluteMax + 1) /\ viewed \in 0..(AbsoluteMax + 1)
      /\ shown \in 0..(AbsoluteMax + 1) /\ nonce \in 0..MaxNonces
  BY DEF BrowserInv, BrowserTypes
<1>2. /\ jar' = IF jar = NoCookie THEN jar
                ELSE [jar EXCEPT !.created = Older(@, AbsoluteMax), !.issued = Older(@, IdleMax)]
      /\ signedIn' = Older(signedIn, AbsoluteMax) /\ viewed' = Older(viewed, IdleMax)
      /\ shown' = Older(shown, IdleMax) /\ UNCHANGED <<nonce, answer, cache>>
  BY DEF Tick, tokenVars
<1>3. jar.created \in Nat /\ jar.created <= AbsoluteMax + 1 /\ jar.issued \in Nat
  BY <1>1, NumbersOfSessions DEF Cookies
<1>4. Older(jar.created, AbsoluteMax) \in 0..(AbsoluteMax + 1) /\ Older(jar.issued, IdleMax) \in Nat
  <2>1. Older(jar.created, AbsoluteMax) \in Nat /\ Older(jar.created, AbsoluteMax) <= AbsoluteMax + 1
    BY <1>3, OlderTypes, NumbersOfSessions
  <2>2. Older(jar.issued, IdleMax) \in Nat
    BY <1>3, OlderTypes, NumbersOfSessions
  <2> QED BY <2>1, <2>2, NumbersOfSessions
<1>5. jar' \in Cookies
  BY <1>1, <1>2, <1>4 DEF Cookies
<1>6. /\ signedIn' \in 0..(AbsoluteMax + 1) /\ viewed' \in 0..(AbsoluteMax + 1)
      /\ shown' \in 0..(AbsoluteMax + 1)
  <2>1. \A n, m \in Nat : n <= AbsoluteMax + 1 /\ m <= AbsoluteMax =>
          Older(n, m) \in 0..(AbsoluteMax + 1)
    BY NumbersOfSessions DEF Older
  <2> QED BY <1>1, <1>2, <2>1, NumbersOfSessions
<1>7. page' \in [Tabs -> Forms]
  <2>1. ASSUME NEW f \in Forms, NEW age, age \in {Older(f.age, SignInAge), Older(f.age, FormAge), f.age}
        PROVE  [f EXCEPT !.age = age] \in Forms
    <3>1. f.age \in Nat
      BY DEF Forms
    <3>2. age \in Nat
      BY <2>1, <3>1, OlderTypes, SessionsAssumption
    <3> QED BY <3>2 DEF Forms
  <2>2. ASSUME NEW t \in Tabs
        PROVE  [page[t] EXCEPT !.age = IF page[t].for = "sign-in" THEN Older(@, SignInAge)
                                       ELSE IF page[t].for = "session" THEN Older(@, FormAge) ELSE @]
                 \in Forms
    BY <1>1, <2>1
  <2> QED BY <2>2 DEF Tick
<1>8. BrowserTypes'
  BY <1>1, <1>2, <1>5, <1>6, <1>7 DEF BrowserTypes
<1>9. \A t \in Tabs : ~Waits(t) /\ answer[t].jar = {} /\ answer'[t] = answer[t]
  BY <1>2 DEF Tick, Fresh, BrowserInv
<1>10. \A t \in Tabs : answer[t].of \notin {"sign-in", "view"}
  BY <1>9 DEF Waits
<1>11. \A t \in Tabs : Fresh(t)'
  BY <1>9, <1>10 DEF Fresh, Waits
<1>12. OneAccount'
  BY <1>2 DEF BrowserInv, OneAccount
<1>13. CASE jar = NoCookie
  <2>1. jar' = NoCookie
    BY <1>2, <1>13
  <2> QED BY <1>8, <1>11, <1>12, <2>1 DEF BrowserInv, Possible
<1>14. CASE jar # NoCookie
  <2>1. /\ jar'.token = jar.token /\ jar'.created = Older(jar.created, AbsoluteMax)
        /\ jar'.issued = Older(jar.issued, IdleMax)
    BY <1>1, <1>2, <1>14 DEF Cookies
  <2>2. /\ jar.token # NoToken /\ jar.issued <= jar.created /\ jar.issued <= IdleMax + 1
        /\ signedIn <= jar.created /\ viewed <= jar.issued /\ jar.issued <= shown + RenewAfter
    BY <1>14 DEF BrowserInv, Possible
  <2>3. signedIn \in Nat /\ viewed \in Nat /\ shown \in Nat
    BY <1>1, NumbersOfSessions
  <2>4. jar'.issued <= jar'.created
    BY <1>3, <2>1, <2>2, OlderApart, NumbersOfSessions
  <2>5. jar'.issued <= IdleMax + 1 /\ viewed' <= jar'.issued
    BY <1>2, <1>3, <2>1, <2>2, <2>3, OlderTypes, NumbersOfSessions
  <2>6. signedIn' <= jar'.created
    BY <1>2, <1>3, <2>1, <2>2, <2>3, OlderTypes, NumbersOfSessions
  <2>7. jar'.issued <= shown' + RenewAfter
    BY <1>2, <1>3, <2>1, <2>2, <2>3, OlderBehind, NumbersOfSessions
  <2>8. Possible(jar)'
    BY <2>1, <2>2, <2>4, <2>5, <2>6 DEF Possible
  <2> QED BY <1>8, <1>11, <1>12, <2>7, <2>8 DEF BrowserInv
<1> QED BY <1>13, <1>14

LEMMA ElsewhereBrowser ==
  ASSUME IInv, BrowserInv, NEW p \in Procs, Elsewhere(p)
  PROVE  BrowserInv'
<1>1. UNCHANGED <<jar, nonce, page, answer, signedIn, viewed, shown>>
  BY DEF Elsewhere, browser, history
<1>2. OneAccount'
  <2>1. CASE \E t \in Tokens : Bearer(p, t)
    BY <2>1, RememberOne DEF Bearer, IInv, BrowserInv
  <2>2. CASE Administer(p) \/ Restart(p)
    <3>1. Forget(p)
      BY <2>2 DEF Administer, Restart, Create, Rename, RevokeById, Reactivate, ResetToken, DeleteById
    <3>2. \A q \in Procs : cache'[q] \in {{}, cache[q]}
      BY <3>1 DEF Forget, IInv, TokenInv, TokenTypeOK
    <3> QED BY <3>2 DEF BrowserInv, OneAccount
  <2> QED BY <2>1, <2>2 DEF Elsewhere
<1>3. BrowserTypes' /\ Possible(jar)' /\ \A t \in Tabs : Fresh(t)'
  BY <1>1 DEF BrowserInv, BrowserTypes, Possible, Fresh, Waits
<1> QED BY <1>1, <1>2, <1>3 DEF BrowserInv

\* Every step keeps the ages in order.
LEMMA BrowserStep == IInv /\ BrowserInv /\ [Next]_vars => BrowserInv'
<1> SUFFICES ASSUME IInv, BrowserInv, [Next]_vars PROVE BrowserInv'
  OBVIOUS
<1>1. CASE UNCHANGED vars
  BY <1>1 DEF vars, tokenVars, browser, history, BrowserInv, BrowserTypes, OneAccount, Possible, Fresh, Waits
<1>2. CASE Next
  BY <1>2, SignInPageBrowser, SignInBrowser, ServeBrowser, SignOutBrowser, ArriveBrowser, LoseBrowser,
     ElsewhereBrowser, TickBrowser DEF Next
<1> QED BY <1>1, <1>2

-----------------------------------------------------------------------------

THEOREM BrowserInvariance == Spec => []BrowserInv
<1>1. IInv /\ BrowserInv /\ [Next]_vars => BrowserInv'
  BY BrowserStep
<1> QED BY <1>1, BrowserInit, Invariance, PTL DEF Spec

\* The types of the browser, of the answers under way and of the agents' rows.
THEOREM TypeCorrect == Spec => []TypeOK
<1>1. IInv /\ BrowserInv => TypeOK
  <2> SUFFICES ASSUME IInv, BrowserInv PROVE TypeOK
    OBVIOUS
  <2>1. jar.issued <= jar.created /\ jar.created <= AbsoluteMax + 1
    BY NumbersOfSessions DEF BrowserInv, BrowserTypes, Possible, Cookies, NoCookie, NewCookie
  <2>2. \A t \in Tabs : Cardinality(answer[t].jar) <= 1
    <3>1. \A t \in Tabs : answer[t].jar = {} \/ \E c \in answer[t].jar : answer[t].jar = {c}
      BY DEF BrowserInv, Fresh
    <3>2. ASSUME NEW c PROVE Cardinality({c}) <= 1
      <4>1. Cardinality({c}) = 1
        BY FS_Singleton
      <4> QED BY <4>1
    <3>3. Cardinality({}) <= 1
      BY FS_EmptySet
    <3> QED BY <3>1, <3>2, <3>3
  <2>3. \A t \in Tabs : page[t] \in Forms /\ page[t].nonce <= MaxNonces
    BY NumbersOfSessions DEF BrowserInv, BrowserTypes, Forms
  <2>4. \A t \in Tabs : page[t].for \in {"nothing", "sign-in", "session"}
    BY <2>3 DEF Forms
  <2>5. \A t \in Tabs : \A c \in answer[t].jar : c = NoCookie \/ c.token # NoToken
    BY DEF BrowserInv, Fresh, Possible
  <2>6. jar.who \in Agents \union {Operator} /\ jar.token \in Tokens \union AdminTokens \union {NoToken}
    BY DEF BrowserInv, BrowserTypes, Cookies
  <2> QED BY <2>1, <2>2, <2>3, <2>4, <2>5, <2>6 DEF TypeOK, IInv, TokenInv, BrowserInv, BrowserTypes
<1> QED BY <1>1, Invariance, BrowserInvariance, PTL

\* A session ends AbsoluteMax after the sign-in and IdleMax after the last
\* thing a person did, whatever the tabs ask for by themselves (auth.ts:445-447).
THEOREM SessionsEndInTime == Spec => SessionsEnd
<1>1. IInv /\ BrowserInv /\ [Next]_vars => [LetsIn => signedIn <= AbsoluteMax /\ viewed <= IdleMax]_vars
  <2> SUFFICES ASSUME IInv, BrowserInv, [Next]_vars, LetsIn
               PROVE  signedIn <= AbsoluteMax /\ viewed <= IdleMax
    OBVIOUS
  <2>1. InTime(jar)
    BY StepInv DEF Stands
  <2>2. /\ jar.created \in Nat /\ jar.issued \in Nat /\ signedIn \in Nat /\ viewed \in Nat
        /\ signedIn <= jar.created /\ viewed <= jar.issued
    BY <2>1, NumbersOfSessions DEF InTime, BrowserInv, BrowserTypes, Possible, Cookies
  <2> QED BY <2>1, <2>2, NumbersOfSessions DEF InTime
<1> QED BY <1>1, Invariance, BrowserInvariance, PTL DEF Spec, SessionsEnd

\* Who comes back within IdleMax - RenewAfter finds the session, whichever tab
\* the renewals went to (auth.ts, middleware).
THEOREM ActiveStays == Spec => []ActiveUserStays
<1>1. BrowserInv => ActiveUserStays
  <2> SUFFICES ASSUME BrowserInv, jar # NoCookie, shown <= IdleMax - RenewAfter, jar.created <= AbsoluteMax
               PROVE  InTime(jar)
    BY DEF ActiveUserStays
  <2>1. jar.issued \in Nat /\ shown \in Nat /\ jar.issued <= shown + RenewAfter
    BY NumbersOfSessions DEF BrowserInv, BrowserTypes, Cookies
  <2> QED BY <2>1, NumbersOfSessions DEF InTime
<1> QED BY <1>1, BrowserInvariance, PTL


-----------------------------------------------------------------------------
(***************************************************************************)
(* The connect flow (Connect).                                             *)
(***************************************************************************)

\* Who is stored has a name.
NamesInUse == \A a \in Stored : row[a].name \in Names

\* Moments are numbers, and none is still to come.
MomentsPassed ==
  /\ now \in Nat
  /\ lastSeen \in [Agents -> Int] /\ \A a \in Agents : lastSeen[a] <= now
  /\ bucket \in [Names -> Int] /\ \A n \in Names : bucket[n] <= now
  /\ \A w \in writes : w.at \in Int /\ w.at <= now

\* Before the first flow there is no session and nobody is followed.
FlowFits ==
  /\ session \in [proc: Procs \union {NoProc}, agent: Agents \union {NoAgent},
                  token: Tokens \union {NoToken}, at: Int]
  /\ session.at = Never \/ (session.at \in Nat /\ session.at <= now)
  /\ session.at = Never => session.agent = NoAgent /\ session.proc = NoProc

\* After the flow's first tick what was under way before it is over, and the
\* bucket's entries are young.
EntriesLast ==
  session.at < now =>
    /\ \A w \in writes : w.at = now
    /\ \A n \in Names : bucket[n] # Never => now - bucket[n] < LiveFor

\* What the bucket holds or gets of the time since the flow began, somebody
\* left who came under that name.
CameUnder ==
  session.at # Never =>
    /\ \A n \in Names : bucket[n] >= session.at => n \in cameAs
    /\ \A w \in writes : w.at >= session.at => w.name \in cameAs

\* The flow's agent came after the flow began, and its row says so.
ItselfSeen ==
  cameItself # Never =>
    /\ session.at # Never /\ session.agent \in Agents
    /\ cameItself \in Int /\ session.at <= cameItself /\ cameItself <= lastSeen[session.agent]

\* The inductive invariant.
ConnectInv ==
  /\ TokenInv /\ NamesInUse
  /\ MomentsPassed /\ FlowFits /\ EntriesLast /\ CameUnder /\ ItselfSeen

LEMMA ConnectNumbers ==
  /\ LiveFor \in Nat /\ 0 < LiveFor /\ StaleFor \in Nat /\ SessionLife \in Nat
  /\ Never = -1 /\ NoAgent \notin Agents /\ NoProc \notin Procs
BY ConnectAssumption, AgentTokensAssumption

LEMMA ConnectBegins == ConnectInit => ConnectInv
<1> SUFFICES ASSUME ConnectInit
             PROVE  ConnectInv
  OBVIOUS
<1>1. TokenInv /\ NamesInUse
  BY TokenInitInv DEF ConnectInit, TokenInit, NamesInUse, Stored
<1>2. /\ now = 0 /\ lastSeen = [a \in Agents |-> Never] /\ bucket = [n \in Names |-> Never]
      /\ writes = {} /\ session.at = Never /\ session.agent = NoAgent /\ session.proc = NoProc
      /\ cameItself = Never
  BY DEF ConnectInit, NoSession
<1>3. MomentsPassed
  BY <1>2, ConnectNumbers DEF MomentsPassed
<1>5. FlowFits
  <2>1. session \in [proc: Procs \union {NoProc}, agent: Agents \union {NoAgent},
                     token: Tokens \union {NoToken}, at: Int]
    BY ConnectNumbers DEF ConnectInit, NoSession
  <2> QED BY <1>2, <2>1 DEF FlowFits
<1>4. EntriesLast /\ CameUnder /\ ItselfSeen
  BY <1>2 DEF EntriesLast, CameUnder, ItselfSeen
<1> QED BY <1>1, <1>3, <1>4, <1>5 DEF ConnectInv

-----------------------------------------------------------------------------

\* What the operator does to agents leaves the stored ones with names.
LEMMA NamesStay ==
  ASSUME TokenInv, NamesInUse, NEW p \in Procs, NEW a \in Agents,
         \/ \E n \in Names : Create(p, a, n) \/ Rename(p, a, n)
         \/ RevokeById(p, a) \/ Reactivate(p, a) \/ ResetToken(p, a) \/ DeleteById(p, a)
  PROVE  TokenInv' /\ NamesInUse'
<1>1. TokenInv'
  BY CreateInv, RenameInv, RevokeInv, ReactivateInv, ResetInv, DeleteInv
<1>2. row \in [Agents -> Rows]
  BY DEF TokenInv, TokenTypeOK
<1>3. ASSUME NEW b \in Agents, b \in Stored'
      PROVE  row'[b].name \in Names
  <2>1. CASE row'[b] = row[b]
    BY <1>3, <2>1 DEF NamesInUse, Stored
  <2>2. CASE row'[b] # row[b]
    <3>1. ASSUME NEW n \in Names, Create(p, a, n)
          PROVE  row'[b].name \in Names
      BY <1>2, <2>2, <3>1 DEF Create
    <3>2. ASSUME NEW n \in Names, Rename(p, a, n)
          PROVE  row'[b].name \in Names
      BY <1>2, <2>2, <3>2 DEF Rename, Rows
    <3>3. CASE RevokeById(p, a)
      BY <1>2, <2>2, <3>3 DEF RevokeById, Rows, NamesInUse
    <3>4. CASE Reactivate(p, a)
      BY <1>2, <2>2, <3>4 DEF Reactivate, Rows, NamesInUse, Stored
    <3>5. CASE ResetToken(p, a)
      BY <1>2, <2>2, <3>5 DEF ResetToken, Rows, NamesInUse, Stored, Active
    <3>6. CASE DeleteById(p, a)
      BY <1>2, <1>3, <2>2, <3>6 DEF DeleteById, Stored
    <3> QED BY <3>1, <3>2, <3>3, <3>4, <3>5, <3>6
  <2> QED BY <2>1, <2>2
<1> QED BY <1>1, <1>3 DEF NamesInUse, Stored

\* The agents stay as they are.
LEMMA NamesStutter ==
  ASSUME TokenInv, NamesInUse,
         \/ UNCHANGED tokenVars
         \/ \E p \in Procs, t \in Tokens : Bearer(p, t)
         \/ \E p \in Procs : Restart(p)
  PROVE  TokenInv' /\ NamesInUse'
<1>1. TokenInv'
  BY TokenStutter, RememberInv, RestartInv DEF Bearer
<1>2. row' = row
  BY DEF tokenVars, Bearer, Restart
<1> QED BY <1>1, <1>2 DEF NamesInUse, Stored

\* No moment moves, and the flow keeps its agent and its beginning.
LEMMA PresenceStays ==
  ASSUME ConnectInv, UNCHANGED <<now, presenceVars>>, TokenInv', NamesInUse',
         session' = session \/ session' = [session EXCEPT !.proc = NoProc]
  PROVE  ConnectInv'
<1>1. UNCHANGED <<now, lastSeen, bucket, writes, cameAs, cameItself>>
  BY DEF presenceVars
<1>2. session \in [proc: Procs \union {NoProc}, agent: Agents \union {NoAgent},
                   token: Tokens \union {NoToken}, at: Int]
  BY DEF ConnectInv, FlowFits
<1>3. /\ session'.at = session.at /\ session'.agent = session.agent
      /\ session'.proc \in {session.proc, NoProc}
      /\ session' \in [proc: Procs \union {NoProc}, agent: Agents \union {NoAgent},
                       token: Tokens \union {NoToken}, at: Int]
  BY <1>2
<1> QED
  BY <1>1, <1>3 DEF ConnectInv, MomentsPassed, FlowFits, EntriesLast, CameUnder, ItselfSeen

\* Somebody comes under a name: the rows and the writes say that it is now.
LEMMA TouchKeeps ==
  ASSUME ConnectInv, NEW n, Touch(n), UNCHANGED <<now, bucket, session>>,
         TokenInv', NamesInUse',
         \/ cameItself' = cameItself
         \/ cameItself' = now /\ session.agent \in Bears(n)
  PROVE  ConnectInv'
<1> DEFINE new == [name |-> n, at |-> now]
<1>1. /\ lastSeen' = [a \in Agents |-> IF a \in Bears(n) THEN now ELSE lastSeen[a]]
      /\ writes' = writes \union {new} /\ cameAs' = cameAs \union {n}
  BY DEF Touch
<1>2. new.name = n /\ new.at = now
  OBVIOUS
<1> HIDE DEF new
<1>3. now \in Nat /\ \A a \in Agents : lastSeen[a] \in Int /\ lastSeen[a] <= now
  BY DEF ConnectInv, MomentsPassed
<1>4. /\ lastSeen' \in [Agents -> Int]
      /\ \A a \in Agents : lastSeen'[a] <= now /\ lastSeen[a] <= lastSeen'[a]
  BY <1>1, <1>3
<1>5. MomentsPassed'
  BY <1>1, <1>2, <1>3, <1>4 DEF ConnectInv, MomentsPassed
<1>6. FlowFits'
  BY DEF ConnectInv, FlowFits
<1>7. EntriesLast'
  BY <1>1, <1>2 DEF ConnectInv, EntriesLast
<1>8. CameUnder'
  BY <1>1, <1>2 DEF ConnectInv, CameUnder
<1>9. ItselfSeen'
  <2>1. CASE cameItself' = cameItself
    <3> SUFFICES ASSUME cameItself # Never
                 PROVE  /\ session.at # Never /\ session.agent \in Agents
                        /\ cameItself \in Int /\ session.at <= cameItself
                        /\ cameItself <= lastSeen'[session.agent]
      BY <2>1 DEF ItselfSeen
    <3>1. /\ session.at # Never /\ session.agent \in Agents
          /\ cameItself \in Int /\ session.at <= cameItself /\ cameItself <= lastSeen[session.agent]
      BY DEF ConnectInv, ItselfSeen
    <3>2. lastSeen'[session.agent] \in Int /\ lastSeen[session.agent] \in Int
          /\ lastSeen[session.agent] <= lastSeen'[session.agent]
      BY <1>3, <1>4, <3>1
    <3> QED BY <3>1, <3>2
  <2>2. CASE cameItself' = now /\ session.agent \in Bears(n)
    <3>1. session.agent \in Agents
      BY <2>2 DEF Bears, Stored
    <3>2. session.at # Never /\ session.at <= now
      BY <3>1, ConnectNumbers DEF ConnectInv, FlowFits
    <3>3. lastSeen'[session.agent] = now
      BY <1>1, <2>2, <3>1
    <3> QED BY <1>3, <2>2, <3>1, <3>2, <3>3 DEF ItselfSeen
  <2> QED BY <2>1, <2>2
<1> QED BY <1>5, <1>6, <1>7, <1>8, <1>9 DEF ConnectInv

LEMMA ContactStep ==
  ASSUME ConnectInv, NEW p \in Procs, NEW t \in Tokens, Contact(p, t)
  PROVE  ConnectInv'
<1>1. PICK a \in Found(p, t) :
        /\ Bearer(p, t) /\ Touch(NameOf(p, t, a))
        /\ cameItself' = IF a = session.agent /\ a \in Bears(NameOf(p, t, a)) THEN now
                         ELSE cameItself
        /\ UNCHANGED <<now, bucket, pageVars>>
  BY DEF Contact
<1>2. TokenInv' /\ NamesInUse'
  BY <1>1, NamesStutter DEF ConnectInv
<1> QED BY <1>1, <1>2, TouchKeeps DEF pageVars

LEMMA RegisterStep ==
  ASSUME ConnectInv, NEW n \in Names, Register(n)
  PROVE  ConnectInv'
<1>1. TokenInv' /\ NamesInUse'
  BY NamesStutter DEF ConnectInv, Register
<1> QED BY <1>1, TouchKeeps DEF Register, pageVars

\* A write ends, and may be the bucket's.
LEMMA WriteStep ==
  ASSUME ConnectInv, NEW w \in writes, WriteLands(w) \/ WriteFails(w)
  PROVE  ConnectInv'
<1>1. /\ writes' = writes \ {w} /\ bucket' \in {bucket, [bucket EXCEPT ![w.name] = w.at]}
      /\ UNCHANGED <<now, lastSeen, cameAs, cameItself, session>> /\ UNCHANGED tokenVars
  BY DEF WriteLands, WriteFails, pageVars
<1>2. TokenInv' /\ NamesInUse'
  BY <1>1, NamesStutter DEF ConnectInv
<1>3. w.at \in Int /\ w.at <= now /\ now \in Nat /\ bucket \in [Names -> Int]
  BY DEF ConnectInv, MomentsPassed
<1>4. /\ bucket' \in [Names -> Int]
      /\ \A n \in Names : bucket'[n] = bucket[n] \/ (n = w.name /\ bucket'[n] = w.at)
  BY <1>1, <1>3
<1>5. MomentsPassed'
  BY <1>1, <1>3, <1>4 DEF ConnectInv, MomentsPassed
<1>6. EntriesLast'
  <2> SUFFICES ASSUME session.at < now
               PROVE  /\ \A v \in writes' : v.at = now
                      /\ \A n \in Names : bucket'[n] # Never => now - bucket'[n] < LiveFor
    BY <1>1 DEF EntriesLast
  <2>1. /\ \A v \in writes : v.at = now
        /\ \A n \in Names : bucket[n] # Never => now - bucket[n] < LiveFor
    BY DEF ConnectInv, EntriesLast
  <2>2. now - w.at < LiveFor
    BY <1>3, <2>1, ConnectNumbers
  <2> QED BY <1>1, <1>4, <2>1, <2>2
<1>7. CameUnder'
  BY <1>1, <1>4 DEF ConnectInv, CameUnder
<1>8. FlowFits' /\ ItselfSeen'
  BY <1>1 DEF ConnectInv, FlowFits, ItselfSeen
<1> QED BY <1>2, <1>5, <1>6, <1>7, <1>8 DEF ConnectInv

\* What a tick leaves in the bucket.
LEMMA LaterBucket ==
  ASSUME ConnectInv, Later
  PROVE  /\ now \in Nat /\ now' = now + 1 /\ bucket' \in [Names -> Int]
         /\ \A n \in Names :
              \/ bucket'[n] = Never
              \/ bucket'[n] = bucket[n] /\ now' - bucket[n] < LiveFor
         /\ \A n \in Names : bucket'[n] \in Int /\ bucket'[n] <= now
<1>1. now \in Nat /\ now' = now + 1 /\ bucket' = [n \in Names |-> BucketEnds(n)]
  BY DEF Later, ConnectInv, MomentsPassed
<1>2. ASSUME NEW n \in Names
      PROVE  /\ bucket'[n] \in Int /\ bucket'[n] <= now
             /\ \/ bucket'[n] = Never
                \/ bucket'[n] = bucket[n] /\ now' - bucket[n] < LiveFor
  <2>1. bucket[n] \in Int /\ bucket[n] <= now
    BY DEF ConnectInv, MomentsPassed
  <2>2. bucket'[n] = IF bucket[n] # Never /\ now' - bucket[n] >= LiveFor THEN Never ELSE bucket[n]
    BY <1>1 DEF BucketEnds
  <2> QED BY <1>1, <2>1, <2>2, ConnectNumbers
<1>3. bucket' \in [Names -> Int]
  BY <1>1, <1>2
<1> QED BY <1>1, <1>2, <1>3

\* Time passes, and what was under way is over.
LEMMA TickKeeps ==
  ASSUME ConnectInv, ConnectTick
  PROVE  ConnectInv'
<1>1. /\ Later /\ writes' = {} /\ UNCHANGED tokenVars
      /\ UNCHANGED <<lastSeen, cameAs, cameItself, session>>
  BY DEF ConnectTick
<1>2. TokenInv' /\ NamesInUse'
  BY <1>1, NamesStutter DEF ConnectInv
<1>3. /\ now \in Nat /\ now' = now + 1 /\ bucket' \in [Names -> Int]
      /\ \A n \in Names :
           \/ bucket'[n] = Never
           \/ bucket'[n] = bucket[n] /\ now' - bucket[n] < LiveFor
      /\ \A n \in Names : bucket'[n] \in Int /\ bucket'[n] <= now
  BY <1>1, LaterBucket
<1>4. MomentsPassed'
  <2>1. \A a \in Agents : lastSeen[a] \in Int /\ lastSeen[a] <= now
    BY DEF ConnectInv, MomentsPassed
  <2>2. \A a \in Agents : lastSeen[a] <= now'
    BY <1>3, <2>1
  <2>3. \A n \in Names : bucket'[n] <= now'
    BY <1>3
  <2>4. now' \in Nat
    BY <1>3
  <2> QED BY <1>1, <1>3, <2>2, <2>3, <2>4 DEF ConnectInv, MomentsPassed
<1>5. FlowFits'
  BY <1>1, <1>3 DEF ConnectInv, FlowFits
<1>6. EntriesLast'
  BY <1>1, <1>3 DEF EntriesLast
<1>7. CameUnder'
  <2> SUFFICES ASSUME session.at # Never, NEW n \in Names, bucket'[n] >= session.at
               PROVE  n \in cameAs
    BY <1>1 DEF CameUnder
  <2>1. bucket'[n] # Never
    <3>1. session.at \in Nat
      BY DEF ConnectInv, FlowFits
    <3> QED BY <3>1, ConnectNumbers
  <2> QED BY <1>3, <2>1 DEF ConnectInv, CameUnder
<1>8. ItselfSeen'
  BY <1>1 DEF ConnectInv, ItselfSeen
<1> QED BY <1>2, <1>4, <1>5, <1>6, <1>7, <1>8 DEF ConnectInv

\* A new flow: everything that was before it is older.
LEMMA ConnectCreateStep ==
  ASSUME ConnectInv, NEW p \in Procs, NEW n \in Names, ConnectCreate(p, n)
  PROVE  ConnectInv'
<1>1. /\ Later /\ cameAs' = {} /\ cameItself' = Never /\ UNCHANGED <<lastSeen, writes>>
      /\ \E a \in Agents :
           /\ Create(p, a, n)
           /\ session' = [proc |-> p, agent |-> a, token |-> minted', at |-> now']
  BY DEF ConnectCreate
<1>2. TokenInv' /\ NamesInUse'
  BY <1>1, NamesStay DEF ConnectInv
<1>3. /\ now \in Nat /\ now' = now + 1 /\ bucket' \in [Names -> Int]
      /\ \A m \in Names : bucket'[m] \in Int /\ bucket'[m] <= now
  BY <1>1, LaterBucket
<1>4. session'.at = now'
  BY <1>1
<1>5. now' \in Nat /\ now < now' /\ now' # Never
  BY <1>3, ConnectNumbers
<1>6. (\A a \in Agents : lastSeen[a] \in Int /\ lastSeen[a] <= now)
      /\ \A w \in writes : w.at \in Int /\ w.at <= now
  BY DEF ConnectInv, MomentsPassed
<1>7. MomentsPassed'
  <2>1. \A a \in Agents : lastSeen[a] <= now'
    BY <1>3, <1>5, <1>6
  <2>2. \A w \in writes : w.at \in Int /\ w.at <= now'
    BY <1>3, <1>5, <1>6
  <2>3. \A m \in Names : bucket'[m] <= now'
    BY <1>3, <1>5
  <2> QED BY <1>1, <1>3, <1>5, <2>1, <2>2, <2>3 DEF ConnectInv, MomentsPassed
<1>8. FlowFits'
  <2>1. minted' \in Tokens
    <3>1. minted \in 0..MaxTokens
      BY DEF ConnectInv, TokenInv, TokenTypeOK
    <3>2. minted < MaxTokens /\ minted' = minted + 1
      BY <1>1 DEF Create, DrawToken
    <3> QED BY <3>1, <3>2, AgentTokensAssumption DEF Tokens
  <2>2. session' \in [proc: Procs \union {NoProc}, agent: Agents \union {NoAgent},
                      token: Tokens \union {NoToken}, at: Int]
    BY <1>1, <1>5, <2>1
  <2> QED BY <1>4, <1>5, <2>2 DEF FlowFits
<1>9. EntriesLast'
  BY <1>4, <1>5 DEF EntriesLast
<1>10. CameUnder'
  <2>1. \A m \in Names : ~(bucket'[m] >= now')
    BY <1>3, <1>5
  <2>2. \A w \in writes : ~(w.at >= now')
    BY <1>3, <1>6
  <2> QED BY <1>1, <1>4, <2>1, <2>2 DEF CameUnder
<1>11. ItselfSeen'
  BY <1>1 DEF ItselfSeen
<1> QED BY <1>2, <1>7, <1>8, <1>9, <1>10, <1>11 DEF ConnectInv

LEMMA ConnectStep ==
  ASSUME ConnectInv, [ConnectNext]_connectVars
  PROVE  ConnectInv'
<1>1. ASSUME NEW p \in Procs, NewToken(p) \/ Change(p)
      PROVE  ConnectInv'
  <2>1. TokenInv' /\ NamesInUse'
    BY <1>1, NamesStay DEF ConnectInv, NewToken, Change
  <2>2. UNCHANGED <<now, presenceVars, session>>
    BY <1>1 DEF NewToken, Change, pageVars
  <2> QED BY <2>1, <2>2, PresenceStays
<1>2. ASSUME NEW p \in Procs, ShowBand(p)
      PROVE  ConnectInv'
  BY <1>2, NamesStutter, PresenceStays DEF ShowBand, ConnectInv
<1>3. ASSUME NEW p \in Procs, ProcRestarts(p)
      PROVE  ConnectInv'
  BY <1>3, NamesStutter, PresenceStays DEF ProcRestarts, ConnectInv
<1>4. CASE UNCHANGED connectVars
  <2>1. UNCHANGED <<now, presenceVars, session>> /\ UNCHANGED tokenVars
    BY <1>4 DEF connectVars, pageVars
  <2> QED BY <2>1, NamesStutter, PresenceStays DEF ConnectInv
<1> QED BY <1>1, <1>2, <1>3, <1>4, ContactStep, RegisterStep, WriteStep, TickKeeps,
           ConnectCreateStep DEF ConnectNext

\* The invariant holds of every behaviour of the connect flow.
THEOREM ConnectInvariance == ConnectSpec => []ConnectInv
<1>1. ConnectInv /\ [ConnectNext]_connectVars => ConnectInv'
  BY ConnectStep
<1> QED BY <1>1, ConnectBegins, PTL DEF ConnectSpec

\* What the last step reads of the agent whose flow stands.
LEMMA WhatIsRead ==
  ASSUME ConnectInv, NEW p \in Procs, Followed(p)
  PROVE  /\ session.at \in Nat /\ session.at <= now /\ now \in Nat
         /\ session.agent \in Agents /\ row[session.agent].name \in Names
         /\ lastSeen[session.agent] \in Int /\ lastSeen[session.agent] <= now
         /\ bucket[row[session.agent].name] \in Int
<1>1. session.proc \in Procs /\ session.agent \in Stored
  BY DEF Followed, HasSession
<1>2. session.at # Never
  BY <1>1, ConnectNumbers DEF ConnectInv, FlowFits
<1> QED BY <1>1, <1>2 DEF ConnectInv, FlowFits, MomentsPassed, NamesInUse, Stored

\* The last step of the connect flow tells of this agent's own hello, and
\* tells it, for any agents, names, processes, renames, late writes and
\* restarts (agent-connect.ts:177).
THEOREM OwnHandshake == ConnectSpec => []HandshakeIsOwn
<1>1. ASSUME ConnectInv
      PROVE  HandshakeIsOwn
  <2> SUFFICES ASSUME NEW p \in Procs, NEW reads \in BOOLEAN, Followed(p)
               PROVE  /\ Handshake(p, reads) = "seen" =>
                           lastSeen[session.agent] >= session.at \/ row[session.agent].name \in cameAs
                      /\ cameItself # Never /\ now - cameItself >= LiveFor
                           => Handshake(p, reads) = "seen"
                      /\ \A step \in 2..4 : StepPage(p, step) # "expired"
                      /\ Handshake(p, reads) = "seen" => Presence(session.agent, reads) # "never"
    BY DEF HandshakeIsOwn, NoEarlierLife, HelloIsSeen, PagesAgree
  <2> DEFINE a == session.agent
             seen == EffectiveLastSeen(a, reads)
  <2>1. /\ session.at \in Nat /\ session.at <= now /\ now \in Nat
        /\ a \in Agents /\ row[a].name \in Names /\ lastSeen[a] \in Int /\ lastSeen[a] <= now
        /\ bucket[row[a].name] \in Int
    BY <1>1, WhatIsRead
  <2>2. Handshake(p, reads) = "seen" <=> seen # Never /\ seen >= session.at
    BY DEF Followed, Handshake, Seen
  <2>3. \/ reads /\ bucket[row[a].name] # Never /\ seen = bucket[row[a].name]
        \/ ~(reads /\ bucket[row[a].name] # Never) /\ seen = lastSeen[a]
    BY DEF EffectiveLastSeen
  <2> HIDE DEF seen
  <2>4. Handshake(p, reads) = "seen" => lastSeen[a] >= session.at \/ row[a].name \in cameAs
    BY <1>1, <2>1, <2>2, <2>3, ConnectNumbers DEF ConnectInv, CameUnder
  <2>5. cameItself # Never /\ now - cameItself >= LiveFor => Handshake(p, reads) = "seen"
    <3> SUFFICES ASSUME cameItself # Never, now - cameItself >= LiveFor
                 PROVE  seen # Never /\ seen >= session.at
      BY <2>2
    <3>1. cameItself \in Int /\ session.at <= cameItself /\ cameItself <= lastSeen[a]
      BY <1>1 DEF ConnectInv, ItselfSeen
    <3>2. session.at < now
      BY <2>1, <3>1, ConnectNumbers
    <3>3. bucket[row[a].name] # Never => now - bucket[row[a].name] < LiveFor
      BY <1>1, <2>1, <3>2 DEF ConnectInv, EntriesLast
    <3>4. lastSeen[a] >= session.at /\ lastSeen[a] # Never
      BY <2>1, <3>1, ConnectNumbers
    <3>5. bucket[row[a].name] # Never => bucket[row[a].name] >= session.at
      BY <2>1, <3>1, <3>3, ConnectNumbers
    <3> QED BY <2>3, <3>4, <3>5
  <2>6. \A step \in 2..4 : StepPage(p, step) # "expired"
    BY DEF Followed, StepPage
  <2>7. Handshake(p, reads) = "seen" => Presence(a, reads) # "never"
    <3>1. seen # Never => InBucket(a, reads) \/ lastSeen[a] # Never
      BY <2>3 DEF InBucket
    <3>2. InBucket(a, reads) \/ lastSeen[a] # Never => Presence(a, reads) # "never"
      BY DEF Presence
    <3> QED BY <2>2, <3>1, <3>2
  <2> QED BY <2>4, <2>5, <2>6, <2>7
<1> QED BY <1>1, ConnectInvariance, PTL

-----------------------------------------------------------------------------
(***************************************************************************)
(* The titles of the board's links (ResultTitles).                         *)
(***************************************************************************)

Entries == [id: Links, title: BOOLEAN, until: Nat]

\* The inductive invariant: the queue and the lookups name every id once, and
\* so does the cache.
TitleInv ==
  /\ clock \in Nat
  /\ titles \in Seq(Entries) /\ Len(titles) <= MaxEntries
  /\ \A i, j \in DOMAIN titles : titles[i].id = titles[j].id => i = j
  /\ asking \subseteq Links /\ IsFiniteSet(asking) /\ Cardinality(asking) <= MaxInFlight
  /\ queue \in Seq(Links) /\ IsInjective(queue) /\ ToSet(queue) \cap asking = {}
  /\ queue # <<>> => Cardinality(asking) = MaxInFlight

\* A sequence that repeats nothing is as long as it names things.
LEMMA CountOfDistinct ==
  ASSUME NEW S, NEW s \in Seq(S), IsInjective(s)
  PROVE  IsFiniteSet(ToSet(s)) /\ Cardinality(ToSet(s)) = Len(s)
<1>1. Len(s) \in Nat /\ DOMAIN s = 1..Len(s)
  BY LenProperties
<1>2. s \in [1..Len(s) -> ToSet(s)]
  BY <1>1, LenProperties DEF ToSet
<1>3. s \in Bijection(1..Len(s), ToSet(s))
  BY <1>1, <1>2 DEF Bijection, Injection, Surjection, ToSet
<1>4. ExistsBijection(1..Len(s), ToSet(s))
  BY <1>3 DEF ExistsBijection
<1> QED BY <1>1, <1>4, FS_CountingElements, FS_NatBijection

\* The first of a sequence, and the rest.
LEMMA FirstOf ==
  ASSUME NEW S, NEW q \in Seq(S), NEW n \in Nat, n <= Len(q)
  PROVE  /\ SubSeq(q, 1, n) \in Seq(S) /\ Len(SubSeq(q, 1, n)) = n
         /\ DOMAIN SubSeq(q, 1, n) = 1..n
         /\ \A i \in 1..n : i \in DOMAIN q /\ SubSeq(q, 1, n)[i] = q[i]
<1> DEFINE s == SubSeq(q, 1, n)
<1>1. Len(q) \in Nat /\ DOMAIN q = 1..Len(q)
  BY LenProperties
<1>2. \A i \in 1..n : i \in 1..Len(q)
  BY <1>1
<1>3. \A i \in 1..n : q[i] \in S
  BY <1>2, ElementOfSeq
<1>4. /\ s \in Seq(S) /\ Len(s) = IF 1 <= n THEN n - 1 + 1 ELSE 0
      /\ \A i \in 1..(n - 1 + 1) : s[i] = q[1 + i - 1]
  BY <1>3, SubSeqProperties
<1> HIDE DEF s
<1>5. Len(s) = n
  BY <1>4
<1>6. DOMAIN s = 1..n
  BY <1>4, <1>5, LenProperties
<1>7. ASSUME NEW i \in 1..n
      PROVE  s[i] = q[i]
  <2>1. i \in 1..(n - 1 + 1) /\ 1 + i - 1 = i
    OBVIOUS
  <2> QED BY <1>4, <2>1
<1> QED BY <1>1, <1>2, <1>4, <1>5, <1>6, <1>7 DEF s

LEMMA RestOf ==
  ASSUME NEW S, NEW q \in Seq(S), NEW n \in Nat, n <= Len(q)
  PROVE  LET r == SubSeq(q, n + 1, Len(q))
         IN  /\ r \in Seq(S) /\ Len(r) = Len(q) - n /\ DOMAIN r = 1..(Len(q) - n)
             /\ \A i \in 1..(Len(q) - n) : n + i \in DOMAIN q /\ r[i] = q[n + i]
<1> DEFINE r == SubSeq(q, n + 1, Len(q))
<1>1. Len(q) \in Nat /\ DOMAIN q = 1..Len(q)
  BY LenProperties
<1>2. \A i \in (n + 1)..Len(q) : i \in 1..Len(q)
  BY <1>1
<1>3. \A i \in (n + 1)..Len(q) : q[i] \in S
  BY <1>2, ElementOfSeq
<1>4. /\ r \in Seq(S) /\ Len(r) = IF n + 1 <= Len(q) THEN Len(q) - (n + 1) + 1 ELSE 0
      /\ \A i \in 1..(Len(q) - (n + 1) + 1) : r[i] = q[(n + 1) + i - 1]
  BY <1>1, <1>3, SubSeqProperties
<1> HIDE DEF r
<1>5. Len(r) = Len(q) - n
  <2> DEFINE l == Len(q)
  <2>1. l \in Nat /\ n <= l
    BY <1>1
  <2>2. Len(r) = IF n + 1 <= l THEN l - (n + 1) + 1 ELSE 0
    BY <1>4
  <2> HIDE DEF l
  <2>3. (IF n + 1 <= l THEN l - (n + 1) + 1 ELSE 0) = l - n
    BY <2>1
  <2> QED BY <2>2, <2>3 DEF l
<1>6. DOMAIN r = 1..(Len(q) - n)
  BY <1>4, <1>5, LenProperties
<1>7. ASSUME NEW i \in 1..(Len(q) - n)
      PROVE  n + i \in DOMAIN q /\ r[i] = q[n + i]
  <2>1. i \in 1..(Len(q) - (n + 1) + 1) /\ (n + 1) + i - 1 = n + i /\ n + i \in 1..Len(q)
    BY <1>1
  <2> QED BY <1>1, <1>4, <2>1
<1> QED BY <1>4, <1>5, <1>6, <1>7 DEF r

\* pump: what it starts and what it leaves.
LEMMA PumpKeeps ==
  ASSUME NEW a \in SUBSET Links, IsFiniteSet(a), Cardinality(a) <= MaxInFlight,
         NEW q \in Seq(Links), IsInjective(q), ToSet(q) \cap a = {}, Pump(a, q)
  PROVE  /\ asking' \subseteq Links /\ IsFiniteSet(asking') /\ Cardinality(asking') <= MaxInFlight
         /\ queue' \in Seq(Links) /\ IsInjective(queue') /\ ToSet(queue') \cap asking' = {}
         /\ queue' # <<>> => Cardinality(asking') = MaxInFlight
<1> DEFINE free == MaxInFlight - Cardinality(a)
           n == IF Len(q) < free THEN Len(q) ELSE free
           s == SubSeq(q, 1, n)
           r == SubSeq(q, n + 1, Len(q))
<1>1. asking' = a \cup ToSet(s) /\ queue' = r
  BY DEF Pump
<1>2. /\ Cardinality(a) \in Nat /\ MaxInFlight \in Nat /\ Len(q) \in Nat
      /\ DOMAIN q = 1..Len(q) /\ \A i \in 1..Len(q) : q[i] \in Links
  BY FS_CardinalityType, TitlesAssumption, LenProperties, ElementOfSeq
<1>3. /\ n \in Nat /\ n <= Len(q) /\ Cardinality(a) + n <= MaxInFlight
      /\ n = Len(q) \/ Cardinality(a) + n = MaxInFlight
  BY <1>2
<1> HIDE DEF n
<1>4. /\ s \in Seq(Links) /\ Len(s) = n /\ DOMAIN s = 1..n
      /\ \A i \in 1..n : i \in DOMAIN q /\ s[i] = q[i]
  BY <1>3, FirstOf
<1>5. /\ r \in Seq(Links) /\ Len(r) = Len(q) - n /\ DOMAIN r = 1..(Len(q) - n)
      /\ \A i \in 1..(Len(q) - n) : n + i \in DOMAIN q /\ r[i] = q[n + i]
  BY <1>3, RestOf
<1> HIDE DEF s, r
<1>6. \A i, j \in 1..Len(q) : q[i] = q[j] => i = j
  BY <1>2 DEF IsInjective
<1>7. IsInjective(s) /\ ToSet(s) \subseteq ToSet(q) /\ ToSet(s) \subseteq Links
  BY <1>2, <1>4, <1>6 DEF IsInjective, ToSet
<1>8. IsInjective(r) /\ ToSet(r) \subseteq ToSet(q)
  <2>1. ToSet(r) \subseteq ToSet(q)
    BY <1>5 DEF ToSet
  <2>2. ASSUME NEW i \in 1..(Len(q) - n), NEW j \in 1..(Len(q) - n), r[i] = r[j]
        PROVE  i = j
    <3>1. n + i = n + j
      BY <1>2, <1>5, <1>6, <2>2
    <3> QED BY <1>3, <3>1
  <2> QED BY <1>5, <2>1, <2>2 DEF IsInjective
<1>9. ToSet(s) \cap ToSet(r) = {}
  <2> SUFFICES ASSUME NEW i \in 1..n, NEW j \in 1..(Len(q) - n), s[i] = r[j]
               PROVE  FALSE
    BY <1>4, <1>5 DEF ToSet
  <2>1. i \in 1..Len(q) /\ n + j \in 1..Len(q)
    BY <1>2, <1>4, <1>5
  <2>2. i # n + j
    BY <1>3
  <2> QED BY <1>4, <1>5, <1>6, <2>1, <2>2
<1>10. IsFiniteSet(asking') /\ Cardinality(asking') = Cardinality(a) + n
  <2>1. IsFiniteSet(ToSet(s)) /\ Cardinality(ToSet(s)) = n
    BY <1>4, <1>7, CountOfDistinct
  <2>2. a \cap ToSet(s) = {}
    BY <1>7
  <2>3. Cardinality(a \cap ToSet(s)) = 0
    BY <2>2, FS_EmptySet
  <2>4. /\ IsFiniteSet(a \cup ToSet(s))
        /\ Cardinality(a \cup ToSet(s))
             = Cardinality(a) + Cardinality(ToSet(s)) - Cardinality(a \cap ToSet(s))
    BY <2>1, FS_Union
  <2>5. \A c \in Nat : c + n - 0 = c + n
    BY <1>3
  <2> QED BY <1>1, <1>2, <2>1, <2>3, <2>4, <2>5
<1>11. queue' # <<>> => Cardinality(asking') = MaxInFlight
  <2>1. n = Len(q) => r = <<>>
    <3>1. n = Len(q) => Len(r) = 0
      BY <1>2, <1>5
    <3> QED BY <1>5, <3>1, EmptySeq
  <2> QED BY <1>1, <1>3, <1>10, <2>1
<1>12. Cardinality(asking') <= MaxInFlight
  BY <1>3, <1>10
<1>13. ToSet(queue') \cap asking' = {}
  BY <1>1, <1>8, <1>9
<1> QED BY <1>1, <1>5, <1>7, <1>8, <1>10, <1>11, <1>12, <1>13

\* remember: the bound, and one entry per id.
LEMMA KeepKeeps ==
  ASSUME TitleInv, NEW id \in Links, NEW title \in BOOLEAN, NEW ttl \in Nat, Keep(id, title, ttl)
  PROVE  /\ titles' \in Seq(Entries) /\ Len(titles') <= MaxEntries
         /\ \A i, j \in DOMAIN titles' : titles'[i].id = titles'[j].id => i = j
<1> DEFINE kept == IF Len(titles) >= MaxEntries THEN Tail(titles) ELSE titles
           entry == [id |-> id, title |-> title, until |-> clock + ttl]
<1>1. /\ titles \in Seq(Entries) /\ Len(titles) \in Nat /\ Len(titles) <= MaxEntries
      /\ MaxEntries \in Nat \ {0} /\ DOMAIN titles = 1..Len(titles)
      /\ \A i, j \in DOMAIN titles : titles[i].id = titles[j].id => i = j
  BY TitlesAssumption, LenProperties DEF TitleInv
<1>2. entry \in Entries /\ entry.id = id
  BY DEF TitleInv, Entries
<1>3. titles' = IF \E n \in DOMAIN kept : kept[n].id = id
                THEN [n \in DOMAIN kept |-> IF kept[n].id = id THEN entry ELSE kept[n]]
                ELSE Append(kept, entry)
  BY DEF Keep
<1>4. /\ kept \in Seq(Entries) /\ Len(kept) \in Nat /\ Len(kept) + 1 <= MaxEntries
      /\ DOMAIN kept = 1..Len(kept)
      /\ \A i, j \in 1..Len(kept) : kept[i].id = kept[j].id => i = j
  <2>1. CASE Len(titles) >= MaxEntries
    <3>6. kept = Tail(titles)
      BY <2>1
    <3> HIDE DEF kept, entry
    <3>7. Len(titles) = MaxEntries
      <4>1. \A l, m \in Nat : l <= m /\ l >= m => l = m
        OBVIOUS
      <4> QED BY <1>1, <2>1, <4>1
    <3>1. kept = Tail(titles) /\ Len(titles) = MaxEntries
      BY <3>6, <3>7
    <3>5. titles # <<>>
      BY <1>1, <3>1, EmptySeq
    <3>2. /\ kept \in Seq(Entries) /\ Len(kept) = Len(titles) - 1
          /\ \A i \in 1..Len(kept) : kept[i] = titles[i + 1]
      BY <1>1, <3>1, <3>5, HeadTailProperties
    <3>3. /\ Len(kept) \in Nat /\ Len(kept) + 1 <= MaxEntries /\ DOMAIN kept = 1..Len(kept)
      BY <1>1, <3>1, <3>2, LenProperties
    <3>4. ASSUME NEW i \in 1..Len(kept), NEW j \in 1..Len(kept), kept[i].id = kept[j].id
          PROVE  i = j
      <4>1. i + 1 \in DOMAIN titles /\ j + 1 \in DOMAIN titles
        BY <1>1, <3>2, <3>3
      <4>2. i + 1 = j + 1
        BY <1>1, <3>2, <3>4, <4>1
      <4> QED BY <4>2
    <3> QED BY <3>2, <3>3, <3>4
  <2>2. CASE ~(Len(titles) >= MaxEntries)
    BY <1>1, <2>2
  <2> QED BY <2>1, <2>2
<1> HIDE DEF kept, entry
<1>5. CASE \E n \in DOMAIN kept : kept[n].id = id
  <2>1. titles' = [n \in 1..Len(kept) |-> IF kept[n].id = id THEN entry ELSE kept[n]]
    BY <1>3, <1>4, <1>5
  <2>2. \A n \in 1..Len(kept) : kept[n] \in Entries
    BY <1>4, ElementOfSeq
  <2>3. titles' \in Seq(Entries)
    BY <1>2, <1>4, <2>1, <2>2, IsASeq
  <2>4. Len(titles') = Len(kept) /\ DOMAIN titles' = 1..Len(kept)
    BY <1>4, <2>1, <2>3, LenProperties
  <2>5. \A n \in 1..Len(kept) : titles'[n].id = kept[n].id
    BY <1>2, <2>1
  <2>6. Len(titles') <= MaxEntries
    BY <1>1, <1>4, <2>4
  <2> QED BY <1>4, <2>3, <2>4, <2>5, <2>6
<1>6. CASE ~\E n \in DOMAIN kept : kept[n].id = id
  <2>1. titles' = Append(kept, entry)
    BY <1>3, <1>6
  <2>2. /\ titles' \in Seq(Entries) /\ Len(titles') = Len(kept) + 1
        /\ \A i \in 1..Len(kept) : titles'[i] = kept[i]
        /\ titles'[Len(kept) + 1] = entry
    BY <1>2, <1>4, <2>1, AppendProperties
  <2>3. DOMAIN titles' = 1..(Len(kept) + 1)
    BY <2>2, LenProperties
  <2>4. \A i \in DOMAIN titles' : i \in 1..Len(kept) \/ i = Len(kept) + 1
    BY <1>4, <2>3
  <2>5. \A i \in 1..Len(kept) : titles'[i].id # id /\ titles'[i].id = kept[i].id
    BY <1>4, <1>6, <2>2
  <2>6. titles'[Len(kept) + 1].id = id
    BY <1>2, <2>2
  <2>7. \A i, j \in DOMAIN titles' : titles'[i].id = titles'[j].id => i = j
    BY <1>4, <2>4, <2>5, <2>6
  <2> QED BY <1>4, <2>2, <2>7
<1> QED BY <1>5, <1>6

\* A load of the board asks for what is neither known nor asked for.
LEMMA WantStep ==
  ASSUME TitleInv, NEW links \in SUBSET Links, Want(links)
  PROVE  TitleInv'
<1> DEFINE U == Unknown({id \in links : ~TitleOf(id)})
<1>1. PICK new \in SetToSeqs(U) : Pump(asking, queue \o new)
  BY DEF Want
<1>2. UNCHANGED <<clock, titles>>
  BY DEF Want
<1>3. U \subseteq Links /\ U \cap asking = {} /\ U \cap ToSet(queue) = {}
  BY DEF Unknown
<1> HIDE DEF U
<1>4. IsFiniteSet(U) /\ Cardinality(U) \in Nat
  BY <1>3, TitlesAssumption, FS_Subset, FS_CardinalityType
<1>5. /\ new \in [1..Cardinality(U) -> U]
      /\ \A i, j \in 1..Cardinality(U) : i # j => new[i] # new[j]
  BY <1>1 DEF SetToSeqs
<1>6. new \in Seq(Links) /\ Len(new) = Cardinality(U)
  <2>1. new \in [1..Cardinality(U) -> Links]
    BY <1>3, <1>5
  <2>2. new \in Seq(Links)
    BY <1>4, <2>1, SeqDef
  <2> QED BY <1>4, <1>5, <2>2, LenProperties
<1>7. /\ queue \in Seq(Links) /\ IsInjective(queue) /\ ToSet(queue) \cap asking = {}
      /\ Len(queue) \in Nat /\ DOMAIN queue = 1..Len(queue)
  BY LenProperties DEF TitleInv
<1> DEFINE q == queue \o new
<1>8. /\ q \in Seq(Links) /\ Len(q) = Len(queue) + Cardinality(U)
      /\ DOMAIN q = 1..(Len(queue) + Cardinality(U))
      /\ \A i \in 1..Len(queue) : q[i] = queue[i]
      /\ \A i \in 1..Cardinality(U) : q[Len(queue) + i] = new[i]
  <2>1. q \in Seq(Links) /\ Len(q) = Len(queue) + Cardinality(U)
    BY <1>6, <1>7, ConcatProperties
  <2>2. DOMAIN q = 1..(Len(queue) + Cardinality(U))
    BY <2>1, LenProperties
  <2>3. \A i \in 1..(Len(queue) + Len(new)) :
           q[i] = IF i <= Len(queue) THEN queue[i] ELSE new[i - Len(queue)]
    BY <1>6, <1>7, ConcatProperties
  <2>4. \A i \in 1..Len(queue) : q[i] = queue[i]
    BY <1>4, <1>6, <1>7, <2>3
  <2>5. ASSUME NEW i \in 1..Cardinality(U)
        PROVE  q[Len(queue) + i] = new[i]
    <3>1. /\ Len(queue) + i \in 1..(Len(queue) + Len(new)) /\ ~(Len(queue) + i <= Len(queue))
          /\ (Len(queue) + i) - Len(queue) = i
      BY <1>4, <1>6, <1>7
    <3> QED BY <2>3, <3>1
  <2> QED BY <2>1, <2>2, <2>4, <2>5
<1>9. PICK k \in Nat : k = Len(queue)
  BY <1>7
<1>10. PICK m \in Nat : m = Cardinality(U)
  BY <1>4
<1> HIDE DEF q
<1>11. \A i \in 1..(k + m) : i \in 1..k \/ \E j \in 1..m : i = k + j
  <2> SUFFICES ASSUME NEW i \in 1..(k + m), i \notin 1..k
               PROVE  \E j \in 1..m : i = k + j
    OBVIOUS
  <2>1. i - k \in 1..m /\ i = k + (i - k)
    OBVIOUS
  <2> QED BY <2>1
<1>12. \A i \in 1..k : q[i] \in ToSet(queue)
  BY <1>7, <1>8, <1>9 DEF ToSet
<1>13. \A i \in 1..m : q[k + i] \in U
  BY <1>5, <1>8, <1>9, <1>10
<1>14. IsInjective(q)
  <2> SUFFICES ASSUME NEW i \in 1..(k + m), NEW j \in 1..(k + m), q[i] = q[j]
               PROVE  i = j
    BY <1>8, <1>9, <1>10 DEF IsInjective
  <2>1. CASE i \in 1..k /\ j \in 1..k
    BY <1>7, <1>8, <1>9, <2>1 DEF IsInjective
  <2>2. CASE i \in 1..k /\ j \notin 1..k
    BY <1>3, <1>11, <1>12, <1>13, <2>2
  <2>3. CASE i \notin 1..k /\ j \in 1..k
    BY <1>3, <1>11, <1>12, <1>13, <2>3
  <2>4. CASE i \notin 1..k /\ j \notin 1..k
    <3>1. PICK u \in 1..m : i = k + u
      BY <1>11, <2>4
    <3>2. PICK v \in 1..m : j = k + v
      BY <1>11, <2>4
    <3>3. new[u] = new[v]
      BY <1>8, <1>9, <1>10, <3>1, <3>2
    <3> QED BY <1>5, <1>10, <3>1, <3>2, <3>3
  <2> QED BY <2>1, <2>2, <2>3, <2>4
<1>15. ToSet(q) \cap asking = {}
  <2>1. \A i \in 1..(k + m) : q[i] \notin asking
    BY <1>3, <1>7, <1>11, <1>12, <1>13
  <2> QED BY <1>8, <1>9, <1>10, <2>1 DEF ToSet
<1>16. Pump(asking, q)
  BY <1>1 DEF q
<1> QED BY <1>2, <1>8, <1>14, <1>15, <1>16, PumpKeeps DEF TitleInv

\* A lookup ends: its answer is remembered, and the next one starts.
LEMMA LookupStep ==
  ASSUME TitleInv, NEW id \in Links, LookupEnds(id)
  PROVE  TitleInv'
<1>1. /\ id \in asking /\ clock' = clock /\ Pump(asking \ {id}, queue)
      /\ \E title \in BOOLEAN, ttl \in Nat : Keep(id, title, ttl)
  BY TitlesAssumption DEF LookupEnds, Answered, Failed
<1>2. /\ IsFiniteSet(asking \ {id}) /\ Cardinality(asking \ {id}) = Cardinality(asking) - 1
      /\ Cardinality(asking) \in Nat /\ Cardinality(asking) <= MaxInFlight /\ MaxInFlight \in Nat
  BY <1>1, FS_RemoveElement, FS_CardinalityType, TitlesAssumption DEF TitleInv
<1>3. Cardinality(asking \ {id}) <= MaxInFlight
  BY <1>2
<1>4. /\ titles' \in Seq(Entries) /\ Len(titles') <= MaxEntries
      /\ \A i, j \in DOMAIN titles' : titles'[i].id = titles'[j].id => i = j
  BY <1>1, KeepKeeps
<1>5. /\ asking \ {id} \in SUBSET Links /\ queue \in Seq(Links) /\ IsInjective(queue)
      /\ ToSet(queue) \cap (asking \ {id}) = {} /\ clock \in Nat
  BY DEF TitleInv
<1>6. /\ asking' \subseteq Links /\ IsFiniteSet(asking') /\ Cardinality(asking') <= MaxInFlight
      /\ queue' \in Seq(Links) /\ IsInjective(queue') /\ ToSet(queue') \cap asking' = {}
      /\ queue' # <<>> => Cardinality(asking') = MaxInFlight
  BY <1>1, <1>2, <1>3, <1>5, PumpKeeps
<1> QED BY <1>1, <1>4, <1>5, <1>6 DEF TitleInv

LEMMA TitlesBegin == TitleInit => TitleInv
<1> SUFFICES ASSUME TitleInit
             PROVE  TitleInv
  OBVIOUS
<1>1. clock = 0 /\ titles = <<>> /\ asking = {} /\ queue = <<>>
  BY DEF TitleInit
<1>2. <<>> \in Seq(Entries) /\ <<>> \in Seq(Links) /\ Len(<<>>) = 0 /\ DOMAIN <<>> = {}
  OBVIOUS
<1>3. IsFiniteSet({}) /\ Cardinality({}) = 0
  BY FS_EmptySet
<1> QED BY <1>1, <1>2, <1>3, TitlesAssumption DEF TitleInv, IsInjective, ToSet

\* The invariant holds of every behaviour of the titles.
THEOREM TitlesInvariance == TitleSpec => []TitleInv
<1>1. ASSUME TitleInv, [TitleNext]_titleVars
      PROVE  TitleInv'
  <2>1. CASE TitleTick
    <3>1. clock' = clock + 1 /\ UNCHANGED <<titles, asking, queue>>
      BY <2>1 DEF TitleTick
    <3> QED BY <1>1, <3>1 DEF TitleInv
  <2>2. CASE UNCHANGED titleVars
    BY <1>1, <2>2 DEF TitleInv, titleVars
  <2> QED BY <1>1, <2>1, <2>2, WantStep, LookupStep DEF TitleNext
<1> QED BY <1>1, TitlesBegin, PTL DEF TitleSpec

\* An id waits only while as many lookups as may be are under way, nothing is
\* asked for twice, and the cache keeps its bound, for any links, limits and
\* times to live (result-titles.ts).
THEOREM NobodyWaits == TitleSpec => []NothingWaitsForNobody
<1>1. TitleInv => NothingWaitsForNobody
  BY CountOfDistinct DEF TitleInv, NothingWaitsForNobody
<1> QED BY <1>1, TitlesInvariance, PTL

-----------------------------------------------------------------------------
(***************************************************************************)
(* The live sections of an open tab (LiveRefresh).                         *)
(***************************************************************************)

\* What holds of one section's record: its timer is armed exactly while
\* nothing is under way, its tag is that of what it shows, and an answer under
\* way is no older than what is shown.
RecordOK(s, r) ==
  /\ r \in Section
  /\ ~reloading => (r.armed <=> r.req = "idle")
  /\ reloading => r.req = "idle" /\ ~r.armed
  /\ r.etag # NoMarkup => r.etag = r.shown
  /\ r.req = "ok" => r.got \in Markups
  /\ \A t \in Feeds(s) :
       /\ r.shown[t] \in Nat /\ r.shown[t] <= stored[t]
       /\ r.req = "ok" => r.got[t] \in Nat /\ r.shown[t] <= r.got[t] /\ r.got[t] <= stored[t]

\* It shows what it was told of, or will without being told again.
SoonShows(s, r) ==
  \/ Shows(s, r.shown)
  \/ r.req = "idle" /\ r.delay # "minute"
  \/ r.req # "idle" /\ r.again
  \/ r.req \in {"sent", "failed", "denied"}
  \/ r.req = "ok" /\ Shows(s, r.got)

\* An event that names it waits to be read, or in the burst.
InQueue(s) == \E i \in DOMAIN conn[via].queue : conn[via].queue[i] \in Feeds(s)
InBurst(s) == pending /\ (Pin[s] = NoThread \/ Pin[s] \in named)

Listening == es = "open" /\ via # NoConn /\ Subscribed(via) /\ ~conn[via].over

\* The tab: hidden it has no stream, visible it has one or waits to ask.
TabOK ==
  /\ reloading => es = "none" /\ ~retry /\ ~pending
  /\ hidden => es = "none"
  /\ es = "none" => via = NoConn
  /\ ~hidden /\ ~reloading => (es = "none" <=> retry)
  /\ ~reloading /\ streamUp => es = "open"

DueStored ==
  \A s \in Sections : \A t \in Feeds(s) : due[s][t] \in Nat /\ due[s][t] <= stored[t]

\* Nothing a live stream told a section is lost between its queue, the burst
\* and the section's own requests.
NothingMissed == Listening => \A s \in Sections : InQueue(s) \/ InBurst(s) \/ SoonShows(s, sec[s])

\* The inductive invariant.
LiveInv ==
  /\ StreamTypeOK
  /\ stored \in [Threads -> Nat]
  /\ via \in Conns \union {NoConn}
  /\ sec \in [Sections -> Section]
  /\ \A s \in Sections : RecordOK(s, sec[s])
  /\ DueStored /\ TabOK /\ NothingMissed

-----------------------------------------------------------------------------

LEMMA FeedsAre ==
  ASSUME NEW s \in Sections
  PROVE  /\ Feeds(s) \subseteq Threads /\ Comment \notin Feeds(s)
         /\ \A t \in Feeds(s) : Pin[s] = NoThread \/ Pin[s] = t
BY LiveAssumption, StreamAssumption DEF Feeds

\* What a section's fragment renders is a markup, and no tag is missing from it.
LEMMA MarkupIs ==
  ASSUME stored \in [Threads -> Nat], NEW s \in Sections
  PROVE  /\ Markup(s) \in Markups /\ Markup(s) # NoMarkup
         /\ \A t \in Feeds(s) : Markup(s)[t] = stored[t] /\ stored[t] \in Nat
<1>1. Feeds(s) \in SUBSET Threads
  BY FeedsAre
<1>2. Markup(s) = [t \in Feeds(s) |-> stored[t]]
  BY DEF Markup, MarkupOf
<1>3. Markup(s) \in [Feeds(s) -> Nat]
  BY <1>1, <1>2
<1>4. Markup(s) # NoMarkup
  BY <1>1, <1>3, LiveAssumption
<1> QED BY <1>1, <1>2, <1>3, <1>4 DEF Markups

\* A page as it is loaded.
LEMMA LoadedIs ==
  ASSUME stored \in [Threads -> Nat], NEW s \in Sections
  PROVE  /\ Loaded(s) \in Section /\ Loaded(s).armed /\ Loaded(s).req = "idle"
         /\ Loaded(s).etag = NoMarkup
         /\ \A t \in Feeds(s) : Loaded(s).shown[t] = stored[t] /\ stored[t] \in Nat
<1>1. Markup(s) \in Markups /\ \A t \in Feeds(s) : Markup(s)[t] = stored[t] /\ stored[t] \in Nat
  BY MarkupIs
<1> QED BY <1>1 DEF Loaded, Section

LEMMA LiveBegins == LiveInit => LiveInv
<1> SUFFICES ASSUME LiveInit
             PROVE  LiveInv
  OBVIOUS
<1>1. StreamTypeOK
  <2>1. Closed \in [at: {"closed", "writing", "waiting", "closing"}, over: BOOLEAN,
                    old: BOOLEAN, queue: Seq(Threads \union {Comment})]
    BY DEF Closed
  <2> QED BY <2>1 DEF LiveInit, StreamInit, StreamTypeOK
<1>2. stored \in [Threads -> Nat] /\ via = NoConn /\ es = "connecting" /\ ~reloading /\ ~hidden
      /\ ~retry /\ ~streamUp
  BY DEF LiveInit
<1>3. sec = [s \in Sections |-> Loaded(s)] /\ due = [s \in Sections |-> Markup(s)]
  BY DEF LiveInit
<1>4. sec \in [Sections -> Section]
  BY <1>2, <1>3, LoadedIs
<1>5. ASSUME NEW s \in Sections
      PROVE  RecordOK(s, sec[s])
  <2>1. sec[s] = Loaded(s)
    BY <1>3
  <2>2. /\ Loaded(s) \in Section /\ Loaded(s).armed /\ Loaded(s).req = "idle"
        /\ Loaded(s).etag = NoMarkup
        /\ \A t \in Feeds(s) : Loaded(s).shown[t] = stored[t] /\ stored[t] \in Nat
    BY <1>2, LoadedIs
  <2> QED BY <1>2, <2>1, <2>2 DEF RecordOK
<1>6. DueStored
  BY <1>2, <1>3, MarkupIs DEF DueStored
<1>7. TabOK /\ NothingMissed
  BY <1>2 DEF TabOK, NothingMissed, Listening
<1> QED BY <1>1, <1>2, <1>4, <1>5, <1>6, <1>7 DEF LiveInv

-----------------------------------------------------------------------------
(***************************************************************************)
(* One section.                                                            *)
(***************************************************************************)

\* Asking: at once, again after what is under way, or when the page is visible.
LEMMA AskIs ==
  ASSUME NEW r \in Section, r.armed <=> r.req = "idle"
  PROVE  /\ Ask(r) \in Section
         /\ Ask(r).armed <=> Ask(r).req = "idle"
         /\ Ask(r).shown = r.shown /\ Ask(r).etag = r.etag /\ Ask(r).got = r.got
         /\ Ask(r).req = "ok" => r.req = "ok"
         /\ ~hidden => Ask(r).req = "sent" \/ (Ask(r).req # "idle" /\ Ask(r).again)
<1>1. CASE r.req # "idle"
  <2>1. Ask(r) = [r EXCEPT !.again = TRUE, !.armed = FALSE]
    BY <1>1 DEF Ask
  <2> QED BY <1>1, <2>1 DEF Section
<1>2. CASE r.req = "idle" /\ hidden
  <2>1. Ask(r) = [r EXCEPT !.armed = TRUE]
    BY <1>2 DEF Ask, Schedule
  <2> QED BY <1>2, <2>1 DEF Section
<1>3. CASE r.req = "idle" /\ ~hidden
  <2>1. Ask(r) = [r EXCEPT !.req = "sent", !.armed = FALSE]
    BY <1>3 DEF Ask
  <2> QED BY <1>3, <2>1 DEF Section
<1> QED BY <1>1, <1>2, <1>3

LEMMA AskKeeps ==
  ASSUME NEW s \in Sections, NEW r, RecordOK(s, r), ~reloading
  PROVE  RecordOK(s, Ask(r)) /\ (~hidden => SoonShows(s, Ask(r)))
<1>1. r \in Section /\ (r.armed <=> r.req = "idle")
  BY DEF RecordOK
<1>2. /\ Ask(r) \in Section
      /\ Ask(r).armed <=> Ask(r).req = "idle"
      /\ Ask(r).shown = r.shown /\ Ask(r).etag = r.etag /\ Ask(r).got = r.got
      /\ Ask(r).req = "ok" => r.req = "ok"
      /\ ~hidden => Ask(r).req = "sent" \/ (Ask(r).req # "idle" /\ Ask(r).again)
  BY <1>1, AskIs
<1>3. RecordOK(s, Ask(r))
  BY <1>2 DEF RecordOK
<1>4. ~hidden => SoonShows(s, Ask(r))
  BY <1>2 DEF SoonShows
<1> QED BY <1>3, <1>4

\* The end of a fetch: what was asked meanwhile is asked now.
LEMMA AfterKeeps ==
  ASSUME NEW s \in Sections, NEW r, RecordOK(s, r), ~reloading, r.req # "idle"
  PROVE  /\ RecordOK(s, After(r))
         /\ ~hidden /\ (r.again \/ Shows(s, r.shown) \/ r.delay # "minute") => SoonShows(s, After(r))
<1> DEFINE idle == [r EXCEPT !.req = "idle", !.got = NoMarkup, !.again = FALSE]
<1>1. r \in Section /\ ~r.armed
  BY DEF RecordOK
<1>2. CASE r.again
  <2> DEFINE q == [idle EXCEPT !.armed = TRUE]
             w == [idle EXCEPT !.req = "sent", !.armed = FALSE]
  <2>1. idle.req = "idle"
    BY <1>1 DEF Section
  <2>2. After(r) = IF hidden THEN q ELSE w
    BY <1>2, <2>1 DEF After, Ask, Schedule
  <2>3. /\ q \in Section /\ q.req = "idle" /\ q.armed /\ q.etag = r.etag /\ q.shown = r.shown
        /\ w \in Section /\ w.req = "sent" /\ ~w.armed /\ w.etag = r.etag /\ w.shown = r.shown
    BY <1>1 DEF Section
  <2> HIDE DEF q, w, idle
  <2>4. RecordOK(s, q) /\ RecordOK(s, w)
    BY <2>3 DEF RecordOK
  <2>5. SoonShows(s, w)
    BY <2>3 DEF SoonShows
  <2> QED BY <2>2, <2>4, <2>5
<1>3. CASE ~r.again
  <2> DEFINE q == [idle EXCEPT !.armed = TRUE]
  <2>1. After(r) = q
    BY <1>3 DEF After, Schedule
  <2>2. /\ q \in Section /\ q.req = "idle" /\ q.armed /\ q.etag = r.etag /\ q.shown = r.shown
        /\ q.delay = r.delay
    BY <1>1 DEF Section
  <2> HIDE DEF q, idle
  <2>3. RecordOK(s, q)
    BY <2>2 DEF RecordOK
  <2>4. Shows(s, r.shown) \/ r.delay # "minute" => SoonShows(s, q)
    BY <2>2 DEF SoonShows
  <2> QED BY <1>3, <2>1, <2>3, <2>4
<1> QED BY <1>2, <1>3

\* One section's step, with everything else as it was.
LEMMA OneSection ==
  ASSUME LiveInv, NEW s \in Sections, NEW x, sec' = [sec EXCEPT ![s] = x], RecordOK(s, x),
         ~hidden /\ SoonShows(s, sec[s]) => SoonShows(s, x),
         UNCHANGED <<streamVars, stored, due, es, via, streamUp, retry, pending, named, hidden,
                     reloading>>
  PROVE  LiveInv'
<1>1. UNCHANGED <<conn, closedForGood, stored, due, es, via, streamUp, retry, pending, named, hidden,
                  reloading>>
  BY DEF streamVars
<1>2. x \in Section /\ sec \in [Sections -> Section]
  BY DEF RecordOK, LiveInv
<1>3. /\ sec' \in [Sections -> Section] /\ sec'[s] = x
      /\ \A u \in Sections \ {s} : sec'[u] = sec[u]
  BY <1>2
<1>4. ASSUME NEW u \in Sections
      PROVE  RecordOK(u, sec[u])'
  <2>1. RecordOK(u, sec'[u])
    BY <1>3 DEF LiveInv
  <2> QED BY <1>1, <2>1 DEF RecordOK
<1>5. StreamTypeOK' /\ DueStored' /\ TabOK' /\ stored' \in [Threads -> Nat] /\ via' \in Conns \union {NoConn}
  BY <1>1 DEF LiveInv, StreamTypeOK, DueStored, TabOK
<1>6. NothingMissed'
  <2> SUFFICES ASSUME Listening', NEW u \in Sections
               PROVE  InQueue(u)' \/ InBurst(u)' \/ SoonShows(u, sec[u])'
    BY DEF NothingMissed
  <2>1. Listening /\ ~hidden
    BY <1>1 DEF Listening, Subscribed, LiveInv, TabOK
  <2>2. InQueue(u) \/ InBurst(u) \/ SoonShows(u, sec[u])
    BY <2>1 DEF LiveInv, NothingMissed
  <2>3. InQueue(u) => InQueue(u)'
    BY <1>1 DEF InQueue
  <2>4. InBurst(u) => InBurst(u)'
    BY <1>1 DEF InBurst
  <2>5. SoonShows(u, sec[u]) => SoonShows(u, sec'[u])
    BY <1>3, <2>1
  <2>6. SoonShows(u, sec'[u]) => SoonShows(u, sec[u])'
    BY <1>1 DEF SoonShows, Shows
  <2> QED BY <2>2, <2>3, <2>4, <2>5, <2>6
<1> QED BY <1>3, <1>4, <1>5, <1>6 DEF LiveInv

LEMMA TimerStep ==
  ASSUME LiveInv, NEW s \in Sections, TimerFires(s)
  PROVE  LiveInv'
<1>1. /\ sec[s].armed /\ ~hidden /\ sec' = [sec EXCEPT ![s] = Ask(sec[s])]
      /\ UNCHANGED <<streamVars, stored, due, es, via, streamUp, retry, pending, named, hidden, reloading>>
  BY DEF TimerFires, worldVars
<1>2. RecordOK(s, sec[s]) /\ ~reloading
  BY <1>1 DEF LiveInv, RecordOK
<1>3. RecordOK(s, Ask(sec[s])) /\ SoonShows(s, Ask(sec[s]))
  BY <1>1, <1>2, AskKeeps
<1> QED BY <1>1, <1>3, OneSection

\* An answer arrives.
LEMMA ArrivesStep ==
  ASSUME LiveInv, NEW s \in Sections, Respond(s) \/ FetchFails(s)
  PROVE  LiveInv'
<1>1. PICK req, got :
        /\ sec[s].req = "sent" /\ sec' = [sec EXCEPT ![s].req = req, ![s].got = got]
        /\ UNCHANGED <<streamVars, stored, due, es, via, streamUp, retry, pending, named, hidden, reloading>>
        /\ \/ req \in {"denied", "failed"} /\ got = NoMarkup
           \/ req = "same" /\ got = NoMarkup /\ sec[s].etag = Markup(s)
           \/ req = "ok" /\ got = Markup(s)
  BY DEF Respond, FetchFails, Arrives
<1> DEFINE r == sec[s]
           x == [r EXCEPT !.req = req, !.got = got]
<1>2. RecordOK(s, r) /\ r \in Section
  BY DEF LiveInv, RecordOK
<1>3. sec' = [sec EXCEPT ![s] = x]
  BY <1>1 DEF LiveInv
<1>4. /\ Markup(s) \in Markups /\ Markup(s) # NoMarkup
      /\ \A t \in Feeds(s) : Markup(s)[t] = stored[t] /\ stored[t] \in Nat
  BY MarkupIs DEF LiveInv
<1>5. req \in {"denied", "failed", "same", "ok"} /\ got \in Markups \union {NoMarkup}
  BY <1>1, <1>4
<1>6. /\ x \in Section /\ x.req = req /\ x.got = got /\ x.armed = r.armed /\ x.etag = r.etag
      /\ x.shown = r.shown
  BY <1>2, <1>5 DEF Section
<1> HIDE DEF x
<1>7. ~reloading /\ ~r.armed
  BY <1>1, <1>2 DEF RecordOK
<1>8. req = "ok" => \A t \in Feeds(s) : got[t] = stored[t] /\ stored[t] \in Nat
  BY <1>1, <1>4
<1>9. RecordOK(s, x)
  <2>1. \A t \in Feeds(s) : x.shown[t] \in Nat /\ x.shown[t] <= stored[t]
    BY <1>2, <1>6 DEF RecordOK
  <2>2. \A t \in Feeds(s) :
          x.req = "ok" => x.got[t] \in Nat /\ x.shown[t] <= x.got[t] /\ x.got[t] <= stored[t]
    BY <1>6, <1>8, <2>1
  <2>3. x.req # "idle"
    BY <1>5, <1>6
  <2>4. x.etag # NoMarkup => x.etag = x.shown
    BY <1>2, <1>6 DEF RecordOK
  <2>5. x.req = "ok" => x.got \in Markups
    BY <1>1, <1>4, <1>6
  <2> QED BY <1>6, <1>7, <2>1, <2>2, <2>3, <2>4, <2>5 DEF RecordOK
<1>10. SoonShows(s, x)
  <2>1. \A t \in Feeds(s) : due[s][t] \in Nat /\ due[s][t] <= stored[t]
    BY DEF LiveInv, DueStored
  <2>2. CASE req \in {"denied", "failed"}
    BY <1>6, <2>2 DEF SoonShows
  <2>3. CASE req = "same"
    <3>1. r.shown = Markup(s)
      BY <1>1, <1>2, <1>4, <2>3 DEF RecordOK
    <3> QED BY <1>4, <1>6, <2>1, <3>1 DEF SoonShows, Shows
  <2>4. CASE req = "ok"
    BY <1>6, <1>8, <2>1, <2>4 DEF SoonShows, Shows
  <2> QED BY <1>5, <2>2, <2>3, <2>4
<1> QED BY <1>1, <1>3, <1>9, <1>10, OneSection

\* An answer is used.
LEMMA FinishStep ==
  ASSUME LiveInv, NEW s \in Sections, NotModified(s) \/ NewMarkup(s) \/ CatchFailure(s)
  PROVE  LiveInv'
<1> DEFINE r == sec[s]
<1>1. RecordOK(s, r) /\ r \in Section
  BY DEF LiveInv, RecordOK
<1>2. r.req # "idle" /\ ~reloading /\ ~r.armed
  BY <1>1 DEF NotModified, NewMarkup, CatchFailure, RecordOK
<1>3. ASSUME NEW x, Finish(s, x), RecordOK(s, x), x.req # "idle",
             SoonShows(s, r) => x.again \/ Shows(s, x.shown) \/ x.delay # "minute"
      PROVE  LiveInv'
  <2>1. RecordOK(s, After(x)) /\ (~hidden /\ SoonShows(s, r) => SoonShows(s, After(x)))
    BY <1>2, <1>3, AfterKeeps
  <2>2. /\ sec' = [sec EXCEPT ![s] = After(x)]
        /\ UNCHANGED <<streamVars, stored, due, es, via, streamUp, retry, pending, named, hidden, reloading>>
    BY <1>3 DEF Finish, worldVars
  <2> QED BY <2>1, <2>2, OneSection
<1>4. Base \in {"short", "minute"}
  BY DEF Base
<1>5. CASE NotModified(s)
  <2> DEFINE x == [r EXCEPT !.delay = Base]
  <2>1. Finish(s, x) /\ r.req = "same"
    BY <1>5 DEF NotModified
  <2>2. /\ x \in Section /\ x.req = r.req /\ x.got = r.got /\ x.armed = r.armed /\ x.etag = r.etag
        /\ x.shown = r.shown /\ x.again = r.again
    BY <1>1, <1>4 DEF Section
  <2> HIDE DEF x
  <2>3. RecordOK(s, x)
    BY <1>1, <2>2 DEF RecordOK
  <2>4. SoonShows(s, r) => x.again \/ Shows(s, x.shown)
    BY <2>1, <2>2 DEF SoonShows
  <2> QED BY <1>2, <1>3, <2>1, <2>2, <2>3, <2>4
<1>6. CASE CatchFailure(s)
  <2> DEFINE x == [r EXCEPT !.delay = "backoff"]
  <2>1. Finish(s, x)
    BY <1>6 DEF CatchFailure
  <2>2. /\ x \in Section /\ x.req = r.req /\ x.got = r.got /\ x.armed = r.armed /\ x.etag = r.etag
        /\ x.shown = r.shown /\ x.delay = "backoff"
    BY <1>1 DEF Section
  <2> HIDE DEF x
  <2>3. RecordOK(s, x)
    BY <1>1, <2>2 DEF RecordOK
  <2> QED BY <1>2, <1>3, <2>1, <2>2, <2>3
<1>7. CASE NewMarkup(s) /\ r.inUse
  <2> DEFINE x == [r EXCEPT !.delay = "short"]
  <2>1. Finish(s, x)
    BY <1>7 DEF NewMarkup
  <2>2. /\ x \in Section /\ x.req = r.req /\ x.got = r.got /\ x.armed = r.armed /\ x.etag = r.etag
        /\ x.shown = r.shown /\ x.delay = "short"
    BY <1>1 DEF Section
  <2> HIDE DEF x
  <2>3. RecordOK(s, x)
    BY <1>1, <2>2 DEF RecordOK
  <2> QED BY <1>2, <1>3, <2>1, <2>2, <2>3
<1>8. CASE NewMarkup(s) /\ ~r.inUse
  <2> DEFINE x == [r EXCEPT !.delay = Base, !.shown = r.got, !.etag = r.got]
  <2>1. Finish(s, x) /\ r.req = "ok"
    BY <1>8 DEF NewMarkup
  <2>2. r.got \in Markups
    BY <1>1, <2>1 DEF RecordOK
  <2>3. /\ x \in Section /\ x.req = r.req /\ x.got = r.got /\ x.armed = r.armed /\ x.etag = r.got
        /\ x.shown = r.got /\ x.again = r.again
    BY <1>1, <1>4, <2>2 DEF Section
  <2> HIDE DEF x
  <2>4. \A t \in Feeds(s) :
          /\ r.shown[t] \in Nat /\ r.got[t] \in Nat /\ stored[t] \in Nat
          /\ r.shown[t] <= r.got[t] /\ r.got[t] <= stored[t]
    BY <1>1, <2>1, FeedsAre DEF RecordOK, LiveInv
  <2>5. RecordOK(s, x)
    <3>1. \A t \in Feeds(s) :
            /\ x.shown[t] \in Nat /\ x.shown[t] <= stored[t]
            /\ x.got[t] \in Nat /\ x.shown[t] <= x.got[t] /\ x.got[t] <= stored[t]
      BY <2>3, <2>4
    <3> QED BY <1>2, <2>2, <2>3, <3>1 DEF RecordOK
  <2>6. SoonShows(s, r) => x.again \/ Shows(s, x.shown)
    <3>1. Shows(s, r.shown) => Shows(s, r.got)
      BY <2>4 DEF Shows, LiveInv, DueStored
    <3> QED BY <2>1, <2>3, <3>1 DEF SoonShows
  <2> QED BY <1>2, <1>3, <2>1, <2>3, <2>5, <2>6
<1> QED BY <1>5, <1>6, <1>7, <1>8 DEF NewMarkup

\* Use and its end.
LEMMA UseStep ==
  ASSUME LiveInv, NEW s \in Sections, Use(s) \/ Release(s)
  PROVE  LiveInv'
<1> DEFINE r == sec[s]
<1>1. PICK b \in BOOLEAN :
        /\ sec' = [sec EXCEPT ![s].inUse = b]
        /\ UNCHANGED <<streamVars, stored, due, es, via, streamUp, retry, pending, named, hidden, reloading>>
  BY DEF Use, Release, worldVars
<1> DEFINE x == [r EXCEPT !.inUse = b]
<1>2. RecordOK(s, r) /\ r \in Section /\ sec' = [sec EXCEPT ![s] = x]
  BY <1>1 DEF LiveInv, RecordOK
<1>3. /\ x \in Section /\ x.req = r.req /\ x.got = r.got /\ x.armed = r.armed /\ x.etag = r.etag
      /\ x.shown = r.shown /\ x.again = r.again /\ x.delay = r.delay
  BY <1>2 DEF Section
<1> HIDE DEF x
<1>4. RecordOK(s, x)
  BY <1>2, <1>3 DEF RecordOK
<1>5. SoonShows(s, r) => SoonShows(s, x)
  BY <1>3 DEF SoonShows
<1> QED BY <1>1, <1>2, <1>4, <1>5, OneSection

-----------------------------------------------------------------------------
(***************************************************************************)
(* The tab: all its sections, or none.                                     *)
(***************************************************************************)

\* A new tab, or one that loses its stream: nobody listens.
LEMMA NobodyListens ==
  ASSUME LiveInv, UNCHANGED <<streamVars, stored>>, via' \in Conns \union {NoConn},
         sec' \in [Sections -> Section], \A s \in Sections : RecordOK(s, sec[s])',
         TabOK', DueStored', es' # "open" \/ via' = NoConn
  PROVE  LiveInv'
<1>1. StreamTypeOK' /\ stored' \in [Threads -> Nat]
  BY DEF LiveInv, StreamTypeOK, streamVars
<1>2. NothingMissed'
  BY DEF NothingMissed, Listening
<1> QED BY <1>1, <1>2 DEF LiveInv

\* 401: the script is over.
LEMMA DeniedStep ==
  ASSUME LiveInv, NEW s \in Sections, Denied(s)
  PROVE  LiveInv'
<1>1. /\ reloading' = TRUE /\ es' = "none" /\ via' = NoConn /\ retry' = FALSE /\ pending' = FALSE
      /\ UNCHANGED <<streamVars, stored, due, hidden>>
      /\ sec' = [u \in Sections |->
                   [sec[u] EXCEPT !.req = "idle", !.got = NoMarkup, !.again = FALSE, !.armed = FALSE]]
  BY DEF Denied, Disconnect, worldVars
<1>2. ASSUME NEW u \in Sections
      PROVE  /\ sec'[u] \in Section /\ sec'[u].req = "idle" /\ ~sec'[u].armed
             /\ sec'[u].etag = sec[u].etag /\ sec'[u].shown = sec[u].shown
  <2>1. sec[u] \in Section
    BY DEF LiveInv
  <2>2. sec'[u] = [sec[u] EXCEPT !.req = "idle", !.got = NoMarkup, !.again = FALSE, !.armed = FALSE]
    BY <1>1
  <2> QED BY <2>1, <2>2 DEF Section
<1>3. sec' \in [Sections -> Section]
  BY <1>1, <1>2
<1>4. ASSUME NEW u \in Sections
      PROVE  RecordOK(u, sec[u])'
  <2>1. RecordOK(u, sec[u])
    BY DEF LiveInv
  <2> QED BY <1>1, <1>2, <2>1 DEF RecordOK
<1>5. TabOK' /\ DueStored'
  BY <1>1 DEF LiveInv, TabOK, DueStored
<1> QED BY <1>1, <1>3, <1>4, <1>5, NobodyListens

LEMMA LoadStep ==
  ASSUME LiveInv, Load
  PROVE  LiveInv'
<1>1. /\ es' = "connecting" /\ via' = NoConn /\ streamUp' = FALSE /\ reloading' = FALSE /\ hidden' = FALSE
      /\ sec' = [s \in Sections |-> Loaded(s)] /\ due' = [s \in Sections |-> Markup(s)]
      /\ UNCHANGED <<streamVars, stored, retry, pending>> /\ reloading
  BY DEF Load
<1>2. stored \in [Threads -> Nat]
  BY DEF LiveInv
<1>3. sec' \in [Sections -> Section]
  BY <1>1, <1>2, LoadedIs
<1>4. ASSUME NEW s \in Sections
      PROVE  RecordOK(s, sec[s])'
  <2>1. sec'[s] = Loaded(s)
    BY <1>1
  <2>2. /\ Loaded(s) \in Section /\ Loaded(s).armed /\ Loaded(s).req = "idle"
        /\ Loaded(s).etag = NoMarkup
        /\ \A t \in Feeds(s) : Loaded(s).shown[t] = stored[t] /\ stored[t] \in Nat
    BY <1>2, LoadedIs
  <2> QED BY <1>1, <2>1, <2>2 DEF RecordOK
<1>5. DueStored'
  BY <1>1, <1>2, MarkupIs DEF DueStored
<1>6. TabOK'
  BY <1>1 DEF LiveInv, TabOK
<1> QED BY <1>1, <1>3, <1>4, <1>5, <1>6, NobodyListens

\* The sections go on as they are, or slow down, and the stream is gone.
LEMMA GoesDown ==
  ASSUME LiveInv, StreamGoesDown, UNCHANGED <<streamVars, stored, due, reloading>>, ~reloading,
         via' = NoConn, TabOK'
  PROVE  LiveInv'
<1>1. ASSUME NEW r \in Section
      PROVE  /\ SlowDown(r) \in Section /\ SlowDown(r).req = r.req /\ SlowDown(r).got = r.got
             /\ SlowDown(r).etag = r.etag /\ SlowDown(r).shown = r.shown
             /\ SlowDown(r).armed = IF r.req = "idle" THEN TRUE ELSE r.armed
  <2>1. CASE r.req = "idle"
    <3>1. SlowDown(r) = [[r EXCEPT !.delay = "short"] EXCEPT !.armed = TRUE]
      BY <2>1 DEF SlowDown, Schedule
    <3> QED BY <2>1, <3>1 DEF Section
  <2>2. CASE r.req # "idle"
    <3>1. SlowDown(r) = [r EXCEPT !.delay = "short"]
      BY <2>2 DEF SlowDown
    <3> QED BY <2>2, <3>1 DEF Section
  <2> QED BY <2>1, <2>2
<1>2. sec \in [Sections -> Section] /\ \A s \in Sections : RecordOK(s, sec[s])
  BY DEF LiveInv
<1>3. sec' = sec \/ sec' = [s \in Sections |-> SlowDown(sec[s])]
  BY DEF StreamGoesDown
<1>4. sec' \in [Sections -> Section]
  BY <1>1, <1>2, <1>3
<1>5. ASSUME NEW s \in Sections
      PROVE  RecordOK(s, sec[s])'
  <2>1. RecordOK(s, sec'[s])
    <3>1. CASE sec' = sec
      BY <1>2, <3>1
    <3>2. CASE sec' = [u \in Sections |-> SlowDown(sec[u])]
      <4>1. sec[s] \in Section /\ sec'[s] = SlowDown(sec[s]) /\ RecordOK(s, sec[s])
        BY <1>2, <3>2
      <4>2. /\ sec'[s] \in Section /\ sec'[s].req = sec[s].req /\ sec'[s].got = sec[s].got
            /\ sec'[s].etag = sec[s].etag /\ sec'[s].shown = sec[s].shown
            /\ sec'[s].armed = IF sec[s].req = "idle" THEN TRUE ELSE sec[s].armed
        BY <1>1, <4>1
      <4> QED BY <4>1, <4>2 DEF RecordOK
    <3> QED BY <1>3, <3>1, <3>2
  <2> QED BY <2>1 DEF RecordOK
<1>6. DueStored'
  BY DEF LiveInv, DueStored
<1> QED BY <1>4, <1>5, <1>6, NobodyListens

LEMMA LosesStep ==
  ASSUME LiveInv, Refused \/ StreamEnds \/ StreamBreaks \/ Hide
  PROVE  LiveInv'
<1>1. ~reloading
  BY DEF Refused, StreamEnds, StreamBreaks, Hide, LiveInv, TabOK
<1>2. /\ StreamGoesDown /\ UNCHANGED <<streamVars, stored, due, reloading>> /\ via' = NoConn
      /\ streamUp' = FALSE
  BY DEF Refused, StreamEnds, StreamBreaks, Dropped, Hide, Disconnect, StreamGoesDown, worldVars
<1>3. TabOK'
  <2>1. CASE Refused
    BY <1>1, <1>2, <2>1 DEF Refused, LiveInv, TabOK
  <2>2. CASE StreamEnds \/ StreamBreaks
    BY <1>1, <1>2, <2>2 DEF StreamEnds, StreamBreaks, Dropped, LiveInv, TabOK
  <2>3. CASE Hide
    BY <1>1, <1>2, <2>3 DEF Hide, Disconnect, TabOK
  <2> QED BY <2>1, <2>2, <2>3
<1> QED BY <1>1, <1>2, <1>3, GoesDown

\* Every section asks, and the page is visible: whatever they were told, they
\* will show.
LEMMA AllAsk ==
  ASSUME LiveInv, StreamTypeOK', UNCHANGED <<stored, due, reloading>>, ~reloading,
         via' \in Conns \union {NoConn}, TabOK',
         sec' \in [Sections -> Section],
         \A s \in Sections : RecordOK(s, sec'[s]) /\ SoonShows(s, sec'[s])
  PROVE  LiveInv'
<1>1. \A s \in Sections : RecordOK(s, sec[s])'
  BY DEF RecordOK
<1>2. \A s \in Sections : SoonShows(s, sec[s])'
  BY DEF SoonShows, Shows
<1>3. DueStored' /\ stored' \in [Threads -> Nat]
  BY DEF LiveInv, DueStored
<1> QED BY <1>1, <1>2, <1>3 DEF LiveInv, NothingMissed

LEMMA OnlineStep ==
  ASSUME LiveInv, Online
  PROVE  LiveInv'
<1>1. /\ ~reloading /\ ~hidden /\ sec' = AskNow(Sections)
      /\ es' = (IF es = "none" THEN "connecting" ELSE es) /\ retry' = (retry /\ es # "none")
      /\ UNCHANGED <<streamVars, stored, due, via, streamUp, pending, hidden, reloading>>
  BY DEF Online, ConnectStream
<1>2. sec' = [s \in Sections |-> Ask(sec[s])]
  BY <1>1 DEF AskNow
<1>3. \A s \in Sections : RecordOK(s, sec[s])
  BY DEF LiveInv
<1>4. \A s \in Sections : RecordOK(s, sec'[s]) /\ SoonShows(s, sec'[s])
  BY <1>1, <1>2, <1>3, AskKeeps
<1>5. sec' \in [Sections -> Section]
  BY <1>2, <1>4 DEF RecordOK
<1>6. TabOK'
  BY <1>1 DEF LiveInv, TabOK
<1>7. StreamTypeOK' /\ via' \in Conns \union {NoConn}
  BY <1>1 DEF LiveInv, StreamTypeOK, streamVars
<1> QED BY <1>1, <1>4, <1>5, <1>6, <1>7, AllAsk

\* The tab is looked at again: its stream is asked for.
LEMMA ShowStep ==
  ASSUME LiveInv, Show
  PROVE  LiveInv'
<1>1. /\ hidden /\ ~reloading /\ hidden' = FALSE
      /\ es' = (IF es = "none" THEN "connecting" ELSE es) /\ retry' = (retry /\ es # "none")
      /\ UNCHANGED <<streamVars, stored, due, via, streamUp, pending, reloading>>
      /\ sec' = [s \in Sections |-> IF sec[s].req # "idle" THEN [sec[s] EXCEPT !.again = TRUE, !.armed = FALSE]
                                    ELSE [sec[s] EXCEPT !.req = "sent", !.armed = FALSE]]
  BY DEF Show, ConnectStream, worldVars
<1>2. ASSUME NEW s \in Sections
      PROVE  /\ sec'[s] \in Section /\ sec'[s].req # "idle" /\ ~sec'[s].armed
             /\ sec'[s].etag = sec[s].etag /\ sec'[s].shown = sec[s].shown /\ sec'[s].got = sec[s].got
             /\ sec'[s].req = "ok" => sec[s].req = "ok"
  <2>1. sec[s] \in Section
    BY DEF LiveInv
  <2>2. CASE sec[s].req # "idle"
    <3>1. sec'[s] = [sec[s] EXCEPT !.again = TRUE, !.armed = FALSE]
      BY <1>1, <2>2
    <3> QED BY <2>1, <2>2, <3>1 DEF Section
  <2>3. CASE sec[s].req = "idle"
    <3>1. sec'[s] = [sec[s] EXCEPT !.req = "sent", !.armed = FALSE]
      BY <1>1, <2>3
    <3> QED BY <2>1, <2>3, <3>1 DEF Section
  <2> QED BY <2>2, <2>3
<1>3. sec' \in [Sections -> Section]
  BY <1>1, <1>2
<1>4. ASSUME NEW s \in Sections
      PROVE  RecordOK(s, sec[s])'
  <2>1. RecordOK(s, sec[s])
    BY DEF LiveInv
  <2> QED BY <1>1, <1>2, <2>1 DEF RecordOK
<1>5. es = "none" /\ via = NoConn
  BY <1>1 DEF LiveInv, TabOK
<1>6. TabOK' /\ DueStored' /\ es' # "open"
  BY <1>1, <1>5 DEF LiveInv, TabOK, DueStored
<1> QED BY <1>1, <1>3, <1>4, <1>5, <1>6, NobodyListens

LEMMA RetryStep ==
  ASSUME LiveInv, Retry
  PROVE  LiveInv'
<1>1. /\ retry /\ ~hidden
      /\ es' = (IF es = "none" THEN "connecting" ELSE es) /\ retry' = (retry /\ es # "none")
      /\ UNCHANGED <<streamVars, stored, due, via, streamUp, pending, hidden, reloading, sec>>
  BY DEF Retry, ConnectStream, worldVars
<1>2. es = "none" /\ via = NoConn
  BY <1>1 DEF LiveInv, TabOK
<1>3. TabOK' /\ DueStored' /\ es' # "open"
  BY <1>1, <1>2 DEF LiveInv, TabOK, DueStored
<1>4. sec' \in [Sections -> Section] /\ \A s \in Sections : RecordOK(s, sec[s])'
  BY <1>1 DEF LiveInv, RecordOK
<1> QED BY <1>1, <1>2, <1>3, <1>4, NobodyListens

-----------------------------------------------------------------------------
(***************************************************************************)
(* The stream's other side.                                                *)
(***************************************************************************)

\* One connection changes.
LEMMA ConnIs ==
  ASSUME StreamTypeOK, NEW c \in Conns
  PROVE  /\ conn[c] \in [at: {"closed", "writing", "waiting", "closing"}, over: BOOLEAN,
                         old: BOOLEAN, queue: Seq(Threads \union {Comment})]
         /\ conn[c].queue \in Seq(Threads \union {Comment})
         /\ DOMAIN conn[c].queue = 1..Len(conn[c].queue) /\ Len(conn[c].queue) \in Nat
<1>1. conn[c] \in [at: {"closed", "writing", "waiting", "closing"}, over: BOOLEAN,
                   old: BOOLEAN, queue: Seq(Threads \union {Comment})]
  BY DEF StreamTypeOK
<1>2. conn[c].queue \in Seq(Threads \union {Comment})
  BY <1>1
<1> QED BY <1>1, <1>2, LenProperties

\* What the server does with one connection: what waits in a stream that
\* somebody listens to stays, in its order, or that stream is over.
LEMMA ServerTypes ==
  ASSUME StreamTypeOK, NEW c \in Conns,
         Open(c) \/ Handler(c) \/ GrowsOld(c) \/ Read(c) \/ Abort(c)
  PROVE  /\ StreamTypeOK'
         /\ \A d \in Conns \ {c} : conn'[d] = conn[d]
<1> DEFINE Recs == [at: {"closed", "writing", "waiting", "closing"}, over: BOOLEAN,
                    old: BOOLEAN, queue: Seq(Threads \union {Comment})]
<1>1. /\ conn \in [Conns -> Recs] /\ closedForGood \in BOOLEAN /\ conn[c] \in Recs
      /\ conn[c].queue \in Seq(Threads \union {Comment})
  BY DEF StreamTypeOK
<1>2. closedForGood' = closedForGood
  BY DEF Open, Handler, Wait, Heartbeat, Leave, Closes, GrowsOld, Read, Abort
<1>3. ASSUME NEW x \in Recs, conn' = [conn EXCEPT ![c] = x]
      PROVE  StreamTypeOK' /\ \A d \in Conns \ {c} : conn'[d] = conn[d]
  <2>1. conn' \in [Conns -> Recs] /\ \A d \in Conns \ {c} : conn'[d] = conn[d]
    BY <1>1, <1>3
  <2> QED BY <1>1, <1>2, <2>1 DEF StreamTypeOK
<1>4. CASE Open(c) \/ Closes(c) \/ Abort(c)
  <2>1. Closed \in Recs /\ Opened \in Recs
    <3>1. <<Comment>> \in Seq(Threads \union {Comment}) /\ <<>> \in Seq(Threads \union {Comment})
      OBVIOUS
    <3> QED BY <3>1 DEF Closed, Opened
  <2>2. conn' = [conn EXCEPT ![c] = Closed] \/ conn' = [conn EXCEPT ![c] = Opened]
    BY <1>4 DEF Open, Closes, Abort
  <2> QED BY <1>3, <2>1, <2>2
<1>5. CASE Wait(c)
  <2>1. [conn[c] EXCEPT !.at = "waiting"] \in Recs
    BY <1>1
  <2>2. conn' = [conn EXCEPT ![c] = [conn[c] EXCEPT !.at = "waiting"]]
    BY <1>1, <1>5 DEF Wait
  <2> QED BY <1>3, <2>1, <2>2
<1>6. CASE Heartbeat(c)
  <2>1. Append(conn[c].queue, Comment) \in Seq(Threads \union {Comment})
    BY <1>1, AppendProperties
  <2>2. [conn[c] EXCEPT !.at = "writing", !.queue = Append(conn[c].queue, Comment)] \in Recs
    BY <1>1, <2>1
  <2>3. conn' = [conn EXCEPT ![c] = [conn[c] EXCEPT !.at = "writing", !.queue = Append(conn[c].queue, Comment)]]
    BY <1>1, <1>6 DEF Heartbeat
  <2> QED BY <1>3, <2>2, <2>3
<1>7. CASE Leave(c)
  <2>1. PICK q \in {<<>>, conn[c].queue} :
          conn' = [conn EXCEPT ![c] = [conn[c] EXCEPT !.at = "closing", !.queue = q]]
    BY <1>1, <1>7 DEF Leave
  <2>3. q \in Seq(Threads \union {Comment})
    BY <1>1, <2>1, EmptySeq
  <2>2. [conn[c] EXCEPT !.at = "closing", !.queue = q] \in Recs
    BY <1>1, <2>3
  <2> QED BY <1>3, <2>1, <2>2
<1>8. CASE GrowsOld(c)
  <2>1. [conn[c] EXCEPT !.old = TRUE] \in Recs
    BY <1>1
  <2>2. conn' = [conn EXCEPT ![c] = [conn[c] EXCEPT !.old = TRUE]]
    BY <1>1, <1>8 DEF GrowsOld
  <2> QED BY <1>3, <2>1, <2>2
<1>9. CASE Read(c)
  <2>1. conn[c].queue # <<>>
    BY <1>9 DEF Read
  <2>2. Tail(conn[c].queue) \in Seq(Threads \union {Comment})
    BY <1>1, <2>1, HeadTailProperties
  <2>3. [conn[c] EXCEPT !.queue = Tail(conn[c].queue)] \in Recs
    BY <1>1, <2>2
  <2>4. conn' = [conn EXCEPT ![c] = [conn[c] EXCEPT !.queue = Tail(conn[c].queue)]]
    BY <1>1, <1>9 DEF Read
  <2> QED BY <1>3, <2>3, <2>4
<1> QED BY <1>4, <1>5, <1>6, <1>7, <1>8, <1>9 DEF Handler

\* A stream that is listened to afterwards was before, and keeps its events.
LEMMA ServerKeeps ==
  ASSUME StreamTypeOK, NEW c \in Conns, Handler(c) \/ GrowsOld(c), Subscribed(c)', ~conn'[c].over
  PROVE  /\ Subscribed(c) /\ ~conn[c].over
         /\ \A i \in DOMAIN conn[c].queue :
              i \in DOMAIN conn'[c].queue /\ conn'[c].queue[i] = conn[c].queue[i]
<1> DEFINE Recs == [at: {"closed", "writing", "waiting", "closing"}, over: BOOLEAN,
                    old: BOOLEAN, queue: Seq(Threads \union {Comment})]
<1>1. /\ conn \in [Conns -> Recs] /\ conn[c] \in Recs
      /\ conn[c].queue \in Seq(Threads \union {Comment})
  BY DEF StreamTypeOK
<1>2. conn'[c].at \in {"writing", "waiting"}
  BY DEF Subscribed
<1>3. CASE Wait(c)
  <2>1. conn'[c] = [conn[c] EXCEPT !.at = "waiting"] /\ conn[c].at = "writing"
    BY <1>1, <1>3 DEF Wait, CommentWritten
  <2> QED BY <1>1, <2>1 DEF Subscribed
<1>4. CASE Heartbeat(c)
  <2>1. /\ conn'[c] = [conn[c] EXCEPT !.at = "writing", !.queue = Append(conn[c].queue, Comment)]
        /\ conn[c].at = "waiting"
    BY <1>1, <1>4 DEF Heartbeat
  <2>2. conn'[c].queue = Append(conn[c].queue, Comment) /\ conn'[c].over = conn[c].over
    BY <1>1, <2>1
  <2>3. /\ Append(conn[c].queue, Comment) \in Seq(Threads \union {Comment})
        /\ Len(Append(conn[c].queue, Comment)) = Len(conn[c].queue) + 1
        /\ \A i \in 1..Len(conn[c].queue) : Append(conn[c].queue, Comment)[i] = conn[c].queue[i]
    BY <1>1, AppendProperties
  <2>4. /\ DOMAIN conn[c].queue = 1..Len(conn[c].queue) /\ Len(conn[c].queue) \in Nat
        /\ DOMAIN Append(conn[c].queue, Comment) = 1..(Len(conn[c].queue) + 1)
    BY <1>1, <2>3, LenProperties
  <2> QED BY <2>1, <2>2, <2>3, <2>4 DEF Subscribed
<1>5. CASE Leave(c)
  <2>1. conn'[c].at = "closing"
    BY <1>1, <1>5 DEF Leave
  <2> QED BY <1>2, <2>1
<1>6. CASE Closes(c)
  <2>1. conn'[c].at = "closed"
    BY <1>1, <1>6 DEF Closes, Closed
  <2> QED BY <1>2, <2>1
<1>7. CASE GrowsOld(c)
  <2>1. conn'[c] = [conn[c] EXCEPT !.old = TRUE]
    BY <1>1, <1>7 DEF GrowsOld
  <2> QED BY <1>1, <1>7, <2>1 DEF GrowsOld
<1> QED BY <1>3, <1>4, <1>5, <1>6, <1>7 DEF Handler

\* The tab and the database rest while the server's side moves.
LEMMA TabRests ==
  ASSUME LiveInv, StreamTypeOK', UNCHANGED <<tabVars, worldVars>>,
         Listening' => Listening /\ \A s \in Sections : InQueue(s) => InQueue(s)'
  PROVE  LiveInv'
<1>1. UNCHANGED <<stored, due, es, via, streamUp, retry, pending, named, hidden, reloading, sec>>
  BY DEF tabVars, worldVars
<1>2. \A s \in Sections : RecordOK(s, sec[s])'
  BY <1>1 DEF LiveInv, RecordOK
<1>3. DueStored' /\ TabOK'
  BY <1>1 DEF LiveInv, DueStored, TabOK
<1>4. NothingMissed'
  <2> SUFFICES ASSUME Listening', NEW s \in Sections
               PROVE  InQueue(s)' \/ InBurst(s)' \/ SoonShows(s, sec[s])'
    BY DEF NothingMissed
  <2>1. InQueue(s) \/ InBurst(s) \/ SoonShows(s, sec[s])
    BY DEF LiveInv, NothingMissed
  <2>2. InBurst(s) => InBurst(s)'
    BY <1>1 DEF InBurst
  <2>3. SoonShows(s, sec[s]) => SoonShows(s, sec[s])'
    BY <1>1 DEF SoonShows, Shows
  <2> QED BY <2>1, <2>2, <2>3
<1> QED BY <1>1, <1>2, <1>3, <1>4 DEF LiveInv

LEMMA ServerStep ==
  ASSUME LiveInv, NEW c \in Conns, ServeStream(c) \/ OtherTab(c) \/ Others(c)
  PROVE  LiveInv'
<1>1. UNCHANGED <<tabVars, worldVars>> /\ StreamTypeOK
  BY DEF ServeStream, OtherTab, Others, LiveInv
<1>2. StreamTypeOK' /\ \A d \in Conns \ {c} : conn'[d] = conn[d]
  BY <1>1, ServerTypes DEF ServeStream, OtherTab, Others
<1>3. ASSUME Listening'
      PROVE  Listening /\ \A s \in Sections : InQueue(s) => InQueue(s)'
  <2>1. via' = via /\ es' = es /\ via \in Conns
    BY <1>1, <1>3 DEF Listening, tabVars, LiveInv
  <2>2. CASE via # c
    <3>1. conn'[via] = conn[via]
      BY <1>2, <2>1, <2>2
    <3> QED BY <1>3, <2>1, <3>1 DEF Listening, Subscribed, InQueue
  <2>3. CASE via = c
    <3>1. Handler(c) \/ GrowsOld(c)
      BY <2>3 DEF ServeStream, OtherTab, Others
    <3>2. conn'[c].at \in {"writing", "waiting"} /\ ~conn'[c].over
      BY <1>3, <2>1, <2>3 DEF Listening, Subscribed
    <3>3. /\ Subscribed(c) /\ ~conn[c].over
          /\ \A i \in DOMAIN conn[c].queue :
               i \in DOMAIN conn'[c].queue /\ conn'[c].queue[i] = conn[c].queue[i]
      BY <1>1, <3>1, <3>2, ServerKeeps DEF Subscribed
    <3> QED BY <1>3, <2>1, <2>3, <3>3 DEF Listening, InQueue
  <2> QED BY <2>2, <2>3
<1> QED BY <1>1, <1>2, <1>3, TabRests

\* The server takes the connection of this tab, which is not open yet.
LEMMA SubscribeStep ==
  ASSUME LiveInv, NEW c \in Conns, Subscribe(c)
  PROVE  LiveInv'
<1>1. /\ es = "connecting" /\ via' = c /\ Open(c)
      /\ UNCHANGED <<worldVars, es, streamUp, retry, pending, named, hidden, reloading, sec>>
  BY DEF Subscribe
<1>2. StreamTypeOK'
  BY <1>1, ServerTypes DEF LiveInv
<1>3. UNCHANGED <<stored, due>>
  BY <1>1 DEF worldVars
<1>4. \A s \in Sections : RecordOK(s, sec[s])'
  BY <1>1, <1>3 DEF LiveInv, RecordOK
<1>5. TabOK' /\ DueStored'
  BY <1>1, <1>3 DEF LiveInv, TabOK, DueStored
<1>6. NothingMissed'
  BY <1>1 DEF NothingMissed, Listening
<1> QED BY <1>1, <1>2, <1>3, <1>4, <1>5, <1>6 DEF LiveInv

\* The stream is up: every section asks.
LEMMA OpenStep ==
  ASSUME LiveInv, OnOpen
  PROVE  LiveInv'
<1>1. /\ via # NoConn /\ es = "connecting" /\ Read(via) /\ es' = "open" /\ StreamComesUp
      /\ UNCHANGED <<worldVars, via, retry, pending, named, hidden, reloading>>
  BY DEF OnOpen
<1>2. via \in Conns /\ StreamTypeOK
  BY <1>1 DEF LiveInv
<1>3. StreamTypeOK'
  BY <1>1, <1>2, ServerTypes
<1>4. ~reloading /\ ~hidden /\ ~streamUp
  BY <1>1 DEF LiveInv, TabOK
<1>5. streamUp' = TRUE /\ sec' = [s \in Sections |-> Ask([sec[s] EXCEPT !.delay = "minute"])]
  BY <1>1, <1>4 DEF StreamComesUp
<1>6. ASSUME NEW s \in Sections
      PROVE  RecordOK(s, sec'[s]) /\ SoonShows(s, sec'[s])
  <2> DEFINE x == [sec[s] EXCEPT !.delay = "minute"]
  <2>1. RecordOK(s, sec[s]) /\ sec[s] \in Section /\ sec'[s] = Ask(x)
    BY <1>5 DEF LiveInv
  <2>2. /\ x \in Section /\ x.req = sec[s].req /\ x.got = sec[s].got /\ x.armed = sec[s].armed
        /\ x.etag = sec[s].etag /\ x.shown = sec[s].shown
    BY <2>1 DEF Section
  <2> HIDE DEF x
  <2>3. RecordOK(s, x)
    BY <2>1, <2>2 DEF RecordOK
  <2> QED BY <1>4, <2>1, <2>3, AskKeeps
<1>7. sec' \in [Sections -> Section]
  BY <1>5, <1>6 DEF RecordOK
<1>8. TabOK'
  BY <1>1, <1>4, <1>5 DEF LiveInv, TabOK
<1>9. UNCHANGED <<stored, due, reloading>> /\ via' \in Conns \union {NoConn}
  BY <1>1, <1>2 DEF worldVars
<1> QED BY <1>3, <1>4, <1>6, <1>7, <1>8, <1>9, AllAsk

\* An event is read: it goes into the burst.
LEMMA MessageStep ==
  ASSUME LiveInv, OnMessage
  PROVE  LiveInv'
<1> DEFINE q == conn[via].queue
           chunk == Head(q)
<1>1. /\ via # NoConn /\ es = "open" /\ Read(via)
      /\ named' = IF chunk = Comment THEN named ELSE named \union {chunk}
      /\ pending' = (pending \/ chunk # Comment)
      /\ UNCHANGED <<worldVars, es, via, streamUp, retry, hidden, reloading, sec>>
  BY DEF OnMessage
<1>2. via \in Conns /\ StreamTypeOK /\ UNCHANGED <<stored, due>>
  BY <1>1 DEF LiveInv, worldVars
<1>3. StreamTypeOK'
  BY <1>1, <1>2, ServerTypes
<1>4. \A s \in Sections : RecordOK(s, sec[s])'
  BY <1>1, <1>2 DEF LiveInv, RecordOK
<1>5. TabOK' /\ DueStored'
  BY <1>1, <1>2 DEF LiveInv, TabOK, DueStored
<1>6. /\ q \in Seq(Threads \union {Comment}) /\ DOMAIN q = 1..Len(q) /\ Len(q) \in Nat /\ q # <<>>
      /\ conn'[via].queue = Tail(q) /\ conn'[via].at = conn[via].at /\ conn'[via].over = conn[via].over
  BY <1>1, <1>2, ConnIs DEF Read, StreamTypeOK
<1>7. /\ Tail(q) \in Seq(Threads \union {Comment}) /\ Len(Tail(q)) = Len(q) - 1
      /\ \A i \in 1..Len(Tail(q)) : Tail(q)[i] = q[i + 1]
      /\ chunk = q[1]
  BY <1>6, HeadTailProperties
<1>8. DOMAIN Tail(q) = 1..(Len(q) - 1)
  BY <1>7, LenProperties
<1>9. NothingMissed'
  <2> SUFFICES ASSUME Listening', NEW s \in Sections
               PROVE  InQueue(s)' \/ InBurst(s)' \/ SoonShows(s, sec[s])'
    BY DEF NothingMissed
  <2>1. Listening
    BY <1>1, <1>6 DEF Listening, Subscribed
  <2>2. InQueue(s) \/ InBurst(s) \/ SoonShows(s, sec[s])
    BY <2>1 DEF LiveInv, NothingMissed
  <2>3. InBurst(s) => InBurst(s)'
    BY <1>1 DEF InBurst
  <2>4. SoonShows(s, sec[s]) => SoonShows(s, sec[s])'
    BY <1>1, <1>2 DEF SoonShows, Shows
  <2>5. ASSUME InQueue(s)
        PROVE  InQueue(s)' \/ InBurst(s)'
    <3>1. PICK i \in 1..Len(q) : q[i] \in Feeds(s)
      BY <1>6, <2>5 DEF InQueue
    <3>2. CASE i = 1
      <4>1. chunk \in Feeds(s) /\ chunk # Comment /\ (Pin[s] = NoThread \/ Pin[s] = chunk)
        BY <1>7, <3>1, <3>2, FeedsAre
      <4> QED BY <1>1, <4>1 DEF InBurst
    <3>3. CASE i # 1
      <4> DEFINE j == i - 1
      <4>1. j \in 1..(Len(q) - 1) /\ j + 1 = i
        BY <1>6, <3>1, <3>3
      <4>2. Tail(q)[j] = q[i]
        BY <1>7, <4>1
      <4> QED BY <1>1, <1>6, <1>8, <3>1, <4>1, <4>2 DEF InQueue
    <3> QED BY <3>2, <3>3
  <2> QED BY <2>2, <2>3, <2>4, <2>5
<1> QED BY <1>1, <1>2, <1>3, <1>4, <1>5, <1>9 DEF LiveInv

\* The burst is over: the sections it names ask.
LEMMA BurstStep ==
  ASSUME LiveInv, Burst
  PROVE  LiveInv'
<1> DEFINE who == {s \in Sections : Pin[s] = NoThread \/ Pin[s] \in named}
<1>1. /\ pending /\ pending' = FALSE
      /\ sec' = [s \in Sections |-> IF s \in who THEN Ask(sec[s]) ELSE sec[s]]
      /\ UNCHANGED <<streamVars, worldVars, es, via, streamUp, retry, hidden, reloading>>
  BY DEF Burst, AskNow
<1>2. ~reloading /\ UNCHANGED <<stored, due, conn, closedForGood>>
  BY <1>1 DEF LiveInv, TabOK, worldVars, streamVars
<1>3. ASSUME NEW s \in Sections
      PROVE  /\ RecordOK(s, sec'[s])
             /\ s \in who /\ ~hidden => SoonShows(s, sec'[s])
             /\ s \notin who => sec'[s] = sec[s]
  <2>1. RecordOK(s, sec[s])
    BY DEF LiveInv
  <2>2. CASE s \in who
    <3>1. sec'[s] = Ask(sec[s])
      BY <1>1, <2>2
    <3> QED BY <1>2, <2>1, <2>2, <3>1, AskKeeps
  <2>3. CASE s \notin who
    BY <1>1, <2>1, <2>3
  <2> QED BY <2>2, <2>3
<1>4. \A s \in Sections : RecordOK(s, sec[s])'
  BY <1>1, <1>2, <1>3 DEF RecordOK
<1>5. sec' \in [Sections -> Section]
  BY <1>1, <1>3 DEF RecordOK
<1>6. TabOK' /\ DueStored' /\ StreamTypeOK'
  BY <1>1, <1>2 DEF LiveInv, TabOK, DueStored, StreamTypeOK
<1>7. NothingMissed'
  <2> SUFFICES ASSUME Listening', NEW s \in Sections
               PROVE  InQueue(s)' \/ SoonShows(s, sec[s])'
    BY DEF NothingMissed
  <2>1. Listening /\ ~hidden
    BY <1>1, <1>2 DEF Listening, Subscribed, LiveInv, TabOK
  <2>2. InQueue(s) \/ InBurst(s) \/ SoonShows(s, sec[s])
    BY <2>1 DEF LiveInv, NothingMissed
  <2>3. InQueue(s) => InQueue(s)'
    BY <1>1, <1>2 DEF InQueue
  <2>4. InBurst(s) => s \in who
    BY DEF InBurst
  <2>5. InQueue(s)' \/ SoonShows(s, sec'[s])
    BY <1>3, <2>1, <2>2, <2>3, <2>4
  <2>6. SoonShows(s, sec'[s]) => SoonShows(s, sec[s])'
    BY <1>2 DEF SoonShows, Shows
  <2> QED BY <2>5, <2>6
<1> QED BY <1>1, <1>2, <1>4, <1>5, <1>6, <1>7 DEF LiveInv

\* The process goes away, the next one serves, the session ends elsewhere.
LEMMA ProcessStep ==
  ASSUME LiveInv, Shutdown \/ NextProcess \/ SignedOut
  PROVE  LiveInv'
<1>1. UNCHANGED <<stored, due, es, via, streamUp, retry, pending, named, hidden, reloading, sec>>
  BY DEF Shutdown, NextProcess, SignedOut, tabVars, worldVars
<1>2. StreamTypeOK' /\ (Listening' => Listening /\ conn' = conn)
  <2> DEFINE Recs == [at: {"closed", "writing", "waiting", "closing"}, over: BOOLEAN,
                      old: BOOLEAN, queue: Seq(Threads \union {Comment})]
  <2>1. conn \in [Conns -> Recs] /\ closedForGood \in BOOLEAN
    BY DEF LiveInv, StreamTypeOK
  <2>2. CASE Shutdown
    <3>1. /\ conn' = [c \in Conns |-> [conn[c] EXCEPT !.over = (@ \/ Subscribed(c))]]
          /\ closedForGood' = TRUE
      BY <2>2 DEF Shutdown, EndAllStreams
    <3>2. ASSUME NEW c \in Conns
          PROVE  /\ conn'[c] \in Recs /\ conn'[c].at = conn[c].at
                 /\ Subscribed(c) => conn'[c].over
      <4>1. conn[c] \in Recs /\ conn'[c] = [conn[c] EXCEPT !.over = (@ \/ Subscribed(c))]
        BY <2>1, <3>1
      <4>2. (conn[c].over \/ Subscribed(c)) \in BOOLEAN
        BY <4>1
      <4> QED BY <4>1, <4>2
    <3>3. conn' \in [Conns -> Recs]
      BY <3>1, <3>2
    <3>4. ~Listening'
      BY <1>1, <3>2 DEF Listening, Subscribed, LiveInv
    <3> QED BY <3>1, <3>3, <3>4 DEF StreamTypeOK
  <2>3. CASE NextProcess
    <3>1. closedForGood' = FALSE /\ conn' = [c \in Conns |-> Closed]
      BY <2>3 DEF NextProcess
    <3>2. Closed \in Recs /\ Closed.at = "closed"
      BY EmptySeq DEF Closed
    <3>3. conn' \in [Conns -> Recs]
      BY <3>1, <3>2
    <3>4. ~Listening'
      BY <1>1, <3>1, <3>2 DEF Listening, Subscribed, LiveInv
    <3> QED BY <3>1, <3>3, <3>4 DEF StreamTypeOK
  <2>4. CASE SignedOut
    BY <1>1, <2>1, <2>4 DEF SignedOut, streamVars, StreamTypeOK, Listening, Subscribed
  <2> QED BY <2>2, <2>3, <2>4
<1>3. \A s \in Sections : RecordOK(s, sec[s])'
  BY <1>1 DEF LiveInv, RecordOK
<1>4. DueStored' /\ TabOK'
  BY <1>1 DEF LiveInv, DueStored, TabOK
<1>5. NothingMissed'
  <2> SUFFICES ASSUME Listening', NEW s \in Sections
               PROVE  InQueue(s)' \/ InBurst(s)' \/ SoonShows(s, sec[s])'
    BY DEF NothingMissed
  <2>1. InQueue(s) \/ InBurst(s) \/ SoonShows(s, sec[s])
    BY <1>2 DEF LiveInv, NothingMissed
  <2> QED BY <1>1, <1>2, <2>1 DEF InQueue, InBurst, SoonShows, Shows
<1> QED BY <1>1, <1>2, <1>3, <1>4, <1>5 DEF LiveInv

-----------------------------------------------------------------------------
(***************************************************************************)
(* A message.                                                              *)
(***************************************************************************)

\* What a message does to a stream that is still listened to afterwards.
LEMMA HearsIs ==
  ASSUME StreamTypeOK, NEW c \in Conns, NEW t \in Threads
  PROVE  /\ Hears(c, t) \in [at: {"closed", "writing", "waiting", "closing"}, over: BOOLEAN,
                             old: BOOLEAN, queue: Seq(Threads \union {Comment})]
         /\ Hears(c, t).at = conn[c].at
         /\ Subscribed(c) /\ ~Hears(c, t).over =>
              /\ ~conn[c].over
              /\ \E i \in DOMAIN Hears(c, t).queue : Hears(c, t).queue[i] = t
              /\ \A i \in DOMAIN conn[c].queue :
                   i \in DOMAIN Hears(c, t).queue /\ Hears(c, t).queue[i] = conn[c].queue[i]
<1> DEFINE Recs == [at: {"closed", "writing", "waiting", "closing"}, over: BOOLEAN,
                    old: BOOLEAN, queue: Seq(Threads \union {Comment})]
           q == conn[c].queue
<1>1. conn[c] \in Recs /\ q \in Seq(Threads \union {Comment}) /\ DOMAIN q = 1..Len(q) /\ Len(q) \in Nat
  BY ConnIs
<1>2. CASE ~Subscribed(c) \/ conn[c].over
  <2>1. Hears(c, t) = conn[c]
    BY <1>2 DEF Hears
  <2> QED BY <1>1, <1>2, <2>1
<1>3. CASE ~(~Subscribed(c) \/ conn[c].over) /\ Queued(c) >= MaxQueued
  <2>1. Hears(c, t) = [conn[c] EXCEPT !.over = TRUE]
    BY <1>3 DEF Hears
  <2> QED BY <1>1, <2>1
<1>4. CASE ~(~Subscribed(c) \/ conn[c].over) /\ ~(Queued(c) >= MaxQueued)
  <2>1. Hears(c, t) = [conn[c] EXCEPT !.queue = Append(q, t)]
    BY <1>4 DEF Hears
  <2>2. /\ Append(q, t) \in Seq(Threads \union {Comment}) /\ Len(Append(q, t)) = Len(q) + 1
        /\ \A i \in 1..Len(q) : Append(q, t)[i] = q[i]
        /\ Append(q, t)[Len(q) + 1] = t
    BY <1>1, AppendProperties
  <2>3. DOMAIN Append(q, t) = 1..(Len(q) + 1)
    BY <2>2, LenProperties
  <2>4. /\ Hears(c, t) \in Recs /\ Hears(c, t).queue = Append(q, t) /\ Hears(c, t).at = conn[c].at
    BY <1>1, <2>1, <2>2
  <2>5. \A i \in 1..Len(q) : i \in 1..(Len(q) + 1)
    BY <1>1
  <2>6. Len(q) + 1 \in 1..(Len(q) + 1)
    BY <1>1
  <2> QED BY <1>1, <1>4, <2>2, <2>3, <2>4, <2>5, <2>6
<1> QED BY <1>2, <1>3, <1>4

\* One more message in a thread.
LEMMA StoreIs ==
  ASSUME LiveInv, NEW t \in Threads, Store(t)
  PROVE  /\ UNCHANGED <<es, via, streamUp, retry, pending, named, hidden, reloading, sec>>
         /\ stored' \in [Threads -> Nat] /\ \A u \in Threads : stored[u] <= stored'[u]
         /\ \A s \in Sections : RecordOK(s, sec[s])'
         /\ TabOK'
<1>1. /\ UNCHANGED <<es, via, streamUp, retry, pending, named, hidden, reloading, sec>>
      /\ stored' = [stored EXCEPT ![t] = @ + 1] /\ stored \in [Threads -> Nat]
  BY DEF Store, tabVars, LiveInv
<1>2. stored' \in [Threads -> Nat] /\ \A u \in Threads : stored[u] <= stored'[u] /\ stored[u] \in Nat
  BY <1>1
<1>3. ASSUME NEW s \in Sections
      PROVE  RecordOK(s, sec[s])'
  <2>1. RecordOK(s, sec[s])
    BY DEF LiveInv
  <2>2. ASSUME NEW u \in Feeds(s)
        PROVE  /\ sec[s].shown[u] \in Nat /\ sec[s].shown[u] <= stored'[u]
               /\ sec[s].req = "ok" =>
                    /\ sec[s].got[u] \in Nat /\ sec[s].shown[u] <= sec[s].got[u]
                    /\ sec[s].got[u] <= stored'[u]
    <3>1. /\ sec[s].shown[u] \in Nat /\ sec[s].shown[u] <= stored[u]
          /\ sec[s].req = "ok" =>
               /\ sec[s].got[u] \in Nat /\ sec[s].shown[u] <= sec[s].got[u]
               /\ sec[s].got[u] <= stored[u]
      BY <2>1 DEF RecordOK
    <3>2. stored[u] \in Nat /\ stored'[u] \in Nat /\ stored[u] <= stored'[u]
      BY <1>2, FeedsAre
    <3> QED BY <3>1, <3>2
  <2> QED BY <1>1, <2>1, <2>2 DEF RecordOK
<1>4. TabOK'
  BY <1>1 DEF LiveInv, TabOK
<1> QED BY <1>1, <1>2, <1>3, <1>4

LEMMA SentStep ==
  ASSUME LiveInv, NEW t \in Threads, Sent(t)
  PROVE  LiveInv'
<1>1. /\ Store(t) /\ closedForGood' = closedForGood
      /\ due' = [s \in Sections |-> IF t \in Feeds(s) THEN MarkupOf(stored', s) ELSE due[s]]
      /\ conn' = [c \in Conns |-> Hears(c, t)]
  BY DEF Sent, PublishMessageEvent
<1>2. /\ UNCHANGED <<es, via, streamUp, retry, pending, named, hidden, reloading, sec>>
      /\ stored' \in [Threads -> Nat] /\ \A u \in Threads : stored[u] <= stored'[u]
      /\ \A s \in Sections : RecordOK(s, sec[s])'
      /\ TabOK'
  BY <1>1, StoreIs
<1>3. StreamTypeOK /\ StreamTypeOK'
  BY <1>1, HearsIs DEF LiveInv, StreamTypeOK
<1>4. ASSUME NEW s \in Sections, NEW u \in Feeds(s)
      PROVE  due'[s][u] \in Nat /\ due'[s][u] <= stored'[u]
  <2>1. /\ u \in Threads /\ stored'[u] \in Nat /\ stored[u] \in Nat /\ stored[u] <= stored'[u]
        /\ due[s][u] \in Nat /\ due[s][u] <= stored[u]
    BY <1>2, FeedsAre DEF LiveInv, DueStored
  <2>2. CASE t \in Feeds(s)
    <3>1. due'[s][u] = stored'[u]
      BY <1>1, <2>2 DEF MarkupOf
    <3> QED BY <2>1, <3>1
  <2>3. CASE t \notin Feeds(s)
    <3>1. due'[s] = due[s]
      BY <1>1, <2>3
    <3> QED BY <2>1, <3>1
  <2> QED BY <2>2, <2>3
<1>5. NothingMissed'
  <2> SUFFICES ASSUME Listening', NEW s \in Sections
               PROVE  InQueue(s)' \/ InBurst(s)' \/ SoonShows(s, sec[s])'
    BY DEF NothingMissed
  <2>1. via \in Conns /\ via' = via /\ es' = es /\ conn'[via] = Hears(via, t)
    BY <1>1, <1>2 DEF Listening, LiveInv
  <2>2. /\ Hears(via, t).at = conn[via].at
        /\ Subscribed(via) /\ ~Hears(via, t).over =>
             /\ ~conn[via].over
             /\ \E i \in DOMAIN Hears(via, t).queue : Hears(via, t).queue[i] = t
             /\ \A i \in DOMAIN conn[via].queue :
                  i \in DOMAIN Hears(via, t).queue /\ Hears(via, t).queue[i] = conn[via].queue[i]
    BY <1>3, <2>1, HearsIs
  <2>3. Subscribed(via) /\ ~conn'[via].over
    BY <2>1, <2>2 DEF Listening, Subscribed
  <2>4. Listening
    BY <2>1, <2>2, <2>3 DEF Listening
  <2>5. CASE t \in Feeds(s)
    BY <2>1, <2>2, <2>3, <2>5 DEF InQueue
  <2>6. CASE t \notin Feeds(s)
    <3>1. due'[s] = due[s]
      BY <1>1, <2>6
    <3>2. InQueue(s) \/ InBurst(s) \/ SoonShows(s, sec[s])
      BY <2>4 DEF LiveInv, NothingMissed
    <3>3. InQueue(s) => InQueue(s)'
      BY <2>1, <2>2, <2>3 DEF InQueue
    <3>4. InBurst(s) => InBurst(s)'
      BY <1>2 DEF InBurst
    <3>5. SoonShows(s, sec[s]) => SoonShows(s, sec[s])'
      BY <1>2, <3>1 DEF SoonShows, Shows
    <3> QED BY <3>2, <3>3, <3>4, <3>5
  <2> QED BY <2>5, <2>6
<1>6. sec' \in [Sections -> Section] /\ via' \in Conns \union {NoConn}
  BY <1>2 DEF LiveInv
<1> QED BY <1>2, <1>3, <1>4, <1>5, <1>6 DEF LiveInv, DueStored

LEMMA SentElsewhereStep ==
  ASSUME LiveInv, NEW t \in Threads, SentElsewhere(t)
  PROVE  LiveInv'
<1>1. /\ UNCHANGED <<conn, closedForGood, due>>
      /\ UNCHANGED <<es, via, streamUp, retry, pending, named, hidden, reloading, sec>>
      /\ stored' \in [Threads -> Nat] /\ \A u \in Threads : stored[u] <= stored'[u]
      /\ \A s \in Sections : RecordOK(s, sec[s])'
      /\ TabOK'
  BY StoreIs DEF SentElsewhere, streamVars
<1>2. StreamTypeOK' /\ sec' \in [Sections -> Section] /\ via' \in Conns \union {NoConn}
  BY <1>1 DEF LiveInv, StreamTypeOK
<1>3. ASSUME NEW s \in Sections, NEW u \in Feeds(s)
      PROVE  due'[s][u] \in Nat /\ due'[s][u] <= stored'[u]
  <2>1. /\ u \in Threads /\ stored'[u] \in Nat /\ stored[u] \in Nat /\ stored[u] <= stored'[u]
        /\ due[s][u] \in Nat /\ due[s][u] <= stored[u]
    BY <1>1, FeedsAre DEF LiveInv, DueStored
  <2> QED BY <1>1, <2>1
<1>4. NothingMissed'
  <2> SUFFICES ASSUME Listening', NEW s \in Sections
               PROVE  InQueue(s)' \/ InBurst(s)' \/ SoonShows(s, sec[s])'
    BY DEF NothingMissed
  <2>1. Listening
    BY <1>1 DEF Listening, Subscribed
  <2>2. InQueue(s) \/ InBurst(s) \/ SoonShows(s, sec[s])
    BY <2>1 DEF LiveInv, NothingMissed
  <2> QED BY <1>1, <2>2 DEF InQueue, InBurst, SoonShows, Shows
<1> QED BY <1>1, <1>2, <1>3, <1>4 DEF LiveInv, DueStored

LEMMA LiveStutters ==
  ASSUME LiveInv, UNCHANGED liveVars
  PROVE  LiveInv'
<1>1. UNCHANGED <<tabVars, worldVars, conn, closedForGood>>
  BY DEF liveVars, streamVars
<1>2. StreamTypeOK' /\ UNCHANGED via
  BY <1>1 DEF LiveInv, StreamTypeOK, tabVars
<1>3. Listening' => Listening /\ \A s \in Sections : InQueue(s) => InQueue(s)'
  BY <1>1, <1>2 DEF Listening, Subscribed, InQueue, tabVars
<1> QED BY <1>1, <1>2, <1>3, TabRests

\* The invariant holds of every behaviour of the tab.
THEOREM LiveInvariance == LiveSpec => []LiveInv
<1>1. ASSUME LiveInv, [LiveNext]_liveVars
      PROVE  LiveInv'
  <2>1. ASSUME NEW s \in Sections, SectionStep(s) \/ FetchFails(s) \/ Use(s) \/ Release(s)
        PROVE  LiveInv'
    BY <1>1, <2>1, TimerStep, ArrivesStep, FinishStep, UseStep, DeniedStep DEF SectionStep
  <2>2. CASE StreamMoves \/ StreamBreaks
    BY <1>1, <2>2, LosesStep, RetryStep, OpenStep, MessageStep, BurstStep DEF StreamMoves
  <2>3. CASE Load \/ Hide \/ Show \/ Online \/ SignedOut \/ Shutdown \/ NextProcess
    BY <1>1, <2>3, LoadStep, LosesStep, ShowStep, OnlineStep, ProcessStep
  <2>4. ASSUME NEW c \in Conns, Subscribe(c) \/ OtherTab(c) \/ Others(c) \/ ServeStream(c)
        PROVE  LiveInv'
    BY <1>1, <2>4, SubscribeStep, ServerStep
  <2>5. ASSUME NEW t \in Threads, Sent(t) \/ SentElsewhere(t)
        PROVE  LiveInv'
    BY <1>1, <2>5, SentStep, SentElsewhereStep
  <2> QED BY <1>1, <2>1, <2>2, <2>3, <2>4, <2>5, LiveStutters DEF LiveNext
<1> QED BY <1>1, LiveBegins, PTL DEF LiveSpec

\* A tab's refresh neither dies nor doubles, and a section that rests while its
\* stream is up shows every message it was told of, for any sections, threads,
\* connections and limits, and whatever is hidden, held, lost, refused or
\* restarted (live-refresh.ts: "ask again after it", "keep the old ETag").
THEOREM TabCatchesUp == LiveSpec => []CaughtUp
<1>1. ASSUME LiveInv
      PROVE  CaughtUp
  <2>1. ~reloading => AsksOrWaits
    BY <1>1 DEF LiveInv, RecordOK, TabOK, AsksOrWaits
  <2>2. ASSUME NEW s \in Sections, es = "open", via # NoConn, Subscribed(via), ~conn[via].over,
               Queued(via) = 0, ~pending, Rests(s)
        PROVE  Shows(s, sec[s].shown)
    <3>1. InQueue(s) \/ InBurst(s) \/ SoonShows(s, sec[s])
      BY <1>1, <2>2 DEF LiveInv, NothingMissed, Listening
    <3>2. ~InQueue(s)
      <4> DEFINE E == {i \in DOMAIN conn[via].queue : conn[via].queue[i] # Comment}
      <4>1. DOMAIN conn[via].queue = 1..Len(conn[via].queue) /\ Len(conn[via].queue) \in Nat
        BY <1>1, <2>2, ConnIs DEF LiveInv
      <4>2. \A n \in Nat : IsFiniteSet(1..n)
        BY FS_Interval
      <4>3. E \subseteq DOMAIN conn[via].queue
        OBVIOUS
      <4>4. IsFiniteSet(E)
        <5>1. IsFiniteSet(DOMAIN conn[via].queue)
          BY <4>1, <4>2
        <5> HIDE DEF E
        <5> QED BY <5>1, <4>3, FS_Subset
      <4>5. E = {}
        BY <2>2, <4>4, FS_EmptySet DEF Queued
      <4> QED BY <4>5, FeedsAre DEF InQueue
    <3>3. ~InBurst(s)
      BY <2>2 DEF InBurst
    <3> QED BY <2>2, <3>1, <3>2, <3>3 DEF SoonShows, Rests
  <2> QED BY <2>1, <2>2 DEF CaughtUp
<1> QED BY <1>1, LiveInvariance, PTL

=============================================================================
