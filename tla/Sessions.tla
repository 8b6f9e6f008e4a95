------------------------------ MODULE Sessions ------------------------------
(***************************************************************************)
(* The dashboard's sessions (src/auth.ts, routes/session.tsx): one browser *)
(* with several tabs, its two cookies, the processes that answer it, and   *)
(* the tokens its sessions are made from, an agent's or the operator's.    *)
(*                                                                         *)
(* A request is handled with the cookies of that moment; the answer        *)
(* changes them when it arrives, in any order, or is lost.  A tick is far  *)
(* longer than an answer: none is under way while the clock moves.         *)
(* Moments are kept as ages, and an age stops growing one tick after the   *)
(* last limit the code compares it with.  Cookies and form tokens carry a  *)
(* MAC, so the browser only ever presents what it was given.               *)
(* An operator named X_<slip> is X with a plausible programming slip.      *)
(***************************************************************************)
EXTENDS AgentTokens, Sequences

CONSTANTS
  Tabs,
  Operator,     \* the principal of the admin token
  AdminTokens,  \* MESH_ADMIN_TOKEN and MESH_ADMIN_TOKEN_PREVIOUS
  RenewAfter,   \* SESSION_RENEW_AFTER_MS
  IdleMax,      \* SESSION_IDLE_MS
  AbsoluteMax,  \* SESSION_ABSOLUTE_MS
  SignInAge,    \* CSRF_LOGIN_MAX_AGE_MS
  FormAge,      \* CSRF_SESSION_MAX_AGE_MS
  MaxNonces     \* bound: pre-session values in use at a time

ASSUME SessionsAssumption ==
  /\ {RenewAfter, IdleMax, AbsoluteMax, SignInAge, FormAge, MaxNonces} \subseteq Nat
  /\ RenewAfter < IdleMax /\ IdleMax <= AbsoluteMax
  /\ Operator \notin Agents
  /\ AdminTokens \cap (0..MaxTokens) = {}

VARIABLES
  jar,       \* the session cookie in the browser
  nonce,     \* the pre-session cookie in the browser; 0: none
  page,      \* tab -> the form token on the page it shows
  answer,    \* tab -> the answer under way to it
  signedIn,  \* history, an age: this browser was last signed in
  viewed,    \* history, an age: a person last used it to sign in, look or act
  shown      \* history, an age: the same, and the answer arrived

browser == <<jar, nonce, page>>
history == <<signedIn, viewed, shown>>
vars == <<tokenVars, browser, answer, history>>

\* What the MACs cover: v2:kind:id:createdAt:issuedAt:fingerprint.  The
\* fingerprint stands for the token it is made from.
NewCookie(who, t) == [who |-> who, token |-> t, created |-> 0, issued |-> 0]
NoCookie == NewCookie(Operator, NoToken)

\* nonce:timestamp.mac over a binding: the pre-session cookie's value, or
\* the session's principal and fingerprint.
NoForm == [for |-> "nothing", nonce |-> 0, who |-> Operator, token |-> NoToken, age |-> 0]
SignInForm(n) == [NoForm EXCEPT !.for = "sign-in", !.nonce = n]
SessionForm(c) == [NoForm EXCEPT !.for = "session", !.who = c.who, !.token = c.token]

\* What an answer does to the browser: an empty set keeps what is there.
\* `of`: a person who signed in ("sign-in") or was let in by the middleware
\* ("view"), a tab on its own that was let in ("poll"), or none of these.
NoAnswer == [of |-> "no request", jar |-> {}, nonce |-> {}, page |-> {}]

TypeOK ==
  /\ TokenTypeOK
  /\ jar.who \in Agents \union {Operator}
  /\ jar.token \in Tokens \union AdminTokens \union {NoToken}
  /\ jar.issued <= jar.created /\ jar.created <= AbsoluteMax + 1
  /\ nonce \in 0..MaxNonces
  /\ \A t \in Tabs :
       /\ page[t].for \in {"nothing", "sign-in", "session"} /\ page[t].nonce <= MaxNonces
       /\ \A c \in answer[t].jar : c = NoCookie \/ c.token # NoToken
       /\ Cardinality(answer[t].jar) <= 1
  /\ {signedIn, viewed, shown} \subseteq 0..(AbsoluteMax + 1)

Init ==
  /\ TokenInit
  /\ jar = NoCookie /\ nonce = 0
  /\ page = [t \in Tabs |-> NoForm]
  /\ answer = [t \in Tabs |-> NoAnswer]
  /\ signedIn = 0 /\ viewed = 0 /\ shown = 0

-----------------------------------------------------------------------------
(***************************************************************************)
(* Who a cookie is.                                                        *)
(***************************************************************************)

\* readSessionCookie: genuine and in time.
InTime(c) == c # NoCookie /\ c.issued <= IdleMax /\ c.created <= AbsoluteMax

\* The session stands as long as the token it was made from does: the row is
\* read, never the memory of tokens.
Stands_FromMemory(p, c) ==
  /\ InTime(c)
  /\ IF c.who = Operator THEN c.token \in AdminTokens ELSE c.who \in Found(p, c.token)

Stands(p, c) ==
  /\ InTime(c)
  /\ IF c.who = Operator THEN c.token \in AdminTokens
     ELSE c.who \in Active /\ row[c.who].token = c.token

Renewed_StartsOver(c) == [c EXCEPT !.created = 0, !.issued = 0]
Renewed(c) == [c EXCEPT !.issued = 0]

\* Sliding, but not for what an open tab does by itself.
RenewalFor_AtTheEnd(byHand, c) == IF byHand /\ c.issued >= IdleMax THEN {Renewed(c)} ELSE {}
RenewalFor(byHand, c) == IF byHand /\ c.issued > RenewAfter THEN {Renewed(c)} ELSE {}

\* csrfOk: rendered for this session, and not too long ago.
FormFits(f, c) ==
  /\ f.for = "session" /\ f.who = c.who /\ f.token = c.token
  /\ f.age <= FormAge

\* The pre-session value comes from the cookie and from nowhere else.
OwnSignInForm(f) ==
  /\ f.for = "sign-in" /\ nonce # 0 /\ f.nonce = nonce
  /\ f.age <= SignInAge

-----------------------------------------------------------------------------
(***************************************************************************)
(* Requests: sent and handled.  A tab has one under way at a time, and one *)
(* made by hand leaves its page; what shows if the answer is lost is the   *)
(* browser's own.                                                          *)
(***************************************************************************)

Waits(t) == answer[t].of # "no request"
Answer(t, of, jars, ns, pages) ==
  /\ ~Waits(t)
  /\ answer' = [answer EXCEPT ![t] = [of |-> of, jar |-> jars, nonce |-> ns, page |-> pages]]
  /\ page' = IF pages = {} THEN page ELSE [page EXCEPT ![t] = NoForm]

\* A value that neither a page nor an answer under way has.
Unused(n) ==
  \A t \in Tabs : page[t].nonce # n /\ n \notin answer[t].nonce
DrawNonce == {n \in 1..MaxNonces : Unused(n) /\ \A m \in 1..(n - 1) : ~Unused(m)}

\* GET /login: keeps the pre-session cookie the browser has, or draws one.
SignInPage(t) ==
  \E n \in IF nonce # 0 THEN {nonce} ELSE DrawNonce :
  /\ Answer(t, "other", {}, {n}, {SignInForm(n)})
  /\ UNCHANGED <<tokenVars, jar, nonce, history>>

\* POST /login with the token that was typed.  The token is looked at only
\* when the form is the page's own; it may be one that this process merely
\* remembers.
SignIn(t, p, typed) ==
  LET who == IF typed \in AdminTokens THEN {Operator} ELSE Found(p, typed) IN
  /\ page[t].for = "sign-in"
  /\ IF OwnSignInForm(page[t]) /\ typed \notin AdminTokens THEN Remember(p, typed) ELSE UNCHANGED cache
  /\ IF OwnSignInForm(page[t]) /\ who # {}
     THEN /\ Answer(t, "sign-in", {NewCookie(w, typed) : w \in who}, {0}, {NoForm})
          /\ signedIn' = 0 /\ viewed' = 0
     ELSE Answer(t, "other", {}, {}, {NoForm}) /\ UNCHANGED <<signedIn, viewed>>
  /\ UNCHANGED <<row, minted, ended, jar, nonce, shown>>

\* authMiddleware on the cookie, then a page, the answer to one of its forms
\* or a fragment for a tab on its own.  Who is not let in goes to /login.
Serve(t, p, byHand) ==
  /\ byHand \/ page[t].for = "session"
  /\ IF Stands(p, jar)
     THEN /\ Answer(t, IF byHand THEN "view" ELSE "poll", RenewalFor(byHand, jar), {},
                    IF byHand THEN {SessionForm(jar)} ELSE {})
          /\ viewed' = IF byHand THEN 0 ELSE viewed
     ELSE Answer(t, "other", {}, {}, {NoForm}) /\ UNCHANGED viewed
  /\ UNCHANGED <<tokenVars, jar, nonce, signedIn, shown>>

\* POST /logout: a cookie in time is ended by its own pages only; without
\* one nothing is cleared.  Whether its token still stands is not asked.
SignOut(t) ==
  /\ page[t].for = "session"
  /\ IF jar = NoCookie THEN Answer(t, "other", {}, {}, {NoForm})
     ELSE IF InTime(jar) /\ ~FormFits(page[t], jar) THEN Answer(t, "other", {}, {}, {SessionForm(jar)})
     ELSE Answer(t, "other", {NoCookie}, {}, {NoForm})
  /\ UNCHANGED <<tokenVars, jar, nonce, history>>

-----------------------------------------------------------------------------
(***************************************************************************)
(* The answers, the clock, the operator.                                   *)
(***************************************************************************)

The(S, else) == IF S = {} THEN else ELSE CHOOSE x \in S : TRUE

Arrive(t) ==
  LET a == answer[t] IN
  /\ Waits(t)
  /\ jar' = The(a.jar, jar)
  /\ nonce' = The(a.nonce, nonce)
  /\ page' = [page EXCEPT ![t] = The(a.page, @)]
  /\ shown' = IF a.of \in {"sign-in", "view"} THEN 0 ELSE shown
  /\ answer' = [answer EXCEPT ![t] = NoAnswer]
  /\ UNCHANGED <<tokenVars, signedIn, viewed>>

Lose(t) ==
  /\ Waits(t)
  /\ answer' = [answer EXCEPT ![t] = NoAnswer]
  /\ UNCHANGED <<tokenVars, browser, history>>

Older(age, most) == IF age > most THEN age ELSE age + 1

Tick ==
  /\ \A t \in Tabs : ~Waits(t)
  /\ jar' = IF jar = NoCookie THEN jar
            ELSE [jar EXCEPT !.created = Older(@, AbsoluteMax), !.issued = Older(@, IdleMax)]
  /\ page' = [t \in Tabs |->
       [page[t] EXCEPT !.age = IF page[t].for = "sign-in" THEN Older(@, SignInAge)
                               ELSE IF page[t].for = "session" THEN Older(@, FormAge) ELSE @]]
  /\ signedIn' = Older(signedIn, AbsoluteMax)
  /\ viewed' = Older(viewed, IdleMax)
  /\ shown' = Older(shown, IdleMax)
  /\ UNCHANGED <<tokenVars, nonce, answer>>

\* The operator changes an agent, the agent calls with its token, or a
\* process starts again.
Elsewhere(p) ==
  /\ Administer(p) \/ Restart(p) \/ \E t \in Tokens : Bearer(p, t)
  /\ UNCHANGED <<browser, answer, history>>

Next ==
  \/ \E t \in Tabs :
       \/ SignInPage(t)
       \/ \E p \in Procs :
            \/ \E typed \in (1..minted) \union AdminTokens : SignIn(t, p, typed)
            \/ \E byHand \in BOOLEAN : Serve(t, p, byHand)
       \/ SignOut(t)
       \/ Arrive(t) \/ Lose(t)
  \/ \E p \in Procs : Elsewhere(p)
  \/ Tick

Spec == Init /\ [][Next]_vars

-----------------------------------------------------------------------------
(***************************************************************************)
(* Properties.                                                             *)
(***************************************************************************)

\* The middleware lets the browser's cookie in at this step.
LetsIn == \E t \in Tabs : ~Waits(t) /\ answer'[t].of \in {"view", "poll"}

\* "The old one dies at once ... and its dashboard sessions end with their
\* next request" (README): once a token was reset, revoked or deleted in any
\* process, no session made from it is let in by any of them, also not one
\* that a process with a stale memory made afterwards.
EndedTokenEndsSessions ==
  [][LetsIn /\ jar.who # Operator => ended[jar.token] = NoProc]_vars

\* A session ends AbsoluteMax after the sign-in, also one in daily use; and an
\* open tab is not a person: a browser nobody uses is signed out after IdleMax,
\* however often its tabs ask for fragments (auth.ts:445-447).
SessionsEnd == [][LetsIn => signedIn <= AbsoluteMax /\ viewed <= IdleMax]_vars

\* A person who comes back within IdleMax - RenewAfter finds the session
\* there, whichever tab the renewals went to, as long as the answers arrived.
ActiveUserStays ==
  jar # NoCookie /\ shown <= IdleMax - RenewAfter /\ jar.created <= AbsoluteMax => InTime(jar)

=============================================================================
