----------------------------- MODULE OAuthCodes -----------------------------
(***************************************************************************)
(* A connector gets an agent's token over OAuth (src/oauth.ts,             *)
(* src/oauth-codes.ts, src/seal.ts): it sends the browser to the consent   *)
(* page with its PKCE challenge, the operator pastes a token there, and    *)
(* the code that comes back is exchanged for the token, once.              *)
(*                                                                         *)
(* Two processes on one database, each with the sealing secret it was      *)
(* started with.  A code is random: it is the row's name here, and who     *)
(* knows it may try it.  A request is one synchronous run of its process;  *)
(* whether its answer arrives changes nothing the server keeps.  Malformed *)
(* requests, which are refused before they touch anything, and what is in  *)
(* the answers are left out.  An operator named X_<slip> is X with a       *)
(* plausible programming slip.                                             *)
(***************************************************************************)
EXTENDS AgentTokens, SignInGuard

CONSTANTS
  Connectors,   \* OAuth clients, each with a verifier of its own
  NoPage,       \* no connector
  Codes,        \* bound: codes issued in a behaviour
  Secrets,      \* values of OAUTH_SECRET, or of what stands in for it
  NoSecret,
  AdminTokens,  \* MESH_ADMIN_TOKEN and MESH_ADMIN_TOKEN_PREVIOUS
  CodeLife      \* CODE_EXPIRY_MS

ASSUME OAuthAssumption ==
  /\ Guards = Procs
  /\ NoPage \notin Connectors /\ NoSecret \notin Secrets
  /\ AdminTokens \cap (0..MaxTokens) = {}
  /\ CodeLife \in Nat \ {0}

VARIABLES
  secret,   \* process -> getOAuthSecret()
  form,     \* client address -> the connector whose challenge its consent page carries
  codes,    \* code -> its row in oauth_codes
  issued,   \* history: code -> whose page it was issued on, under which
            \* secret, and how many ticks ago
  tried,    \* history: the codes somebody tried
  handed    \* history: who was handed the token behind which code

codeVars == <<secret, form, codes, issued, tried, handed>>
oauthVars == <<tokenVars, guardVars, codeVars>>

\* The columns: token_sealed (under the secret that was in force),
\* code_challenge, and expires_at as the ticks left.
NoRow == [there |-> FALSE, token |-> NoToken, sealed |-> NoSecret, challenge |-> NoPage, left |-> 0]
NotIssued == [to |-> NoPage, under |-> NoSecret, age |-> 0]

OAuthTypeOK ==
  /\ TokenTypeOK /\ GuardTypeOK
  /\ secret \in [Procs -> Secrets]
  /\ form \in [Clients -> Connectors \union {NoPage}]
  /\ codes \in [Codes -> [there: BOOLEAN, token: Tokens \union {NoToken},
                          sealed: Secrets \union {NoSecret},
                          challenge: Connectors \union {NoPage}, left: 0..CodeLife]]
  /\ issued \in [Codes -> [to: Connectors \union {NoPage}, under: Secrets \union {NoSecret},
                           age: 0..CodeLife]]
  /\ tried \subseteq Codes
  /\ handed \subseteq [code: Codes, to: Connectors]

OAuthInit ==
  /\ TokenInit /\ GuardInit
  /\ \E s \in Secrets : secret = [p \in Procs |-> s]
  /\ form = [b \in Clients |-> NoPage]
  /\ codes = [c \in Codes |-> NoRow]
  /\ issued = [c \in Codes |-> NotIssued]
  /\ tried = {}
  /\ handed = {}

-----------------------------------------------------------------------------
(***************************************************************************)
(* The consent page.                                                       *)
(***************************************************************************)

\* isAllowedRedirectUri: a local client, or the hosted connector over TLS.
RedirectUris == [scheme: {"http", "https", "other"}, host: {"loopback", "hosted", "elsewhere"}]
IsAllowedRedirectUri(uri) ==
  /\ uri.scheme \in {"http", "https"}
  /\ uri.host = "loopback" \/ (uri.host = "hosted" /\ uri.scheme = "https")

\* authorizePageHTML: its form carries the challenge (and the redirect and the
\* state) on to the post, also when the page is shown again with an error.
ConsentPage(b, k) == form' = [form EXCEPT ![b] = k]

\* handoffPageHTML, or the throttle's answer, is in the place of that page.
OtherPage(b) == form' = [form EXCEPT ![b] = NoPage]

\* GET /oauth/authorize, and a form posted from another site: the page that
\* carries the challenge asked with.  No token is looked at, nothing counted.
Authorize(b, k, uri) ==
  /\ IsAllowedRedirectUri(uri)
  /\ ConsentPage(b, k)
  /\ UNCHANGED <<tokenVars, guardVars, secret, codes, issued, tried, handed>>

\* classifyToken
ClassifyToken(p, t) ==
  IF t \in AdminTokens THEN "admin"
  ELSE IF t \in Tokens /\ Found(p, t) # {} THEN "agent"
  ELSE "invalid"

\* The page comes back as it was, with the reason on it.  A client that was
\* throttled before is not counted, and gets the throttle's answer instead.
Refuse(p, b, t) ==
  /\ form[b] # NoPage
  /\ ClassifyToken(p, t) # "agent"
  /\ Failure(p, b)
  /\ IF Throttled(p, b) THEN OtherPage(b) ELSE ConsentPage(b, form[b])
  /\ UNCHANGED <<tokenVars, secret, codes, issued, tried, handed>>

\* issueCode
IssueCode(p, c, k, t) ==
  codes' = [codes EXCEPT ![c] = [there |-> TRUE, token |-> t, sealed |-> secret[p],
                                 challenge |-> k, left |-> CodeLife]]

\* The page that hands the browser on to the connector.
HandOff(p, b, t, c) ==
  /\ form[b] # NoPage
  /\ issued[c] = NotIssued
  /\ ClassifyToken(p, t) = "agent"
  /\ Remember(p, t)
  /\ IssueCode(p, c, form[b], t)
  /\ issued' = [issued EXCEPT ![c] = [to |-> form[b], under |-> secret[p], age |-> 0]]
  /\ OtherPage(b)
  /\ UNCHANGED <<row, minted, ended, guardVars, secret, tried, handed>>

-----------------------------------------------------------------------------
(***************************************************************************)
(* The exchange.                                                           *)
(***************************************************************************)

\* redeemCode: the row goes with the first try that names it, right or wrong.
Spend_OnSuccess(p, c, k) == IF codes[c].challenge = k THEN [codes EXCEPT ![c] = NoRow] ELSE codes
Spend(p, c, k) == [codes EXCEPT ![c] = NoRow]

Opens(p, c, k) ==
  /\ codes[c].there
  /\ codes[c].left > 0
  /\ codes[c].challenge = k         \* the verifier fits the challenge
  /\ codes[c].sealed = secret[p]    \* the seal opens

\* POST /oauth/token with a code and a verifier.
RedeemCode(p, c, k) ==
  /\ issued[c] # NotIssued
  /\ codes' = Spend(p, c, k)
  /\ handed' = IF Opens(p, c, k) THEN handed \union {[code |-> c, to |-> k]} ELSE handed
  /\ tried' = tried \union {c}
  /\ UNCHANGED <<tokenVars, guardVars, secret, form, issued>>

\* cleanupExpiredOAuthCodes, in the hourly sweep and at the start.
RanOut_Early(c) == codes[c].left <= 1
RanOut(c) == codes[c].left <= 0

CleanupExpiredOAuthCodes ==
  /\ \E c \in Codes : codes[c].there /\ RanOut(c)
  /\ codes' = [c \in Codes |-> IF RanOut(c) THEN NoRow ELSE codes[c]]
  /\ UNCHANGED <<tokenVars, guardVars, secret, form, issued, tried, handed>>

-----------------------------------------------------------------------------
OAuthTick ==
  /\ GuardTick
  /\ codes' = [c \in Codes |-> IF codes[c].left > 0 THEN [codes[c] EXCEPT !.left = @ - 1] ELSE codes[c]]
  /\ issued' = [c \in Codes |->
       IF issued[c] # NotIssued /\ issued[c].age < CodeLife THEN [issued[c] EXCEPT !.age = @ + 1]
       ELSE issued[c]]
  /\ UNCHANGED <<tokenVars, secret, form, tried, handed>>

\* A deploy or a restart, with the secret the environment has by then.
Redeploy(p, s) ==
  /\ Restart(p) /\ GuardRestart(p)
  /\ secret' = [secret EXCEPT ![p] = s]
  /\ UNCHANGED <<form, codes, issued, tried, handed>>

\* What the operator and the agents do meanwhile.
Elsewhere ==
  /\ \E p \in Procs : Administer(p) \/ \E t \in Tokens : Bearer(p, t)
  /\ UNCHANGED <<guardVars, codeVars>>

OAuthNext ==
  \/ \E p \in Procs :
       \/ \E b \in Clients, t \in Tokens \union AdminTokens :
            Refuse(p, b, t) \/ \E c \in Codes : HandOff(p, b, t, c)
       \/ \E c \in Codes, k \in Connectors : RedeemCode(p, c, k)
       \/ \E s \in Secrets : Redeploy(p, s)
  \/ \E b \in Clients, k \in Connectors, uri \in RedirectUris : Authorize(b, k, uri)
  \/ CleanupExpiredOAuthCodes \/ OAuthTick \/ Elsewhere

OAuthSpec == OAuthInit /\ [][OAuthNext]_oauthVars

-----------------------------------------------------------------------------
(***************************************************************************)
(* Properties.                                                             *)
(***************************************************************************)

(***************************************************************************)
(* "A code is good for one try at the verifier, not for a search"          *)
(* (oauth-codes.ts:67): the token behind it goes to the connector whose    *)
(* page it was pasted into, at the first try at the code, and to nobody    *)
(* otherwise, whichever process answers and however many try.              *)
(***************************************************************************)
OneTryForItsConnector ==
  [][\A h \in handed' \ handed : h.to = issued[h.code].to /\ h.code \notin tried]_oauthVars

(***************************************************************************)
(* The connector's own first try hands it the token as long as five        *)
(* minutes have not passed and the secret is the one the code was sealed   *)
(* under: no sweep, restart, sign-in elsewhere or operator's act takes a   *)
(* code that is still good.                                                *)
(***************************************************************************)
GoodCodeWorks ==
  \A c \in Codes :
    issued[c] # NotIssued /\ c \notin tried /\ issued[c].age < CodeLife =>
      \A p \in Procs : issued[c].under = secret[p] => Opens(p, c, issued[c].to)

=============================================================================
