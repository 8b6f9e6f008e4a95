----------------------------- MODULE LiveRefresh -----------------------------
(***************************************************************************)
(* The live sections of an open dashboard tab: the script of               *)
(* views/v2/live-refresh.ts, the fragments it asks for (routes/fragments   *)
(* .tsx) and the stream that tells it when to (MessageStream).  Each       *)
(* section fetches its inside on a timer, and at once when the stream      *)
(* names its thread.                                                       *)
(*                                                                         *)
(* A section's markup is the number of messages of each thread it is made  *)
(* from.  A timer fires at any moment; how long it was set for is kept as  *)
(* a class.  `named` is kept, `all` (an event that cannot be parsed) is    *)
(* not.  What the user and the network do to the tab is bounded by         *)
(* MaxEvents.                                                              *)
(*                                                                         *)
(* An operator named X_<slip> is X with a plausible programming slip.      *)
(***************************************************************************)
EXTENDS MessageStream, Folds

CONSTANTS
  Sections,    \* the elements with data-live
  Pin,         \* section -> data-live-thread, or NoThread
  NoThread,
  NoConn,
  NoMarkup,    \* no tag, no answer
  MaxMessages, \* bound: messages stored
  MaxEvents    \* bound: what the user and the network do

Markups == UNION {[T -> Nat] : T \in SUBSET Threads}

ASSUME LiveAssumption ==
  /\ \A T \in SUBSET Threads : NoMarkup \notin [T -> Nat]
  /\ NoThread \notin Threads /\ NoConn \notin Conns
  /\ Pin \in [Sections -> Threads \union {NoThread}]
  /\ MaxMessages \in Nat /\ MaxEvents \in Nat

VARIABLES
  stored,    \* thread -> its messages in the database
  due,       \* history: section -> what its fragment was when it was last told to ask
  hasSession,  \* the session of this tab is alive
  es,        \* the EventSource: "none", "connecting" or "open"
  via,       \* the server's side of it
  streamUp,
  retry,     \* the retry timer is armed
  pending,   \* the debounce timer is armed
  named,     \* threads of the burst
  hidden,    \* document.hidden
  reloading,
  sec,       \* section -> its record
  events     \* what happened so far of MaxEvents

tabVars == <<es, via, streamUp, retry, pending, named, hidden, reloading, sec>>
worldVars == <<stored, due, hasSession, events>>
liveVars == <<streamVars, tabVars, worldVars>>

\* The classes of `delay`: five or ten seconds, the minute of an open stream,
\* and the backoff.  Requests: under way ("sent"), or answered with new
\* markup ("ok"), 304 ("same"), 401 ("denied") or anything else ("failed").
Section == [req: {"idle", "sent", "ok", "same", "denied", "failed"},
            got: Markups \union {NoMarkup}, again: BOOLEAN, armed: BOOLEAN,
            delay: {"short", "minute", "backoff"}, etag: Markups \union {NoMarkup},
            shown: Markups, inUse: BOOLEAN]

Feeds(s) == IF Pin[s] = NoThread THEN Threads ELSE {Pin[s]}

\* What the section's fragment renders now.
MarkupOf(store, s) == [t \in Feeds(s) |-> store[t]]
Markup(s) == MarkupOf(stored, s)

\* The page as the server rendered it, and the end of the script.
Loaded(s) == [req |-> "idle", got |-> NoMarkup, again |-> FALSE, armed |-> TRUE, delay |-> "short",
              etag |-> NoMarkup, shown |-> Markup(s), inUse |-> FALSE]

LiveTypeOK ==
  /\ StreamTypeOK
  /\ stored \in [Threads -> Nat] /\ due \in [Sections -> Markups]
  /\ {hasSession, streamUp, retry, pending, hidden, reloading} \subseteq BOOLEAN
  /\ es \in {"none", "connecting", "open"} /\ via \in Conns \union {NoConn}
  /\ named \subseteq Threads
  /\ sec \in [Sections -> Section]
  /\ events \in 0..MaxEvents

LiveInit ==
  /\ StreamInit
  /\ stored = [t \in Threads |-> 0] /\ due = [s \in Sections |-> Markup(s)]
  /\ hasSession = TRUE
  /\ es = "connecting" /\ via = NoConn
  /\ streamUp = FALSE /\ retry = FALSE /\ pending = FALSE /\ named = {}
  /\ hidden = FALSE /\ reloading = FALSE
  /\ sec = [s \in Sections |-> Loaded(s)]
  /\ events = 0

Event == events < MaxEvents /\ events' = events + 1

-----------------------------------------------------------------------------
(***************************************************************************)
(* One section: tick, schedule and the end of a fetch, as functions of its *)
(* record.                                                                 *)
(***************************************************************************)

Schedule(r) == [r EXCEPT !.armed = TRUE]

\* clearTimeout and tick.
Ask(r) ==
  IF r.req # "idle" THEN [r EXCEPT !.again = TRUE, !.armed = FALSE]
  ELSE IF hidden THEN Schedule(r)
  ELSE [r EXCEPT !.req = "sent", !.armed = FALSE]

\* The last `then` of tick.
After(r) ==
  LET idle == [r EXCEPT !.req = "idle", !.got = NoMarkup, !.again = FALSE]
  IN IF r.again THEN Ask(idle) ELSE Schedule(idle)

Base == IF streamUp THEN "minute" ELSE "short"

AskNow_OnceAtATime(who) ==
  [s \in Sections |-> IF s \in who /\ sec[s].req = "idle" THEN Ask(sec[s]) ELSE sec[s]]

\* askNow
AskNow(who) == [s \in Sections |-> IF s \in who THEN Ask(sec[s]) ELSE sec[s]]

SlowDown(r) ==
  IF r.req = "idle" THEN Schedule([r EXCEPT !.delay = "short"]) ELSE [r EXCEPT !.delay = "short"]

\* setStream(true)
StreamComesUp ==
  /\ streamUp' = TRUE
  /\ sec' = IF streamUp THEN sec ELSE [s \in Sections |-> Ask([sec[s] EXCEPT !.delay = "minute"])]

\* setStream(false)
StreamGoesDown ==
  /\ streamUp' = FALSE
  /\ sec' = IF streamUp THEN [s \in Sections |-> SlowDown(sec[s])] ELSE sec

\* disconnect
Disconnect ==
  /\ es' = "none" /\ via' = NoConn
  /\ retry' = FALSE /\ pending' = FALSE

\* connect, up to the answer.
ConnectStream ==
  /\ es' = IF es = "none" THEN "connecting" ELSE es
  /\ retry' = (retry /\ es # "none")

-----------------------------------------------------------------------------
(***************************************************************************)
(* Fetches.                                                                *)
(***************************************************************************)

TimerFires(s) ==
  /\ sec[s].armed /\ ~hidden
  /\ sec' = [sec EXCEPT ![s] = Ask(@)]
  /\ UNCHANGED <<streamVars, worldVars, es, via, streamUp, retry, pending, named, hidden, reloading>>

Arrives(s, req, got) ==
  /\ sec[s].req = "sent"
  /\ sec' = [sec EXCEPT ![s].req = req, ![s].got = got]
  /\ UNCHANGED <<streamVars, stored, due, hasSession, es, via, streamUp, retry, pending, named, hidden,
                 reloading>>

\* The fragment route: 304 if the tag is the one of what it renders now.
Respond(s) ==
  /\ \/ ~hasSession /\ Arrives(s, "denied", NoMarkup)
     \/ hasSession /\ sec[s].etag = Markup(s) /\ Arrives(s, "same", NoMarkup)
     \/ hasSession /\ sec[s].etag # Markup(s) /\ Arrives(s, "ok", Markup(s))
  /\ UNCHANGED events

FetchFails(s) == Arrives(s, "failed", NoMarkup) /\ Event

Finish(s, r) ==
  /\ sec' = [sec EXCEPT ![s] = After(r)]
  /\ UNCHANGED <<streamVars, worldVars, es, via, streamUp, retry, pending, named, hidden, reloading>>

NotModified(s) == sec[s].req = "same" /\ Finish(s, [sec[s] EXCEPT !.delay = Base])

NewMarkup_KeepsTag(s) ==
  /\ sec[s].req = "ok"
  /\ Finish(s, IF sec[s].inUse THEN [sec[s] EXCEPT !.delay = "short", !.etag = sec[s].got]
               ELSE [sec[s] EXCEPT !.delay = Base, !.shown = sec[s].got, !.etag = sec[s].got])

\* New markup: swapped in, unless the section is in use.
NewMarkup(s) ==
  /\ sec[s].req = "ok"
  /\ Finish(s, IF sec[s].inUse THEN [sec[s] EXCEPT !.delay = "short"]
               ELSE [sec[s] EXCEPT !.delay = Base, !.shown = sec[s].got, !.etag = sec[s].got])

CatchFailure(s) == sec[s].req = "failed" /\ Finish(s, [sec[s] EXCEPT !.delay = "backoff"])

\* 401: the page is reloaded, and its script does nothing more.
Denied(s) ==
  /\ sec[s].req = "denied"
  /\ reloading' = TRUE
  /\ Disconnect
  /\ sec' = [u \in Sections |->
               [sec[u] EXCEPT !.req = "idle", !.got = NoMarkup, !.again = FALSE, !.armed = FALSE]]
  /\ UNCHANGED <<streamVars, worldVars, streamUp, named, hidden>>

\* The user signs in again and gets a new page.
Load ==
  /\ reloading
  /\ hasSession' = TRUE
  /\ es' = "connecting" /\ via' = NoConn
  /\ streamUp' = FALSE /\ named' = {} /\ reloading' = FALSE /\ hidden' = FALSE
  /\ sec' = [s \in Sections |-> Loaded(s)]
  /\ due' = [s \in Sections |-> Markup(s)]
  /\ UNCHANGED <<streamVars, stored, events, retry, pending>>

-----------------------------------------------------------------------------
(***************************************************************************)
(* The stream.                                                             *)
(***************************************************************************)

\* The server takes the connection.
Subscribe(c) ==
  /\ es = "connecting" /\ via = NoConn /\ hasSession
  /\ Open(c)
  /\ via' = c
  /\ UNCHANGED <<worldVars, es, streamUp, retry, pending, named, hidden, reloading, sec>>

\* onerror with readyState 2: the browser does not try again, the script does.
Refused ==
  /\ es = "connecting" /\ via = NoConn
  /\ ~Accepts \/ ~hasSession
  /\ es' = "none" /\ retry' = TRUE
  /\ StreamGoesDown
  /\ UNCHANGED <<streamVars, worldVars, via, pending, named, hidden, reloading>>

Retry ==
  /\ retry /\ ~hidden
  /\ ConnectStream
  /\ UNCHANGED <<streamVars, worldVars, via, streamUp, pending, named, hidden, reloading, sec>>

\* The headers and the first comment are there.
OnOpen ==
  /\ via # NoConn /\ es = "connecting"
  /\ Read(via)
  /\ es' = "open"
  /\ StreamComesUp
  /\ UNCHANGED <<worldVars, via, retry, pending, named, hidden, reloading>>

OnMessage ==
  /\ via # NoConn /\ es = "open"
  /\ Read(via)
  /\ LET chunk == Head(conn[via].queue) IN
     /\ named' = IF chunk = Comment THEN named ELSE named \union {chunk}
     /\ pending' = (pending \/ chunk # Comment)
  /\ UNCHANGED <<worldVars, es, via, streamUp, retry, hidden, reloading, sec>>

\* 300 ms after the first event of the burst.
Burst ==
  /\ pending
  /\ pending' = FALSE
  /\ sec' = AskNow({s \in Sections : Pin[s] = NoThread \/ Pin[s] \in named})
  /\ named' = {}
  /\ UNCHANGED <<streamVars, worldVars, es, via, streamUp, retry, hidden, reloading>>

\* onerror while the browser reconnects by itself.
Dropped ==
  /\ es' = "connecting" /\ via' = NoConn
  /\ StreamGoesDown
  /\ UNCHANGED <<retry, pending, named, hidden, reloading>>

\* The server's side was over, or the connection broke.
StreamEnds ==
  /\ via # NoConn /\ conn[via] = Closed
  /\ Dropped
  /\ UNCHANGED <<streamVars, worldVars>>

StreamBreaks ==
  /\ via # NoConn /\ Event
  /\ Dropped
  /\ UNCHANGED <<streamVars, stored, due, hasSession>>

-----------------------------------------------------------------------------
(***************************************************************************)
(* The user and the browser.                                               *)
(***************************************************************************)

Hide ==
  /\ ~hidden /\ ~reloading /\ Event
  /\ hidden' = TRUE
  /\ Disconnect
  /\ StreamGoesDown
  /\ UNCHANGED <<streamVars, stored, due, hasSession, named, reloading>>

\* visibilitychange: connect, and ask at once.
Show ==
  /\ hidden /\ ~reloading
  /\ hidden' = FALSE
  /\ ConnectStream
  /\ sec' = [s \in Sections |-> IF sec[s].req # "idle" THEN [sec[s] EXCEPT !.again = TRUE, !.armed = FALSE]
                                ELSE [sec[s] EXCEPT !.req = "sent", !.armed = FALSE]]
  /\ UNCHANGED <<streamVars, worldVars, via, streamUp, pending, named, reloading>>

\* The browser's "online" event.
Online ==
  /\ ~reloading /\ ~hidden /\ Event
  /\ ConnectStream
  /\ sec' = AskNow(Sections)
  /\ UNCHANGED <<streamVars, stored, due, hasSession, via, streamUp, pending, named, hidden, reloading>>

\* Focus, a selection or a button held down inside the section.
Use(s) ==
  /\ ~sec[s].inUse /\ ~reloading /\ Event
  /\ sec' = [sec EXCEPT ![s].inUse = TRUE]
  /\ UNCHANGED <<streamVars, stored, due, hasSession, es, via, streamUp, retry, pending, named, hidden, reloading>>

Release(s) ==
  /\ sec[s].inUse
  /\ sec' = [sec EXCEPT ![s].inUse = FALSE]
  /\ UNCHANGED <<streamVars, worldVars, es, via, streamUp, retry, pending, named, hidden, reloading>>

\* Signed out elsewhere, or the session ran out.
SignedOut ==
  /\ hasSession /\ Event
  /\ hasSession' = FALSE
  /\ UNCHANGED <<streamVars, tabVars, stored, due>>

-----------------------------------------------------------------------------
(***************************************************************************)
(* The server.                                                             *)
(***************************************************************************)

Store(t) ==
  /\ FoldFunction(+, 0, stored) < MaxMessages
  /\ stored' = [stored EXCEPT ![t] = @ + 1]
  /\ UNCHANGED <<tabVars, hasSession, events>>

\* A message is stored and announced by the process of the streams...
Sent(t) ==
  /\ Store(t)
  /\ due' = [s \in Sections |-> IF t \in Feeds(s) THEN MarkupOf(stored', s) ELSE due[s]]
  /\ PublishMessageEvent(t)

\* ...or by the other one, during a deploy, whose bus is another.
SentElsewhere(t) == Store(t) /\ UNCHANGED <<streamVars, due>>

\* Another tab takes and holds a place; its reader may be slow.
OtherTab(c) == c # via /\ Open(c) /\ UNCHANGED <<tabVars, worldVars>>

\* The readers of other tabs, and of connections this tab has left.
Others(c) == c # via /\ (Read(c) \/ Abort(c)) /\ UNCHANGED <<tabVars, worldVars>>

ServeStream(c) == (Handler(c) \/ GrowsOld(c)) /\ UNCHANGED <<tabVars, worldVars>>

Shutdown == Event /\ EndAllStreams /\ UNCHANGED <<tabVars, stored, due, hasSession>>

\* The next process serves.
NextProcess ==
  /\ closedForGood
  /\ closedForGood' = FALSE
  /\ conn' = [c \in Conns |-> Closed]
  /\ UNCHANGED <<tabVars, worldVars>>

-----------------------------------------------------------------------------

SectionStep(s) ==
  \/ TimerFires(s) \/ Respond(s)
  \/ NotModified(s) \/ NewMarkup(s) \/ CatchFailure(s) \/ Denied(s)
StreamMoves == Refused \/ Retry \/ OnOpen \/ OnMessage \/ Burst \/ StreamEnds

LiveNext ==
  \/ \E s \in Sections : SectionStep(s) \/ FetchFails(s) \/ Use(s) \/ Release(s)
  \/ StreamMoves \/ StreamBreaks
  \/ Load \/ Hide \/ Show \/ Online \/ SignedOut \/ Shutdown \/ NextProcess
  \/ \E c \in Conns : Subscribe(c) \/ OtherTab(c) \/ Others(c) \/ ServeStream(c)
  \/ \E t \in Threads : Sent(t) \/ SentElsewhere(t)

LiveSpec == LiveInit /\ [][LiveNext]_liveVars

\* Timers fire, the server answers, a user lets go of what they held.  Nothing
\* makes a stream work: a proxy may refuse it for ever.
LiveFairSpec ==
  /\ LiveSpec
  /\ \A s \in Sections : WF_liveVars(SectionStep(s)) /\ WF_liveVars(Release(s))

-----------------------------------------------------------------------------
(***************************************************************************)
(* Properties.                                                             *)
(***************************************************************************)

\* A section has one request under way or its timer armed, never both and
\* never neither; and a visible page has a stream, asks for one or waits to
\* (tick, schedule, setStream, connect, onerror).
AsksOrWaits ==
  /\ \A s \in Sections : sec[s].armed <=> sec[s].req = "idle"
  /\ ~hidden => (es = "none" <=> retry)

\* As much as the section was told of.
Shows(s, markup) == \A t \in Feeds(s) : markup[t] >= due[s][t]

Rests(s) == sec[s].req = "idle" /\ sec[s].delay = "minute"

\* As long as the page is not being reloaded its refresh neither dies nor
\* doubles.  And while the stream is up and everything it said was acted on, a
\* section that waits for the slow timer shows every message announced to it,
\* also one sent while the answer it got was on its way, or while it was in
\* use (live-refresh.ts: "ask again after it", "keep the old ETag").
CaughtUp ==
  /\ ~reloading => AsksOrWaits
  /\ \A s \in Sections :
       (/\ es = "open" /\ via # NoConn /\ Subscribed(via) /\ ~conn[via].over
        /\ Queued(via) = 0 /\ ~pending /\ Rests(s)) => Shows(s, sec[s].shown)

\* Every stored message is shown in the end, whatever becomes of the stream,
\* also one another process stored, for as long as somebody can look: the tab
\* is visible and signed in.
EveryMessageShows ==
  \A s \in Sections : \A t \in Feeds(s), n \in 1..MaxMessages :
    (stored[t] >= n) ~> (sec[s].shown[t] >= n \/ hidden \/ reloading)
=============================================================================
