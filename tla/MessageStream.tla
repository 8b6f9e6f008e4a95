---------------------------- MODULE MessageStream ----------------------------
(***************************************************************************)
(* GET /sse/messages (src/routes/sse.ts): the signal that tells an open    *)
(* dashboard tab that something was sent.  One handler per connection: it  *)
(* subscribes to this process's messages (services/message-events.ts),     *)
(* writes a comment, and then waits for the next heartbeat, for its end or *)
(* for the end of its life.  Events are written from the sender's call and *)
(* are not awaited; a comment is awaited, which takes until the reader has *)
(* read that far.                                                          *)
(*                                                                         *)
(* The 30 minutes and the 25 seconds pass at any moment.  The chunk or two *)
(* that the sockets hold for a reader who does not read are left out.      *)
(***************************************************************************)
EXTENDS Integers, FiniteSets, Sequences, SequencesExt

CONSTANTS
  Conns,       \* bound: connections at a time
  MaxStreams,  \* SSE_MAX_CONNECTIONS
  MaxQueued,   \* SSE_MAX_QUEUED
  Threads,     \* what an event names
  Comment      \* ": open" or ": ping"

ASSUME StreamAssumption ==
  MaxStreams \in Nat \ {0} /\ MaxQueued \in Nat \ {0} /\ Comment \notin Threads

VARIABLES
  conn,          \* connection -> where its handler is, and what waits for its reader
  closedForGood  \* endAllStreams was called

streamVars == <<conn, closedForGood>>

\* "writing" awaits a comment, "waiting" the heartbeat; after the loop the
\* response is "closing", until what was written before has been read.
Closed == [at |-> "closed", over |-> FALSE, old |-> FALSE, queue |-> <<>>]
Opened == [at |-> "writing", over |-> FALSE, old |-> FALSE, queue |-> <<Comment>>]

StreamTypeOK ==
  /\ conn \in [Conns -> [at: {"closed", "writing", "waiting", "closing"}, over: BOOLEAN,
                         old: BOOLEAN, queue: Seq(Threads \union {Comment})]]
  /\ closedForGood \in BOOLEAN

StreamInit ==
  /\ conn = [c \in Conns |-> Closed]
  /\ closedForGood = FALSE

-----------------------------------------------------------------------------

\* The listeners of message-events.ts: a connection is one until its handler
\* leaves the loop.
Subscribed(c) == conn[c].at \in {"writing", "waiting"}
ListenerCount == Cardinality({c \in Conns : Subscribed(c)})

\* The answer to GET is a stream, and not a 503.
Accepts == ~closedForGood /\ ListenerCount < MaxStreams

Open(c) ==
  /\ conn[c] = Closed
  /\ Accepts
  /\ conn' = [conn EXCEPT ![c] = Opened]
  /\ UNCHANGED closedForGood

Queued(c) == Cardinality({i \in DOMAIN conn[c].queue : conn[c].queue[i] # Comment})

\* The listener: what a message does to one connection.
Hears(c, t) ==
  IF ~Subscribed(c) \/ conn[c].over THEN conn[c]
  ELSE IF Queued(c) >= MaxQueued THEN [conn[c] EXCEPT !.over = TRUE]
  ELSE [conn[c] EXCEPT !.queue = Append(@, t)]

\* publishMessageEvent
PublishMessageEvent(t) ==
  /\ conn' = [c \in Conns |-> Hears(c, t)]
  /\ UNCHANGED closedForGood

\* The awaited comment went out.
CommentWritten(c) == conn[c].at = "writing" /\ ~Contains(conn[c].queue, Comment)

\* Back to the top of the loop.
Wait(c) ==
  /\ CommentWritten(c)
  /\ ~conn[c].over /\ ~conn[c].old
  /\ conn' = [conn EXCEPT ![c].at = "waiting"]
  /\ UNCHANGED closedForGood

Heartbeat(c) ==
  /\ conn[c].at = "waiting"
  /\ ~conn[c].over /\ ~conn[c].old
  /\ conn' = [conn EXCEPT ![c].at = "writing", ![c].queue = Append(@, Comment)]
  /\ UNCHANGED closedForGood

\* Out of the loop: unsubscribed, and what waits is dropped if it was ended.
Leave(c) ==
  /\ conn[c].at = "waiting" \/ CommentWritten(c)
  /\ conn[c].over \/ conn[c].old
  /\ conn' = [conn EXCEPT ![c].at = "closing", ![c].queue = IF conn[c].over THEN <<>> ELSE @]
  /\ UNCHANGED closedForGood

GrowsOld(c) ==
  /\ Subscribed(c) /\ ~conn[c].old
  /\ conn' = [conn EXCEPT ![c].old = TRUE]
  /\ UNCHANGED closedForGood

\* The reader takes the next chunk.
Read(c) ==
  /\ conn[c].queue # <<>>
  /\ conn' = [conn EXCEPT ![c].queue = Tail(@)]
  /\ UNCHANGED closedForGood

\* The response is over.
Closes(c) ==
  /\ conn[c].at = "closing" /\ conn[c].queue = <<>>
  /\ conn' = [conn EXCEPT ![c] = Closed]
  /\ UNCHANGED closedForGood

\* onAbort: the server noticed that its reader has gone.
Abort(c) ==
  /\ conn[c].at # "closed"
  /\ conn' = [conn EXCEPT ![c] = Closed]
  /\ UNCHANGED closedForGood

\* end() of every open stream, and no new one.
EndAllStreams ==
  /\ ~closedForGood
  /\ closedForGood' = TRUE
  /\ conn' = [c \in Conns |-> [conn[c] EXCEPT !.over = (@ \/ Subscribed(c))]]

\* The event loop runs a handler that can go on.  Nobody makes a reader read: one
\* that does not leaves its handler in the write of a comment.
Handler(c) == Wait(c) \/ Heartbeat(c) \/ Leave(c) \/ Closes(c)
=============================================================================
