------------------------------ MODULE Durables ------------------------------
(***************************************************************************)
(* The two durables of one inbox key (services/consumers.ts), the deletes  *)
(* that wait to be finished (services/nats.ts) and the agents that hold    *)
(* the key one after the other (services/agent.ts).  Every request of an   *)
(* agent ensures the durables before it pulls (routes/mcp.ts); deleting or *)
(* deactivating an agent removes them in the background, and the key can   *)
(* be given again at once.                                                 *)
(*                                                                         *)
(* A request awaits its body between its sign-in and the ensure, and the   *)
(* broker for every look, delete and add; what a process knows about the   *)
(* key is in its memory and lost with it.  The breaker is reduced to open  *)
(* and not open (CircuitBreaker has the rest).  A call to the broker that  *)
(* fails did or did not take effect; none takes effect later.              *)
(*                                                                         *)
(* An operator named X_<slip> is X with a plausible programming slip; it   *)
(* takes the place of X in a test of a property, no part of DurablesSpec. *)
(***************************************************************************)
EXTENDS Integers

CONSTANTS
  Procs,      \* processes on the volume
  Tasks,      \* requests and cleanups that can run at the same time
  Tolerance,  \* CLOCK_TOLERANCE_MS
  Skew,       \* how far the broker's clock is from the app's
  None,       \* no agent, no durable
  MaxTime,    \* bound: the clock
  MaxMishaps   \* bound: failed calls, lost durables, crashes

ASSUME DurablesAssumption ==
  /\ {Tolerance, Skew, MaxTime, MaxMishaps} \subseteq Nat
  /\ Skew <= Tolerance
  /\ None \notin Int

VARIABLES
  clock,      \* the app's clock
  since,      \* inbox_since of the agent that holds the key, or None
  durables,   \* side -> the broker's durable, or None
  ensured,    \* Procs -> the key is in ConsumerRegistry.ensured
  foreign,    \* Procs -> it is there on behalf of an agent that is gone
  pending,    \* Procs -> the key is in pendingDeletes
  open,       \* Procs -> the breaker refuses calls
  tasks,      \* Tasks -> what each request or cleanup is doing
  mishaps      \* failures so far

durablesVars == <<clock, since, durables, ensured, foreign, pending, open, tasks, mishaps>>

life == <<clock, since>>
memory == <<ensured, foreign>>

-----------------------------------------------------------------------------

Sides == {"inbox", "broadcast"}
Moments == 0..MaxTime

\* `created` is the broker's clock, `start` is opt_start_time; `maker`, the
\* process that made it, is there for the properties.
Durable == [created: -Skew .. MaxTime + Skew, start: Moments, maker: Procs]

IdleTask == [pc |-> "idle", proc |-> None, since |-> None, side |-> "inbox",
         current |-> FALSE, foreign |-> FALSE, ok |-> FALSE, missing |-> FALSE]
Task == [pc: {"authed", "finish", "info", "replace", "add", "joined", "pull", "cleanup"},
         proc: Procs, since: Moments, side: Sides,
         current: BOOLEAN, foreign: BOOLEAN, ok: BOOLEAN, missing: BOOLEAN]

DurablesTypeOK ==
  /\ clock \in Moments /\ since \in Moments \cup {None}
  /\ durables \in [Sides -> Durable \cup {None}]
  /\ ensured \in [Procs -> BOOLEAN] /\ foreign \in [Procs -> BOOLEAN]
  /\ pending \in [Procs -> BOOLEAN] /\ open \in [Procs -> BOOLEAN]
  /\ tasks \in [Tasks -> Task \cup {IdleTask}]
  /\ mishaps \in 0..MaxMishaps

DurablesInit ==
  /\ clock = 0 /\ since = None
  /\ durables = [s \in Sides |-> None]
  /\ ensured = [p \in Procs |-> FALSE] /\ foreign = [p \in Procs |-> FALSE]
  /\ pending = [p \in Procs |-> FALSE] /\ open = [p \in Procs |-> FALSE]
  /\ tasks = [t \in Tasks |-> IdleTask]
  /\ mishaps = 0

-----------------------------------------------------------------------------

At(t, step) == tasks[t].pc = step
Become(t, d) == tasks' = [tasks EXCEPT ![t] = d]
Mishap == mishaps < MaxMishaps /\ mishaps' = mishaps + 1

\* A call of p fails: in time, which opens the breaker, or with an answer.
CallFails(p) ==
  /\ Mishap
  /\ open' \in {open, [open EXCEPT ![p] = TRUE]}

\* A failed delete may have reached the broker.
MayRemove(side) == durables' \in {durables, [durables EXCEPT ![side] = None]}

\* The ensure of the key that runs in process p (inFlight).
Leading(t) == tasks[t].pc \in {"info", "replace", "add"}
InFlight(p) == {t \in Tasks : tasks[t].proc = p /\ Leading(t)}

\* What forget() and clear() leave of the running tasks: an ensure that is
\* under way is of an earlier generation.
Outdated(p) ==
  [t \in Tasks |-> IF t \in InFlight(p) THEN [tasks[t] EXCEPT !.current = FALSE] ELSE tasks[t]]

ForgetKey(p) ==
  /\ ensured' = [ensured EXCEPT ![p] = FALSE]
  /\ foreign' = [foreign EXCEPT ![p] = FALSE]

-----------------------------------------------------------------------------
(***************************************************************************)
(* A request: ensureConsumer, then the pull.                               *)
(***************************************************************************)

\* The sign-in reads the agent's record.
Begin(t, p) ==
  /\ At(t, "idle")
  /\ since # None
  /\ Become(t, [IdleTask EXCEPT !.pc = "authed", !.proc = p, !.since = since])
  /\ UNCHANGED <<life, durables, memory, pending, open, mishaps>>

\* ensureConsumer past the pending delete: memory, the breaker, an ensure that
\* runs already, or one of its own.
Ensure(d) ==
  LET p == d.proc
      r == [d EXCEPT !.side = "inbox"]
  IN  CASE ensured[p] -> [r EXCEPT !.pc = "pull", !.ok = TRUE, !.foreign = foreign[p]]
        [] ~ensured[p] /\ open[p] -> [r EXCEPT !.pc = "pull"]
        [] ~ensured[p] /\ ~open[p] /\ InFlight(p) # {} -> [r EXCEPT !.pc = "joined"]
        [] OTHER -> [r EXCEPT !.pc = "info", !.current = TRUE, !.foreign = d.since # since]

EnsureConsumer(t) ==
  LET d == tasks[t] IN
  /\ At(t, "authed")
  /\ Become(t, IF pending[d.proc] THEN [d EXCEPT !.pc = "finish", !.side = "inbox"]
               ELSE Ensure(d))
  /\ UNCHANGED <<life, durables, memory, pending, open, mishaps>>

\* removeDurables on behalf of a request or of a cleanup, one side at a time.
RemoveInbox(t) ==
  /\ tasks[t].pc \in {"finish", "cleanup"} /\ tasks[t].side = "inbox"
  /\ ~open[tasks[t].proc]
  /\ durables' = [durables EXCEPT !["inbox"] = None]
  /\ tasks' = [tasks EXCEPT ![t].side = "broadcast"]
  /\ UNCHANGED <<life, memory, pending, open, mishaps>>

\* Both are gone: the delete is no longer pending, and the request goes on.
RemoveBroadcast(t) ==
  LET d == tasks[t] IN
  /\ d.pc \in {"finish", "cleanup"} /\ d.side = "broadcast"
  /\ ~open[d.proc]
  /\ durables' = [durables EXCEPT !["broadcast"] = None]
  /\ pending' = [pending EXCEPT ![d.proc] = FALSE]
  /\ Become(t, IF d.pc = "finish" THEN Ensure(d) ELSE IdleTask)
  /\ UNCHANGED <<life, memory, open, mishaps>>

\* The delete failed: a cleanup leaves it pending, a request goes on without
\* its ensure ("Non-fatal").
AfterFailedRemoval(t) ==
  LET d == tasks[t] IN
  /\ pending' = [pending EXCEPT ![d.proc] = @ \/ d.pc = "cleanup"]
  /\ Become(t, IF d.pc = "cleanup" THEN IdleTask ELSE [d EXCEPT !.pc = "pull", !.side = "inbox"])
  /\ UNCHANGED <<life, memory>>

RemovalFails(t) ==
  /\ tasks[t].pc \in {"finish", "cleanup"}
  /\ CallFails(tasks[t].proc)
  /\ MayRemove(tasks[t].side)
  /\ AfterFailedRemoval(t)

RemovalRefused(t) ==
  /\ tasks[t].pc \in {"finish", "cleanup"}
  /\ open[tasks[t].proc]
  /\ AfterFailedRemoval(t)
  /\ UNCHANGED <<durables, open, mishaps>>

-----------------------------------------------------------------------------
(***************************************************************************)
(* ConsumerRegistry.ensure.                                                *)
(***************************************************************************)

\* The ensure is over, for the request that runs it and those that joined,
\* which may be of a later agent.
Settled(t, ok) ==
  tasks' = [u \in Tasks |->
    IF u = t \/ (tasks[u].pc = "joined" /\ tasks[u].proc = tasks[t].proc)
    THEN [tasks[u] EXCEPT !.pc = "pull", !.side = "inbox", !.ok = ok,
                          !.foreign = tasks[u].since # tasks[t].since]
    ELSE tasks[u]]

Remember_Always(d) ==
  /\ ensured' = [ensured EXCEPT ![d.proc] = TRUE]
  /\ foreign' = [foreign EXCEPT ![d.proc] = d.foreign]

\* "What was just confirmed may be the very thing that got deleted."
Remember(d) ==
  IF d.current
  THEN /\ ensured' = [ensured EXCEPT ![d.proc] = TRUE]
       /\ foreign' = [foreign EXCEPT ![d.proc] = d.foreign]
  ELSE UNCHANGED memory

\* One side is there: on to the other, or the end of the ensure.
SideDone(t) ==
  LET d == tasks[t] IN
  IF d.side = "inbox"
  THEN Become(t, [d EXCEPT !.pc = "info", !.side = "broadcast"]) /\ UNCHANGED memory
  ELSE Settled(t, TRUE) /\ Remember(d)

\* Older than the agent, beyond what two clocks can differ.
IsLeftBehind(durable, s) == durable.created < s - Tolerance

\* ensureOne asks the broker for the durable.
Info(t) ==
  LET d == tasks[t]
      found == durables[d.side]
  IN  /\ At(t, "info")
      /\ IF found = None
         THEN Become(t, [d EXCEPT !.pc = "add"]) /\ UNCHANGED memory
         ELSE IF IsLeftBehind(found, d.since)
         THEN Become(t, [d EXCEPT !.pc = "replace"]) /\ UNCHANGED memory
         ELSE SideDone(t)
      /\ UNCHANGED <<life, durables, pending, open, mishaps>>

\* A durable that is older than its agent goes.
Replace(t) ==
  LET d == tasks[t] IN
  /\ At(t, "replace")
  /\ durables' = [durables EXCEPT ![d.side] = None]
  /\ Become(t, [d EXCEPT !.pc = "add"])
  /\ UNCHANGED <<life, memory, pending, open, mishaps>>

NewDurable(d) ==
  \E c \in {clock - Skew, clock + Skew} :
    durables' = [durables EXCEPT ![d.side] = [created |-> c, start |-> d.since, maker |-> d.proc]]

\* The new durable starts at the agent's inbox_since.  The same durable again
\* is no error, one that starts elsewhere is.
Add(t) ==
  LET d == tasks[t]
      found == durables[d.side]
  IN  /\ At(t, "add")
      /\ IF found = None THEN NewDurable(d) ELSE UNCHANGED durables
      /\ IF found # None /\ found.start # d.since
         THEN Settled(t, FALSE) /\ UNCHANGED memory
         ELSE SideDone(t)
      /\ UNCHANGED <<life, pending, open, mishaps>>

\* The broker fails the ensure; a delete or an add may have taken effect.
EnsureFails(t) ==
  LET d == tasks[t] IN
  /\ Leading(t)
  /\ CallFails(d.proc)
  /\ \/ UNCHANGED durables
     \/ d.pc = "replace" /\ MayRemove(d.side)
     \/ d.pc = "add" /\ durables[d.side] = None /\ NewDurable(d)
  /\ Settled(t, FALSE)
  /\ UNCHANGED <<life, memory, pending>>

-----------------------------------------------------------------------------
(***************************************************************************)
(* The pull.                                                               *)
(***************************************************************************)

\* pullInbox looks at the agent's own durable, then at the broadcasts.
PullDirect(t) ==
  LET d == tasks[t] IN
  /\ At(t, "pull") /\ d.side = "inbox"
  /\ ~open[d.proc]
  /\ Become(t, [d EXCEPT !.side = "broadcast", !.missing = durables["inbox"] = None])
  /\ UNCHANGED <<life, durables, memory, pending, open, mishaps>>

PullBroadcasts_KeepsMemory(t) ==
  /\ At(t, "pull") /\ tasks[t].side = "broadcast"
  /\ Become(t, IdleTask)
  /\ UNCHANGED <<life, durables, memory, pending, open, mishaps>>

\* A durable that is missing: "Look again next time."
PullBroadcasts(t) ==
  LET d == tasks[t] IN
  /\ At(t, "pull") /\ d.side = "broadcast"
  /\ IF d.missing \/ durables["broadcast"] = None
     THEN ForgetKey(d.proc) /\ tasks' = [Outdated(d.proc) EXCEPT ![t] = IdleTask]
     ELSE Become(t, IdleTask) /\ UNCHANGED memory
  /\ UNCHANGED <<life, durables, pending, open, mishaps>>

PullRefused(t) ==
  /\ At(t, "pull") /\ tasks[t].side = "inbox"
  /\ open[tasks[t].proc]
  /\ Become(t, IdleTask)
  /\ UNCHANGED <<life, durables, memory, pending, open, mishaps>>

PullFails(t) ==
  /\ At(t, "pull")
  /\ CallFails(tasks[t].proc)
  /\ Become(t, IdleTask)
  /\ UNCHANGED <<life, durables, memory, pending>>

-----------------------------------------------------------------------------
(***************************************************************************)
(* The agents, the connection and time.                                    *)
(***************************************************************************)

\* An agent is created with the key, or reactivated: at any moment, whatever
\* of its predecessor still runs.
Create ==
  /\ since = None
  /\ since' = clock
  /\ UNCHANGED <<clock, durables, memory, pending, open, tasks, mishaps>>

\* What another process still remembers, or is about to remember, it does on
\* behalf of an agent that is gone.
Orphaned(p) ==
  [t \in Tasks |->
    IF Leading(t) /\ tasks[t].proc # p THEN [Outdated(p)[t] EXCEPT !.foreign = TRUE]
    ELSE Outdated(p)[t]]

\* It is deleted or deactivated: deleteConsumer forgets the key at once, in
\* its own process, and goes on in the background.
Remove(t, p) ==
  /\ since # None
  /\ At(t, "idle")
  /\ since' = None
  /\ ensured' = [ensured EXCEPT ![p] = FALSE]
  /\ foreign' = [q \in Procs |-> q # p /\ ensured[q]]
  /\ tasks' = [Orphaned(p) EXCEPT ![t] = [IdleTask EXCEPT !.pc = "cleanup", !.proc = p, !.since = since]]
  /\ UNCHANGED <<clock, durables, pending, open, mishaps>>

\* The connection came back: clear(), and the breaker is closed.
Reconnect(p) ==
  /\ ForgetKey(p)
  /\ tasks' = Outdated(p)
  /\ open' = [open EXCEPT ![p] = FALSE]
  /\ UNCHANGED <<life, durables, pending, mishaps>>

\* The cool-down ends and a probe succeeds.
BreakerCloses(p) ==
  /\ open[p]
  /\ open' = [open EXCEPT ![p] = FALSE]
  /\ UNCHANGED <<life, durables, memory, pending, tasks, mishaps>>

\* Deleted by hand, or with its stream.
LoseDurable(side) ==
  /\ durables[side] # None
  /\ Mishap
  /\ durables' = [durables EXCEPT ![side] = None]
  /\ UNCHANGED <<life, memory, pending, open, tasks>>

Crash(p) ==
  /\ Mishap
  /\ ForgetKey(p)
  /\ pending' = [pending EXCEPT ![p] = FALSE]
  /\ open' = [open EXCEPT ![p] = FALSE]
  /\ tasks' = [t \in Tasks |-> IF tasks[t].proc = p THEN IdleTask ELSE tasks[t]]
  /\ UNCHANGED <<life, durables>>

Tick ==
  /\ clock < MaxTime
  /\ clock' = clock + 1
  /\ UNCHANGED <<since, durables, memory, pending, open, tasks, mishaps>>

-----------------------------------------------------------------------------

\* What the event loop and the answers of a working broker bring about.
Progress(t) ==
  \/ EnsureConsumer(t)
  \/ RemoveInbox(t) \/ RemoveBroadcast(t) \/ RemovalRefused(t)
  \/ Info(t) \/ Replace(t) \/ Add(t)
  \/ PullDirect(t) \/ PullBroadcasts(t) \/ PullRefused(t)

Fails(t) == RemovalFails(t) \/ EnsureFails(t) \/ PullFails(t)

DurablesNext ==
  \/ \E t \in Tasks : Progress(t) \/ Fails(t)
  \/ \E t \in Tasks, p \in Procs : Begin(t, p) \/ Remove(t, p)
  \/ \E p \in Procs : Reconnect(p) \/ BreakerCloses(p) \/ Crash(p)
  \/ \E side \in Sides : LoseDurable(side)
  \/ Create
  \/ Tick

DurablesSpec == DurablesInit /\ [][DurablesNext]_durablesVars

\* An agent that keeps calling, a broker that answers, a breaker that tries
\* again.
FairSpec ==
  /\ DurablesSpec
  /\ \A t \in Tasks : WF_durablesVars(Progress(t))
  /\ WF_durablesVars(\E t \in Tasks, p \in Procs : Begin(t, p))
  /\ \A p \in Procs : WF_durablesVars(BreakerCloses(p))

-----------------------------------------------------------------------------
(***************************************************************************)
(* Properties.                                                             *)
(***************************************************************************)

\* A request of the agent, told that its durables are there, finds one in its
\* inbox that was left behind by a predecessor.
Inherits(t) ==
  /\ At(t, "pull") /\ tasks[t].ok /\ tasks[t].since = since
  /\ \E side \in Sides : durables[side] # None /\ IsLeftBehind(durables[side], since)

\* "Replacing a durable that is older than its agent" (consumers.ts): a
\* request whose ensure succeeded pulls from no durable that the broker made
\* before its agent, beyond what two clocks can differ, whenever the key was
\* given again, whatever became of the predecessor's cleanup, of its requests
\* and of what a process remembers.  It does so only where it was told by an
\* ensure on behalf of somebody else: one of a predecessor's that it joined,
\* or that was remembered because it began after that agent was gone, or in a
\* process that did not remove it.
PullsNothingLeftBehind == \A t \in Tasks : Inherits(t) => tasks[t].foreign

\* The same without the exception.
NoInheritedMail == \A t \in Tasks : ~Inherits(t)

\* A durable that is about to be replaced is not one that the same process
\* made for the same agent: that would hand out read mail again (consumers.ts,
\* "still the agent's own").
OwnDurableStays ==
  \A t \in Tasks : At(t, "replace") =>
    LET d == tasks[t]
        found == durables[d.side]
    IN  found = None \/ found.start # d.since \/ found.maker # d.proc

\* A durable and its agent belong together, both ways: nobody pulls from what
\* a predecessor left behind, and nobody's own is thrown away for it.
OnlyOwnDurables == PullsNothingLeftBehind /\ OwnDurableStays

\* An agent that keeps calling does not sit in front of an empty inbox until
\* the next restart (nats.ts): what the broker lost of its durables, or a
\* late delete removed, comes back.
InboxComesBack ==
  since # None /\ (\E side \in Sides : durables[side] = None)
    ~> since = None \/ \A side \in Sides : durables[side] # None
=============================================================================
