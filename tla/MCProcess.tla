------------------------------ MODULE MCProcess ------------------------------
(***************************************************************************)
(* The process and what it lives on, one part at a time: its connection to *)
(* the broker, with overlapping calls and a broker that goes away, or its  *)
(* database file, with two processes on one volume during a deploy.        *)
(***************************************************************************)
EXTENDS BrokerClient, Copies

CONSTANTS c1, c2, p1, p2

VARIABLE part

processVars == <<allVars, filesVars, part>>

MCReleases == {{1, 4}, {1, 3, 4}}

-----------------------------------------------------------------------------

ProcessInit ==
  /\ part \in {"broker", "files"}
  /\ ClientInit
  /\ FilesInit
  /\ IF part = "broker" THEN recorded = {} ELSE link = "down" /\ stream = "none"

ProcessNext ==
  /\ UNCHANGED part
  /\ \/ part = "broker" /\ ClientNext /\ UNCHANGED filesVars
     \/ part = "files" /\ FilesNext /\ UNCHANGED allVars

\* The library notices a loss and goes on trying; every wait and every request
\* has a timeout; events are handled; the process may be signalled or not, but
\* the shutdown's steps are bounded.  Nothing makes a broker come back.
Fairly(A) == part = "broker" /\ Running /\ A /\ UNCHANGED <<filesVars, part>>

\* The container is started again, and a process goes on while it lives.
FairlyOnFiles(A) == part = "files" /\ A /\ UNCHANGED <<allVars, part>>

ProcessSpec ==
  /\ ProcessInit /\ [][ProcessNext]_processVars
  /\ WF_processVars(Fairly(NoticesLoss \/ Reconnects))
  /\ WF_processVars(Fairly(BeginAttempt \/ SetupStep))
  /\ WF_processVars(Fairly(HandleEvent))
  /\ WF_processVars(Fairly(Cools))
  /\ \A c \in Calls : WF_processVars(Fairly(CallOver(c)))
  /\ WF_processVars(Fairly(CloseBegins \/ DrainEnds \/ StepEnds \/ StepFails))
  /\ \A p \in Servers :
       WF_processVars(FairlyOnFiles(StartStep(p) \/ \E release \in Releases : Starts(p, release)))
=============================================================================
