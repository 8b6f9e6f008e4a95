------------------------------- MODULE MCPages -------------------------------
(***************************************************************************)
(* What the operator's pages show, one part at a time: a behaviour is of   *)
(* the part that `part` names, and the others rest in their first state.   *)
(***************************************************************************)
EXTENDS Connect, MessageTable, Board, ResultTitles, TLC

CONSTANTS
  A, B, C,              \* message ids
  Kate, Tom, Tim, Tom2, \* names and inbox keys
  Zoe

VARIABLE part

pagesVars == <<connectVars, tableVars, boardVars, titleVars, part>>

None == -1
Symmetry == Permutations(Procs) \union Permutations(Names) \union Permutations(Agents)
MCIds == <<A, B, C>>
MCExchanges == {<<Kate, Tom, "incident">>, <<Kate, Tom, "info">>, <<Tom, Kate, "incident">>,
                <<Tom, Everybody, "info">>}

-----------------------------------------------------------------------------
(***************************************************************************)
(* The board's inputs.  Tom was renamed to Tim and another agent took the  *)
(* name, or not; a send that was under way meanwhile still says Tom.       *)
(***************************************************************************)

Entry(key, name, active, presence, hook, says) ==
  [key |-> key, name |-> name, active |-> active, presence |-> presence,
   hook |-> hook, says |-> says]

KateEntry == Entry(Kate, Kate, TRUE, "live", Nil, "next")
NamesakeEntry == Entry(Tom2, Tom, TRUE, "live", Nil, "next")
TomEntries ==
  {Entry(Tom, n, TRUE, presence, hook, says) :
     n \in {Tom, Tim}, presence \in {"live", "stale", "offline"},
     hook \in {"works", "fails"}, says \in {"human", "next"}}
  \cup {Entry(Tom, n, FALSE, "stale", "works", says) : n \in {Tom, Tim}, says \in {"human", "next"}}

\* Two agents never have one name.
Teams ==
  {t \in {k \cup o \cup n : k \in {{}, {KateEntry}}, o \in {{}} \cup {{e} : e \in TomEntries},
                            n \in {{}, {NamesakeEntry}}} :
     \A e, f \in t : e.name = f.name => e = f}

Message(from, to, toName, type, at, link) ==
  [id |-> A, thread |-> Nil, from |-> from, to |-> toName, fromKey |-> from, toKey |-> to,
   type |-> type, at |-> at, link |-> link]

\* Steps of one: fresh, old for a green light, quiet, out of the window.
Moment == {Today - Window - 1, Today - Quiet, Today - Green, Today}

LastMessages ==
  {Message(Kate, Tom, n, type, at, link) :
     n \in {Tom, Tim}, type \in {"input_required", "done", "delivered", "info"},
     at \in Moment, link \in {Nil, B}}
  \cup {Message(Kate, Everybody, Everybody, "info", Today, Nil)}

EarlierMessages ==
  {<<>>, <<Message(Tom, Kate, Kate, "delivered", Today - 1, C)>>,
   <<Message(Zoe, Kate, Kate, "done", Today, Nil),
     Message(Tom2, Zoe, Zoe, "info", Today - Green, Nil)>>}

Talks == {Append(s, m) : s \in EarlierMessages, m \in LastMessages}

ASSUME InputsAssumption == \A s \in Talks, t \in Teams : IsBoard(s, t)

BoardInit == talk \in Talks /\ team \in Teams

-----------------------------------------------------------------------------

PagesInit ==
  /\ part \in {"connect", "messages", "board", "titles"}
  /\ ConnectInit
  /\ TitleInit
  /\ IF part = "messages" THEN TableInit
     ELSE table = <<>> /\ stored = 0 /\ drafts = {} /\ legacy = FALSE
  /\ IF part = "board" THEN BoardInit ELSE talk = <<>> /\ team = {}

PagesNext ==
  /\ UNCHANGED <<part, boardVars>>
  /\ \/ part = "connect" /\ ConnectNext /\ UNCHANGED <<tableVars, titleVars>>
     \/ part = "messages" /\ TableNext /\ UNCHANGED <<connectVars, titleVars>>
     \/ part = "titles" /\ TitleNext /\ UNCHANGED <<connectVars, tableVars>>

PagesSpec == PagesInit /\ [][PagesNext]_pagesVars
=============================================================================
