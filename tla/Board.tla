-------------------------------- MODULE Board --------------------------------
(***************************************************************************)
(* The board (services/board.ts): who has the ball between two agents, and *)
(* whether it is moving.  Three reads go into it, the last direct message  *)
(* of every pair, the last few of every pair, and the agents with their    *)
(* presence and hooks; messages name their parties twice, by inbox key and *)
(* by name, and neither stays with an agent for ever.                      *)
(*                                                                         *)
(* A row of the table has, next to what History reads, fromKey, toKey and  *)
(* link, the result link in its text or Nil.  An entry of the team is an   *)
(* agent of presence.list() with its hook.  Keys are names in lower case:  *)
(* here both are names.  The words of a working_on are reduced to what     *)
(* waitsForHuman and isVague make of them, times to steps of the           *)
(* thresholds.                                                             *)
(***************************************************************************)
EXTENDS History

CONSTANTS
  Green,        \* BOARD_THRESHOLDS.greenMinutes
  Quiet,        \* .quietHours
  Window,       \* .windowDays
  PairsListed,  \* the LIMIT of lastBetweenPairs: 500
  HistoryListed,
  QuietListed,
  Today         \* the render clock

ASSUME BoardAssumption ==
  HistoryListed \in Nat \ {0} /\ PairsListed \in Nat /\ QuietListed \in Nat

DeliveryTypes == {"delivered", "review_result", "deploy_status"}

VARIABLES
  talk,  \* the messages
  team   \* the agents' entries

boardVars == <<talk, team>>

\* What the three reads can give: only a key of a message may be missing, and
\* keys of agents are unique, as names are.
IsBoard(messages, entries) ==
  /\ messages \in Seq(ToSet(messages))
  /\ \A k \in DOMAIN messages :
       messages[k].at \in Nat /\ messages[k].from # Nil /\ messages[k].to # Nil
  /\ \A e \in entries : e.key # Nil /\ e.name # Nil /\ e.active \in BOOLEAN
  /\ \A e, f \in entries : e.key = f.key \/ e.name = f.name => e = f

-----------------------------------------------------------------------------
(***************************************************************************)
(* Strands.                                                                *)
(***************************************************************************)

Coalesce(key, name) == IF key = Nil THEN name ELSE key
PairOf(r) == {Coalesce(r.fromKey, r.from), Coalesce(r.toKey, r.to)}

Direct == {k \in DOMAIN talk : talk[k].at >= Today - Window /\ talk[k].to # Everybody}
Pairs == {PairOf(talk[k]) : k \in Direct}

\* Of one pair, by time and insertion.
Strand(p) == InOrder(talk, {k \in Direct : PairOf(talk[k]) = p})
LastBetween(p) == talk[Last(Strand(p))]

\* The pairs that the first read may give.
PairsRead == NewestOf(Pairs, [p \in Pairs |-> LastBetween(p).at], PairsListed)

\* What the second read may give of a pair: which rows, insertion tells on a
\* tie; in which order of one time, nothing.
RecentBetween(p) ==
  {r \in SetToSeqs(ToSet(FirstOf(Reverse(Strand(p)), HistoryListed))) :
     \A i, j \in DOMAIN r : i < j => talk[r[i]].at >= talk[r[j]].at}

\* The links in a strand's recent messages.
LinksOf(recent) == SelectSeq([n \in DOMAIN recent |-> talk[recent[n]].link], LAMBDA l : l # Nil)

-----------------------------------------------------------------------------
(***************************************************************************)
(* The holder and how it can be woken.                                     *)
(***************************************************************************)

NoEntry == [key |-> Nil]
Only(S) == IF S = {} THEN NoEntry ELSE CHOOSE e \in S : TRUE
ByKey(key) == {e \in team : e.key = key}
ByName(name) == {e \in team : e.name = name}

Find_NameFirst(key, name) ==
  IF ByName(name) # {} THEN Only(ByName(name)) ELSE Only(ByKey(key))

\* By the key the message was addressed with, else by the name in the history.
Find(key, name) ==
  IF key # Nil /\ ByKey(key) # {} THEN Only(ByKey(key)) ELSE Only(ByName(name))

ReachOf(e) ==
  CASE e.presence = "live" -> "online"
    [] e.presence # "live" /\ e.hook = "works" -> "hook"
    [] OTHER -> IF e.presence = "stale" THEN "stale" ELSE "unreachable"

LightOf(reach, age) ==
  CASE reach = "unreachable" -> "red"
    [] reach = "stale" \/ (reach # "unreachable" /\ age >= Green) -> "yellow"
    [] OTHER -> "green"

Done(m) == m.type = "done"
Asked(m) == m.type = "input_required"
IsQuiet(m) == Done(m) \/ Today - m.at >= Quiet

Recipient(m) == IF Done(m) \/ Asked(m) THEN NoEntry ELSE Find(m.toKey, m.to)

HumanBall(m, recipient) ==
  ~IsQuiet(m) /\ (Asked(m) \/ (recipient # NoEntry /\ recipient.says = "human"))

\* A strand whose last message is m as the board shows it.  With a human's
\* ball somebody waits: who asked, or the recipient; else the recipient holds it.
RowOf(p, m, recent, recipient, human) ==
  LET reach == IF recipient # NoEntry /\ recipient.active THEN ReachOf(recipient) ELSE "unreachable"
      waiting == IF Asked(m) THEN Find(Nil, m.from) ELSE recipient
  IN  [ pair      |-> p,
        since     |-> m.at,
        humanBall |-> human,
        light     |-> CASE IsQuiet(m) -> "grey"
                        [] human -> "human"
                        [] ~IsQuiet(m) /\ ~human -> LightOf(reach, Today - m.at),
        holder    |-> IF Done(m) \/ human THEN Nil
                      ELSE IF recipient # NoEntry THEN recipient.name ELSE m.to,
        waiting   |-> IF ~human THEN Nil
                      ELSE IF waiting # NoEntry THEN waiting.name ELSE m.from,
        delivered |-> /\ ~IsQuiet(m) /\ ~human
                      /\ \/ talk[recent[1]].type \in DeliveryTypes
                         \/ talk[recent[1]].link # Nil,
        result    |-> IF LinksOf(recent) = <<>> THEN Nil ELSE LinksOf(recent)[1],
        vagueNext |-> ~IsQuiet(m) /\ ~human /\ (recipient = NoEntry \/ recipient.says = "vague") ]

BoardRow(p, recent) ==
  LET m == LastBetween(p) IN RowOf(p, m, recent, Recipient(m), HumanBall(m, Recipient(m)))

-----------------------------------------------------------------------------
(***************************************************************************)
(* The board.                                                              *)
(***************************************************************************)

\* One order of every pair's recent messages.
Readings(pairs) ==
  {f \in [pairs -> UNION {RecentBetween(p) : p \in pairs}] : \A p \in pairs : f[p] \in RecentBetween(p)}

BoardRows(pairs, reading) == {BoardRow(p, reading[p]) : p \in pairs}

\* Whatever the reads leave open.
Boards == UNION {{BoardRows(pairs, f) : f \in Readings(pairs)} : pairs \in PairsRead}

Open(rows) == {r \in rows : r.light # "grey"}
WaitingForHuman(rows) == {r \in Open(rows) : r.humanBall}
InPlay(rows) == {r \in Open(rows) : ~r.humanBall}

QuietLists(rows) == NewestOf(rows \ Open(rows), [r \in rows |-> r.since], QuietListed)

NothingMoving(rows) == Open(rows) # {} /\ \A r \in Open(rows) : r.light # "green"

-----------------------------------------------------------------------------
(***************************************************************************)
(* Properties.                                                             *)
(***************************************************************************)

CanBeWoken(e) == e.active /\ (e.presence \in {"live", "stale"} \/ e.hook = "works")

\* What the pair said last, at one moment.
LastWords(p) ==
  {k \in Direct : PairOf(talk[k]) = p /\ talk[k].at = LastBetween(p).at}

HandsOver(k) == talk[k].type \in DeliveryTypes \/ talk[k].link # Nil

OpenRowIsRight(r) ==
  LET m == LastBetween(r.pair) IN
  /\ \A e \in ByKey(m.toKey) :
       /\ r.holder # Nil => r.holder = e.name
       /\ r.light = "red" <=> r.holder # Nil /\ ~CanBeWoken(e)
  /\ r.delivered => \E k \in LastWords(r.pair) : HandsOver(k)
  /\ r.holder # Nil /\ (\A k \in LastWords(r.pair) : HandsOver(k)) => r.delivered

\* The ball of an open strand is with the agent whose INBOX the last message
\* went to, whatever this agent's name is now and whoever bears the name it
\* was sent to, unless a human has it; red says that nobody can wake that
\* agent, and only that; "delivered" is about the last the two said, and no
\* older message.  A pair is on the board once; it is off the board only when
\* the board is full of pairs that spoke no earlier, done ones too, and off
\* the quiet ones listed only when those are full of later ones
\* (board.ts:4-21, :145-167, :355-359).
BoardTellsTheBall ==
  \A rows \in Boards :
    /\ \A r, o \in rows : r.pair = o.pair => r = o
    /\ \A p \in Pairs \ {r.pair : r \in rows} :
         Cardinality(rows) = PairsListed /\ \A r \in rows : r.since >= LastBetween(p).at
    /\ \A quiet \in QuietLists(rows) :
         \A r \in rows \ (WaitingForHuman(rows) \cup InPlay(rows) \cup quiet) :
           Cardinality(quiet) = QuietListed /\ \A o \in quiet : o.since >= r.since
    /\ \A r \in Open(rows) : OpenRowIsRight(r)
=============================================================================
