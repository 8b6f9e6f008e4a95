--------------------------- MODULE SendPathProofs ---------------------------
(***************************************************************************)
(* Proofs about SendPath, for any agents, ids, names, keys and calls.      *)
(*                                                                         *)
(* IInv is the inductive invariant.  Its parts say who knows an id: what   *)
(* carries it drew it (Drawn), a new send is alone with it until it is     *)
(* published (NewIsAlone), from its record on a send can be repeated       *)
(* (OnRecord), rows and answered calls have their copy in the stream       *)
(* (InStream), and there is one content per id on which copies, publishes, *)
(* attempts, rows and sending calls agree (Agreement).  The broadcast      *)
(* subject has one name (Addressed), without which a repeat could carry a  *)
(* broadcast to one agent's inbox.                                         *)
(***************************************************************************)
EXTENDS SendPath, FiniteSetTheorems, TLAPS

\* A publish on the wire that a call waits for carries that call's id, and a
\* call waits for one publish.
WaitedFor ==
  \A p \in wire : p.call \in Calls =>
    /\ calls[p.call].pc = "waiting" /\ calls[p.call].id = p.id
    /\ \A q \in wire : q.call = p.call => q = p

\* Every step of the send path keeps the types, as a publish is answered to
\* the call that waits for it.
LEMMA TypeInductive == TypeOK /\ WaitedFor /\ [Next]_vars => TypeOK'
<1> SUFFICES ASSUME TypeOK, WaitedFor, [Next]_vars PROVE TypeOK'
  OBVIOUS
<1> USE DEF TypeOK, Targets, Addresses, Message, Attempt, Row, Copy, Publish,
           Steps, Call, Idle, At, Goto, End, Fault, Detach, store, broker
<1>1. ASSUME NEW c \in Calls, NEW who \in Agents, NEW i \in Ids, NEW n \in Targets,
             NEW b \in Bodies, NEW x \in Extras, NewSend(c, who, i, n, b, x)
      PROVE  TypeOK'
  <2>1. KeyOf(n) \in Addresses
    BY <1>1, ConstantsAssumption DEF NewSend, KeyOf
  <2> QED BY <1>1, <2>1 DEF NewSend, Draft
<1>2. ASSUME NEW c \in Calls, NEW who \in Agents, NEW i \in Ids, NEW n \in Targets,
             NEW b \in Bodies, NEW x \in Extras, Repeat(c, who, i, n, b, x)
      PROVE  TypeOK'
  <2>1. KeyOf(n) \in Addresses
    BY <1>2, ConstantsAssumption DEF Repeat, KeyOf
  <2> QED BY <1>2, <2>1 DEF Repeat, Draft
<1>3. ASSUME NEW c \in Calls, AlreadyDelivered(c) PROVE TypeOK'
  BY <1>3 DEF AlreadyDelivered
<1>4. ASSUME NEW c \in Calls, RepeatOf(c) PROVE TypeOK'
  <2> DEFINE d == calls[c]
             a == attempts[d.id]
  <2>1. d \in Call
    BY <1>4 DEF RepeatOf
  <2>2. CASE OwnAttempt(c) /\ SameAsAttempt(d, a)
    <3>1. a \in Attempt
      BY <2>1, <2>2 DEF OwnAttempt
    <3>2. [d EXCEPT !.pc = "record", !.msg = EnvelopeOf(a, d), !.to = a.to] \in Call
      BY <2>1, <3>1 DEF EnvelopeOf
    <3>3. calls' = [calls EXCEPT ![c] =
                      [d EXCEPT !.pc = "record", !.msg = EnvelopeOf(a, d), !.to = a.to]]
      BY <1>4, <2>2 DEF RepeatOf
    <3>4. UNCHANGED <<used, addr, store, broker, faults>>
      BY <1>4 DEF RepeatOf
    <3> HIDE DEF d, a
    <3> QED BY <3>2, <3>3, <3>4
  <2>3. CASE ~(OwnAttempt(c) /\ SameAsAttempt(d, a))
    BY <1>4, <2>3 DEF RepeatOf
  <2> QED BY <2>2, <2>3
<1>5. ASSUME NEW c \in Calls, RecordAttempt(c) PROVE TypeOK'
  BY <1>5 DEF RecordAttempt
<1>6. ASSUME NEW c \in Calls, SendPublish(c) PROVE TypeOK'
  <2>1. calls[c] \in Call
    BY <1>6 DEF SendPublish
  <2>2. [id |-> calls[c].id, msg |-> calls[c].msg, key |-> calls[c].key, call |-> c] \in Publish
    BY <2>1
  <2>3. calls' \in [Calls -> Call \cup {Idle}]
    BY <1>6, <2>1 DEF SendPublish
  <2>4. wire' \in SUBSET Publish
    BY <1>6, <2>2 DEF SendPublish
  <2> QED BY <1>6, <2>3, <2>4 DEF SendPublish
<1>7. ASSUME NEW c \in Calls, Persist(c) PROVE TypeOK'
  BY <1>7 DEF Persist
<1>8. ASSUME NEW c \in Calls, ForgetAttempt(c) PROVE TypeOK'
  BY <1>8 DEF ForgetAttempt
<1>9. ASSUME NEW c \in Calls, Announce(c) PROVE TypeOK'
  BY <1>9 DEF Announce
<1>10. ASSUME NEW c \in Calls, CallFails(c) PROVE TypeOK'
  <2>1. CASE Refuse(c)
    BY <2>1 DEF Refuse
  <2>2. CASE PublishRefused(c)
    BY <2>2 DEF PublishRefused
  <2>3. CASE PublishTimeout(c)
    BY <2>3 DEF PublishTimeout
  <2>4. CASE PersistFails(c)
    <3>1. calls[c] \in Call
      BY <2>4 DEF PersistFails
    <3>2. [calls[c] EXCEPT !.pc = "announce", !.gap = TRUE] \in Call
      BY <3>1
    <3>3. calls' \in [Calls -> Call \cup {Idle}]
      BY <2>4, <3>2 DEF PersistFails
    <3> QED BY <2>4, <3>3 DEF PersistFails
  <2>5. CASE EnqueueFails(c)
    BY <2>5 DEF EnqueueFails
  <2>6. CASE Crash(c)
    BY <2>6 DEF Crash
  <2> QED BY <1>10, <2>1, <2>2, <2>3, <2>4, <2>5, <2>6 DEF CallFails
<1>11. ASSUME NEW p \in wire, BrokerStep(p) PROVE TypeOK'
  <2>1. ASSUME NEW seq \in Nat, NEW dup \in BOOLEAN, Answer(p, seq, dup)
        PROVE  calls' \in [Calls -> Call \cup {Idle}]
    <3>1. p.call \in Calls => calls[p.call] \in Call
      BY DEF WaitedFor
    <3> QED BY <2>1, <3>1 DEF Answer
  <2>2. CASE BrokerStores(p)
    <3>1. calls' \in [Calls -> Call \cup {Idle}]
      <4>1. Answer(p, lastSeq + 1, FALSE)
        BY <2>2 DEF BrokerStores
      <4>2. lastSeq + 1 \in Nat
        OBVIOUS
      <4> QED BY <2>1, <4>1, <4>2
    <3> QED BY <2>2, <3>1 DEF BrokerStores
  <2>3. CASE BrokerRecognises(p)
    BY <2>1, <2>3 DEF BrokerRecognises
  <2> QED BY <1>11, <2>2, <2>3 DEF BrokerStep
<1>12. ASSUME NEW p \in wire, PublishLost(p) PROVE TypeOK'
  BY <1>12 DEF PublishLost
<1>13. ASSUME NEW i \in Ids, WindowEnds(i) PROVE TypeOK'
  BY <1>13 DEF WindowEnds
<1>14. ASSUME AddressStep PROVE TypeOK'
  BY <1>14 DEF AddressStep, Remove, Create, Rename
<1>15. CASE UNCHANGED vars
  BY <1>15 DEF vars
<1> QED
  BY <1>1, <1>2, <1>3, <1>4, <1>5, <1>6, <1>7, <1>8, <1>9, <1>10, <1>11, <1>12, <1>13, <1>14, <1>15
  DEF Next, SomeSend, CallStep

-----------------------------------------------------------------------------

\* A publish and the call that awaits it stay together until the answer, the
\* timeout or the crash (message.ts, the await of nats.publish).
LEMMA WaitedForInductive == TypeOK /\ WaitedFor /\ [Next]_vars => WaitedFor'
<1> SUFFICES ASSUME TypeOK, WaitedFor, [Next]_vars PROVE WaitedFor'
  OBVIOUS
<1>0. /\ calls \in [Calls -> Call \cup {Idle}]
      /\ None \notin Calls
      /\ Idle.pc = "idle"
      /\ \A q \in wire : q = [id |-> q.id, msg |-> q.msg, key |-> q.key, call |-> q.call]
  BY ConstantsAssumption DEF TypeOK, Idle, Publish
<1> USE <1>0 DEF WaitedFor, At, Goto, End, Detach, store, broker
<1>1. ASSUME NEW c \in Calls, SomeSend(c) PROVE WaitedFor'
  BY <1>1 DEF SomeSend, NewSend, Repeat, Draft
<1>2. ASSUME NEW c \in Calls, AlreadyDelivered(c) PROVE WaitedFor'
  BY <1>2 DEF AlreadyDelivered
<1>3. ASSUME NEW c \in Calls, RepeatOf(c) PROVE WaitedFor'
  BY <1>3 DEF RepeatOf
<1>4. ASSUME NEW c \in Calls, RecordAttempt(c) PROVE WaitedFor'
  BY <1>4 DEF RecordAttempt
<1>5. ASSUME NEW c \in Calls, SendPublish(c) PROVE WaitedFor'
  <2>1. calls[c] \in Call
    BY <1>5 DEF SendPublish
  <2> QED BY <1>5, <2>1 DEF SendPublish, Call
<1>6. ASSUME NEW c \in Calls, Persist(c) \/ ForgetAttempt(c) \/ Announce(c) PROVE WaitedFor'
  BY <1>6 DEF Persist, ForgetAttempt, Announce
<1>7. ASSUME NEW c \in Calls, PublishTimeout(c) \/ Crash(c) PROVE WaitedFor'
  <2>1. \A q \in wire' : q.call # c /\ (q.call \in Calls => q \in wire)
    BY <1>7 DEF PublishTimeout, Crash
  <2> QED BY <1>7, <2>1 DEF PublishTimeout, Crash
<1>8. ASSUME NEW c \in Calls, Refuse(c) \/ PublishRefused(c) \/ PersistFails(c) \/ EnqueueFails(c)
      PROVE  WaitedFor'
  BY <1>8 DEF Refuse, PublishRefused, PersistFails, EnqueueFails
<1>9. ASSUME NEW p \in wire, BrokerStep(p) PROVE WaitedFor'
  BY <1>9 DEF BrokerStep, BrokerStores, BrokerRecognises, Answer
<1>10. CASE UNCHANGED vars \/ AddressStep \/ (\E i \in Ids : WindowEnds(i)) \/ (\E p \in wire : PublishLost(p))
  BY <1>10 DEF vars, AddressStep, Remove, Create, Rename, WindowEnds, PublishLost
<1> QED
  BY <1>1, <1>2, <1>3, <1>4, <1>5, <1>6, <1>7, <1>8, <1>9, <1>10 DEF Next, CallStep, CallFails

-----------------------------------------------------------------------------

\* Whatever carries an id, names it to a sender or works on it drew it.
Drawn ==
  /\ \A x \in copies \cup wire : x.id \in used
  /\ \A i \in Ids : attempts[i] # None \/ rows[i] # None \/ told[i] # {} => i \in used
  /\ \A c \in Calls : calls[c].pc # "idle" => calls[c].id \in used

\* The broadcast subject belongs to the name "broadcast" and to no other.
Addressed ==
  /\ \A i \in Ids : attempts[i] # None =>
       (attempts[i].key = BroadcastKey <=> attempts[i].to = BroadcastName)
  /\ \A c \in Calls : calls[c].pc # "idle" =>
       (calls[c].key = BroadcastKey <=> calls[c].to = BroadcastName)

\* What the lemmas below need of the types.
CallTypes ==
  /\ calls \in [Calls -> Call \cup {Idle}]
  /\ attempts \in [Ids -> Attempt \cup {None}]
  /\ rows \in [Ids -> Row \cup {None}]
  /\ told \in [Ids -> SUBSET {"delivery_unknown", "history_gap"}]
  /\ None \notin Calls /\ None \notin Attempt /\ None \notin Row
  /\ Idle.pc = "idle"
  /\ \A d \in Call : d.pc # "idle" /\ d.id \in Ids

\* The types that the other lemmas use, from TypeOK and the constants.
LEMMA CallFacts == TypeOK => CallTypes
BY ConstantsAssumption
DEF CallTypes, TypeOK, Idle, Call, Steps, Attempt, Row, Message, Targets, Addresses

\* A call keeps what it sends while it moves on.
SameDraft(d, e) ==
  /\ e \in Call
  /\ e.who = d.who /\ e.id = d.id /\ e.repeat = d.repeat
  /\ e.msg = d.msg /\ e.to = d.to /\ e.key = d.key

\* The broker's answer moves the call that waits for it to `acked`, with the
\* same draft, and no other call.
LEMMA AnswerMoves ==
  ASSUME TypeOK, WaitedFor, NEW p \in wire, NEW seq \in Nat, NEW dup \in BOOLEAN,
         Answer(p, seq, dup)
  PROVE  /\ calls' \in [Calls -> Call \cup {Idle}]
         /\ \A c \in Calls :
              \/ calls'[c] = calls[c]
              \/ /\ calls[c].pc = "waiting" /\ calls[c].id = p.id /\ c = p.call
                 /\ calls[c] \in Call /\ SameDraft(calls[c], calls'[c])
                 /\ calls'[c].pc = "acked" /\ calls'[c].seq = seq
                 /\ calls'[c].gap = calls[c].gap
<1>1. CASE p.call \in Calls
  <2> DEFINE d == calls[p.call]
             e == [d EXCEPT !.pc = "acked", !.seq = seq, !.dup = dup]
  <2>1. d \in Call /\ d.pc = "waiting" /\ d.id = p.id
    BY <1>1, CallFacts DEF WaitedFor, CallTypes
  <2>2. SameDraft(d, e) /\ e.pc = "acked" /\ e.seq = seq /\ e.gap = d.gap
    BY <2>1 DEF Call, Steps, SameDraft
  <2>3. calls' = [calls EXCEPT ![p.call] = e]
    BY <1>1 DEF Answer
  <2> HIDE DEF e
  <2> QED BY <1>1, <2>1, <2>2, <2>3, CallFacts DEF CallTypes, SameDraft
<1>2. CASE p.call \notin Calls
  BY <1>2, CallFacts DEF Answer, CallTypes
<1> QED BY <1>1, <1>2

\* The broker answers a publish with the sequence of a copy of its id.
LEMMA BrokerAnswers ==
  ASSUME TypeOK, NEW p \in wire, BrokerStep(p)
  PROVE  \E seq \in Nat, dup \in BOOLEAN :
           /\ Answer(p, seq, dup)
           /\ \E x \in copies' : x.id = p.id /\ x.seq = seq
<1>1. CASE BrokerStores(p)
  <2>1. lastSeq + 1 \in Nat
    BY DEF TypeOK
  <2>2. Answer(p, lastSeq + 1, FALSE)
    BY <1>1 DEF BrokerStores
  <2>3. [id |-> p.id, msg |-> p.msg, key |-> p.key, seq |-> lastSeq + 1] \in copies'
    BY <1>1 DEF BrokerStores
  <2> QED BY <2>1, <2>2, <2>3
<1>2. CASE BrokerRecognises(p)
  <2>1. PICK x \in copies : x.id = p.id /\ Answer(p, x.seq, TRUE)
    BY <1>2 DEF BrokerRecognises
  <2>2. x.seq \in Nat
    BY DEF TypeOK, Copy
  <2>3. copies' = copies
    BY <1>2 DEF BrokerRecognises
  <2> QED BY <2>1, <2>2, <2>3
<1> QED BY <1>1, <1>2 DEF BrokerStep

\* What the broker does to the stream and the wire.
LEMMA BrokerMoves ==
  ASSUME NEW p \in wire, BrokerStep(p)
  PROVE  /\ wire' \subseteq wire
         /\ \/ copies' = copies
            \/ copies' = copies \cup
                 {[id |-> p.id, msg |-> p.msg, key |-> p.key, seq |-> lastSeq + 1]}
         /\ UNCHANGED <<used, addr, attempts, rows, told, announced>>
<1>1. CASE BrokerStores(p)
  BY <1>1 DEF BrokerStores, store
<1>2. CASE BrokerRecognises(p)
  BY <1>2 DEF BrokerRecognises, store
<1> QED BY <1>1, <1>2 DEF BrokerStep

\* A call that gives up its publish leaves it on the wire as it is.
LEMMA DetachMoves ==
  ASSUME TypeOK, NEW c \in Calls, Detach(c)
  PROVE  \A q \in wire' : \E p \in wire : q.id = p.id /\ q.msg = p.msg /\ q.key = p.key
BY DEF TypeOK, Publish, Detach

\* A repeat that passes repeatOf sends the recorded message, to the recorded
\* address; any other one ends (send.ts, repeatOf).
LEMMA RepeatOfMoves ==
  ASSUME TypeOK, NEW c \in Calls, RepeatOf(c)
  PROVE  /\ calls[c] \in Call /\ calls[c].pc = "match"
         /\ \/ calls' = [calls EXCEPT ![c] = Idle]
            \/ \E e \in Call :
                 LET a == attempts[calls[c].id] IN
                 /\ calls' = [calls EXCEPT ![c] = e]
                 /\ e.pc = "record" /\ e.id = calls[c].id /\ e.key = calls[c].key
                 /\ e.repeat = calls[c].repeat
                 /\ a \in Attempt /\ a # None
                 /\ e.msg = a.msg /\ e.to = a.to
                 /\ IF a.key # BroadcastKey THEN a.key = e.key ELSE a.to = calls[c].to
<1> DEFINE d == calls[c]
           a == attempts[d.id]
           e == [d EXCEPT !.pc = "record", !.msg = EnvelopeOf(a, d), !.to = a.to]
<1>1. d \in Call /\ d.pc = "match"
  BY CallFacts DEF RepeatOf, At, CallTypes
<1>2. CASE OwnAttempt(c) /\ SameAsAttempt(d, a)
  <2>1. a \in Attempt /\ a # None
    BY <1>1, <1>2, CallFacts DEF OwnAttempt, CallTypes, Call
  <2>2. EnvelopeOf(a, d) = a.msg
    BY <1>2, <2>1 DEF EnvelopeOf, SameAsAttempt, Attempt, Message
  <2>3. /\ e \in Call /\ e.pc = "record" /\ e.id = d.id /\ e.key = d.key
        /\ e.repeat = d.repeat /\ e.msg = a.msg /\ e.to = a.to
    BY <1>1, <2>1, <2>2 DEF Call, Attempt, Steps
  <2>4. calls' = [calls EXCEPT ![c] = e]
    BY <1>2 DEF RepeatOf
  <2>5. IF a.key # BroadcastKey THEN a.key = d.key ELSE a.to = d.to
    BY <1>2 DEF SameAsAttempt
  <2> HIDE DEF d, a, e
  <2>6. /\ e.pc = "record" /\ e.id = d.id /\ e.key = d.key /\ e.repeat = d.repeat
        /\ a \in Attempt /\ a # None /\ e.msg = a.msg /\ e.to = a.to
        /\ IF a.key # BroadcastKey THEN a.key = e.key ELSE a.to = d.to
    BY <2>1, <2>3, <2>5
  <2> QED BY <1>1, <2>3, <2>4, <2>6 DEF d, a
<1>3. CASE ~(OwnAttempt(c) /\ SameAsAttempt(d, a))
  BY <1>1, <1>3 DEF RepeatOf, End
<1> QED BY <1>2, <1>3

\* No step brings up an id that nobody drew.
LEMMA DrawnInductive == TypeOK /\ WaitedFor /\ Drawn /\ [Next]_vars => Drawn'
<1> SUFFICES ASSUME TypeOK, WaitedFor, Drawn, [Next]_vars PROVE Drawn'
  OBVIOUS
<1>0. CallTypes
  BY CallFacts
<1> USE <1>0 DEF CallTypes, Call, Idle, Drawn, At, Goto, End, Detach, store, broker
<1>1. ASSUME NEW c \in Calls, NEW who \in Agents, NEW i \in Ids, NEW n \in Targets,
             NEW b \in Bodies, NEW x \in Extras, NewSend(c, who, i, n, b, x)
      PROVE  Drawn'
  BY <1>1 DEF NewSend, Draft
<1>2. ASSUME NEW c \in Calls, NEW who \in Agents, NEW i \in Ids, NEW n \in Targets,
             NEW b \in Bodies, NEW x \in Extras, Repeat(c, who, i, n, b, x)
      PROVE  Drawn'
  BY <1>2 DEF Repeat, Draft, Known
<1>3. ASSUME NEW c \in Calls, AlreadyDelivered(c) PROVE Drawn'
  BY <1>3 DEF AlreadyDelivered
<1>4. ASSUME NEW c \in Calls, RepeatOf(c) PROVE Drawn'
  <2>1. UNCHANGED <<used, store, broker>>
    BY <1>4 DEF RepeatOf
  <2> QED BY <1>4, <2>1, RepeatOfMoves
<1>5. ASSUME NEW c \in Calls, RecordAttempt(c) PROVE Drawn'
  BY <1>5 DEF RecordAttempt
<1>6. ASSUME NEW c \in Calls, SendPublish(c) PROVE Drawn'
  BY <1>6 DEF SendPublish
<1>7. ASSUME NEW c \in Calls, Persist(c) PROVE Drawn'
  BY <1>7 DEF Persist
<1>8. ASSUME NEW c \in Calls, ForgetAttempt(c) \/ Announce(c) PROVE Drawn'
  BY <1>8 DEF ForgetAttempt, Announce
<1>9. ASSUME NEW c \in Calls, PublishTimeout(c) \/ Crash(c) PROVE Drawn'
  <2>1. \A q \in wire' : \E p \in wire : q.id = p.id
    <3>1. Detach(c)
      BY <1>9 DEF PublishTimeout, Crash
    <3> QED BY <3>1, DetachMoves
  <2>2. /\ UNCHANGED <<used, attempts, rows, copies>>
        /\ calls' = [calls EXCEPT ![c] = Idle]
        /\ calls[c].pc # "idle"
        /\ \/ told' = told
           \/ told' = [told EXCEPT ![calls[c].id] = @ \cup {"delivery_unknown"}]
    BY <1>9 DEF PublishTimeout, Crash
  <2> QED BY <2>1, <2>2
<1>10. ASSUME NEW c \in Calls, Refuse(c) \/ PublishRefused(c) \/ PersistFails(c) \/ EnqueueFails(c)
       PROVE  Drawn'
  BY <1>10 DEF Refuse, PublishRefused, PersistFails, EnqueueFails
<1>11. ASSUME NEW p \in wire, BrokerStep(p) PROVE Drawn'
  <2>1. /\ UNCHANGED <<used, attempts, rows, told>> /\ wire' \subseteq wire
        /\ \A x \in copies' : x \in copies \/ x.id = p.id
    BY <1>11, BrokerMoves
  <2>3. \E seq \in Nat, dup \in BOOLEAN : Answer(p, seq, dup)
    BY <1>11, BrokerAnswers
  <2> QED BY <2>1, <2>3, AnswerMoves DEF SameDraft
<1>12. CASE UNCHANGED vars \/ AddressStep \/ (\E i \in Ids : WindowEnds(i)) \/ (\E p \in wire : PublishLost(p))
  BY <1>12 DEF vars, AddressStep, Remove, Create, Rename, WindowEnds, PublishLost
<1> QED
  BY <1>1, <1>2, <1>3, <1>4, <1>5, <1>6, <1>7, <1>8, <1>9, <1>10, <1>11, <1>12
  DEF Next, SomeSend, CallStep, CallFails

\* No step gives the broadcast subject another name, or the name another
\* address.
LEMMA AddressedInductive == TypeOK /\ WaitedFor /\ Addressed /\ [Next]_vars => Addressed'
<1> SUFFICES ASSUME TypeOK, WaitedFor, Addressed, [Next]_vars PROVE Addressed'
  OBVIOUS
<1>0. CallTypes
  BY CallFacts
<1> USE <1>0 DEF CallTypes, Call, Idle, Addressed, At, Goto, End, store, broker
<1>1. ASSUME NEW c \in Calls, SomeSend(c) PROVE Addressed'
  <2> PICK who \in Agents, i \in Ids, n \in Targets, b \in Bodies, x \in Extras :
        NewSend(c, who, i, n, b, x) \/ Repeat(c, who, i, n, b, x)
    BY <1>1 DEF SomeSend
  <2>1. KeyOf(n) # NoKey
    BY DEF NewSend, Repeat
  <2>2. KeyOf(n) = BroadcastKey <=> n = BroadcastName
    BY <2>1, ConstantsAssumption DEF KeyOf, TypeOK, Targets
  <2> QED BY <2>2 DEF NewSend, Repeat, Draft
<1>2. ASSUME NEW c \in Calls, AlreadyDelivered(c) PROVE Addressed'
  BY <1>2 DEF AlreadyDelivered
<1>3. ASSUME NEW c \in Calls, RepeatOf(c) PROVE Addressed'
  <2>1. UNCHANGED attempts
    BY <1>3 DEF RepeatOf
  <2> QED BY <1>3, <2>1, RepeatOfMoves
<1>4. ASSUME NEW c \in Calls, RecordAttempt(c) PROVE Addressed'
  BY <1>4 DEF RecordAttempt
<1>5. ASSUME NEW c \in Calls, SendPublish(c) \/ Persist(c) \/ ForgetAttempt(c) \/ Announce(c)
      PROVE  Addressed'
  BY <1>5 DEF SendPublish, Persist, ForgetAttempt, Announce
<1>6. ASSUME NEW c \in Calls, CallFails(c) PROVE Addressed'
  BY <1>6 DEF CallFails, Refuse, PublishRefused, PublishTimeout, PersistFails, EnqueueFails, Crash
<1>7. ASSUME NEW p \in wire, BrokerStep(p) PROVE Addressed'
  <2>1. UNCHANGED attempts
    BY <1>7, BrokerMoves
  <2> QED BY <1>7, <2>1, BrokerAnswers, AnswerMoves DEF SameDraft
<1>8. CASE UNCHANGED vars \/ AddressStep \/ (\E i \in Ids : WindowEnds(i)) \/ (\E p \in wire : PublishLost(p))
  BY <1>8 DEF vars, AddressStep, Remove, Create, Rename, WindowEnds, PublishLost
<1> QED
  BY <1>1, <1>2, <1>3, <1>4, <1>5, <1>6, <1>7, <1>8 DEF Next, CallStep

-----------------------------------------------------------------------------

\* Rows have their copy, and so does a call the broker answered.
InStream ==
  /\ NoPhantomSend
  /\ \A c \in Calls : calls[c].pc = "acked" =>
       \E x \in copies : x.id = calls[c].id /\ x.seq = calls[c].seq

\* Only a repeat is compared; until it is published nobody but its own call
\* knows a new id.
NewIsAlone ==
  /\ \A c \in Calls : calls[c].pc \in {"look", "match"} => calls[c].repeat
  /\ \A c \in Calls : calls[c].pc \in {"record", "publish"} /\ ~calls[c].repeat =>
       /\ told[calls[c].id] = {}
       /\ \A x \in copies \cup wire : x.id # calls[c].id
       /\ \A o \in Calls \ {c} : calls[o].pc # "idle" => calls[o].id # calls[c].id

\* From its record on a send can be repeated.
OnRecord ==
  /\ ToldToRepeatCanRepeat
  /\ \A c \in Calls :
       \/ calls[c].pc \in {"publish", "waiting", "acked"}
       \/ calls[c].pc = "announce" /\ calls[c].gap
       => attempts[calls[c].id] # None \/ rows[calls[c].id] # None
  /\ \A c \in Calls : calls[c].pc = "stored" => rows[calls[c].id] # None

\* A row is written only after the broker's answer, of the copy it names
\* (message.ts: publish, then persistMessage).
LEMMA InStreamInductive == TypeOK /\ WaitedFor /\ InStream /\ [Next]_vars => InStream'
<1> SUFFICES ASSUME TypeOK, WaitedFor, InStream, [Next]_vars PROVE InStream'
  OBVIOUS
<1>0. CallTypes
  BY CallFacts
<1> USE <1>0 DEF CallTypes, Call, Idle, InStream, NoPhantomSend, At, Goto, End, store, broker
<1>1. ASSUME NEW c \in Calls, SomeSend(c) PROVE InStream'
  BY <1>1 DEF SomeSend, NewSend, Repeat, Draft
<1>2. ASSUME NEW c \in Calls, AlreadyDelivered(c) PROVE InStream'
  BY <1>2 DEF AlreadyDelivered
<1>3. ASSUME NEW c \in Calls, RepeatOf(c) PROVE InStream'
  <2>1. UNCHANGED <<rows, copies>>
    BY <1>3 DEF RepeatOf
  <2> QED BY <1>3, <2>1, RepeatOfMoves
<1>4. ASSUME NEW c \in Calls, RecordAttempt(c) \/ SendPublish(c) PROVE InStream'
  BY <1>4 DEF RecordAttempt, SendPublish
<1>5. ASSUME NEW c \in Calls, Persist(c) PROVE InStream'
  BY <1>5 DEF Persist
<1>6. ASSUME NEW c \in Calls, ForgetAttempt(c) \/ Announce(c) PROVE InStream'
  BY <1>6 DEF ForgetAttempt, Announce
<1>7. ASSUME NEW c \in Calls, CallFails(c) PROVE InStream'
  BY <1>7 DEF CallFails, Refuse, PublishRefused, PublishTimeout, PersistFails, EnqueueFails, Crash
<1>8. ASSUME NEW p \in wire, BrokerStep(p) PROVE InStream'
  <2>1. UNCHANGED rows /\ copies \subseteq copies'
    BY <1>8, BrokerMoves
  <2>2. PICK seq \in Nat, dup \in BOOLEAN :
          Answer(p, seq, dup) /\ \E x \in copies' : x.id = p.id /\ x.seq = seq
    BY <1>8, BrokerAnswers
  <2>3. \A c \in Calls :
          \/ calls'[c] = calls[c]
          \/ calls[c].id = p.id /\ calls'[c].id = p.id /\ calls'[c].seq = seq
    BY <2>2, AnswerMoves DEF SameDraft
  <2>4. NoPhantomSend'
    BY <2>1
  <2>5. \A c \in Calls : calls'[c].pc = "acked" =>
          \E x \in copies' : x.id = calls'[c].id /\ x.seq = calls'[c].seq
    BY <2>1, <2>2, <2>3
  <2> QED BY <2>4, <2>5
<1>9. CASE UNCHANGED vars \/ AddressStep \/ (\E i \in Ids : WindowEnds(i)) \/ (\E p \in wire : PublishLost(p))
  BY <1>9 DEF vars, AddressStep, Remove, Create, Rename, WindowEnds, PublishLost
<1> QED
  BY <1>1, <1>2, <1>3, <1>4, <1>5, <1>6, <1>7, <1>8, <1>9 DEF Next, CallStep

\* Nobody can repeat, and nothing carries, an id before its first publish
\* (send.ts: the id is told to the sender after the publish).
LEMMA NewIsAloneInductive ==
  TypeOK /\ WaitedFor /\ Drawn /\ NewIsAlone /\ [Next]_vars => NewIsAlone'
<1> SUFFICES ASSUME TypeOK, WaitedFor, Drawn, NewIsAlone, [Next]_vars PROVE NewIsAlone'
  OBVIOUS
<1>0. CallTypes
  BY CallFacts
<1> USE <1>0 DEF CallTypes, Call, Idle, NewIsAlone, At, Goto, End, store, broker
<1>1. ASSUME NEW c \in Calls, NEW who \in Agents, NEW i \in Ids, NEW n \in Targets,
             NEW b \in Bodies, NEW x \in Extras, NewSend(c, who, i, n, b, x)
      PROVE  NewIsAlone'
  BY <1>1 DEF NewSend, Draft, Drawn
<1>2. ASSUME NEW c \in Calls, NEW who \in Agents, NEW i \in Ids, NEW n \in Targets,
             NEW b \in Bodies, NEW x \in Extras, Repeat(c, who, i, n, b, x)
      PROVE  NewIsAlone'
  BY <1>2 DEF Repeat, Draft, Known
<1>3. ASSUME NEW c \in Calls, AlreadyDelivered(c) PROVE NewIsAlone'
  BY <1>3 DEF AlreadyDelivered
<1>4. ASSUME NEW c \in Calls, RepeatOf(c) PROVE NewIsAlone'
  <2>1. UNCHANGED <<told, copies, wire>>
    BY <1>4 DEF RepeatOf
  <2> QED BY <1>4, <2>1, RepeatOfMoves
<1>5. ASSUME NEW c \in Calls, RecordAttempt(c) PROVE NewIsAlone'
  BY <1>5 DEF RecordAttempt
<1>6. ASSUME NEW c \in Calls, SendPublish(c) PROVE NewIsAlone'
  BY <1>6 DEF SendPublish
<1>7. ASSUME NEW c \in Calls, Persist(c) \/ ForgetAttempt(c) \/ Announce(c) PROVE NewIsAlone'
  BY <1>7 DEF Persist, ForgetAttempt, Announce
<1>8. ASSUME NEW c \in Calls, PublishTimeout(c) \/ Crash(c) PROVE NewIsAlone'
  <2>1. Detach(c)
    BY <1>8 DEF PublishTimeout, Crash
  <2>2. \A q \in wire' : \E p \in wire : q.id = p.id
    BY <2>1, DetachMoves
  <2> QED BY <1>8, <2>2 DEF PublishTimeout, Crash
<1>9. ASSUME NEW c \in Calls, Refuse(c) \/ PublishRefused(c) \/ PersistFails(c) \/ EnqueueFails(c)
      PROVE  NewIsAlone'
  BY <1>9 DEF Refuse, PublishRefused, PersistFails, EnqueueFails
<1>10. ASSUME NEW p \in wire, BrokerStep(p) PROVE NewIsAlone'
  <2>1. /\ UNCHANGED told /\ wire' \subseteq wire
        /\ \A x \in copies' : x \in copies \/ x.id = p.id
    BY <1>10, BrokerMoves
  <2> QED BY <1>10, <2>1, BrokerAnswers, AnswerMoves DEF SameDraft
<1>11. CASE UNCHANGED vars \/ AddressStep \/ (\E i \in Ids : WindowEnds(i)) \/ (\E p \in wire : PublishLost(p))
  BY <1>11 DEF vars, AddressStep, Remove, Create, Rename, WindowEnds, PublishLost
<1> QED
  BY <1>1, <1>2, <1>3, <1>4, <1>5, <1>6, <1>7, <1>8, <1>9, <1>10, <1>11
  DEF Next, SomeSend, CallStep, CallFails

\* The attempt outlives every outcome that asks for a repeat (send.ts,
\* forgetAttempt only after the row, or for a new send nothing was published of).
LEMMA OnRecordInductive ==
  TypeOK /\ WaitedFor /\ NewIsAlone /\ OnRecord /\ [Next]_vars => OnRecord'
<1> SUFFICES ASSUME TypeOK, WaitedFor, NewIsAlone, OnRecord, [Next]_vars PROVE OnRecord'
  OBVIOUS
<1>0. CallTypes
  BY CallFacts
<1> USE <1>0 DEF CallTypes, Call, Idle, OnRecord, ToldToRepeatCanRepeat, At, Goto, End, store, broker
<1>1. ASSUME NEW c \in Calls, SomeSend(c) PROVE OnRecord'
  BY <1>1 DEF SomeSend, NewSend, Repeat, Draft
<1>2. ASSUME NEW c \in Calls, AlreadyDelivered(c) PROVE OnRecord'
  BY <1>2 DEF AlreadyDelivered
<1>3. ASSUME NEW c \in Calls, RepeatOf(c) PROVE OnRecord'
  <2>1. UNCHANGED <<told, attempts, rows>>
    BY <1>3 DEF RepeatOf
  <2> QED BY <1>3, <2>1, RepeatOfMoves
<1>4. ASSUME NEW c \in Calls, RecordAttempt(c) PROVE OnRecord'
  <2>1. [msg |-> calls[c].msg, to |-> calls[c].to, key |-> calls[c].key] \in Attempt
    BY <1>4 DEF RecordAttempt, Attempt
  <2> QED BY <1>4, <2>1 DEF RecordAttempt
<1>5. ASSUME NEW c \in Calls, SendPublish(c) PROVE OnRecord'
  BY <1>5 DEF SendPublish
<1>6. ASSUME NEW c \in Calls, Persist(c) PROVE OnRecord'
  <2>1. [msg |-> calls[c].msg, key |-> calls[c].key, seq |-> calls[c].seq] \in Row
    BY <1>6 DEF Persist, Row
  <2> QED BY <1>6, <2>1 DEF Persist
<1>7. ASSUME NEW c \in Calls, ForgetAttempt(c) PROVE OnRecord'
  BY <1>7 DEF ForgetAttempt
<1>8. ASSUME NEW c \in Calls, Announce(c) \/ EnqueueFails(c) PROVE OnRecord'
  BY <1>8 DEF Announce, EnqueueFails
<1>9. ASSUME NEW c \in Calls, PublishRefused(c) PROVE OnRecord'
  BY <1>9 DEF PublishRefused, NewIsAlone
<1>10. ASSUME NEW c \in Calls, Refuse(c) \/ PublishTimeout(c) \/ PersistFails(c) \/ Crash(c)
       PROVE  OnRecord'
  BY <1>10 DEF Refuse, PublishTimeout, PersistFails, Crash
<1>11. ASSUME NEW p \in wire, BrokerStep(p) PROVE OnRecord'
  <2>1. UNCHANGED <<told, attempts, rows>>
    BY <1>11, BrokerMoves
  <2> QED BY <1>11, <2>1, BrokerAnswers, AnswerMoves DEF SameDraft
<1>12. CASE UNCHANGED vars \/ AddressStep \/ (\E i \in Ids : WindowEnds(i)) \/ (\E p \in wire : PublishLost(p))
  BY <1>12 DEF vars, AddressStep, Remove, Create, Rename, WindowEnds, PublishLost
<1> QED
  BY <1>1, <1>2, <1>3, <1>4, <1>5, <1>6, <1>7, <1>8, <1>9, <1>10, <1>11, <1>12
  DEF Next, CallStep, CallFails

-----------------------------------------------------------------------------

\* A call from its record on sends what it will send.
Sends(c) == calls[c].pc \notin {"idle", "look", "match"}

\* What every id stands for.
Agreed(e) ==
  /\ \A x \in copies \cup wire : Content(x) = e[x.id]
  /\ \A i \in Ids : attempts[i] # None => Content(attempts[i]) = e[i]
  /\ \A i \in Ids : rows[i] # None => Content(rows[i]) = e[i]
  /\ \A c \in Calls : Sends(c) => Content(calls[c]) = e[calls[c].id]

Contents == [msg: Message, key: Addresses]
Agreement == \E e \in [Ids -> Contents \cup {None}] : Agreed(e)

\* A call that moves to its next step keeps what it sends.
LEMMA GotoKeeps ==
  ASSUME TypeOK, NEW c \in Calls, Sends(c), NEW step \in Steps, Goto(c, step)
  PROVE  \A o \in Calls : /\ Sends(o)' => Sends(o)
                          /\ Sends(o) => /\ Content(calls'[o]) = Content(calls[o])
                                         /\ calls'[o].id = calls[o].id
BY CallFacts DEF CallTypes, Call, Idle, Steps, Sends, Goto, Content

\* A step that draws no id keeps what the ids stand for.
LEMMA AgreedKept ==
  ASSUME TypeOK, WaitedFor, Addressed, NEW e \in [Ids -> Contents \cup {None}], Agreed(e),
         [Next]_vars,
         \A c \in Calls, who \in Agents, i \in Ids, n \in Targets, b \in Bodies, x \in Extras :
           ~NewSend(c, who, i, n, b, x)
  PROVE  Agreed(e)'
<1>0. CallTypes
  BY CallFacts
<1> USE <1>0 DEF CallTypes, Call, Idle, Agreed, Sends, Content, At, Goto, End, store, broker
<1>1. ASSUME NEW c \in Calls, NEW who \in Agents, NEW i \in Ids, NEW n \in Targets,
             NEW b \in Bodies, NEW x \in Extras, Repeat(c, who, i, n, b, x)
      PROVE  Agreed(e)'
  BY <1>1 DEF Repeat, Draft
<1>2. ASSUME NEW c \in Calls, AlreadyDelivered(c) PROVE Agreed(e)'
  BY <1>2 DEF AlreadyDelivered
<1>3. ASSUME NEW c \in Calls, RepeatOf(c) PROVE Agreed(e)'
  <2>1. UNCHANGED <<copies, wire, attempts, rows>>
    BY <1>3 DEF RepeatOf
  <2>2. calls[c] \in Call /\ calls[c].pc = "match"
    BY <1>3, RepeatOfMoves
  <2>3. CASE calls' = [calls EXCEPT ![c] = Idle]
    BY <2>1, <2>3
  <2>4. ASSUME NEW d \in Call, calls' = [calls EXCEPT ![c] = d],
               d.id = calls[c].id, d.key = calls[c].key,
               attempts[calls[c].id] # None,
               attempts[calls[c].id].msg = d.msg,
               IF attempts[calls[c].id].key # BroadcastKey
               THEN attempts[calls[c].id].key = d.key
               ELSE attempts[calls[c].id].to = calls[c].to
        PROVE  Agreed(e)'
    <3>1. attempts[calls[c].id].key = d.key
      BY <2>2, <2>4 DEF Addressed
    <3> QED BY <2>1, <2>2, <2>4, <3>1
  <2> QED BY <1>3, <2>3, <2>4, RepeatOfMoves
<1>4. ASSUME NEW c \in Calls, RecordAttempt(c) PROVE Agreed(e)'
  <2>1. \A i \in Ids : attempts'[i] # None =>
          \/ attempts'[i] = attempts[i]
          \/ i = calls[c].id /\ Content(attempts'[i]) = Content(calls[c])
    BY <1>4 DEF RecordAttempt
  <2>2. \A o \in Calls : /\ Sends(o)' => Sends(o)
                         /\ Sends(o) => /\ Content(calls'[o]) = Content(calls[o])
                                        /\ calls'[o].id = calls[o].id
    BY <1>4, GotoKeeps DEF RecordAttempt, Steps
  <2>3. Sends(c) /\ UNCHANGED <<copies, wire, rows>>
    BY <1>4 DEF RecordAttempt
  <2> HIDE DEF Sends, Content
  <2> QED BY <2>1, <2>2, <2>3
<1>5. ASSUME NEW c \in Calls, SendPublish(c) PROVE Agreed(e)'
  BY <1>5 DEF SendPublish
<1>6. ASSUME NEW c \in Calls, Persist(c) PROVE Agreed(e)'
  <2>1. \A i \in Ids : rows'[i] # None =>
          \/ rows'[i] = rows[i]
          \/ i = calls[c].id /\ Content(rows'[i]) = Content(calls[c])
    BY <1>6 DEF Persist
  <2>2. \A o \in Calls : /\ Sends(o)' => Sends(o)
                         /\ Sends(o) => /\ Content(calls'[o]) = Content(calls[o])
                                        /\ calls'[o].id = calls[o].id
    BY <1>6, GotoKeeps DEF Persist, Steps
  <2>3. Sends(c) /\ UNCHANGED <<copies, wire, attempts>>
    BY <1>6 DEF Persist
  <2> HIDE DEF Sends, Content
  <2> QED BY <2>1, <2>2, <2>3
<1>7. ASSUME NEW c \in Calls, ForgetAttempt(c) \/ Announce(c) PROVE Agreed(e)'
  <2>1. CASE ForgetAttempt(c)
    <3>1. \A i \in Ids : attempts'[i] # None => attempts'[i] = attempts[i]
      BY <2>1 DEF ForgetAttempt
    <3>2. \A o \in Calls : /\ Sends(o)' => Sends(o)
                           /\ Sends(o) => /\ Content(calls'[o]) = Content(calls[o])
                                          /\ calls'[o].id = calls[o].id
      BY <2>1, GotoKeeps DEF ForgetAttempt, Steps
    <3>3. UNCHANGED <<copies, wire, rows>>
      BY <2>1 DEF ForgetAttempt
    <3> HIDE DEF Sends, Content
    <3> QED BY <3>1, <3>2, <3>3
  <2>2. CASE Announce(c)
    BY <2>2 DEF Announce
  <2> QED BY <1>7, <2>1, <2>2
<1>8. ASSUME NEW c \in Calls, PublishTimeout(c) \/ Crash(c) PROVE Agreed(e)'
  <2>1. Detach(c)
    BY <1>8 DEF PublishTimeout, Crash
  <2>2. \A q \in wire' : \E p \in wire : q.id = p.id /\ q.msg = p.msg /\ q.key = p.key
    BY <2>1, DetachMoves
  <2>3. UNCHANGED <<copies, attempts, rows>> /\ calls' = [calls EXCEPT ![c] = Idle]
    BY <1>8 DEF PublishTimeout, Crash
  <2> QED BY <2>2, <2>3
<1>9. ASSUME NEW c \in Calls, Refuse(c) \/ PublishRefused(c) \/ PersistFails(c) \/ EnqueueFails(c)
      PROVE  Agreed(e)'
  BY <1>9 DEF Refuse, PublishRefused, PersistFails, EnqueueFails
<1>10. ASSUME NEW p \in wire, BrokerStep(p) PROVE Agreed(e)'
  <2>1. /\ UNCHANGED <<attempts, rows>> /\ wire' \subseteq wire
        /\ \A x \in copies' : x \in copies \/ (x.id = p.id /\ Content(x) = Content(p))
    BY <1>10, BrokerMoves
  <2>2. \A c \in Calls :
          \/ calls'[c] = calls[c]
          \/ Sends(c) /\ Content(calls'[c]) = Content(calls[c]) /\ calls'[c].id = calls[c].id
    BY <1>10, BrokerAnswers, AnswerMoves DEF SameDraft
  <2>3. \A c \in Calls : Sends(c)' => Sends(c) /\ Content(calls'[c]) = Content(calls[c])
                                              /\ calls'[c].id = calls[c].id
    BY <2>2
  <2>4. Content(p) = e[p.id]
    OBVIOUS
  <2> HIDE DEF Sends, Content
  <2> QED BY <2>1, <2>3, <2>4
<1>11. CASE UNCHANGED vars \/ AddressStep \/ (\E i \in Ids : WindowEnds(i)) \/ (\E p \in wire : PublishLost(p))
  BY <1>11 DEF vars, AddressStep, Remove, Create, Rename, WindowEnds, PublishLost
<1> QED
  BY <1>1, <1>2, <1>3, <1>4, <1>5, <1>6, <1>7, <1>8, <1>9, <1>10, <1>11
  DEF Next, SomeSend, CallStep, CallFails

\* Copies, publishes, attempts, rows and calls of an id keep to one content:
\* a new id starts one, and every other step carries on what is there.
LEMMA AgreementInductive ==
  TypeOK /\ WaitedFor /\ Drawn /\ Addressed /\ Agreement /\ [Next]_vars => Agreement'
<1> SUFFICES ASSUME TypeOK, WaitedFor, Drawn, Addressed, [Next]_vars,
                    NEW e \in [Ids -> Contents \cup {None}], Agreed(e)
             PROVE  \E f \in [Ids -> Contents \cup {None}] : Agreed(f)'
  BY DEF Agreement
<1>1. ASSUME NEW c \in Calls, NEW who \in Agents, NEW i \in Ids, NEW n \in Targets,
             NEW b \in Bodies, NEW x \in Extras, NewSend(c, who, i, n, b, x)
      PROVE  \E f \in [Ids -> Contents \cup {None}] : Agreed(f)'
  <2> DEFINE d == calls'[c]
  <2>1. KeyOf(n) \in Addresses
    BY <1>1, ConstantsAssumption DEF NewSend, KeyOf, TypeOK, Targets, Addresses
  <2>2. d \in Call /\ d.id = i /\ calls' = [calls EXCEPT ![c] = d]
    BY <1>1, <2>1, CallFacts DEF NewSend, Draft, CallTypes, Call, Steps, Message, Targets
  <2>3. Content(d) \in Contents
    BY <2>2 DEF Content, Contents, Call
  <2>4. PICK f \in [Ids -> Contents \cup {None}] : f = [e EXCEPT ![i] = Content(d)]
    BY <2>3
  <2>5. UNCHANGED <<copies, wire, attempts, rows>> /\ i \notin used
    BY <1>1 DEF NewSend, store, broker
  <2>6. f[i] = Content(d) /\ \A j \in Ids \ {i} : f[j] = e[j]
    BY <2>4
  <2> HIDE DEF d
  <2>7. \A y \in copies \cup wire : y.id \in Ids \ {i}
    BY <2>5 DEF Drawn, TypeOK, Copy, Publish
  <2>8. \A o \in Calls \ {c} : Sends(o) => calls[o].id \in Ids \ {i}
    BY <2>5, CallFacts DEF Drawn, Sends, CallTypes
  <2>9. \A j \in Ids : attempts[j] # None \/ rows[j] # None => j # i
    BY <2>5 DEF Drawn
  <2>10. \A o \in Calls \ {c} : calls'[o] = calls[o]
    BY <2>2, CallFacts DEF CallTypes
  <2>11. calls'[c] = d
    BY <2>2, CallFacts DEF CallTypes
  <2>12. \A o \in Calls : Sends(o)' => Content(calls'[o]) = f[calls'[o].id]
    BY <2>2, <2>6, <2>8, <2>10, <2>11 DEF Agreed, Sends
  <2>13. \A y \in copies' \cup wire' : Content(y) = f[y.id]
    BY <2>5, <2>6, <2>7 DEF Agreed
  <2>14. /\ \A j \in Ids : attempts'[j] # None => Content(attempts'[j]) = f[j]
         /\ \A j \in Ids : rows'[j] # None => Content(rows'[j]) = f[j]
    BY <2>5, <2>6, <2>9 DEF Agreed
  <2>15. Agreed(f)'
    BY <2>12, <2>13, <2>14 DEF Agreed, Content
  <2> QED BY <2>4, <2>15
<1>2. CASE \A c \in Calls, who \in Agents, i \in Ids, n \in Targets, b \in Bodies, x \in Extras :
             ~NewSend(c, who, i, n, b, x)
  BY <1>2, AgreedKept
<1> QED BY <1>1, <1>2

-----------------------------------------------------------------------------

\* The inductive invariant.
IInv ==
  /\ TypeOK
  /\ WaitedFor
  /\ Drawn
  /\ Addressed
  /\ InStream
  /\ NewIsAlone
  /\ OnRecord
  /\ Agreement

\* The inductive invariant holds at the start, when nothing was sent.
LEMMA InitIInv == Init => IInv
<1> SUFFICES ASSUME Init PROVE IInv
  OBVIOUS
<1> USE DEF Init, Idle
<1>1. TypeOK
  BY ConstantsAssumption DEF TypeOK
<1>2. WaitedFor /\ Drawn /\ Addressed
  BY DEF WaitedFor, Drawn, Addressed
<1>3. InStream /\ NewIsAlone /\ OnRecord
  BY DEF InStream, NoPhantomSend, NewIsAlone, OnRecord, ToldToRepeatCanRepeat
<1>4. Agreement
  <2> DEFINE e == [i \in Ids |-> None]
  <2>1. Agreed(e)
    BY DEF Agreed, Sends
  <2>2. e \in [Ids -> Contents \cup {None}]
    OBVIOUS
  <2> HIDE DEF e
  <2> QED BY <2>1, <2>2 DEF Agreement
<1> QED BY <1>1, <1>2, <1>3, <1>4 DEF IInv

\* Every step keeps the inductive invariant.
LEMMA IInvInductive == IInv /\ [Next]_vars => IInv'
BY TypeInductive, WaitedForInductive, DrawnInductive, AddressedInductive,
   InStreamInductive, NewIsAloneInductive, OnRecordInductive, AgreementInductive
DEF IInv

\* The inductive invariant holds in every state of the send path.
THEOREM Invariance == Spec => []IInv
BY InitIInv, IInvInductive, PTL DEF Spec

\* Every variable of the send path keeps its type, so that a call is always at
\* one of deliver's steps with a whole draft.
THEOREM TypeCorrect == Spec => []TypeOK
<1>1. IInv => TypeOK
  BY DEF IInv
<1> QED BY <1>1, Invariance, PTL

\* However sends, repeats, late publishes, crashes and renames interleave,
\* an id stands for one text and one address.
THEOREM OneMessage == Spec => []OneMessagePerId
<1>1. IInv => OneMessagePerId
  <2> SUFFICES ASSUME IInv, NEW e \in [Ids -> Contents \cup {None}], Agreed(e),
                      NEW i \in Ids, NEW x \in Carriers(i)
               PROVE  x = e[i]
    BY DEF IInv, Agreement, OneMessagePerId
  <2> QED BY DEF Carriers, Agreed
<1> QED BY <1>1, Invariance, PTL

\* A history row is of a message the broker stored, with a sequence of it.
THEOREM NoPhantom == Spec => []NoPhantomSend
<1>1. IInv => NoPhantomSend
  BY DEF IInv, InStream
<1> QED BY <1>1, Invariance, PTL

\* Whoever was told to send again finds its attempt or its row.
THEOREM CanRepeat == Spec => []ToldToRepeatCanRepeat
<1>1. IInv => ToldToRepeatCanRepeat
  BY DEF IInv, OnRecord
<1> QED BY <1>1, Invariance, PTL

-----------------------------------------------------------------------------

\* A call that will announce its message: the broker stored it for this call.
Owing(d) == d.pc \in {"acked", "stored", "announce"} /\ ~d.dup
Owed(i) == {c \in Calls : Owing(calls[c]) /\ calls[c].id = i}
CopiesOf(i) == {x \in copies : x.id = i}

\* Every copy of an id pays for one announcement, made or still owed.
Paid(i) ==
  IsFiniteSet(Owed(i)) /\ announced[i] + Cardinality(Owed(i)) <= Cardinality(CopiesOf(i))
CopiesPay ==
  /\ IsFiniteSet(copies) /\ \A x \in copies : x.seq <= lastSeq
  /\ \A i \in Ids : Paid(i)

LEMMA FiniteCopies ==
  ASSUME CopiesPay, TypeOK, NEW i \in Ids
  PROVE  /\ IsFiniteSet(CopiesOf(i)) /\ Cardinality(CopiesOf(i)) \in Nat
         /\ IsFiniteSet(Owed(i)) /\ Cardinality(Owed(i)) \in Nat /\ announced[i] \in Nat
<1>1. CopiesOf(i) \subseteq copies
  BY DEF CopiesOf
<1>2. IsFiniteSet(CopiesOf(i)) /\ Cardinality(CopiesOf(i)) \in Nat
  BY <1>1, FS_Subset, FS_CardinalityType DEF CopiesPay
<1>3. IsFiniteSet(Owed(i)) /\ Cardinality(Owed(i)) \in Nat
  BY FS_CardinalityType DEF CopiesPay, Paid
<1> QED BY <1>2, <1>3 DEF TypeOK

\* Nobody owes more, and nothing is announced.
LEMMA NothingOwed ==
  ASSUME CopiesPay, TypeOK, UNCHANGED <<copies, lastSeq, announced>>,
         \A c \in Calls : Owing(calls'[c]) => Owing(calls[c]) /\ calls'[c].id = calls[c].id
  PROVE  CopiesPay'
<1>1. ASSUME NEW i \in Ids PROVE Paid(i)'
  <2>1. Owed(i)' \subseteq Owed(i)
    BY DEF Owed
  <2>2. IsFiniteSet(Owed(i)') /\ Cardinality(Owed(i)') <= Cardinality(Owed(i))
        /\ Cardinality(Owed(i)') \in Nat
    BY <2>1, FiniteCopies, FS_Subset, FS_CardinalityType
  <2>3. announced'[i] = announced[i] /\ CopiesOf(i)' = CopiesOf(i)
    BY DEF CopiesOf
  <2>4. announced[i] + Cardinality(Owed(i)) <= Cardinality(CopiesOf(i))
    BY DEF CopiesPay, Paid
  <2>5. announced[i] + Cardinality(Owed(i)') <= Cardinality(CopiesOf(i))
    BY <2>2, <2>4, FiniteCopies
  <2> QED BY <2>2, <2>3, <2>5 DEF Paid
<1> QED BY <1>1 DEF CopiesPay

\* One call moves, and owes nothing it did not owe.
LEMMA OneCallOwes ==
  ASSUME CopiesPay, TypeOK, UNCHANGED <<copies, lastSeq, announced>>, NEW c \in Calls, NEW e,
         calls' = [calls EXCEPT ![c] = e],
         Owing(e) => Owing(calls[c]) /\ e.id = calls[c].id
  PROVE  CopiesPay'
<1>1. \A o \in Calls : calls'[o] = IF o = c THEN e ELSE calls[o]
  BY DEF TypeOK
<1> QED BY <1>1, NothingOwed

\* A copy is stored with a sequence of its own; the call that waits for it, if
\* any, owes its announcement.
LEMMA StoredCopyPays ==
  ASSUME IInv, CopiesPay, NEW p \in wire, BrokerStores(p)
  PROVE  CopiesPay'
<1> DEFINE n == [id |-> p.id, msg |-> p.msg, key |-> p.key, seq |-> lastSeq + 1]
<1>1. copies' = copies \cup {n} /\ lastSeq' = lastSeq + 1 /\ announced' = announced
      /\ lastSeq \in Nat /\ copies \subseteq Copy
  BY DEF BrokerStores, store, IInv, TypeOK
<1>2. \A x \in copies : x.seq \in Nat /\ x.seq <= lastSeq
  BY <1>1 DEF Copy, CopiesPay
<1>3. n \notin copies /\ n.seq = lastSeq + 1 /\ n.id = p.id
  BY <1>1, <1>2
<1> HIDE DEF n
<1>4. IsFiniteSet(copies') /\ \A x \in copies' : x.seq <= lastSeq'
  BY <1>1, <1>2, <1>3, FS_AddElement DEF CopiesPay
<1>5. \A c \in Calls : \/ calls'[c] = calls[c]
                       \/ c = p.call /\ ~Owing(calls[c]) /\ calls[c].id = p.id /\ calls'[c].id = p.id
  <2>1. Answer(p, lastSeq + 1, FALSE)
    BY DEF BrokerStores
  <2>2. lastSeq + 1 \in Nat
    BY <1>1
  <2>3. TypeOK /\ WaitedFor
    BY DEF IInv
  <2>4. ASSUME NEW c \in Calls
        PROVE  \/ calls'[c] = calls[c]
               \/ /\ c = p.call /\ calls[c].pc = "waiting" /\ calls[c].id = p.id
                  /\ SameDraft(calls[c], calls'[c])
    BY ONLY <2>1, <2>2, <2>3, AnswerMoves, p \in wire, c \in Calls
  <2> QED BY <2>4 DEF Owing, SameDraft
<1>6. ASSUME NEW i \in Ids PROVE Paid(i)'
  <2>1. announced[i] + Cardinality(Owed(i)) <= Cardinality(CopiesOf(i))
    BY DEF CopiesPay, Paid
  <2>2. /\ IsFiniteSet(CopiesOf(i)) /\ Cardinality(CopiesOf(i)) \in Nat
        /\ IsFiniteSet(Owed(i)) /\ Cardinality(Owed(i)) \in Nat /\ announced[i] \in Nat
    BY FiniteCopies DEF IInv
  <2>3. CASE i # p.id
    <3>1. CopiesOf(i)' = CopiesOf(i)
      BY <1>1, <1>3, <2>3 DEF CopiesOf
    <3>2. Owed(i)' = Owed(i)
      BY <1>5, <2>3 DEF Owed
    <3> QED BY <1>1, <2>1, <2>2, <3>1, <3>2 DEF Paid
  <2>4. CASE i = p.id
    <3>1. CopiesOf(i)' = CopiesOf(i) \cup {n} /\ n \notin CopiesOf(i)
      BY <1>1, <1>3, <2>4 DEF CopiesOf
    <3>2. Cardinality(CopiesOf(i)') = Cardinality(CopiesOf(i)) + 1
      BY <2>2, <3>1, FS_AddElement
    <3>3. Owed(i)' \subseteq Owed(i) \cup {p.call}
      BY <1>5 DEF Owed
    <3>4. IsFiniteSet(Owed(i) \cup {p.call})
          /\ Cardinality(Owed(i) \cup {p.call}) <= Cardinality(Owed(i)) + 1
          /\ Cardinality(Owed(i) \cup {p.call}) \in Nat
      <4>1. IsFiniteSet(Owed(i) \cup {p.call}) /\ Cardinality(Owed(i) \cup {p.call}) \in
              {Cardinality(Owed(i)), Cardinality(Owed(i)) + 1}
        BY <2>2, FS_AddElement
      <4> QED BY <2>2, <4>1
    <3>5. IsFiniteSet(Owed(i)') /\ Cardinality(Owed(i)') <= Cardinality(Owed(i)) + 1
          /\ Cardinality(Owed(i)') \in Nat
      BY <2>2, <3>3, <3>4, FS_Subset, FS_CardinalityType
    <3> QED BY <1>1, <2>1, <2>2, <3>2, <3>5 DEF Paid
  <2> QED BY <2>3, <2>4
<1> QED BY <1>4, <1>6 DEF CopiesPay

\* The call pays what it owes; one that found a duplicate owed nothing.
LEMMA AnnouncePays ==
  ASSUME IInv, CopiesPay, NEW c \in Calls, Announce(c)
  PROVE  CopiesPay'
<1> DEFINE d == calls[c]
<1>1. d \in Call /\ d.pc = "announce" /\ d.id \in Ids /\ calls' = [calls EXCEPT ![c] = Idle]
      /\ UNCHANGED <<copies, lastSeq>>
  BY CallFacts DEF IInv, CallTypes, Announce, At, End, broker
<1>2. ~Owing(Idle)
  BY DEF Owing, Idle
<1>3. CASE d.dup
  <2>1. announced' = announced
    BY <1>3 DEF Announce
  <2> QED BY <1>1, <1>2, <2>1, OneCallOwes DEF IInv
<1>4. CASE ~d.dup
  <2>1. announced' = [announced EXCEPT ![d.id] = @ + 1] /\ c \in Owed(d.id)
    BY <1>1, <1>4 DEF Announce, Owed, Owing
  <2>2. \A o \in Calls : calls'[o] = IF o = c THEN Idle ELSE calls[o]
    BY <1>1 DEF IInv, TypeOK
  <2>3. ASSUME NEW i \in Ids PROVE Paid(i)'
    <3>1. announced[i] + Cardinality(Owed(i)) <= Cardinality(CopiesOf(i))
      BY DEF CopiesPay, Paid
    <3>2. /\ IsFiniteSet(CopiesOf(i)) /\ Cardinality(CopiesOf(i)) \in Nat
          /\ IsFiniteSet(Owed(i)) /\ Cardinality(Owed(i)) \in Nat /\ announced[i] \in Nat
      BY FiniteCopies DEF IInv
    <3>3. CopiesOf(i)' = CopiesOf(i)
      BY <1>1 DEF CopiesOf
    <3>4. CASE i # d.id
      <4>1. Owed(i)' = Owed(i) /\ announced'[i] = announced[i]
        BY <1>2, <2>1, <2>2, <3>4 DEF Owed, IInv, TypeOK
      <4> QED BY <3>1, <3>2, <3>3, <4>1 DEF Paid
    <3>5. CASE i = d.id
      <4>1. Owed(i)' = Owed(i) \ {c} /\ c \in Owed(i) /\ announced'[i] = announced[i] + 1
        BY <1>2, <2>1, <2>2, <3>5 DEF Owed, IInv, TypeOK
      <4>2. IsFiniteSet(Owed(i)') /\ Cardinality(Owed(i)') = Cardinality(Owed(i)) - 1
        BY <3>2, <4>1, FS_RemoveElement
      <4>3. Cardinality(Owed(i)') \in Nat
        BY <4>2, FS_CardinalityType
      <4> QED BY <3>1, <3>2, <3>3, <4>1, <4>2, <4>3 DEF Paid
    <3> QED BY <3>4, <3>5
  <2> QED BY <1>1, <2>3 DEF CopiesPay
<1> QED BY <1>3, <1>4

\* Every step keeps the copies and the announcements in balance.
LEMMA CopiesPayInductive == IInv /\ CopiesPay /\ [Next]_vars => CopiesPay'
<1> SUFFICES ASSUME IInv, CopiesPay, [Next]_vars PROVE CopiesPay'
  OBVIOUS
<1> USE DEF store, broker
<1>1. TypeOK /\ WaitedFor /\ CallTypes /\ ~Owing(Idle)
  BY CallFacts DEF IInv, Owing, Idle
<1>2. ASSUME UNCHANGED <<calls, copies, lastSeq, announced>> PROVE CopiesPay'
  BY <1>1, <1>2, NothingOwed
<1>3. CASE UNCHANGED vars \/ AddressStep \/ (\E i \in Ids : WindowEnds(i)) \/ (\E p \in wire : PublishLost(p))
  BY <1>2, <1>3 DEF vars, AddressStep, Remove, Create, Rename, WindowEnds, PublishLost
<1>4. ASSUME NEW c \in Calls, SomeSend(c) PROVE CopiesPay'
  <2>1. UNCHANGED <<copies, lastSeq, announced>>
    BY <1>4 DEF SomeSend, NewSend, Repeat
  <2>2. ASSUME NEW step \in {"record", "look"}, NEW who, NEW i, NEW repeat, NEW n, NEW b, NEW x,
               Draft(c, step, who, i, repeat, n, b, x)
        PROVE  CopiesPay'
    <3> DEFINE e == [pc |-> step, who |-> who, id |-> i, repeat |-> repeat,
                     msg |-> [from |-> who, body |-> b, extra |-> x],
                     to |-> n, key |-> KeyOf(n), seq |-> 0, dup |-> FALSE, gap |-> FALSE]
    <3>1. calls' = [calls EXCEPT ![c] = e] /\ e.pc = step
      BY <2>2 DEF Draft
    <3> HIDE DEF e
    <3> QED BY <1>1, <2>1, <3>1, OneCallOwes DEF Owing
  <2> QED BY <1>4, <2>2 DEF SomeSend, NewSend, Repeat
<1>5. ASSUME NEW c \in Calls, AlreadyDelivered(c) \/ RepeatOf(c) \/ RecordAttempt(c) \/ SendPublish(c)
                \/ Persist(c) \/ ForgetAttempt(c)
      PROVE  CopiesPay'
  <2>1. calls[c] \in Call /\ UNCHANGED <<copies, lastSeq, announced>>
    BY <1>1, <1>5 DEF AlreadyDelivered, RepeatOf, RecordAttempt, SendPublish, Persist, ForgetAttempt,
                      At, CallTypes
  <2>2. CASE RepeatOf(c)
    BY <1>1, <2>1, <2>2, RepeatOfMoves, OneCallOwes DEF Owing
  <2>3. CASE ~RepeatOf(c)
    <3>1. ASSUME End(c) PROVE CopiesPay'
      BY <1>1, <2>1, <3>1, OneCallOwes DEF End
    <3>2. ASSUME NEW step, Goto(c, step),
                 step \in {"match", "publish", "waiting"} \/ calls[c].pc \in {"acked", "stored"}
          PROVE  CopiesPay'
      <4> DEFINE e == [calls[c] EXCEPT !.pc = step]
      <4>1. calls' = [calls EXCEPT ![c] = e]
        BY <3>2 DEF Goto
      <4>2. e.pc = step /\ e.id = calls[c].id /\ e.dup = calls[c].dup
        BY <2>1 DEF Call
      <4> HIDE DEF e
      <4> QED BY <1>1, <2>1, <3>2, <4>1, <4>2, OneCallOwes DEF Owing
    <3> QED BY <1>5, <2>3, <3>1, <3>2
            DEF AlreadyDelivered, RecordAttempt, SendPublish, Persist, ForgetAttempt, At
  <2> QED BY <2>2, <2>3
<1>6. ASSUME NEW c \in Calls, Announce(c) PROVE CopiesPay'
  BY <1>6, AnnouncePays
<1>7. ASSUME NEW c \in Calls, CallFails(c) PROVE CopiesPay'
  <2>1. UNCHANGED <<copies, lastSeq, announced>>
    BY <1>7 DEF CallFails, Refuse, PublishRefused, PublishTimeout, PersistFails, EnqueueFails, Crash
  <2>2. CASE PersistFails(c)
    <3> DEFINE e == [calls[c] EXCEPT !.pc = "announce", !.gap = TRUE]
    <3>1. calls' = [calls EXCEPT ![c] = e] /\ calls[c].pc = "acked"
      BY <2>2 DEF PersistFails, At
    <3>2. e.id = calls[c].id /\ e.dup = calls[c].dup
      BY <1>1, <3>1 DEF CallTypes, Call
    <3> HIDE DEF e
    <3> QED BY <1>1, <2>1, <3>1, <3>2, OneCallOwes DEF Owing
  <2>3. CASE ~PersistFails(c)
    <3>1. calls' = [calls EXCEPT ![c] = Idle]
      BY <1>7, <2>3 DEF CallFails, Refuse, PublishRefused, PublishTimeout, EnqueueFails, Crash, End
    <3> QED BY <1>1, <2>1, <3>1, OneCallOwes
  <2> QED BY <2>2, <2>3
<1>8. ASSUME NEW p \in wire, BrokerStores(p) PROVE CopiesPay'
  BY <1>8, StoredCopyPays
<1>9. ASSUME NEW p \in wire, BrokerRecognises(p) PROVE CopiesPay'
  <2>1. PICK x \in copies : Answer(p, x.seq, TRUE)
    BY <1>9 DEF BrokerRecognises
  <2>2. UNCHANGED <<copies, lastSeq, announced>>
    BY <1>9 DEF BrokerRecognises
  <2>3. \A c \in Calls : calls'[c] = calls[c] \/ calls'[c].dup
    <3>1. CASE p.call \notin Calls
      BY <2>1, <3>1 DEF Answer
    <3>2. CASE p.call \in Calls
      <4>1. calls[p.call] \in Call
        BY <1>1, <3>2 DEF WaitedFor, CallTypes
      <4> QED BY <1>1, <2>1, <3>2, <4>1 DEF Answer, CallTypes, Call
    <3> QED BY <3>1, <3>2
  <2> QED BY <1>1, <2>2, <2>3, NothingOwed DEF Owing
<1> QED BY <1>3, <1>4, <1>5, <1>6, <1>7, <1>8, <1>9 DEF Next, CallStep, BrokerStep

\* A copy in the stream wakes its recipient at most once, however repeats, late
\* publishes and duplicates interleave (send.ts: "Not for a repeat the broker
\* deduplicated").
THEOREM Announcements == Spec => []AnnouncedOncePerCopy
<1>1. Init => CopiesPay
  <2> SUFFICES ASSUME Init PROVE CopiesPay
    OBVIOUS
  <2>1. copies = {} /\ \A i \in Ids : Owed(i) = {} /\ CopiesOf(i) = {} /\ announced[i] = 0
    BY DEF Init, Owed, Owing, Idle, CopiesOf
  <2>2. \A i \in Ids : Paid(i)
    BY <2>1, FS_EmptySet DEF Paid
  <2> QED BY <2>1, <2>2, FS_EmptySet DEF CopiesPay
<1>2. ASSUME IInv, CopiesPay PROVE AnnouncedOncePerCopy
  <2> SUFFICES ASSUME NEW i \in Ids PROVE announced[i] <= Cardinality(CopiesOf(i))
    BY DEF AnnouncedOncePerCopy, CopiesOf
  <2>1. Cardinality(CopiesOf(i)) \in Nat /\ Cardinality(Owed(i)) \in Nat /\ announced[i] \in Nat
    BY <1>2, FiniteCopies DEF IInv
  <2>2. announced[i] + Cardinality(Owed(i)) <= Cardinality(CopiesOf(i))
    BY <1>2 DEF CopiesPay, Paid
  <2> QED BY <2>1, <2>2
<1>3. IInv /\ CopiesPay /\ [Next]_vars => CopiesPay'
  BY CopiesPayInductive
<1> QED BY <1>1, <1>2, <1>3, Invariance, PTL DEF Spec

-----------------------------------------------------------------------------

\* What a row or a copy becomes in MessageLog.
EntryOf(i, x) == [id |-> i, content |-> Content(x)]

\* A step that leaves the stream and the history alone is a stutter there.
LEMMA SameLog == UNCHANGED <<copies, rows>> => UNCHANGED <<Sent, Kept>>
BY DEF Sent, Kept, Content

\* The broker stores a publish: its id is delivered, or a second copy of what
\* was delivered under that id changes nothing.
LEMMA StoreDelivers ==
  ASSUME IInv, NEW p \in wire, BrokerStores(p)
  PROVE  [Log!Next]_(Log!vars)
<1> DEFINE n == [id |-> p.id, msg |-> p.msg, key |-> p.key, seq |-> lastSeq + 1]
           m == EntryOf(p.id, p)
<1>1. copies' = copies \cup {n} /\ rows' = rows
  BY DEF BrokerStores, store
<1>2. Sent' = Sent \cup {m} /\ Kept' = Kept
  <2>1. Sent' = {EntryOf(x.id, x) : x \in copies'} /\ Sent = {EntryOf(x.id, x) : x \in copies}
    BY DEF Sent, EntryOf, Content
  <2>2. EntryOf(n.id, n) = m
    BY DEF EntryOf, Content
  <2>3. Kept' = Kept
    BY <1>1 DEF Kept, Content
  <2> HIDE DEF n, m
  <2> QED BY <1>1, <2>1, <2>2, <2>3
<1>3. m \in [id: Ids, content: [msg: Message, key: Addresses]]
  BY DEF IInv, TypeOK, Publish, EntryOf, Content
<1>4. ASSUME NEW x \in copies, x.id = p.id PROVE EntryOf(x.id, x) = m
  BY <1>4 DEF IInv, Agreement, Agreed, EntryOf
<1>5. CASE \E x \in copies : x.id = p.id
  <2>1. m \in Sent
    <3> PICK x \in copies : x.id = p.id
      BY <1>5
    <3>1. EntryOf(x.id, x) \in Sent
      BY DEF Sent, EntryOf
    <3> QED BY <1>4, <3>1
  <2> HIDE DEF m
  <2> QED BY <1>2, <2>1 DEF Log!vars
<1>6. CASE \A x \in copies : x.id # p.id
  <2>1. \A f \in Sent : f.id # m.id
    BY <1>6 DEF Sent, EntryOf
  <2> HIDE DEF m
  <2> QED BY <1>2, <1>3, <2>1 DEF Log!Next, Log!Deliver, Log!Entry
<1> QED BY <1>5, <1>6

\* The row of an answered call is of a delivered entry: it is kept there.
LEMMA PersistKeeps ==
  ASSUME IInv, NEW c \in Calls, Persist(c)
  PROVE  [Log!Next]_(Log!vars)
<1> DEFINE d == calls[c]
           r == [msg |-> d.msg, key |-> d.key, seq |-> d.seq]
           m == EntryOf(d.id, d)
<1>1. d \in Call /\ d.pc = "acked" /\ copies' = copies
  BY CallFacts DEF IInv, CallTypes, Persist, At, broker
<1>2. m \in Sent
  <2>1. PICK x \in copies : x.id = d.id
    BY <1>1 DEF IInv, InStream
  <2>2. Content(x) = Content(d)
    BY <1>1, <2>1 DEF IInv, Agreement, Agreed, Sends
  <2> QED BY <2>1, <2>2 DEF Sent, EntryOf
<1>3. m \in [id: Ids, content: [msg: Message, key: Addresses]]
  BY <1>1 DEF Call, EntryOf, Content
<1>4. CASE rows[d.id] # None
  BY <1>1, <1>4, SameLog DEF Persist, Log!vars
<1>5. CASE rows[d.id] = None
  <2>1. rows' = [rows EXCEPT ![d.id] = r]
    BY <1>5 DEF Persist
  <2>2. r # None /\ d.id \in Ids /\ rows \in [Ids -> Row \cup {None}]
    BY <1>1, CallFacts DEF IInv, CallTypes, Call, Row
  <2>3. Kept' = {EntryOf(i, rows'[i]) : i \in {j \in Ids : rows'[j] # None}}
    BY DEF Kept, EntryOf, Content
  <2>4. Kept = {EntryOf(i, rows[i]) : i \in {j \in Ids : rows[j] # None}}
    BY DEF Kept, EntryOf
  <2>5. EntryOf(d.id, r) = m
    BY DEF EntryOf, Content
  <2>6. {j \in Ids : rows'[j] # None} = {j \in Ids : rows[j] # None} \cup {d.id}
    BY <2>1, <2>2
  <2>7. rows'[d.id] = r /\ \A j \in Ids \ {d.id} : rows'[j] = rows[j]
    BY <2>1, <2>2
  <2>8. Kept' = Kept \cup {m}
    <3> HIDE DEF r, m, d
    <3> QED BY <1>5, <2>2, <2>3, <2>4, <2>5, <2>6, <2>7
  <2>9. Sent' = Sent
    BY <1>1 DEF Sent, Content
  <2> HIDE DEF m
  <2> QED BY <1>2, <1>3, <2>8, <2>9 DEF Log!Next, Log!Keep, Log!Entry
<1> QED BY <1>4, <1>5

\* The stream and the history of the send path are a MessageLog: every id is
\* delivered as one message, and the history keeps only what was delivered,
\* whatever calls, repeats, failures and renames do.
THEOREM Implements == Spec => ImplementsMessageLog
<1>1. Init => Log!Init
  BY DEF Init, Log!Init, Sent, Kept
<1>2. IInv /\ [Next]_vars => [Log!Next]_(Log!vars)
  <2> SUFFICES ASSUME IInv, [Next]_vars PROVE [Log!Next]_(Log!vars)
    OBVIOUS
  <2> USE DEF store, broker
  <2>1. ASSUME UNCHANGED <<copies, rows>> PROVE [Log!Next]_(Log!vars)
    BY <2>1, SameLog DEF Log!vars
  <2>2. ASSUME NEW c \in Calls, SomeSend(c) PROVE UNCHANGED <<copies, rows>>
    BY <2>2 DEF SomeSend, NewSend, Repeat
  <2>3. ASSUME NEW c \in Calls, AlreadyDelivered(c) \/ RepeatOf(c) \/ RecordAttempt(c)
                 \/ SendPublish(c) \/ ForgetAttempt(c) \/ Announce(c)
        PROVE  UNCHANGED <<copies, rows>>
    BY <2>3 DEF AlreadyDelivered, RepeatOf, RecordAttempt, SendPublish, ForgetAttempt, Announce
  <2>4. ASSUME NEW c \in Calls, CallFails(c) PROVE UNCHANGED <<copies, rows>>
    BY <2>4 DEF CallFails, Refuse, PublishRefused, PublishTimeout, PersistFails, EnqueueFails, Crash
  <2>5. ASSUME NEW p \in wire, BrokerRecognises(p) PROVE UNCHANGED <<copies, rows>>
    BY <2>5 DEF BrokerRecognises
  <2>6. CASE UNCHANGED vars \/ AddressStep \/ (\E i \in Ids : WindowEnds(i)) \/ (\E p \in wire : PublishLost(p))
    <3>1. UNCHANGED <<copies, rows>>
      BY <2>6 DEF vars, AddressStep, Remove, Create, Rename, WindowEnds, PublishLost
    <3> QED BY <2>1, <3>1
  <2> QED
    BY <2>1, <2>2, <2>3, <2>4, <2>5, <2>6, StoreDelivers, PersistKeeps
    DEF Next, CallStep, BrokerStep
<1> QED BY <1>1, <1>2, Invariance, PTL DEF Spec, ImplementsMessageLog, Log!Spec
=============================================================================
