----------------------------- MODULE InboxProofs -----------------------------
(***************************************************************************)
(* What holds of the receive path for any messages, any number of calls,   *)
(* and any limits.  Four invariants, each on top of the first: what is     *)
(* kept and how often the broker tries have their types; with one call at  *)
(* a time, who gets a message a second time gets it for a look at the      *)
(* reads, or a record of them, that failed; while pulls end within the ack *)
(* wait, what a pull keeps stays out and unacked until its answer, and     *)
(* every copy is accounted for; and a count under way has, at each of its  *)
(* steps, counted what still waits or will still miss it for a reason it   *)
(* can name.                                                               *)
(***************************************************************************)
EXTENDS InboxCounts, FiniteSetTheorems, SequenceTheorems, WellFoundedInduction, TLAPS

-----------------------------------------------------------------------------
(***************************************************************************)
(* Types.                                                                  *)
(***************************************************************************)

\* A copy that waits has a delivery left; a pull keeps copies of the stream.
Shape ==
  /\ TypeOK
  /\ \A n \in Seqs : stream[n].at = "ready" => stream[n].tries < MaxDeliver
  /\ \A p \in Pulls : pulls[p].kept \subseteq Seqs

\* A step of the pulls, the broker or the senders keeps every copy's id.
IdsStay ==
  /\ Seqs \subseteq Seqs'
  /\ \A n \in Seqs : stream'[n].id = stream[n].id

\* The stream as a function.
LEMMA StreamType ==
  ASSUME TypeOK
  PROVE  /\ Len(stream) \in Nat /\ Len(stream) <= MaxCopies
         /\ \A n \in Seqs : /\ stream[n] \in Copy /\ stream[n].id \in Ids
                            /\ stream[n].at \in {"ready", "out", "acked", "dead"}
                            /\ stream[n].tries \in Nat /\ stream[n].tries <= MaxDeliver
<1>1. Len(stream) \in Nat /\ Len(stream) <= MaxCopies
  BY LenProperties DEF TypeOK
<1>2. \A n \in Seqs : stream[n] \in Copy
  BY ElementOfSeq DEF TypeOK, Seqs
<1> QED BY <1>1, <1>2, ConstantsAssumption DEF Copy

\* How many copies there are of a kind.
LEMMA CountOfCopies ==
  ASSUME TypeOK, NEW S \in SUBSET Seqs
  PROVE  Cardinality(S) \in 0..MaxCopies
<1>1. Len(stream) \in Nat /\ Len(stream) <= MaxCopies
  BY StreamType
<1>2. IsFiniteSet(Seqs) /\ Cardinality(Seqs) = Len(stream)
  BY <1>1, FS_Interval DEF Seqs
<1>3. IsFiniteSet(S) /\ Cardinality(S) <= Cardinality(Seqs)
  BY <1>2, FS_Subset
<1>4. Cardinality(S) \in Nat
  BY <1>3, FS_CardinalityType
<1> QED BY <1>1, <1>2, <1>3, <1>4, ConstantsAssumption

\* The same of a pull's sets.
LEMMA CountOfPull ==
  ASSUME NEW S \in SUBSET (1..MaxCopies)
  PROVE  Cardinality(S) \in Nat
<1>1. IsFiniteSet(1..MaxCopies)
  BY FS_Interval, ConstantsAssumption
<1> QED BY <1>1, FS_Subset, FS_CardinalityType

\* A copy of the stream changes its place and its count of deliveries.
LEMMA StreamStep ==
  ASSUME TypeOK, NEW n \in Seqs, NEW a \in {"ready", "out", "acked", "dead"},
         NEW t \in 0..MaxDeliver,
         stream' = [stream EXCEPT ![n] = [@ EXCEPT !.at = a, !.tries = t]]
  PROVE  /\ stream' \in Seq(Copy) /\ Seqs' = Seqs /\ Len(stream') <= MaxCopies
         /\ \A m \in Seqs : m # n => stream'[m] = stream[m]
         /\ stream'[n].id = stream[n].id /\ stream'[n].at = a /\ stream'[n].tries = t
         /\ IdsStay
<1>1. stream \in Seq(Copy) /\ stream[n] \in Copy /\ n \in 1..Len(stream)
  BY StreamType DEF TypeOK, Seqs
<1> DEFINE e == [stream[n] EXCEPT !.at = a, !.tries = t]
<1>2. e \in Copy /\ e.id = stream[n].id /\ e.at = a /\ e.tries = t
  BY <1>1 DEF Copy
<1> HIDE DEF e
<1>3. stream' = [stream EXCEPT ![n] = e]
  BY DEF e
<1>4. /\ stream' \in Seq(Copy) /\ Len(stream') = Len(stream)
      /\ \A m \in 1..Len(stream) : stream'[m] = IF m = n THEN e ELSE stream[m]
  BY <1>1, <1>2, <1>3, ExceptSeq
<1> QED BY <1>1, <1>2, <1>4 DEF Seqs, IdsStay, TypeOK

\* What a pull is.
LEMMA PullType ==
  ASSUME TypeOK, NEW p \in Pulls
  PROVE  /\ pulls[p] \in Pull
         /\ pulls[p].kept \subseteq 1..MaxCopies /\ pulls[p].taken \subseteq 1..MaxCopies
         /\ pulls[p].round \in 0..MaxRounds /\ pulls[p].available \in 0..MaxCopies
         /\ pulls[p].side \in Sides /\ pulls[p].blind \in BOOLEAN
         /\ pulls[p].ranOut \subseteq Ids
         /\ pulls[p].pc \in {"idle", "look", "fetch", "handout", "retry"}
<1>1. pulls[p] \in Pull
  BY DEF TypeOK
<1> QED BY <1>1 DEF Pull

LEMMA IdleType ==
  /\ Idle \in Pull /\ Idle.pc = "idle" /\ Idle.kept = {} /\ Idle.blind = FALSE
  /\ Idle.taken = {}
BY ConstantsAssumption DEF Idle, Pull, Sides

\* The head of the loop keeps what is kept, and how blind the pull is.
LEMMA RoundType ==
  ASSUME NEW d \in Pull, NEW available \in 0..MaxCopies, NEW again \in BOOLEAN
  PROVE  /\ Round(d, available, again) \in Pull
         /\ Round(d, available, again).kept = d.kept
         /\ Round(d, available, again).blind = d.blind
         /\ Round(d, available, again).pc \in {"look", "fetch", "handout"}
<1> DEFINE r == Round(d, available, again)
           w == Want(d, available)
<1>1. d.kept \subseteq 1..MaxCopies /\ d.round \in Nat /\ d.round <= MaxRounds
  BY ConstantsAssumption DEF Pull
<1>2. Cardinality(d.kept) \in Nat
  BY <1>1, CountOfPull
<1>3. w > 0 => w \in 0..MaxCopies
  BY <1>2, ConstantsAssumption DEF Want, SmallerOf
<1>4. CASE again /\ d.round < MaxRounds /\ w > 0
  <2> DEFINE e == [d EXCEPT !.pc = "fetch", !.round = @ + 1, !.available = available,
                            !.want = w, !.taken = {}, !.dropped = FALSE]
  <2>1. r = e
    BY <1>4 DEF Round
  <2>2. d.round + 1 \in 0..MaxRounds /\ w \in 0..MaxCopies
    BY <1>1, <1>3, <1>4, ConstantsAssumption
  <2> HIDE DEF w
  <2>3. e \in Pull /\ e.kept = d.kept /\ e.blind = d.blind /\ e.pc = "fetch"
    BY <2>2 DEF Pull
  <2> QED BY <2>1, <2>3
<1>5. CASE ~(again /\ d.round < MaxRounds /\ w > 0) /\ d.side = "inbox"
  <2> DEFINE e == [d EXCEPT !.pc = "look", !.side = "broadcast", !.round = 0, !.taken = {}]
  <2>1. r = e
    BY <1>5 DEF Round
  <2>2. 0 \in 0..MaxRounds /\ "broadcast" \in Sides
    BY ConstantsAssumption DEF Sides
  <2>3. e \in Pull /\ e.kept = d.kept /\ e.blind = d.blind /\ e.pc = "look"
    BY <2>2 DEF Pull
  <2> QED BY <2>1, <2>3
<1>6. CASE ~(again /\ d.round < MaxRounds /\ w > 0) /\ d.side # "inbox"
  <2> DEFINE e == [d EXCEPT !.pc = "handout", !.available = available, !.taken = {}]
  <2>1. r = e
    BY <1>6 DEF Round
  <2>2. e \in Pull /\ e.kept = d.kept /\ e.blind = d.blind /\ e.pc = "handout"
    BY DEF Pull
  <2> QED BY <2>1, <2>2
<1> QED BY <1>4, <1>5, <1>6

\* A step that leaves the stream alone leaves the copies and their ids alone.
LEMMA StreamStays ==
  ASSUME Shape, UNCHANGED stream
  PROVE  Seqs' = Seqs /\ IdsStay
BY DEF Seqs, IdsStay

\* A step of the pulls' part: its types, when the stream stays.
LEMMA ShapeOfPull ==
  ASSUME Shape, UNCHANGED <<stream, advisories, rows, past, deadNoted>>,
         NEW p \in Pulls, NEW d \in Pull, d.kept \subseteq Seqs,
         pulls' = [pulls EXCEPT ![p] = d],
         acks' \subseteq Seqs, reads' \subseteq Ids, noted' \subseteq Ids,
         unrecorded' \subseteq Ids, cut' \subseteq Ids,
         handed' \in [Ids -> Nat], misses' \in Nat, faults' \in 0..MaxFaults
  PROVE  Shape' /\ IdsStay
<1>1. Seqs' = Seqs /\ IdsStay
  BY StreamStays
<1>2. /\ stream \in Seq(Copy) /\ Len(stream) <= MaxCopies
      /\ rows \in [Ids -> 0..MaxCopies] /\ advisories \subseteq Seqs
      /\ past \subseteq Ids /\ deadNoted \subseteq Ids /\ pulls \in [Pulls -> Pull]
  BY DEF Shape, TypeOK
<1>3. pulls' \in [Pulls -> Pull]
  BY <1>2
<1>4. TypeOK'
  BY <1>1, <1>2, <1>3 DEF TypeOK
<1>5. \A q \in Pulls : pulls'[q].kept \subseteq Seqs
  BY <1>2 DEF Shape
<1> QED BY <1>1, <1>4, <1>5 DEF Shape

\* The ids of copies.
LEMMA IdsOfCopies ==
  ASSUME TypeOK, NEW S \in SUBSET Seqs
  PROVE  IdsOf(S) \subseteq Ids /\ \A n \in S : stream[n].id \in IdsOf(S)
BY StreamType DEF IdsOf

\* The types of the rest of a state.
LEMMA RestType ==
  ASSUME Shape
  PROVE  /\ acks \subseteq Seqs /\ advisories \subseteq Seqs /\ past \subseteq Ids
         /\ reads \subseteq Ids /\ noted \subseteq Ids /\ unrecorded \subseteq Ids
         /\ deadNoted \subseteq Ids /\ cut \subseteq Ids
         /\ handed \in [Ids -> Nat] /\ misses \in Nat /\ faults \in 0..MaxFaults
         /\ rows \in [Ids -> 0..MaxCopies] /\ pulls \in [Pulls -> Pull]
         /\ \A p \in Pulls : pulls[p] \in Pull /\ pulls[p].kept \subseteq Seqs
                             /\ pulls[p].ranOut \subseteq Ids
                             /\ IdsOf(pulls[p].kept) \subseteq Ids
BY PullType, IdsOfCopies DEF Shape, TypeOK

LEMMA FaultType ==
  ASSUME Shape, Fault
  PROVE  faults' \in 0..MaxFaults
BY RestType, ConstantsAssumption DEF Fault

\* How many copies of a message a pull keeps.
LEMMA KeptOfType ==
  ASSUME Shape, NEW p \in Pulls, NEW i \in Ids
  PROVE  /\ IsFiniteSet(KeptOf(p, i)) /\ Cardinality(KeptOf(p, i)) \in Nat
         /\ i \in IdsOf(pulls[p].kept) => Cardinality(KeptOf(p, i)) > 0
         /\ i \notin IdsOf(pulls[p].kept) => Cardinality(KeptOf(p, i)) = 0
<1>1. KeptOf(p, i) \subseteq Seqs /\ IsFiniteSet(Seqs)
  <2>1. Len(stream) \in Nat
    BY StreamType DEF Shape
  <2>2. IsFiniteSet(Seqs)
    BY <2>1, FS_Interval DEF Seqs
  <2>3. pulls[p].kept \subseteq Seqs
    BY RestType
  <2> QED BY <2>2, <2>3 DEF KeptOf
<1>2. IsFiniteSet(KeptOf(p, i))
  BY <1>1, FS_Subset
<1>3. Cardinality(KeptOf(p, i)) \in Nat /\ (Cardinality(KeptOf(p, i)) = 0 <=> KeptOf(p, i) = {})
  BY <1>2, FS_CardinalityType, FS_EmptySet
<1>4. i \in IdsOf(pulls[p].kept) <=> KeptOf(p, i) # {}
  BY DEF IdsOf, KeptOf
<1> QED BY <1>2, <1>3, <1>4

\* What an answer hands out.
LEMMA AnswerType ==
  ASSUME Shape, NEW p \in Pulls, Answer(p)
  PROVE  /\ handed' \in [Ids -> Nat]
         /\ \A i \in Ids : handed'[i] = handed[i] + Cardinality(KeptOf(p, i))
         /\ \A i \in Ids : IF i \in IdsOf(pulls[p].kept) THEN handed'[i] > handed[i]
                            ELSE handed'[i] = handed[i]
         /\ pulls' = [pulls EXCEPT ![p] = Idle]
         /\ pulls'[p] = Idle /\ \A q \in Pulls \ {p} : pulls'[q] = pulls[q]
         /\ UNCHANGED <<stream, advisories, rows, past, deadNoted, cut>>
<1>1. handed \in [Ids -> Nat] /\ pulls \in [Pulls -> Pull]
  BY RestType
<1>2. \A i \in Ids : Cardinality(KeptOf(p, i)) \in Nat
  BY KeptOfType
<1>3. \A i \in Ids : handed'[i] = handed[i] + Cardinality(KeptOf(p, i))
  BY DEF Answer
<1>4. handed' \in [Ids -> Nat]
  BY <1>1, <1>2 DEF Answer
<1>5. \A i \in Ids : IF i \in IdsOf(pulls[p].kept) THEN handed'[i] > handed[i]
                     ELSE handed'[i] = handed[i]
  BY <1>1, <1>2, <1>3, KeptOfType
<1> QED BY <1>1, <1>3, <1>4, <1>5 DEF Answer, history

\* The steps of a pull that answer.
LEMMA ShapeAnswer ==
  ASSUME Shape, NEW p \in Pulls,
         HandOut(p) \/ HandOutUnnoted(p) \/ MarkReadAgain(p) \/ MarkReadGivesUp(p)
  PROVE  Shape' /\ IdsStay
<1>1. Answer(p)
  BY DEF HandOut, HandOutUnnoted, MarkReadAgain, MarkReadGivesUp
<1>2. acks' \subseteq Seqs /\ reads' \subseteq Ids
  BY RestType DEF HandOut, HandOutUnnoted, MarkReadAgain, MarkReadGivesUp
<1>3. noted' \subseteq Ids /\ unrecorded' \subseteq Ids
  BY RestType DEF HandOut, HandOutUnnoted, MarkReadAgain, MarkReadGivesUp, Note
<1>4. misses' \in Nat /\ faults' \in 0..MaxFaults
  BY RestType, FaultType DEF HandOut, HandOutUnnoted, MarkReadAgain, MarkReadGivesUp
<1>5. cut' \subseteq Ids
  BY <1>1, AnswerType, RestType
<1> QED BY <1>1, <1>2, <1>3, <1>4, <1>5, AnswerType, IdleType, ShapeOfPull

\* The steps that begin a pull, drive its loop, or end it.
LEMMA ShapeLoop ==
  ASSUME Shape, NEW p \in Pulls, Look(p) \/ FetchEnds(p)
  PROVE  /\ Shape' /\ IdsStay
         /\ \A q \in Pulls : pulls'[q].kept = pulls[q].kept /\ pulls'[q].blind = pulls[q].blind
         /\ \A q \in Pulls \ {p} : pulls'[q] = pulls[q]
         /\ pulls[p].pc # "retry" /\ pulls'[p].pc # "retry"
         /\ UNCHANGED <<stream, acks, past, reads, handed, misses, cut>>
<1>1. \E available \in 0..MaxCopies, again \in BOOLEAN :
        pulls' = [pulls EXCEPT ![p] = Round(pulls[p], available, again)]
  <2>1. CASE Look(p)
    <3>1. {n \in OnSide(pulls[p].side) : stream[n].at \in {"ready", "out"}} \in SUBSET Seqs
      BY DEF OnSide
    <3>2. Pending(pulls[p].side) \in 0..MaxCopies
      BY <3>1, CountOfCopies DEF Pending, Shape
    <3> QED BY <2>1, <3>2 DEF Look
  <2>2. CASE FetchEnds(p)
    <3> DEFINE fetched == Cardinality(pulls[p].taken)
               left == IF pulls[p].available > fetched THEN pulls[p].available - fetched ELSE 0
               again == fetched = pulls[p].want /\ pulls[p].dropped
    <3>1. pulls[p].taken \subseteq 1..MaxCopies /\ pulls[p].available \in 0..MaxCopies
      BY PullType DEF Shape
    <3>2. fetched \in Nat
      BY <3>1, CountOfPull
    <3>3. left \in 0..MaxCopies
      BY <3>1, <3>2, ConstantsAssumption
    <3>4. again \in BOOLEAN
      BY PullType DEF Shape, Pull
    <3>5. pulls' = [pulls EXCEPT ![p] = Round(pulls[p], left, again)]
      BY <2>2 DEF FetchEnds
    <3> HIDE DEF left, again
    <3> QED BY <3>3, <3>4, <3>5
  <2> QED BY <2>1, <2>2
<1>2. PICK available \in 0..MaxCopies, again \in BOOLEAN :
        pulls' = [pulls EXCEPT ![p] = Round(pulls[p], available, again)]
  BY <1>1
<1> DEFINE r == Round(pulls[p], available, again)
<1>3. /\ r \in Pull /\ r.kept = pulls[p].kept /\ r.blind = pulls[p].blind
      /\ r.pc \in {"look", "fetch", "handout"}
  BY RoundType, RestType
<1> HIDE DEF r
<1>4. UNCHANGED <<stream, acks, advisories, rows, past, noted, unrecorded, deadNoted,
                  reads, handed, misses, cut, faults>>
  BY DEF Look, FetchEnds, broker, history, audit, record
<1>5. pulls' = [pulls EXCEPT ![p] = r]
  BY <1>2 DEF r
<1>6. Shape' /\ IdsStay
  BY <1>3, <1>4, <1>5, RestType, ShapeOfPull
<1>7. pulls[p].pc # "retry"
  BY DEF Look, FetchEnds, At
<1> QED BY <1>3, <1>4, <1>5, <1>6, <1>7, RestType

LEMMA ShapeBegin ==
  ASSUME Shape, NEW p \in Pulls, Begin(p)
  PROVE  /\ Shape' /\ IdsStay
         /\ \A q \in Pulls : pulls'[q].kept = pulls[q].kept
         /\ \A q \in Pulls \ {p} : pulls'[q] = pulls[q]
         /\ pulls[p].pc # "retry" /\ pulls'[p].pc # "retry"
         /\ UNCHANGED <<stream, acks, past, reads, handed, cut>>
         /\ misses' = IF pulls'[p].blind THEN misses + 1 ELSE misses
<1>1. PICK blind \in BOOLEAN :
        /\ pulls' = [pulls EXCEPT ![p].pc = "look", ![p].blind = blind]
        /\ IF blind THEN Fault /\ misses' = misses + 1 ELSE UNCHANGED <<faults, misses>>
  BY DEF Begin
<1> DEFINE d == [pulls[p] EXCEPT !.pc = "look", !.blind = blind]
<1>2. d \in Pull /\ d.kept = pulls[p].kept /\ d.blind = blind /\ d.pc = "look"
  BY RestType DEF Pull
<1>3. pulls' = [pulls EXCEPT ![p] = d]
  BY <1>1, RestType
<1> HIDE DEF d
<1>4. UNCHANGED <<stream, acks, advisories, rows, past, noted, unrecorded, deadNoted,
                  reads, handed, cut>>
  BY DEF Begin, broker, history, audit
<1>5. misses' \in Nat /\ faults' \in 0..MaxFaults
  BY <1>1, RestType, FaultType
<1>6. Shape' /\ IdsStay
  BY <1>2, <1>3, <1>4, <1>5, RestType, ShapeOfPull
<1>7. pulls[p].pc = "idle"
  BY DEF Begin, At
<1> QED BY <1>1, <1>2, <1>3, <1>4, <1>6, <1>7, RestType

LEMMA ShapeMarkReadFails ==
  ASSUME Shape, NEW p \in Pulls, MarkReadFails(p)
  PROVE  /\ Shape' /\ IdsStay
         /\ \A q \in Pulls : pulls'[q].kept = pulls[q].kept /\ pulls'[q].blind = pulls[q].blind
         /\ \A q \in Pulls \ {p} : pulls'[q] = pulls[q]
         /\ pulls[p].pc # "retry" /\ pulls'[p].pc = "retry"
         /\ acks' = acks \cup pulls[p].kept
         /\ UNCHANGED <<stream, past, reads, handed, misses, cut>>
<1> DEFINE d == [pulls[p] EXCEPT !.pc = "retry"]
<1>1. /\ d \in Pull /\ d.kept = pulls[p].kept /\ d.blind = pulls[p].blind
      /\ d.pc = "retry"
  BY RestType DEF Pull
<1>2. pulls' = [pulls EXCEPT ![p] = d]
  BY RestType DEF MarkReadFails
<1> HIDE DEF d
<1>3. UNCHANGED <<stream, advisories, rows, past, noted, unrecorded, deadNoted,
                  reads, handed, misses, cut>>
  BY DEF MarkReadFails, history, audit, record
<1>4. acks' = acks \cup pulls[p].kept /\ pulls[p].pc = "handout" /\ Fault
  BY DEF MarkReadFails, At
<1>5. acks' \subseteq Seqs /\ faults' \in 0..MaxFaults
  BY <1>4, RestType, FaultType
<1>6. Shape' /\ IdsStay
  BY <1>1, <1>2, <1>3, <1>5, RestType, ShapeOfPull
<1> QED BY <1>1, <1>2, <1>3, <1>4, <1>6, RestType

LEMMA ShapePullFails ==
  ASSUME Shape, NEW p \in Pulls, PullFails(p)
  PROVE  /\ Shape' /\ IdsStay
         /\ pulls'[p] = Idle /\ \A q \in Pulls \ {p} : pulls'[q] = pulls[q]
         /\ cut' = IF pulls[p].pc = "retry" THEN cut \cup IdsOf(pulls[p].kept) ELSE cut
         /\ UNCHANGED <<stream, acks, past, reads, handed, misses>>
<1>1. UNCHANGED <<stream, acks, advisories, rows, past, noted, unrecorded, deadNoted,
                  reads, handed, misses>>
  BY DEF PullFails, broker, history, audit
<1>2. /\ pulls' = [pulls EXCEPT ![p] = Idle] /\ Fault
      /\ cut' = IF pulls[p].pc = "retry" THEN cut \cup IdsOf(pulls[p].kept) ELSE cut
  BY DEF PullFails, At
<1>3. cut' \subseteq Ids /\ faults' \in 0..MaxFaults
  BY <1>2, RestType, FaultType
<1>4. Shape' /\ IdsStay
  BY <1>1, <1>2, <1>3, RestType, IdleType, ShapeOfPull
<1> QED BY <1>1, <1>2, <1>4, RestType

\* The broker hands over a copy that waits: it is out, with one try more.
LEMMA HandOverEffect ==
  ASSUME Shape, NEW p \in Pulls, NEW n \in Seqs, NEW d \in Pull,
         d.kept \subseteq Seqs, HandOver(p, n, d),
         acks' \subseteq Seqs, misses' \in Nat, faults' \in 0..MaxFaults
  PROVE  /\ Shape' /\ IdsStay /\ Seqs' = Seqs
         /\ stream[n].at = "ready" /\ stream'[n].at = "out" /\ stream'[n].tries > 0
         /\ \A m \in Seqs : m # n => stream'[m] = stream[m]
         /\ pulls'[p].kept = d.kept /\ pulls'[p].blind = d.blind /\ pulls'[p].pc = d.pc
         /\ \A q \in Pulls \ {p} : pulls'[q] = pulls[q]
         /\ UNCHANGED <<past, reads, handed, cut>>
<1> DEFINE e == [d EXCEPT !.taken = @ \cup {n}]
<1>1. n \in 1..MaxCopies
  BY StreamType, ConstantsAssumption DEF Seqs, Shape
<1>2. e \in Pull /\ e.kept = d.kept /\ e.blind = d.blind /\ e.pc = d.pc
  BY <1>1 DEF Pull
<1>3. pulls' = [pulls EXCEPT ![p] = e]
  BY DEF HandOver
<1> HIDE DEF e
<1>4. stream[n].at = "ready" /\ stream[n].tries + 1 \in 0..MaxDeliver
  <2>1. stream[n].at = "ready"
    BY DEF HandOver, Ready
  <2> QED BY <2>1, StreamType, ConstantsAssumption DEF Shape
<1>5. stream' = [stream EXCEPT ![n] = [@ EXCEPT !.at = "out", !.tries = stream[n].tries + 1]]
  <2>1. stream[n] \in Copy /\ stream \in Seq(Copy)
    BY StreamType DEF Shape, TypeOK
  <2> QED BY <2>1 DEF HandOver, Copy
<1>6. /\ stream' \in Seq(Copy) /\ Seqs' = Seqs /\ Len(stream') <= MaxCopies
      /\ \A m \in Seqs : m # n => stream'[m] = stream[m]
      /\ stream'[n].at = "out" /\ stream'[n].tries = stream[n].tries + 1 /\ IdsStay
  BY <1>4, <1>5, StreamStep DEF Shape
<1>7. UNCHANGED <<advisories, rows, past, noted, unrecorded, deadNoted, reads, handed, cut>>
  BY DEF HandOver, history, audit
<1>8. TypeOK'
  BY <1>2, <1>3, <1>6, <1>7, RestType DEF TypeOK
<1>9. \A m \in Seqs : stream'[m].at = "ready" => stream'[m].tries < MaxDeliver
  BY <1>6 DEF Shape
<1>10. \A q \in Pulls : pulls'[q].kept \subseteq Seqs
  BY <1>2, <1>3, RestType
<1>11. stream'[n].tries > 0
  BY <1>6, StreamType DEF Shape
<1> QED BY <1>2, <1>3, <1>4, <1>6, <1>7, <1>8, <1>9, <1>10, <1>11, RestType DEF Shape

\* A copy that is dropped: acked, and why.
LEMMA DropEffect ==
  ASSUME Shape, NEW p \in Pulls, NEW n \in Seqs, TakeDropped(p, n), pulls[p].pc = "fetch"
  PROVE  /\ Shape' /\ IdsStay /\ Seqs' = Seqs
         /\ stream[n].at = "ready" /\ stream'[n].at = "out" /\ stream'[n].tries > 0
         /\ \A m \in Seqs : m # n => stream'[m] = stream[m]
         /\ \A q \in Pulls : pulls'[q].kept = pulls[q].kept /\ pulls'[q].blind = pulls[q].blind
                             /\ pulls'[q].pc = pulls[q].pc
         /\ acks' = acks \cup {n}
         /\ UNCHANGED <<past, reads, handed, cut, misses>>
         /\ IsOwn(stream[n].id) \/ SeenBefore(pulls[p], stream[n].id) \/ stream[n].id \in past
<1> DEFINE i == stream[n].id
           expired == ~IsOwn(i) /\ ~SeenBefore(pulls[p], i)
           ranOut == IF expired /\ pulls[p].side = "inbox" THEN pulls[p].ranOut \cup {i}
                     ELSE pulls[p].ranOut
           d == [pulls[p] EXCEPT !.dropped = TRUE, !.ranOut = ranOut]
<1>1. ranOut \subseteq Ids
  BY RestType, StreamType DEF Shape
<1>2. HandOver(p, n, d)
  <2>1. [pulls[p] EXCEPT !.dropped = TRUE, !.ranOut =
           IF expired /\ pulls[p].side = "inbox" THEN @ \cup {i} ELSE @] = d
    BY RestType DEF Pull
  <2> QED BY <2>1 DEF TakeDropped
<1> HIDE DEF ranOut
<1>3. d \in Pull /\ d.kept = pulls[p].kept /\ d.blind = pulls[p].blind /\ d.pc = pulls[p].pc
  BY <1>1, RestType DEF Pull
<1> HIDE DEF d
<1>4. acks' = acks \cup {n} /\ UNCHANGED <<misses, faults>>
  BY DEF TakeDropped
<1>5. /\ Shape' /\ IdsStay /\ Seqs' = Seqs
      /\ stream[n].at = "ready" /\ stream'[n].at = "out" /\ stream'[n].tries > 0
      /\ \A m \in Seqs : m # n => stream'[m] = stream[m]
      /\ pulls'[p].kept = d.kept /\ pulls'[p].blind = d.blind /\ pulls'[p].pc = d.pc
      /\ \A q \in Pulls \ {p} : pulls'[q] = pulls[q]
      /\ UNCHANGED <<past, reads, handed, cut>>
  BY <1>2, <1>3, <1>4, RestType, HandOverEffect
<1>6. IsOwn(i) \/ SeenBefore(pulls[p], i) \/ i \in past
  BY DEF TakeDropped
<1> QED BY <1>3, <1>4, <1>5, <1>6

\* A copy that is kept, judged or not.
LEMMA KeepEffect ==
  ASSUME Shape, NEW p \in Pulls, NEW n \in Seqs, pulls[p].pc = "fetch",
         TakeKept(p, n) \/ TakeUnjudged(p, n)
  PROVE  /\ Shape' /\ IdsStay /\ Seqs' = Seqs
         /\ stream[n].at = "ready" /\ stream'[n].at = "out" /\ stream'[n].tries > 0
         /\ \A m \in Seqs : m # n => stream'[m] = stream[m]
         /\ pulls'[p].kept = pulls[p].kept \cup {n} /\ pulls'[p].blind = pulls[p].blind
         /\ pulls'[p].pc = pulls[p].pc
         /\ \A q \in Pulls \ {p} : pulls'[q] = pulls[q]
         /\ UNCHANGED <<past, reads, handed, cut, acks>>
         /\ \/ ~SeenBefore(pulls[p], stream[n].id) /\ misses' = misses
            \/ misses' = misses + 1
<1> DEFINE d == [pulls[p] EXCEPT !.kept = pulls[p].kept \cup {n}]
<1>1. HandOver(p, n, d) /\ acks' = acks
  BY RestType DEF TakeKept, TakeUnjudged, Pull
<1>2. n \in 1..MaxCopies
  BY StreamType, ConstantsAssumption DEF Seqs, Shape
<1>3. /\ d \in Pull /\ d.kept = pulls[p].kept \cup {n} /\ d.blind = pulls[p].blind
      /\ d.pc = pulls[p].pc
  BY <1>2, RestType DEF Pull
<1> HIDE DEF d
<1>4. \/ ~SeenBefore(pulls[p], stream[n].id) /\ misses' = misses /\ faults' = faults
      \/ misses' = misses + 1 /\ Fault
  BY DEF TakeKept, TakeUnjudged
<1>5. misses' \in Nat /\ faults' \in 0..MaxFaults
  BY <1>4, RestType, FaultType
<1>6. d.kept \subseteq Seqs /\ acks' \subseteq Seqs
  BY <1>1, <1>3, RestType
<1>7. /\ Shape' /\ IdsStay /\ Seqs' = Seqs
      /\ stream[n].at = "ready" /\ stream'[n].at = "out" /\ stream'[n].tries > 0
      /\ \A m \in Seqs : m # n => stream'[m] = stream[m]
      /\ pulls'[p].kept = d.kept /\ pulls'[p].blind = d.blind /\ pulls'[p].pc = d.pc
      /\ \A q \in Pulls \ {p} : pulls'[q] = pulls[q]
      /\ UNCHANGED <<past, reads, handed, cut>>
  BY <1>1, <1>3, <1>5, <1>6, HandOverEffect
<1> QED BY <1>1, <1>3, <1>4, <1>7

\* What the pulls and the answers keep leaves alone.
PullsStay == UNCHANGED <<pulls, reads, handed, misses, cut>>

\* Types, when the pulls stay and the stream has its type.
LEMMA ShapeOfBroker ==
  ASSUME Shape, PullsStay, IdsStay,
         stream' \in Seq(Copy), Len(stream') <= MaxCopies,
         \A n \in Seqs' : stream'[n].at = "ready" => stream'[n].tries < MaxDeliver,
         acks' \subseteq Seqs, advisories' \subseteq Seqs, past' \subseteq Ids,
         rows' \in [Ids -> 0..MaxCopies], noted' \subseteq Ids, unrecorded' \subseteq Ids,
         deadNoted' \subseteq Ids, faults' \in 0..MaxFaults
  PROVE  Shape'
<1>1. Seqs \subseteq Seqs'
  BY DEF IdsStay
<1>2. TypeOK'
  BY <1>1, RestType DEF TypeOK, PullsStay
<1>3. \A p \in Pulls : pulls'[p].kept \subseteq Seqs'
  BY <1>1, RestType DEF PullsStay
<1> QED BY <1>2, <1>3 DEF Shape

LEMMA AckArrivesEffect ==
  ASSUME Shape, NEW n \in Seqs, AckArrives(n)
  PROVE  /\ Shape' /\ IdsStay /\ PullsStay /\ Seqs' = Seqs
         /\ n \in acks /\ acks' = acks \ {n}
         /\ \A m \in Seqs : m # n => stream'[m] = stream[m]
         /\ stream[n].at # "dead" => stream'[n].at = "acked"
         /\ stream'[n].tries = stream[n].tries /\ past' = past
<1>1. /\ n \in acks /\ acks' = acks \ {n} /\ PullsStay
      /\ UNCHANGED <<advisories, rows, past, noted, unrecorded, deadNoted, faults>>
  BY DEF AckArrives, history, audit, record, PullsStay
<1>2. CASE stream[n].at = "dead"
  <2>1. stream' = stream
    BY <1>2 DEF AckArrives
  <2>2. Seqs' = Seqs /\ IdsStay
    BY <2>1, StreamStays
  <2>3. Shape'
    BY <1>1, <2>1, <2>2, RestType, ShapeOfBroker DEF Shape, TypeOK
  <2> QED BY <1>1, <1>2, <2>1, <2>2, <2>3
<1>3. CASE stream[n].at # "dead"
  <2>1. stream' = [stream EXCEPT ![n] = [@ EXCEPT !.at = "acked", !.tries = stream[n].tries]]
    <3>1. stream[n] \in Copy /\ stream \in Seq(Copy)
      BY StreamType DEF Shape, TypeOK
    <3>2. [stream[n] EXCEPT !.at = "acked"]
            = [stream[n] EXCEPT !.at = "acked", !.tries = stream[n].tries]
      BY <3>1 DEF Copy
    <3> QED BY <1>3, <3>1, <3>2 DEF AckArrives
  <2>2. stream[n].tries \in 0..MaxDeliver
    BY StreamType, ConstantsAssumption DEF Shape
  <2>3. /\ stream' \in Seq(Copy) /\ Seqs' = Seqs /\ Len(stream') <= MaxCopies
        /\ \A m \in Seqs : m # n => stream'[m] = stream[m]
        /\ stream'[n].at = "acked" /\ stream'[n].tries = stream[n].tries /\ IdsStay
    BY <2>1, <2>2, StreamStep DEF Shape
  <2>4. \A m \in Seqs' : stream'[m].at = "ready" => stream'[m].tries < MaxDeliver
    BY <2>3 DEF Shape
  <2>5. Shape'
    BY <1>1, <2>3, <2>4, RestType, ShapeOfBroker
  <2> QED BY <1>1, <2>3, <2>5
<1> QED BY <1>2, <1>3

LEMMA AckWaitEndsEffect ==
  ASSUME Shape, NEW n \in Seqs, AckWaitEnds(n)
  PROVE  /\ Shape' /\ IdsStay /\ PullsStay /\ Seqs' = Seqs
         /\ stream[n].at = "out" /\ stream'[n].at \in {"ready", "dead"}
         /\ stream'[n].tries = stream[n].tries
         /\ \A m \in Seqs : m # n => stream'[m] = stream[m]
         /\ QuickPulls => n \notin acks /\ ~Held(n)
         /\ UNCHANGED <<acks, past>>
<1>1. /\ UNCHANGED <<acks, rows, past, noted, unrecorded, deadNoted, faults>> /\ PullsStay
      /\ stream[n].at = "out" /\ (QuickPulls => n \notin acks /\ ~Held(n))
  BY DEF AckWaitEnds, history, audit, record, PullsStay
<1>2. PICK a \in {"ready", "dead"} :
        /\ stream' = [stream EXCEPT ![n].at = a]
        /\ a = "ready" => stream[n].tries < MaxDeliver
        /\ advisories' \in {advisories, advisories \cup {n}}
  BY DEF AckWaitEnds
<1>3. stream' = [stream EXCEPT ![n] = [@ EXCEPT !.at = a, !.tries = stream[n].tries]]
  <2>1. stream[n] \in Copy /\ stream \in Seq(Copy)
    BY StreamType DEF Shape, TypeOK
  <2>2. [stream[n] EXCEPT !.at = a] = [stream[n] EXCEPT !.at = a, !.tries = stream[n].tries]
    BY <2>1 DEF Copy
  <2> QED BY <1>2, <2>1, <2>2
<1>4. stream[n].tries \in 0..MaxDeliver
  BY StreamType, ConstantsAssumption DEF Shape
<1>5. /\ stream' \in Seq(Copy) /\ Seqs' = Seqs /\ Len(stream') <= MaxCopies
      /\ \A m \in Seqs : m # n => stream'[m] = stream[m]
      /\ stream'[n].at = a /\ stream'[n].tries = stream[n].tries /\ IdsStay
  BY <1>3, <1>4, StreamStep DEF Shape
<1>6. \A m \in Seqs' : stream'[m].at = "ready" => stream'[m].tries < MaxDeliver
  BY <1>2, <1>5 DEF Shape
<1>7. acks' \subseteq Seqs /\ advisories' \subseteq Seqs
  BY <1>1, <1>2, RestType
<1>8. Shape'
  BY <1>1, <1>5, <1>6, <1>7, RestType, ShapeOfBroker
<1> QED BY <1>1, <1>5, <1>8

LEMMA ArriveEffect ==
  ASSUME Shape, NEW i \in Ids, Arrive(i)
  PROVE  /\ Shape' /\ IdsStay /\ PullsStay
         /\ \A n \in Seqs : stream'[n] = stream[n]
         /\ \A n \in Seqs' \ Seqs : stream'[n].at = "ready" /\ n \notin acks
         /\ UNCHANGED <<acks, past>>
<1> DEFINE c == [id |-> i, at |-> "ready", tries |-> 0]
<1>1. /\ UNCHANGED <<acks, advisories, rows, past, noted, unrecorded, deadNoted, faults>>
      /\ PullsStay /\ Len(stream) < MaxCopies /\ stream' = Append(stream, c)
  BY DEF Arrive, history, audit, record, PullsStay
<1>2. c \in Copy /\ c.at = "ready" /\ c.tries < MaxDeliver
  BY ConstantsAssumption DEF Copy
<1>3. stream \in Seq(Copy) /\ Len(stream) \in Nat
  BY StreamType DEF Shape, TypeOK
<1> HIDE DEF c
<1>4. /\ stream' \in Seq(Copy) /\ Len(stream') = Len(stream) + 1
      /\ \A n \in 1..Len(stream) : stream'[n] = stream[n]
      /\ stream'[Len(stream) + 1] = c
  BY <1>1, <1>2, <1>3, AppendProperties
<1>5. IdsStay /\ Len(stream') <= MaxCopies
  BY <1>1, <1>3, <1>4, ConstantsAssumption DEF IdsStay, Seqs
<1>6. \A n \in Seqs : stream'[n] = stream[n]
  BY <1>4 DEF Seqs
<1>7. \A n \in Seqs' \ Seqs : stream'[n] = c
  BY <1>3, <1>4 DEF Seqs
<1>8. \A n \in Seqs' : stream'[n].at = "ready" => stream'[n].tries < MaxDeliver
  BY <1>2, <1>6, <1>7 DEF Shape
<1>9. Shape'
  BY <1>1, <1>4, <1>5, <1>8, RestType, ShapeOfBroker
<1> QED BY <1>1, <1>2, <1>5, <1>6, <1>7, <1>9, RestType

\* The steps that leave the stream and the pulls alone.
Aside ==
  \/ \E n \in Seqs : AckLost(n) \/ RecordDeadLetter(n) \/ AdvisoryLost(n)
  \/ \E i \in Ids : RunsOut(i) \/ Sweep(i)
  \/ \E i \in Ids, n \in Seqs : StoreRow(i, n)

LEMMA AsideEffect ==
  ASSUME Shape, Aside
  PROVE  /\ Shape' /\ IdsStay /\ PullsStay /\ stream' = stream /\ Seqs' = Seqs
         /\ acks' \subseteq acks /\ past \subseteq past'
<1>1. stream' = stream /\ PullsStay
  BY DEF Aside, AckLost, RecordDeadLetter, AdvisoryLost, RunsOut, Sweep, StoreRow,
         broker, history, audit, record, PullsStay
<1>2. Seqs' = Seqs /\ IdsStay
  BY <1>1, StreamStays
<1>3. acks' \subseteq acks /\ past \subseteq past' /\ past' \subseteq Ids
  BY RestType DEF Aside, AckLost, RecordDeadLetter, AdvisoryLost, RunsOut, Sweep, StoreRow,
         broker, history, audit, record
<1>4. advisories' \subseteq Seqs /\ rows' \in [Ids -> 0..MaxCopies]
  <2>1. \A n \in Seqs : n \in 0..MaxCopies
    BY StreamType, ConstantsAssumption DEF Seqs, Shape
  <2> QED BY <2>1, RestType
          DEF Aside, AckLost, RecordDeadLetter, AdvisoryLost, RunsOut, Sweep, StoreRow,
              broker, history, audit, record
<1>5. noted' \subseteq Ids /\ unrecorded' \subseteq Ids /\ deadNoted' \subseteq Ids
  BY RestType DEF Aside, AckLost, RecordDeadLetter, AdvisoryLost, RunsOut, Sweep, StoreRow,
         broker, history, audit, record
<1>6. faults' \in 0..MaxFaults
  BY RestType, FaultType
     DEF Aside, AckLost, RecordDeadLetter, AdvisoryLost, RunsOut, Sweep, StoreRow
<1>7. Shape'
  BY <1>1, <1>2, <1>3, <1>4, <1>5, <1>6, RestType, ShapeOfBroker DEF Shape, TypeOK
<1> QED BY <1>1, <1>2, <1>3, <1>7

\* The ids of what a pull keeps change with what it keeps.
LEMMA KeptIds ==
  ASSUME Shape, IdsStay, NEW p \in Pulls, pulls'[p].kept = pulls[p].kept
  PROVE  IdsOf(pulls[p].kept)' = IdsOf(pulls[p].kept)
<1>1. \A n \in pulls[p].kept : stream'[n].id = stream[n].id
  BY RestType DEF IdsStay
<1> QED BY <1>1 DEF IdsOf

LEMMA KeptIdsMore ==
  ASSUME Shape, IdsStay, NEW p \in Pulls, NEW n \in Seqs,
         pulls'[p].kept = pulls[p].kept \cup {n}
  PROVE  IdsOf(pulls[p].kept)' = IdsOf(pulls[p].kept) \cup {stream[n].id}
<1>1. \A m \in pulls[p].kept \cup {n} : stream'[m].id = stream[m].id
  BY RestType DEF IdsStay
<1> QED BY <1>1 DEF IdsOf

LEMMA NoKeptIds ==
  ASSUME NEW p \in Pulls, pulls'[p] = Idle
  PROVE  IdsOf(pulls[p].kept)' = {}
BY IdleType DEF IdsOf

\* The same of the copies of one message.
LEMMA KeptStays ==
  ASSUME Shape, IdsStay, NEW p \in Pulls, pulls'[p].kept = pulls[p].kept, NEW i \in Ids
  PROVE  KeptOf(p, i)' = KeptOf(p, i)
<1>1. \A n \in pulls[p].kept : stream'[n].id = stream[n].id
  BY RestType DEF IdsStay
<1> QED BY <1>1 DEF KeptOf

LEMMA KeptMore ==
  ASSUME Shape, IdsStay, NEW p \in Pulls, NEW n \in Seqs, NEW i \in Ids,
         pulls'[p].kept = pulls[p].kept \cup {n}
  PROVE  /\ stream[n].id # i => KeptOf(p, i)' = KeptOf(p, i)
         /\ Cardinality(KeptOf(p, i)') \in Nat
         /\ Cardinality(KeptOf(p, i)') <= Cardinality(KeptOf(p, i)) + 1
<1>1. \A m \in pulls[p].kept \cup {n} : stream'[m].id = stream[m].id
  BY RestType DEF IdsStay
<1>2. CASE stream[n].id # i
  <2>1. KeptOf(p, i)' = KeptOf(p, i)
    BY <1>1, <1>2 DEF KeptOf
  <2> QED BY <2>1, KeptOfType
<1>3. CASE stream[n].id = i
  <2>1. KeptOf(p, i)' = KeptOf(p, i) \cup {n}
    BY <1>1, <1>3 DEF KeptOf
  <2>2. IsFiniteSet(KeptOf(p, i)) /\ Cardinality(KeptOf(p, i)) \in Nat
    BY KeptOfType
  <2>3. Cardinality(KeptOf(p, i) \cup {n})
          = IF n \in KeptOf(p, i) THEN Cardinality(KeptOf(p, i)) ELSE Cardinality(KeptOf(p, i)) + 1
    BY <2>2, FS_AddElement
  <2> QED BY <1>3, <2>1, <2>2, <2>3
<1> QED BY <1>2, <1>3

LEMMA NoneKept ==
  ASSUME NEW p \in Pulls, NEW i \in Ids, pulls'[p] = Idle
  PROVE  Cardinality(KeptOf(p, i)') = 0
<1>1. KeptOf(p, i)' = {}
  BY IdleType DEF KeptOf
<1> QED BY <1>1, FS_EmptySet

LEMMA InitShape == Init => Shape
<1> SUFFICES ASSUME Init
             PROVE  Shape
  OBVIOUS
<1>1. stream \in Seq(Copy) /\ Len(stream) = 0 /\ Seqs = {}
  BY EmptySeq DEF Init, Seqs
<1>2. pulls \in [Pulls -> Pull] /\ \A p \in Pulls : pulls[p].kept = {}
  BY IdleType DEF Init
<1>3. TypeOK
  BY <1>1, <1>2, ConstantsAssumption DEF Init, TypeOK
<1> QED BY <1>1, <1>2, <1>3 DEF Shape

\* Every step, by what it does to the pulls and the copies.
LEMMA Steps ==
  ASSUME Shape, Next
  PROVE  \/ \E p \in Pulls :
              \/ Begin(p)
              \/ Look(p) \/ FetchEnds(p)
              \/ pulls[p].pc = "fetch" /\ \E n \in Seqs : TakeDropped(p, n)
              \/ pulls[p].pc = "fetch" /\ \E n \in Seqs : TakeKept(p, n) \/ TakeUnjudged(p, n)
              \/ HandOut(p) \/ HandOutUnnoted(p) \/ MarkReadAgain(p) \/ MarkReadGivesUp(p)
              \/ MarkReadFails(p)
              \/ PullFails(p)
         \/ \E n \in Seqs : AckArrives(n) \/ AckWaitEnds(n)
         \/ \E i \in Ids : Arrive(i)
         \/ Aside
<1>1. CASE \E p \in Pulls : PullStep(p)
  BY <1>1 DEF PullStep, Progress, Take, At
<1>2. CASE \E n \in Seqs : BrokerStep(n)
  BY <1>2 DEF BrokerStep, Aside
<1>3. CASE \E i \in Ids : Arrive(i) \/ RunsOut(i) \/ Sweep(i)
  BY <1>3 DEF Aside
<1>4. CASE \E i \in Ids, n \in Seqs : StoreRow(i, n)
  BY <1>4 DEF Aside
<1> QED BY <1>1, <1>2, <1>3, <1>4 DEF Next

LEMMA ShapeStep ==
  ASSUME Shape, Next
  PROVE  Shape' /\ IdsStay
BY Steps, ShapeBegin, ShapeLoop, DropEffect, KeepEffect, ShapeAnswer, ShapeMarkReadFails,
   ShapePullFails, AckArrivesEffect, AckWaitEndsEffect, ArriveEffect, AsideEffect

LEMMA ShapeStutter ==
  ASSUME Shape, UNCHANGED vars
  PROVE  Shape'
BY DEF Shape, TypeOK, Seqs, vars

\* Every state has its types, what a pull keeps is in the stream, and a copy
\* that waits has a delivery left.
THEOREM Types == Spec => []Shape
<1>1. Shape /\ [Next]_vars => Shape'
  BY ShapeStep, ShapeStutter
<1> QED BY <1>1, InitShape, PTL DEF Spec

-----------------------------------------------------------------------------
(***************************************************************************)
(* Once per reader, with one call at a time.                               *)
(***************************************************************************)

OneAtATime == \A p, q \in Pulls : p = q

\* Whom a message was handed to once more often than reads were missed, it
\* was recorded for; and a call keeps no more copies of it than may still be
\* handed out.
Bounds ==
  /\ \A i \in Ids : handed[i] <= 1 + misses
  /\ \A i \in Ids \ reads : handed[i] <= misses
  /\ \A p \in Pulls : pulls[p].blind => \A i \in Ids : handed[i] <= misses
  /\ \A p \in Pulls : \A i \in Ids : handed[i] + Cardinality(KeptOf(p, i)) <= 1 + misses

\* A step that hands out nothing, and keeps nothing more.
LEMMA BoundsStay ==
  ASSUME Shape, Bounds, IdsStay, UNCHANGED <<handed, reads, misses>>,
         \A p \in Pulls : pulls'[p].kept = pulls[p].kept /\ pulls'[p].blind = pulls[p].blind
  PROVE  Bounds'
<1>1. \A p \in Pulls : \A i \in Ids : KeptOf(p, i)' = KeptOf(p, i)
  BY KeptStays
<1> QED BY <1>1 DEF Bounds

LEMMA BoundsBegin ==
  ASSUME Shape, Bounds, NEW p \in Pulls, Begin(p)
  PROVE  Bounds'
<1>1. /\ \A q \in Pulls : pulls'[q].kept = pulls[q].kept /\ (q # p => pulls'[q] = pulls[q])
      /\ handed' = handed /\ reads' = reads /\ IdsStay
      /\ misses' = IF pulls'[p].blind THEN misses + 1 ELSE misses
  BY ShapeBegin
<1>2. \A q \in Pulls : \A i \in Ids : KeptOf(q, i)' = KeptOf(q, i)
  BY <1>1, KeptStays
<1>3. /\ \A i \in Ids : handed[i] \in Nat /\ misses \in Nat
      /\ \A q \in Pulls : \A i \in Ids : Cardinality(KeptOf(q, i)) \in Nat
  BY RestType, KeptOfType
<1>4. misses' \in {misses, misses + 1} /\ (pulls'[p].blind => misses' = misses + 1)
  BY <1>1
<1>5. \A i \in Ids : handed'[i] <= 1 + misses' /\ (i \notin reads' => handed'[i] <= misses')
  BY <1>1, <1>3, <1>4 DEF Bounds
<1>6. \A q \in Pulls : pulls'[q].blind => \A i \in Ids : handed'[i] <= misses'
  BY <1>1, <1>3, <1>4 DEF Bounds
<1>7. \A q \in Pulls : \A i \in Ids : handed'[i] + Cardinality(KeptOf(q, i)) <= 1 + misses'
  BY <1>1, <1>3, <1>4 DEF Bounds
<1> QED BY <1>2, <1>5, <1>6, <1>7 DEF Bounds

LEMMA BoundsKeep ==
  ASSUME Shape, Bounds, NEW p \in Pulls, NEW n \in Seqs, pulls[p].pc = "fetch",
         TakeKept(p, n) \/ TakeUnjudged(p, n)
  PROVE  Bounds'
<1>0. PICK i \in Ids : i = stream[n].id
  BY StreamType DEF Shape
<1>1. /\ pulls'[p].kept = pulls[p].kept \cup {n} /\ pulls'[p].blind = pulls[p].blind
      /\ \A q \in Pulls \ {p} : pulls'[q] = pulls[q]
      /\ handed' = handed /\ reads' = reads /\ IdsStay
      /\ \/ ~SeenBefore(pulls[p], i) /\ misses' = misses
         \/ misses' = misses + 1
  BY <1>0, KeepEffect
<1>2. /\ \A j \in Ids : handed[j] \in Nat /\ misses \in Nat
      /\ \A q \in Pulls : \A j \in Ids : Cardinality(KeptOf(q, j)) \in Nat
  BY RestType, KeptOfType
<1>3. misses' \in {misses, misses + 1}
  BY <1>1
<1>4. \A q \in Pulls \ {p} : \A j \in Ids : KeptOf(q, j)' = KeptOf(q, j)
  BY <1>1, KeptStays
<1>5. \A j \in Ids : j # i => KeptOf(p, j)' = KeptOf(p, j)
  BY <1>0, <1>1, KeptMore
<1>6. Cardinality(KeptOf(p, i)') \in Nat /\ Cardinality(KeptOf(p, i)') <= Cardinality(KeptOf(p, i)) + 1
  BY <1>1, KeptMore
<1>7. handed[i] + Cardinality(KeptOf(p, i)') <= 1 + misses'
  <2>1. CASE misses' = misses + 1
    BY <1>2, <1>6, <2>1 DEF Bounds
  <2>2. CASE ~SeenBefore(pulls[p], i) /\ misses' = misses
    <3>1. Cardinality(KeptOf(p, i)) = 0
      BY <1>2, <2>2, KeptOfType DEF SeenBefore
    <3>2. handed[i] <= misses
      BY <1>2, <2>2 DEF Bounds, SeenBefore
    <3> QED BY <1>2, <1>6, <2>2, <3>1, <3>2
  <2> QED BY <1>1, <2>1, <2>2
<1>8. \A j \in Ids : handed'[j] <= 1 + misses' /\ (j \notin reads' => handed'[j] <= misses')
  BY <1>1, <1>2, <1>3 DEF Bounds
<1>9. \A q \in Pulls : pulls'[q].blind => \A j \in Ids : handed'[j] <= misses'
  BY <1>1, <1>2, <1>3 DEF Bounds
<1>10. \A q \in Pulls : \A j \in Ids : handed'[j] + Cardinality(KeptOf(q, j)) <= 1 + misses'
  BY <1>1, <1>2, <1>3 DEF Bounds
<1>11. \A q \in Pulls : \A j \in Ids : handed'[j] + Cardinality(KeptOf(q, j)') <= 1 + misses'
  <2>1. \A j \in Ids : handed'[j] = handed[j]
    BY <1>1
  <2>2. ASSUME NEW q \in Pulls, NEW j \in Ids
        PROVE  handed'[j] + Cardinality(KeptOf(q, j)') <= 1 + misses'
    <3>1. CASE q = p /\ j = i
      BY <1>7, <2>1, <3>1
    <3>2. CASE ~(q = p /\ j = i)
      <4>1. KeptOf(q, j)' = KeptOf(q, j)
        BY <1>4, <1>5, <3>2
      <4>2. Cardinality(KeptOf(q, j)') = Cardinality(KeptOf(q, j))
        BY <4>1
      <4> QED BY <1>10, <4>2
    <3> QED BY <3>1, <3>2
  <2> QED BY <2>2
<1> QED BY <1>8, <1>9, <1>11 DEF Bounds

LEMMA BoundsAnswer ==
  ASSUME OneAtATime, Shape, Bounds, NEW p \in Pulls,
         HandOut(p) \/ HandOutUnnoted(p) \/ MarkReadAgain(p) \/ MarkReadGivesUp(p)
  PROVE  Bounds'
<1> DEFINE K == IdsOf(pulls[p].kept)
<1>1. Answer(p)
  BY DEF HandOut, HandOutUnnoted, MarkReadAgain, MarkReadGivesUp
<1>2. /\ \A i \in Ids : handed'[i] = handed[i] + Cardinality(KeptOf(p, i))
      /\ \A i \in Ids \ K : handed'[i] = handed[i]
      /\ pulls'[p] = Idle
  BY <1>1, AnswerType
<1>3. \/ reads' = reads \cup K /\ misses' = misses
      \/ reads' = reads /\ misses' = misses + 1
  BY DEF HandOut, HandOutUnnoted, MarkReadAgain, MarkReadGivesUp
<1>4. \A i \in Ids : /\ handed[i] \in Nat /\ misses \in Nat
                     /\ Cardinality(KeptOf(p, i)) \in Nat
  BY RestType, KeptOfType
<1>5. \A q \in Pulls : pulls'[q].blind = FALSE /\ \A i \in Ids : Cardinality(KeptOf(q, i)') = 0
  BY <1>2, IdleType, NoneKept DEF OneAtATime
<1>6. \A i \in Ids : handed'[i] <= 1 + misses
  BY <1>2 DEF Bounds
<1> HIDE DEF K
<1>7. \A i \in Ids : handed'[i] <= 1 + misses' /\ (i \notin reads' => handed'[i] <= misses')
  BY <1>2, <1>3, <1>4, <1>6 DEF Bounds
<1>8. \A i \in Ids : handed'[i] \in Nat
  BY <1>2, <1>4
<1>9. \A q \in Pulls : \A i \in Ids : handed'[i] + Cardinality(KeptOf(q, i)') <= 1 + misses'
  BY <1>5, <1>7, <1>8
<1> QED BY <1>5, <1>7, <1>9 DEF Bounds

LEMMA BoundsPullFails ==
  ASSUME Shape, Bounds, NEW p \in Pulls, PullFails(p)
  PROVE  Bounds'
<1>1. /\ pulls'[p] = Idle /\ \A q \in Pulls \ {p} : pulls'[q] = pulls[q]
      /\ handed' = handed /\ reads' = reads /\ misses' = misses /\ IdsStay
  BY ShapePullFails
<1>2. pulls'[p].blind = FALSE /\ \A i \in Ids : Cardinality(KeptOf(p, i)') = 0
  BY <1>1, IdleType, NoneKept
<1>3. \A q \in Pulls \ {p} : \A i \in Ids : KeptOf(q, i)' = KeptOf(q, i)
  BY <1>1, KeptStays
<1>4. \A i \in Ids : handed[i] \in Nat
  BY RestType
<1>5. \A q \in Pulls : \A i \in Ids : handed'[i] + Cardinality(KeptOf(q, i)') <= 1 + misses'
  BY <1>1, <1>2, <1>3, <1>4 DEF Bounds
<1>6. \A q \in Pulls : pulls'[q].blind => \A i \in Ids : handed'[i] <= misses'
  BY <1>1, <1>2 DEF Bounds
<1> QED BY <1>1, <1>5, <1>6 DEF Bounds

LEMMA BoundsStep ==
  ASSUME OneAtATime, Shape, Bounds, Next
  PROVE  Bounds'
<1>1. CASE \E p \in Pulls : Begin(p)
  BY <1>1, BoundsBegin
<1>2. CASE \E p \in Pulls : Look(p) \/ FetchEnds(p)
  BY <1>2, ShapeLoop, BoundsStay
<1>3. CASE \E p \in Pulls : pulls[p].pc = "fetch" /\ \E n \in Seqs : TakeDropped(p, n)
  BY <1>3, DropEffect, BoundsStay
<1>4. CASE \E p \in Pulls : /\ pulls[p].pc = "fetch"
                            /\ \E n \in Seqs : TakeKept(p, n) \/ TakeUnjudged(p, n)
  BY <1>4, BoundsKeep
<1>5. CASE \E p \in Pulls :
             HandOut(p) \/ HandOutUnnoted(p) \/ MarkReadAgain(p) \/ MarkReadGivesUp(p)
  BY <1>5, BoundsAnswer
<1>6. CASE \E p \in Pulls : MarkReadFails(p)
  BY <1>6, ShapeMarkReadFails, BoundsStay
<1>7. CASE \E p \in Pulls : PullFails(p)
  BY <1>7, BoundsPullFails
<1>8. CASE \/ \E n \in Seqs : AckArrives(n) \/ AckWaitEnds(n)
           \/ \E i \in Ids : Arrive(i)
           \/ Aside
  <2>1. PullsStay /\ IdsStay
    BY <1>8, AckArrivesEffect, AckWaitEndsEffect, ArriveEffect, AsideEffect
  <2> QED BY <2>1, BoundsStay DEF PullsStay
<1> QED BY Steps, <1>1, <1>2, <1>3, <1>4, <1>5, <1>6, <1>7, <1>8

\* With one receive at a time a message is handed out once, and once more at
\* most for each time the reads could not be asked or written.
THEOREM Once == OneAtATime => (Spec => []OncePerReader)
<1> SUFFICES ASSUME OneAtATime
             PROVE  Spec => []OncePerReader
  OBVIOUS
<1>1. Init => Shape /\ Bounds
  <2> SUFFICES ASSUME Init
               PROVE  Shape /\ Bounds
    OBVIOUS
  <2>1. \A p \in Pulls : pulls[p].blind = FALSE /\ \A i \in Ids : KeptOf(p, i) = {}
    BY IdleType DEF Init, KeptOf
  <2>2. \A i \in Ids : handed[i] = 0 /\ misses = 0
    BY DEF Init
  <2> QED BY <2>1, <2>2, InitShape, FS_EmptySet DEF Bounds
<1>2. Shape /\ Bounds /\ [Next]_vars => Shape' /\ Bounds'
  <2>1. Shape /\ Bounds /\ UNCHANGED vars => Bounds'
    BY DEF Bounds, KeptOf, vars
  <2> QED BY <2>1, BoundsStep, ShapeStep, ShapeStutter
<1>3. Bounds => OncePerReader
  BY DEF Bounds, OncePerReader
<1> QED BY <1>1, <1>2, <1>3, PTL DEF Spec

-----------------------------------------------------------------------------
(***************************************************************************)
(* Nothing is acked away, while pulls end within the ack wait.             *)
(***************************************************************************)

\* What a pull keeps is out and nobody's ack is on its way, until its own.
KeptIsOut(p) ==
  \A n \in pulls[p].kept :
    /\ stream[n].at \in {"out", "acked"}
    /\ pulls[p].pc # "retry" => stream[n].at = "out" /\ n \notin acks

\* Where a message is, or why it will not come.
Accounted(i) ==
  handed[i] > 0 \/ InHand(i) \/ Unacked(i) \/ i \in past \cup Own \cup Namesake \cup cut

NothingLost ==
  /\ \A p \in Pulls : KeptIsOut(p)
  /\ \A p, q \in Pulls : p # q => pulls[p].kept \cap pulls[q].kept = {}
  /\ \A n \in acks : stream[n].at = "out"
  /\ \A i \in reads : handed[i] > 0
  /\ \A n \in Seqs : Accounted(stream[n].id)

\* The first four parts, when no copy changes hands and no ack goes out.
LEMMA Untouched ==
  ASSUME Shape, NothingLost, IdsStay,
         \A n \in Seqs : stream'[n].at = stream[n].at, acks' \subseteq acks,
         \A p \in Pulls : /\ pulls'[p].kept = pulls[p].kept
                          /\ pulls[p].pc = "retry" => pulls'[p].pc = "retry",
         UNCHANGED <<reads, handed>>
  PROVE  /\ \A p \in Pulls : KeptIsOut(p)'
         /\ \A p, q \in Pulls : p # q => pulls'[p].kept \cap pulls'[q].kept = {}
         /\ \A n \in acks' : stream'[n].at = "out"
         /\ \A i \in reads' : handed'[i] > 0
<1>1. acks \subseteq Seqs /\ \A p \in Pulls : pulls[p].kept \subseteq Seqs
  BY RestType
<1>2. \A p \in Pulls : KeptIsOut(p)'
  BY <1>1 DEF NothingLost, KeptIsOut
<1> QED BY <1>1, <1>2 DEF NothingLost

\* A message stays accounted for when its copies, its pull and its past do.
LEMMA StaysAccounted ==
  ASSUME Shape, IdsStay, NEW i \in Ids, Accounted(i),
         handed'[i] > 0 \/ handed'[i] = handed[i],
         InHand(i) => handed'[i] > 0 \/ InHand(i)' \/ Unacked(i)' \/ i \in cut',
         \A n \in Seqs : stream[n].id = i /\ n \notin acks /\ stream[n].at # "acked" =>
           n \notin acks' /\ stream'[n].at # "acked",
         past \subseteq past', cut \subseteq cut'
  PROVE  Accounted(i)'
<1>1. CASE Unacked(i)
  <2>1. PICK n \in Seqs : stream[n].id = i /\ n \notin acks /\ stream[n].at # "acked"
    BY <1>1 DEF Unacked
  <2>2. n \in Seqs' /\ stream'[n].id = i /\ n \notin acks' /\ stream'[n].at # "acked"
    BY <2>1 DEF IdsStay
  <2>3. Unacked(i)'
    BY <2>2 DEF Unacked
  <2> QED BY <2>3 DEF Accounted
<1>2. CASE InHand(i)
  BY <1>2 DEF Accounted
<1>3. CASE handed[i] > 0 \/ i \in past \cup Own \cup Namesake \cup cut
  BY <1>3 DEF Accounted
<1> QED BY <1>1, <1>2, <1>3 DEF Accounted

\* Who is in a pull's hands stays there when the pulls keep what they keep.
LEMMA StaysInHand ==
  ASSUME Shape, IdsStay, NEW p \in Pulls, pulls[p].kept \subseteq pulls'[p].kept
  PROVE  IdsOf(pulls[p].kept) \subseteq IdsOf(pulls[p].kept)'
<1>1. \A n \in pulls[p].kept : stream'[n].id = stream[n].id
  BY RestType DEF IdsStay
<1> QED BY <1>1 DEF IdsOf

\* The whole, for a step that moves nothing.
LEMMA LostStays ==
  ASSUME Shape, NothingLost, IdsStay, Seqs' = Seqs,
         \A n \in Seqs : stream'[n].at = stream[n].at, acks' \subseteq acks,
         \A p \in Pulls : /\ pulls'[p].kept = pulls[p].kept
                          /\ pulls[p].pc = "retry" => pulls'[p].pc = "retry",
         UNCHANGED <<reads, handed, cut>>, past \subseteq past'
  PROVE  NothingLost'
<1>1. \A i \in Ids : InHand(i) => InHand(i)'
  BY StaysInHand DEF InHand
<1>2. \A n \in Seqs : stream[n].id \in Ids /\ stream'[n].id = stream[n].id
  BY StreamType DEF Shape, IdsStay
<1>3. \A n \in Seqs' : Accounted(stream[n].id)'
  BY <1>1, <1>2, StaysAccounted DEF NothingLost
<1> QED BY <1>3, Untouched DEF NothingLost

LEMMA LostArrive ==
  ASSUME Shape, NothingLost, NEW i \in Ids, Arrive(i)
  PROVE  NothingLost'
<1>1. /\ Shape' /\ IdsStay /\ PullsStay /\ acks' = acks /\ past' = past
      /\ \A n \in Seqs : stream'[n] = stream[n]
      /\ \A n \in Seqs' \ Seqs : stream'[n].at = "ready" /\ n \notin acks
  BY ArriveEffect
<1>2. \A j \in Ids : InHand(j) => InHand(j)'
  BY <1>1, StaysInHand DEF InHand, PullsStay
<1>3. \A n \in Seqs : stream[n].id \in Ids /\ stream'[n].id = stream[n].id
  BY <1>1, StreamType DEF Shape, IdsStay
<1>4. \A n \in Seqs : Accounted(stream[n].id)'
  BY <1>1, <1>2, <1>3, StaysAccounted DEF NothingLost, PullsStay
<1>5. \A n \in Seqs' \ Seqs : Accounted(stream[n].id)'
  BY <1>1 DEF Accounted, Unacked
<1>6. \A p \in Pulls : pulls[p].kept \subseteq Seqs
  BY RestType
<1>7. /\ \A p \in Pulls : KeptIsOut(p)'
      /\ \A p, q \in Pulls : p # q => pulls'[p].kept \cap pulls'[q].kept = {}
      /\ \A n \in acks' : stream'[n].at = "out"
      /\ \A j \in reads' : handed'[j] > 0
  BY <1>1, Untouched DEF PullsStay
<1> QED BY <1>4, <1>5, <1>7 DEF NothingLost

\* A copy that waits is in nobody's hands and has no ack on its way.
LEMMA ReadyIsFree ==
  ASSUME Shape, NothingLost, NEW n \in Seqs, stream[n].at = "ready"
  PROVE  n \notin acks /\ \A p \in Pulls : n \notin pulls[p].kept
BY DEF NothingLost, KeptIsOut

LEMMA LostKeep ==
  ASSUME Shape, NothingLost, NEW p \in Pulls, NEW n \in Seqs, pulls[p].pc = "fetch",
         TakeKept(p, n) \/ TakeUnjudged(p, n)
  PROVE  NothingLost'
<1>1. /\ IdsStay /\ Seqs' = Seqs /\ stream[n].at = "ready" /\ stream'[n].at = "out"
      /\ \A m \in Seqs : m # n => stream'[m] = stream[m]
      /\ pulls'[p].kept = pulls[p].kept \cup {n} /\ pulls'[p].pc = pulls[p].pc
      /\ \A q \in Pulls \ {p} : pulls'[q] = pulls[q]
      /\ UNCHANGED <<past, reads, handed, cut, acks>>
  BY KeepEffect
<1>2. n \notin acks /\ \A q \in Pulls : n \notin pulls[q].kept
  BY <1>1, ReadyIsFree
<1>3. acks \subseteq Seqs /\ \A q \in Pulls : pulls[q].kept \subseteq Seqs
  BY RestType
<1>4. \A q \in Pulls : pulls[q].kept \subseteq pulls'[q].kept
  BY <1>1
<1>5. \A i \in Ids : InHand(i) => InHand(i)'
  BY <1>1, <1>4, StaysInHand DEF InHand
<1>6. \A m \in Seqs : stream[m].id \in Ids /\ stream'[m].id = stream[m].id
  BY <1>1, StreamType DEF Shape, IdsStay
<1>7. \A m \in Seqs : stream[m].at # "acked" => stream'[m].at # "acked"
  BY <1>1
<1>8. \A m \in Seqs' : Accounted(stream[m].id)'
  BY <1>1, <1>5, <1>6, <1>7, StaysAccounted DEF NothingLost
<1>9. \A q \in Pulls : KeptIsOut(q)'
  BY <1>1, <1>2, <1>3 DEF NothingLost, KeptIsOut
<1>10. \A q, r \in Pulls : q # r => pulls'[q].kept \cap pulls'[r].kept = {}
  BY <1>1, <1>2 DEF NothingLost
<1>11. (\A m \in acks' : stream'[m].at = "out") /\ (\A i \in reads' : handed'[i] > 0)
  BY <1>1, <1>2, <1>3 DEF NothingLost
<1> QED BY <1>8, <1>9, <1>10, <1>11 DEF NothingLost

LEMMA LostDrop ==
  ASSUME Shape, NothingLost, NEW p \in Pulls, NEW n \in Seqs, pulls[p].pc = "fetch",
         TakeDropped(p, n)
  PROVE  NothingLost'
<1> DEFINE i == stream[n].id
<1>1. /\ IdsStay /\ Seqs' = Seqs /\ stream[n].at = "ready" /\ stream'[n].at = "out"
      /\ \A m \in Seqs : m # n => stream'[m] = stream[m]
      /\ \A q \in Pulls : pulls'[q].kept = pulls[q].kept /\ pulls'[q].pc = pulls[q].pc
      /\ acks' = acks \cup {n}
      /\ UNCHANGED <<past, reads, handed, cut>>
      /\ IsOwn(i) \/ SeenBefore(pulls[p], i) \/ i \in past
  BY DropEffect
<1>2. n \notin acks /\ \A q \in Pulls : n \notin pulls[q].kept
  BY <1>1, ReadyIsFree
<1>3. acks \subseteq Seqs /\ \A q \in Pulls : pulls[q].kept \subseteq Seqs
  BY RestType
<1>4. \A j \in Ids : InHand(j) => InHand(j)'
  BY <1>1, StaysInHand DEF InHand
<1>5. \A m \in Seqs : stream[m].id \in Ids /\ stream'[m].id = stream[m].id
  BY <1>1, StreamType DEF Shape, IdsStay
<1>6. handed[i] > 0 \/ InHand(i) \/ i \in past \cup Own \cup Namesake
  BY <1>1 DEF IsOwn, SeenBefore, InHand, NothingLost
<1>7. Accounted(i)'
  BY <1>1, <1>4, <1>5, <1>6 DEF Accounted
<1>8. ASSUME NEW j \in Ids, Accounted(j), j # i
      PROVE  Accounted(j)'
  <2>1. \A k \in Seqs : stream[k].id = j /\ k \notin acks /\ stream[k].at # "acked" =>
          k \notin acks' /\ stream'[k].at # "acked"
    BY <1>1, <1>8
  <2>2. InHand(j) => InHand(j)'
    BY <1>4
  <2> QED BY <1>1, <1>8, <2>1, <2>2, StaysAccounted
<1>9. \A m \in Seqs' : Accounted(stream[m].id)'
  BY <1>1, <1>5, <1>7, <1>8 DEF NothingLost
<1>10. \A q \in Pulls : KeptIsOut(q)'
  BY <1>1, <1>2, <1>3 DEF NothingLost, KeptIsOut
<1>11. \A q, r \in Pulls : q # r => pulls'[q].kept \cap pulls'[r].kept = {}
  BY <1>1 DEF NothingLost
<1>12. (\A m \in acks' : stream'[m].at = "out") /\ (\A j \in reads' : handed'[j] > 0)
  BY <1>1, <1>2, <1>3 DEF NothingLost
<1> QED BY <1>9, <1>10, <1>11, <1>12 DEF NothingLost

LEMMA LostMarkReadFails ==
  ASSUME Shape, NothingLost, NEW p \in Pulls, MarkReadFails(p)
  PROVE  NothingLost'
<1>1. /\ IdsStay /\ \A q \in Pulls : pulls'[q].kept = pulls[q].kept
      /\ \A q \in Pulls \ {p} : pulls'[q] = pulls[q]
      /\ pulls[p].pc # "retry" /\ pulls'[p].pc = "retry"
      /\ acks' = acks \cup pulls[p].kept
      /\ UNCHANGED <<stream, past, reads, handed, cut>>
  BY ShapeMarkReadFails
<1>2. Seqs' = Seqs /\ \A q \in Pulls : pulls[q].kept \subseteq Seqs
  BY <1>1, StreamStays, RestType
<1>3. \A j \in Ids : InHand(j) => InHand(j)'
  BY <1>1, StaysInHand DEF InHand
<1>4. \A m \in Seqs : stream[m].id \in Ids /\ stream'[m].id = stream[m].id
  BY <1>1, StreamType DEF Shape
<1>5. \A j \in IdsOf(pulls[p].kept) : Accounted(j)'
  <2>1. \A j \in IdsOf(pulls[p].kept) : j \in Ids /\ InHand(j)
    BY RestType DEF InHand
  <2> QED BY <1>3, <2>1 DEF Accounted
<1>6. ASSUME NEW j \in Ids, Accounted(j), j \notin IdsOf(pulls[p].kept)
      PROVE  Accounted(j)'
  <2>1. \A n \in Seqs : stream[n].id = j => n \notin pulls[p].kept
    BY <1>6 DEF IdsOf
  <2>2. \A n \in Seqs : stream[n].id = j /\ n \notin acks /\ stream[n].at # "acked" =>
          n \notin acks' /\ stream'[n].at # "acked"
    BY <1>1, <2>1
  <2>3. InHand(j) => InHand(j)'
    BY <1>3
  <2> QED BY <1>1, <1>6, <2>2, <2>3, StaysAccounted
<1>7. \A m \in Seqs' : Accounted(stream[m].id)'
  BY <1>1, <1>2, <1>4, <1>5, <1>6 DEF NothingLost
<1>8. \A q \in Pulls : KeptIsOut(q)'
  BY <1>1, <1>2 DEF NothingLost, KeptIsOut
<1>9. \A q, r \in Pulls : q # r => pulls'[q].kept \cap pulls'[r].kept = {}
  BY <1>1 DEF NothingLost
<1>10. (\A m \in acks' : stream'[m].at = "out") /\ (\A j \in reads' : handed'[j] > 0)
  BY <1>1 DEF NothingLost, KeptIsOut
<1> QED BY <1>7, <1>8, <1>9, <1>10 DEF NothingLost

LEMMA LostAnswer ==
  ASSUME Shape, NothingLost, NEW p \in Pulls,
         HandOut(p) \/ HandOutUnnoted(p) \/ MarkReadAgain(p) \/ MarkReadGivesUp(p)
  PROVE  NothingLost'
<1> DEFINE K == IdsOf(pulls[p].kept)
<1>1. Answer(p)
  BY DEF HandOut, HandOutUnnoted, MarkReadAgain, MarkReadGivesUp
<1>2. /\ \A i \in Ids : IF i \in K THEN handed'[i] > handed[i] ELSE handed'[i] = handed[i]
      /\ pulls'[p] = Idle /\ \A q \in Pulls \ {p} : pulls'[q] = pulls[q]
      /\ UNCHANGED <<stream, past, cut>>
  BY <1>1, AnswerType
<1>3. /\ reads' \subseteq reads \cup K /\ acks' \subseteq acks \cup pulls[p].kept
      /\ pulls[p].pc = "retry" => acks' = acks
  BY DEF HandOut, HandOutUnnoted, MarkReadAgain, MarkReadGivesUp, At
<1>4. /\ \A i \in Ids : handed[i] \in Nat
      /\ K \subseteq Ids /\ reads \subseteq Ids
      /\ acks \subseteq Seqs /\ \A q \in Pulls : pulls[q].kept \subseteq Seqs
  BY RestType
<1>5. Seqs' = Seqs /\ IdsStay
  BY <1>2, StreamStays
<1>6. \A m \in Seqs : stream[m].id \in Ids /\ stream'[m].id = stream[m].id
  BY <1>2, StreamType DEF Shape
<1>7. \A j \in K : handed'[j] > 0
  <2>1. \A j \in K : handed'[j] > handed[j] /\ handed[j] \in Nat
    BY <1>2, <1>4
  <2>2. \A j \in K : handed'[j] \in Nat
    BY <1>1, <1>4, AnswerType
  <2> HIDE DEF K
  <2> QED BY <2>1, <2>2
<1>8. ASSUME NEW j \in Ids, Accounted(j), j \notin K
      PROVE  Accounted(j)'
  <2>1. \A n \in Seqs : stream[n].id = j => n \notin pulls[p].kept
    BY <1>8 DEF IdsOf
  <2>2. \A n \in Seqs : stream[n].id = j /\ n \notin acks /\ stream[n].at # "acked" =>
          n \notin acks' /\ stream'[n].at # "acked"
    BY <1>2, <1>3, <2>1
  <2>3. ASSUME InHand(j)
        PROVE  InHand(j)'
    <3>1. PICK q \in Pulls : j \in IdsOf(pulls[q].kept)
      BY <2>3 DEF InHand
    <3>2. q # p
      BY <1>8, <3>1
    <3>3. pulls'[q] = pulls[q]
      BY <1>2, <3>2
    <3>4. j \in IdsOf(pulls[q].kept)'
      BY <1>5, <3>1, <3>3, StaysInHand
    <3> QED BY <3>4 DEF InHand
  <2>4. handed'[j] = handed[j]
    BY <1>2, <1>8
  <2> QED BY <1>2, <1>5, <1>8, <2>2, <2>3, <2>4, StaysAccounted
<1>9. \A m \in Seqs' : Accounted(stream[m].id)'
  <2>1. \A j \in K : Accounted(j)'
    BY <1>7 DEF Accounted
  <2> HIDE DEF K
  <2> QED BY <1>5, <1>6, <1>8, <2>1 DEF NothingLost
<1>10. \A q \in Pulls : KeptIsOut(q)'
  <2>1. KeptIsOut(p)'
    BY <1>2, IdleType DEF KeptIsOut
  <2>2. ASSUME NEW q \in Pulls \ {p}
        PROVE  KeptIsOut(q)'
    <3>1. pulls'[q] = pulls[q] /\ stream' = stream
      BY <1>2
    <3>2. pulls[q].kept \cap pulls[p].kept = {} /\ KeptIsOut(q)
      BY DEF NothingLost
    <3> QED BY <1>3, <3>1, <3>2 DEF KeptIsOut
  <2> QED BY <2>1, <2>2
<1>11. \A q, r \in Pulls : q # r => pulls'[q].kept \cap pulls'[r].kept = {}
  BY <1>2, IdleType DEF NothingLost
<1>12. \A m \in acks' : stream'[m].at = "out"
  BY <1>2, <1>3, <1>4 DEF NothingLost, KeptIsOut
<1>13. \A j \in reads' : handed'[j] > 0
  <2>1. \A j \in reads : handed[j] > 0
    BY DEF NothingLost
  <2> HIDE DEF K
  <2> QED BY <1>2, <1>3, <1>4, <1>7, <2>1
<1> QED BY <1>9, <1>10, <1>11, <1>12, <1>13 DEF NothingLost

LEMMA LostPullFails ==
  ASSUME Shape, NothingLost, NEW p \in Pulls, PullFails(p)
  PROVE  NothingLost'
<1> DEFINE K == IdsOf(pulls[p].kept)
<1>1. /\ pulls'[p] = Idle /\ \A q \in Pulls \ {p} : pulls'[q] = pulls[q]
      /\ cut' = IF pulls[p].pc = "retry" THEN cut \cup K ELSE cut
      /\ UNCHANGED <<stream, acks, past, reads, handed>>
  BY ShapePullFails
<1>2. Seqs' = Seqs /\ IdsStay /\ \A q \in Pulls : pulls[q].kept \subseteq Seqs
  BY <1>1, StreamStays, RestType
<1>3. \A m \in Seqs : stream[m].id \in Ids /\ stream'[m].id = stream[m].id
  BY <1>1, StreamType DEF Shape
<1>4. ASSUME NEW j \in Ids, j \in K
      PROVE  j \in cut' \/ Unacked(j)'
  <2>1. CASE pulls[p].pc = "retry"
    BY <1>1, <1>4, <2>1
  <2>2. CASE pulls[p].pc # "retry"
    <3>1. PICK n \in pulls[p].kept : stream[n].id = j
      BY <1>4 DEF IdsOf
    <3>2. n \in Seqs /\ stream[n].at = "out" /\ n \notin acks
      BY <1>2, <2>2, <3>1 DEF NothingLost, KeptIsOut
    <3> QED BY <1>1, <1>2, <3>1, <3>2 DEF Unacked
  <2> QED BY <2>1, <2>2
<1>5. ASSUME NEW j \in Ids, InHand(j)
      PROVE  InHand(j)' \/ Unacked(j)' \/ j \in cut'
  <2>1. PICK q \in Pulls : j \in IdsOf(pulls[q].kept)
    BY <1>5 DEF InHand
  <2>2. CASE q = p
    BY <1>4, <2>1, <2>2
  <2>3. CASE q # p
    <3>1. pulls'[q] = pulls[q]
      BY <1>1, <2>3
    <3>2. j \in IdsOf(pulls[q].kept)'
      BY <1>2, <2>1, <3>1, StaysInHand
    <3> QED BY <3>2 DEF InHand
  <2> QED BY <2>2, <2>3
<1>6. ASSUME NEW j \in Ids, Accounted(j)
      PROVE  Accounted(j)'
  <2>1. cut \subseteq cut'
    BY <1>1
  <2> HIDE DEF K
  <2> QED BY <1>1, <1>2, <1>5, <1>6, <2>1, StaysAccounted
<1>7. \A m \in Seqs' : Accounted(stream[m].id)'
  BY <1>2, <1>3, <1>6 DEF NothingLost
<1>8. \A q \in Pulls : KeptIsOut(q)'
  <2>1. KeptIsOut(p)'
    BY <1>1, IdleType DEF KeptIsOut
  <2>2. \A q \in Pulls \ {p} : KeptIsOut(q)'
    BY <1>1 DEF NothingLost, KeptIsOut
  <2> QED BY <2>1, <2>2
<1>9. \A q, r \in Pulls : q # r => pulls'[q].kept \cap pulls'[r].kept = {}
  BY <1>1, IdleType DEF NothingLost
<1>10. (\A m \in acks' : stream'[m].at = "out") /\ (\A j \in reads' : handed'[j] > 0)
  BY <1>1 DEF NothingLost
<1> QED BY <1>7, <1>8, <1>9, <1>10 DEF NothingLost

LEMMA LostAckArrives ==
  ASSUME Shape, NothingLost, NEW n \in Seqs, AckArrives(n)
  PROVE  NothingLost'
<1>1. /\ IdsStay /\ PullsStay /\ Seqs' = Seqs /\ past' = past
      /\ n \in acks /\ acks' = acks \ {n}
      /\ \A m \in Seqs : m # n => stream'[m] = stream[m]
      /\ stream[n].at # "dead" => stream'[n].at = "acked"
  BY AckArrivesEffect
<1>2. stream'[n].at = "acked"
  BY <1>1 DEF NothingLost
<1>3. acks \subseteq Seqs /\ \A q \in Pulls : pulls[q].kept \subseteq Seqs
  BY RestType
<1>4. \A m \in Seqs : stream[m].id \in Ids /\ stream'[m].id = stream[m].id
  BY <1>1, StreamType DEF Shape, IdsStay
<1>5. \A j \in Ids : InHand(j) => InHand(j)'
  BY <1>1, StaysInHand DEF InHand, PullsStay
<1>6. ASSUME NEW j \in Ids, Accounted(j)
      PROVE  Accounted(j)'
  <2>1. \A m \in Seqs : stream[m].id = j /\ m \notin acks /\ stream[m].at # "acked" =>
          m \notin acks' /\ stream'[m].at # "acked"
    BY <1>1
  <2>2. InHand(j) => InHand(j)'
    BY <1>5
  <2> QED BY <1>1, <1>6, <2>1, <2>2, StaysAccounted DEF PullsStay
<1>7. \A m \in Seqs' : Accounted(stream[m].id)'
  BY <1>1, <1>4, <1>6 DEF NothingLost
<1>8. \A q \in Pulls : KeptIsOut(q)'
  BY <1>1, <1>2, <1>3 DEF NothingLost, KeptIsOut, PullsStay
<1>9. \A q, r \in Pulls : q # r => pulls'[q].kept \cap pulls'[r].kept = {}
  BY <1>1 DEF NothingLost, PullsStay
<1>10. (\A m \in acks' : stream'[m].at = "out") /\ (\A j \in reads' : handed'[j] > 0)
  BY <1>1, <1>3 DEF NothingLost, PullsStay
<1> QED BY <1>7, <1>8, <1>9, <1>10 DEF NothingLost

LEMMA LostAckWaitEnds ==
  ASSUME QuickPulls, Shape, NothingLost, NEW n \in Seqs, AckWaitEnds(n)
  PROVE  NothingLost'
<1>1. /\ IdsStay /\ PullsStay /\ Seqs' = Seqs /\ past' = past /\ acks' = acks
      /\ stream[n].at = "out" /\ stream'[n].at \in {"ready", "dead"}
      /\ \A m \in Seqs : m # n => stream'[m] = stream[m]
      /\ n \notin acks /\ ~Held(n)
  BY AckWaitEndsEffect
<1>2. \A q \in Pulls : n \notin pulls[q].kept
  BY <1>1 DEF Held
<1>3. acks \subseteq Seqs /\ \A q \in Pulls : pulls[q].kept \subseteq Seqs
  BY RestType
<1>4. \A m \in Seqs : stream[m].id \in Ids /\ stream'[m].id = stream[m].id
  BY <1>1, StreamType DEF Shape, IdsStay
<1>5. \A j \in Ids : InHand(j) => InHand(j)'
  BY <1>1, StaysInHand DEF InHand, PullsStay
<1>6. ASSUME NEW j \in Ids, Accounted(j)
      PROVE  Accounted(j)'
  <2>1. \A m \in Seqs : stream[m].id = j /\ m \notin acks /\ stream[m].at # "acked" =>
          m \notin acks' /\ stream'[m].at # "acked"
    BY <1>1
  <2>2. InHand(j) => InHand(j)'
    BY <1>5
  <2> QED BY <1>1, <1>6, <2>1, <2>2, StaysAccounted DEF PullsStay
<1>7. \A m \in Seqs' : Accounted(stream[m].id)'
  BY <1>1, <1>4, <1>6 DEF NothingLost
<1>8. \A q \in Pulls : KeptIsOut(q)'
  BY <1>1, <1>2, <1>3 DEF NothingLost, KeptIsOut, PullsStay
<1>9. \A q, r \in Pulls : q # r => pulls'[q].kept \cap pulls'[r].kept = {}
  BY <1>1 DEF NothingLost, PullsStay
<1>10. (\A m \in acks' : stream'[m].at = "out") /\ (\A j \in reads' : handed'[j] > 0)
  BY <1>1, <1>3 DEF NothingLost, PullsStay
<1> QED BY <1>7, <1>8, <1>9, <1>10 DEF NothingLost

LEMMA LostStep ==
  ASSUME QuickPulls, Shape, NothingLost, Next
  PROVE  NothingLost'
<1>1. CASE \E p \in Pulls : Begin(p)
  <2>1. PICK p \in Pulls : Begin(p)
    BY <1>1
  <2>2. Seqs' = Seqs
    BY <2>1, ShapeBegin, StreamStays
  <2> QED BY <2>1, <2>2, ShapeBegin, LostStays
<1>2. CASE \E p \in Pulls : Look(p) \/ FetchEnds(p)
  <2>1. PICK p \in Pulls : Look(p) \/ FetchEnds(p)
    BY <1>2
  <2>2. Seqs' = Seqs
    BY <2>1, ShapeLoop, StreamStays
  <2> QED BY <2>1, <2>2, ShapeLoop, LostStays
<1>3. CASE \E p \in Pulls : pulls[p].pc = "fetch" /\ \E n \in Seqs : TakeDropped(p, n)
  BY <1>3, LostDrop
<1>4. CASE \E p \in Pulls : /\ pulls[p].pc = "fetch"
                            /\ \E n \in Seqs : TakeKept(p, n) \/ TakeUnjudged(p, n)
  BY <1>4, LostKeep
<1>5. CASE \E p \in Pulls :
             HandOut(p) \/ HandOutUnnoted(p) \/ MarkReadAgain(p) \/ MarkReadGivesUp(p)
  BY <1>5, LostAnswer
<1>6. CASE \E p \in Pulls : MarkReadFails(p) \/ PullFails(p)
  BY <1>6, LostMarkReadFails, LostPullFails
<1>7. CASE \E n \in Seqs : AckArrives(n) \/ AckWaitEnds(n)
  BY <1>7, LostAckArrives, LostAckWaitEnds
<1>8. CASE \E i \in Ids : Arrive(i)
  BY <1>8, LostArrive
<1>9. CASE Aside
  BY <1>9, AsideEffect, LostStays DEF PullsStay
<1> QED BY Steps, <1>1, <1>2, <1>3, <1>4, <1>5, <1>6, <1>7, <1>8, <1>9

\* The invariant holds while pulls end within the ack wait.
LEMMA LostInvariance == QuickPulls => (Spec => [](Shape /\ NothingLost))
<1> SUFFICES ASSUME QuickPulls
             PROVE  Spec => [](Shape /\ NothingLost)
  OBVIOUS
<1>1. Init => Shape /\ NothingLost
  <2> SUFFICES ASSUME Init
               PROVE  NothingLost
    BY InitShape
  <2>1. Seqs = {} /\ \A p \in Pulls : pulls[p].kept = {}
    BY EmptySeq, IdleType DEF Init, Seqs
  <2> QED BY <2>1 DEF Init, NothingLost, KeptIsOut
<1>2. Shape /\ NothingLost /\ [Next]_vars => Shape' /\ NothingLost'
  <2>1. Shape /\ NothingLost /\ UNCHANGED vars => NothingLost'
    <3> SUFFICES ASSUME Shape, NothingLost, UNCHANGED vars
                 PROVE  NothingLost'
      OBVIOUS
    <3>1. Seqs' = Seqs /\ IdsStay
      BY StreamStays DEF vars
    <3> QED BY <3>1, LostStays DEF vars
  <2> QED BY <2>1, LostStep, ShapeStep, ShapeStutter
<1> QED BY <1>1, <1>2, PTL DEF Spec

\* While pulls end within the ack wait, no copy is acked away: its message was
\* handed out, is in hand, has another copy, ran out, is the agent's own, or
\* its receive died between its acks and its answer.
THEOREM AllAccountedFor == QuickPulls => (Spec => []AckedIsAccountedFor)
<1>1. NothingLost => AckedIsAccountedFor
  BY DEF NothingLost, Accounted, AckedIsAccountedFor
<1> QED BY <1>1, LostInvariance, PTL

-----------------------------------------------------------------------------
(***************************************************************************)
(* What the counts say.                                                    *)
(***************************************************************************)

\* A row has the sequence of a copy of its message.
RowsFit == \A i \in Ids : rows[i] # 0 => rows[i] \in Seqs /\ stream[rows[i]].id = i

\* Only the sender's side writes a row.
LEMMA RowsStep ==
  ASSUME Next
  PROVE  \/ rows' = rows
         \/ \E i \in Ids, n \in Seqs : stream[n].id = i /\ rows' = [rows EXCEPT ![i] = n]
<1>1. CASE \E p \in Pulls : PullStep(p)
  <2>1. PICK p \in Pulls : PullStep(p)
    BY <1>1
  <2>2. CASE Begin(p) \/ Look(p) \/ FetchEnds(p) \/ MarkReadFails(p) \/ PullFails(p)
    BY <2>2 DEF Begin, Look, FetchEnds, MarkReadFails, PullFails, history
  <2>3. CASE Take(p)
    BY <2>3 DEF Take, TakeDropped, TakeKept, TakeUnjudged, HandOver, history
  <2>4. CASE HandOut(p) \/ HandOutUnnoted(p) \/ MarkReadAgain(p) \/ MarkReadGivesUp(p)
    BY <2>4 DEF HandOut, HandOutUnnoted, MarkReadAgain, MarkReadGivesUp, Answer, history
  <2> QED BY <2>1, <2>2, <2>3, <2>4 DEF PullStep, Progress
<1>2. CASE \E n \in Seqs : BrokerStep(n)
  BY <1>2 DEF BrokerStep, AckArrives, AckLost, AckWaitEnds, RecordDeadLetter, AdvisoryLost,
              history
<1>3. CASE \E i \in Ids : Arrive(i) \/ RunsOut(i) \/ Sweep(i)
  BY <1>3 DEF Arrive, RunsOut, Sweep, history
<1>4. CASE \E i \in Ids, n \in Seqs : StoreRow(i, n)
  BY <1>4 DEF StoreRow
<1> QED BY <1>1, <1>2, <1>3, <1>4 DEF Next

LEMMA RowsStayFit ==
  ASSUME Shape, RowsFit, Next
  PROVE  \A i \in Ids : rows'[i] # 0 => rows'[i] \in Seqs' /\ stream'[rows'[i]].id = i
<1>1. IdsStay /\ rows \in [Ids -> 0..MaxCopies]
  BY ShapeStep, RestType
<1>2. CASE rows' = rows
  BY <1>1, <1>2 DEF RowsFit, IdsStay
<1>3. CASE \E i \in Ids, n \in Seqs : stream[n].id = i /\ rows' = [rows EXCEPT ![i] = n]
  <2>1. PICK i \in Ids, n \in Seqs : stream[n].id = i /\ rows' = [rows EXCEPT ![i] = n]
    BY <1>3
  <2>2. \A j \in Ids : rows'[j] = IF j = i THEN n ELSE rows[j]
    BY <1>1, <2>1
  <2> QED BY <1>1, <2>1, <2>2 DEF RowsFit, IdsStay
<1> QED BY <1>2, <1>3, RowsStep

\* Only a copy that was never delivered waits as it came; what is acked, kept
\* or dropped was delivered.
TriedFit ==
  /\ \A n \in Seqs : stream[n].at # "ready" => stream[n].tries > 0
  /\ \A n \in acks : stream[n].tries > 0
  /\ \A p \in Pulls : \A n \in pulls[p].kept : stream[n].tries > 0

\* A step that delivers nothing.
LEMMA TriedSame ==
  ASSUME Shape, TriedFit, IdsStay,
         \A n \in Seqs : stream'[n].tries = stream[n].tries,
         \A n \in Seqs' : stream'[n].at # "ready" => n \in Seqs /\ stream[n].tries > 0,
         \A n \in acks' : n \in acks \/ \E p \in Pulls : n \in pulls[p].kept,
         \A p \in Pulls : pulls'[p].kept \subseteq pulls[p].kept
  PROVE  TriedFit'
<1>1. \A n \in acks' : n \in Seqs /\ stream[n].tries > 0
  BY RestType DEF TriedFit
<1>2. \A p \in Pulls : \A n \in pulls'[p].kept : n \in Seqs /\ stream[n].tries > 0
  BY RestType DEF TriedFit
<1> QED BY <1>1, <1>2 DEF TriedFit

\* A copy is handed over.
LEMMA TriedTake ==
  ASSUME Shape, TriedFit, NEW n \in Seqs, Seqs' = Seqs, stream'[n].tries > 0,
         \A m \in Seqs : m # n => stream'[m] = stream[m],
         acks' \subseteq acks \cup {n},
         \A p \in Pulls : pulls'[p].kept \subseteq pulls[p].kept \cup {n}
  PROVE  TriedFit'
<1>1. \A m \in Seqs : stream[m].tries > 0 => stream'[m].tries > 0
  OBVIOUS
<1>2. \A m \in acks' : stream'[m].tries > 0
  BY <1>1, RestType DEF TriedFit
<1>3. \A p \in Pulls : \A m \in pulls'[p].kept : stream'[m].tries > 0
  BY <1>1, RestType DEF TriedFit
<1> QED BY <1>2, <1>3 DEF TriedFit

LEMMA TriedStays ==
  ASSUME Shape, TriedFit, Next
  PROVE  TriedFit'
<1>1. ASSUME UNCHANGED stream, IdsStay,
             \A n \in acks' : n \in acks \/ \E p \in Pulls : n \in pulls[p].kept,
             \A p \in Pulls : pulls'[p].kept \subseteq pulls[p].kept
      PROVE  TriedFit'
  <2>1. Seqs' = Seqs
    BY <1>1, StreamStays
  <2>2. \A n \in Seqs : stream'[n].tries = stream[n].tries
    BY <1>1
  <2>3. \A n \in Seqs' : stream'[n].at # "ready" => n \in Seqs /\ stream[n].tries > 0
    BY <1>1, <2>1 DEF TriedFit
  <2> QED BY <1>1, <2>2, <2>3, TriedSame
<1>2. CASE \E p \in Pulls : Begin(p) \/ Look(p) \/ FetchEnds(p)
  BY <1>1, <1>2, ShapeBegin, ShapeLoop
<1>3. CASE \E p \in Pulls : MarkReadFails(p)
  BY <1>1, <1>3, ShapeMarkReadFails
<1>4. CASE \E p \in Pulls : PullFails(p)
  BY <1>1, <1>4, ShapePullFails, IdleType
<1>5. CASE \E p \in Pulls : HandOut(p) \/ HandOutUnnoted(p) \/ MarkReadAgain(p) \/ MarkReadGivesUp(p)
  <2>1. PICK p \in Pulls : HandOut(p) \/ HandOutUnnoted(p) \/ MarkReadAgain(p) \/ MarkReadGivesUp(p)
    BY <1>5
  <2>2. Answer(p) /\ acks' \subseteq acks \cup pulls[p].kept
    BY <2>1 DEF HandOut, HandOutUnnoted, MarkReadAgain, MarkReadGivesUp
  <2>3. UNCHANGED stream /\ pulls'[p] = Idle /\ \A q \in Pulls \ {p} : pulls'[q] = pulls[q]
    BY <2>2, AnswerType
  <2> QED BY <1>1, <2>2, <2>3, IdleType, StreamStays
<1>6. CASE \E p \in Pulls : pulls[p].pc = "fetch" /\ \E n \in Seqs : TakeDropped(p, n)
  BY <1>6, DropEffect, TriedTake
<1>7. CASE \E p \in Pulls : /\ pulls[p].pc = "fetch"
                            /\ \E n \in Seqs : TakeKept(p, n) \/ TakeUnjudged(p, n)
  <2>1. PICK p \in Pulls, n \in Seqs :
          pulls[p].pc = "fetch" /\ (TakeKept(p, n) \/ TakeUnjudged(p, n))
    BY <1>7
  <2>2. /\ Seqs' = Seqs /\ stream'[n].tries > 0 /\ acks' = acks
        /\ \A m \in Seqs : m # n => stream'[m] = stream[m]
        /\ pulls'[p].kept = pulls[p].kept \cup {n}
        /\ \A q \in Pulls \ {p} : pulls'[q] = pulls[q]
    BY <2>1, KeepEffect
  <2>3. \A q \in Pulls : pulls'[q].kept \subseteq pulls[q].kept \cup {n}
    BY <2>2
  <2> QED BY <2>2, <2>3, TriedTake
<1>8. ASSUME NEW n \in Seqs, AckArrives(n) \/ AckWaitEnds(n)
      PROVE  TriedFit'
  <2>1. /\ IdsStay /\ PullsStay /\ Seqs' = Seqs /\ acks' \subseteq acks
        /\ \A m \in Seqs : m # n => stream'[m] = stream[m]
        /\ stream'[n].tries = stream[n].tries
        /\ n \in acks \/ stream[n].at = "out"
    BY <1>8, AckArrivesEffect, AckWaitEndsEffect
  <2>2. stream[n].tries > 0
    BY <2>1 DEF TriedFit
  <2>3. \A m \in Seqs : stream'[m].tries = stream[m].tries
    BY <2>1
  <2>4. \A m \in Seqs' : stream'[m].at # "ready" => m \in Seqs /\ stream[m].tries > 0
    BY <2>1, <2>2 DEF TriedFit
  <2> QED BY <2>1, <2>3, <2>4, TriedSame DEF PullsStay
<1>9. CASE \E i \in Ids : Arrive(i)
  <2>1. /\ IdsStay /\ PullsStay /\ acks' = acks
        /\ \A n \in Seqs : stream'[n] = stream[n]
        /\ \A n \in Seqs' \ Seqs : stream'[n].at = "ready"
    BY <1>9, ArriveEffect
  <2>2. \A n \in Seqs' : stream'[n].at # "ready" => n \in Seqs /\ stream[n].tries > 0
    BY <2>1 DEF TriedFit
  <2> QED BY <2>1, <2>2, TriedSame DEF PullsStay
<1>10. CASE Aside
  BY <1>1, <1>10, AsideEffect DEF PullsStay
<1> QED BY Steps, <1>2, <1>3, <1>4, <1>5, <1>6, <1>7, <1>8, <1>9, <1>10

\* Once acked or given up, a copy stays so.
LEMMA OverStays ==
  ASSUME Shape, Next
  PROVE  \A n \in Seqs : stream'[n].at \in {"ready", "out"} => stream[n].at \in {"ready", "out"}
<1>1. CASE stream' = stream
  BY <1>1
<1>2. ASSUME NEW n \in Seqs, stream[n].at \in {"ready", "out"},
             \A m \in Seqs : m # n => stream'[m] = stream[m]
      PROVE  \A m \in Seqs : stream'[m].at \in {"ready", "out"} => stream[m].at \in {"ready", "out"}
  BY <1>2
<1>3. CASE \E p \in Pulls : \/ Begin(p) \/ Look(p) \/ FetchEnds(p)
                            \/ MarkReadFails(p) \/ PullFails(p)
  BY <1>1, <1>3, ShapeBegin, ShapeLoop, ShapeMarkReadFails, ShapePullFails
<1>4. CASE \E p \in Pulls : HandOut(p) \/ HandOutUnnoted(p) \/ MarkReadAgain(p) \/ MarkReadGivesUp(p)
  BY <1>1, <1>4 DEF HandOut, HandOutUnnoted, MarkReadAgain, MarkReadGivesUp, Answer
<1>5. CASE \E p \in Pulls : /\ pulls[p].pc = "fetch"
                            /\ \E n \in Seqs : \/ TakeDropped(p, n)
                                              \/ TakeKept(p, n) \/ TakeUnjudged(p, n)
  BY <1>2, <1>5, DropEffect, KeepEffect
<1>6. CASE \E n \in Seqs : AckWaitEnds(n)
  BY <1>2, <1>6, AckWaitEndsEffect
<1>7. ASSUME NEW n \in Seqs, AckArrives(n)
      PROVE  \A m \in Seqs : stream'[m].at \in {"ready", "out"} => stream[m].at \in {"ready", "out"}
  <2>1. CASE stream[n].at = "dead"
    <3>1. stream' = stream
      BY <1>7, <2>1 DEF AckArrives
    <3> QED BY <1>1, <3>1
  <2>2. CASE stream[n].at # "dead"
    <3>1. stream'[n].at = "acked" /\ \A m \in Seqs : m # n => stream'[m] = stream[m]
      BY <1>7, <2>2, AckArrivesEffect
    <3> QED BY <3>1
  <2> QED BY <2>1, <2>2
<1>8. CASE \E i \in Ids : Arrive(i)
  <2>1. \A n \in Seqs : stream'[n] = stream[n]
    BY <1>8, ArriveEffect
  <2> QED BY <2>1
<1>9. CASE Aside
  BY <1>1, <1>9, AsideEffect
<1> QED BY Steps, <1>3, <1>4, <1>5, <1>6, <1>7, <1>8, <1>9

\* A nonempty finite set of numbers has a greatest one.
LEMMA HasGreatest ==
  ASSUME NEW S \in SUBSET Nat, IsFiniteSet(S), S # {}
  PROVE  \E x \in S : \A y \in S : y <= x
<1> DEFINE Bad == {T \in SUBSET S : T # {} /\ ~(\E x \in T : \A y \in T : y <= x)}
<1> SUFFICES ASSUME Bad # {}
             PROVE  FALSE
  OBVIOUS
<1>1. Bad \subseteq FiniteSubsetsOf(S)
  BY FS_Subset DEF FiniteSubsetsOf
<1>2. PICK T \in Bad : \A U \in Bad : ~(<<U, T>> \in StrictSubsetOrdering(S))
  <2> HIDE DEF Bad
  <2> QED BY <1>1, FS_StrictSubsetOrderingWellFounded, WFMin
<1>3. PICK x \in T : TRUE
  OBVIOUS
<1>4. T \ {x} \notin Bad
  BY <1>2, <1>3 DEF StrictSubsetOrdering
<1>5. T \subseteq Nat /\ x \in Nat
  OBVIOUS
<1>6. CASE T \ {x} = {}
  BY <1>5, <1>6
<1>7. CASE T \ {x} # {}
  <2>1. PICK z \in T \ {x} : \A y \in T \ {x} : y <= z
    BY <1>4, <1>7
  <2>2. CASE x <= z
    BY <1>5, <2>1, <2>2
  <2>3. CASE z <= x
    BY <1>5, <2>1, <2>3
  <2> QED BY <1>5, <2>1, <2>2, <2>3
<1> QED BY <1>6, <1>7

\* The broadcasts' durable has delivered no copy after its delivered.stream_seq.
LEMMA DeliveredIsLast ==
  ASSUME Shape
  PROVE  /\ DeliveredSeq \in 0..MaxCopies
         /\ \A n \in OnSide("broadcast") : stream[n].tries > 0 => n <= DeliveredSeq
<1> DEFINE D == {n \in OnSide("broadcast") : stream[n].tries > 0}
<1>1. Len(stream) \in Nat /\ Len(stream) <= MaxCopies
  BY StreamType DEF Shape
<1>2. IsFiniteSet(Seqs) /\ Seqs \subseteq 0..MaxCopies /\ Seqs \subseteq Nat
  <2>1. IsFiniteSet(Seqs)
    BY <1>1, FS_Interval DEF Seqs
  <2>2. \A n \in Seqs : n \in 0..MaxCopies /\ n \in Nat
    BY <1>1, ConstantsAssumption DEF Seqs
  <2> QED BY <2>1, <2>2
<1>3. D \subseteq Seqs
  BY DEF OnSide
<1>4. IsFiniteSet(D) /\ D \in SUBSET Nat
  BY <1>2, <1>3, FS_Subset
<1>5. CASE D = {}
  BY <1>5, ConstantsAssumption DEF DeliveredSeq
<1>6. CASE D # {}
  <2> HIDE DEF D
  <2>1. \E n \in D : \A m \in D : m <= n
    BY <1>4, <1>6, HasGreatest
  <2>2. DeliveredSeq = CHOOSE n \in D : \A m \in D : m <= n
    BY <1>6 DEF DeliveredSeq, D
  <2>3. DeliveredSeq \in D /\ \A m \in D : m <= DeliveredSeq
    BY <2>1, <2>2
  <2> QED BY <1>2, <1>3, <2>3 DEF D
<1> QED BY <1>5, <1>6

\* What a count under way has, of durables, sequences and its own pull: it
\* counts a durable once, what its pull fetched from the broadcasts is
\* delivered, and it answers when both durables are counted.
Fit(c) ==
  /\ c \in Count
  /\ c.since <= Len(stream) /\ c.last <= Len(stream) /\ c.had \subseteq Seqs
  /\ \A n \in c.had : /\ SideOf(stream[n].id) \in c.sides
                      /\ SideOf(stream[n].id) = "broadcast" => n <= c.delivered
  /\ "inbox" \notin c.sides => c.inbox = 0
  /\ "broadcast" \notin c.sides => c.broadcast = 0
  /\ c.pc \in {"bounds", "answer"} => c.sides = Sides

\* What the count c has counted or will miss: copies that were there when it
\* began, still wait, are in the hands of its own fetch (taken), or are
\* broadcasts its durable has not reached.
Base(c, taken) ==
  {n \in 1..c.since :
     /\ n \notin c.had /\ SideOf(stream[n].id) \in c.sides
     /\ \/ stream[n].at \in {"ready", "out"}
        \/ n \in taken
        \/ SideOf(stream[n].id) = "broadcast" /\ n > c.delivered}

\* What came after it began and its own pull fetched.
HadNew(c) == {n \in c.had : n > c.since}

Covers(c, taken) ==
  (c.inbox + c.broadcast) + (Cardinality(HadNew(c)) + c.again) >= Cardinality(Base(c, taken))

\* A union has at most as many elements as its parts.
LEMMA UnionAtMost ==
  ASSUME NEW S, NEW T, IsFiniteSet(S), IsFiniteSet(T)
  PROVE  /\ IsFiniteSet(S \cup T) /\ Cardinality(S) \in Nat /\ Cardinality(T) \in Nat
         /\ Cardinality(S \cup T) \in Nat
         /\ Cardinality(S \cup T) <= Cardinality(S) + Cardinality(T)
<1>1. /\ IsFiniteSet(S \cup T)
      /\ Cardinality(S \cup T) = Cardinality(S) + Cardinality(T) - Cardinality(S \cap T)
  BY FS_Union
<1>2. Cardinality(S \cap T) \in Nat
  BY FS_Subset, FS_CardinalityType
<1>3. Cardinality(S) \in Nat /\ Cardinality(T) \in Nat /\ Cardinality(S \cup T) \in Nat
  BY <1>1, FS_CardinalityType
<1> QED BY <1>1, <1>2, <1>3

LEMMA Sizes ==
  ASSUME Shape, NEW c, Fit(c), NEW taken
  PROVE  /\ IsFiniteSet(Base(c, taken)) /\ Cardinality(Base(c, taken)) \in Nat
         /\ IsFiniteSet(HadNew(c)) /\ Cardinality(HadNew(c)) \in Nat
         /\ Base(c, taken) \subseteq Seqs
         /\ IsFiniteSet(Seqs) /\ IsFiniteSet(c.had)
         /\ Len(stream) \in Nat /\ Seqs \subseteq Nat
         /\ c.since \in Nat /\ c.inbox \in Nat /\ c.broadcast \in Nat /\ c.again \in Nat
         /\ c.delivered \in Nat /\ c.last \in Nat
<1>1. Len(stream) \in Nat
  BY StreamType DEF Shape
<1>2. IsFiniteSet(Seqs) /\ Seqs \subseteq Nat
  BY <1>1, FS_Interval DEF Seqs
<1>3. /\ c.since \in Nat /\ c.inbox \in Nat /\ c.broadcast \in Nat /\ c.again \in Nat
      /\ c.delivered \in Nat /\ c.last \in Nat
  BY ConstantsAssumption DEF Fit, Count
<1>4. c.since <= Len(stream) /\ c.had \subseteq Seqs
  BY DEF Fit
<1>5. Base(c, taken) \subseteq Seqs
  BY <1>1, <1>3, <1>4 DEF Base, Seqs
<1>6. HadNew(c) \subseteq Seqs
  BY <1>4 DEF HadNew
<1>7. /\ IsFiniteSet(Base(c, taken)) /\ Cardinality(Base(c, taken)) \in Nat
      /\ IsFiniteSet(HadNew(c)) /\ Cardinality(HadNew(c)) \in Nat /\ IsFiniteSet(c.had)
  BY <1>2, <1>4, <1>5, <1>6, FS_Subset, FS_CardinalityType
<1> QED BY <1>1, <1>2, <1>3, <1>5, <1>7

\* A count keeps what it has while the broker, the senders and other calls go
\* on, and its own fetch takes what is ready.
LEMMA CountStays ==
  ASSUME Shape, Shape', IdsStay, NEW c, Fit(c), NEW taken, NEW more, Covers(c, taken),
         \A n \in more : n \in taken \/ (n \in Seqs /\ stream[n].at = "ready"),
         \A n \in Seqs : stream'[n].at \in {"ready", "out"} => stream[n].at \in {"ready", "out"}
  PROVE  Fit(c)' /\ Covers(c, more)'
<1>1. /\ Len(stream) \in Nat /\ Len(stream') \in Nat /\ c.since \in Nat /\ c.last \in Nat
      /\ IsFiniteSet(Base(c, taken)) /\ Cardinality(Base(c, taken)) \in Nat
      /\ Cardinality(HadNew(c)) \in Nat /\ c.inbox \in Nat /\ c.broadcast \in Nat
      /\ c.again \in Nat
  <2>1. Len(stream') \in Nat
    BY StreamType DEF Shape
  <2> QED BY <2>1, Sizes
<1>2. Len(stream) <= Len(stream')
  BY <1>1 DEF IdsStay, Seqs
<1>3. \A n \in Seqs : n \in Seqs' /\ stream'[n].id = stream[n].id
  BY DEF IdsStay
<1>4. Fit(c)'
  BY <1>1, <1>2, <1>3 DEF Fit
<1>5. Base(c, more)' \subseteq Base(c, taken)
  <2>1. \A n \in 1..c.since : n \in Seqs
    BY <1>1 DEF Fit, Seqs
  <2> QED BY <1>3, <2>1 DEF Base
<1>6. Cardinality(Base(c, more)') <= Cardinality(Base(c, taken))
  BY <1>1, <1>5, FS_Subset
<1>7. IsFiniteSet(Base(c, more)') /\ Cardinality(Base(c, more)') \in Nat
  BY <1>1, <1>5, FS_Subset, FS_CardinalityType
<1>8. Covers(c, more)'
  BY <1>1, <1>6, <1>7 DEF Covers, HadNew
<1> QED BY <1>4, <1>8

\* A count that begins, and none.
LEMMA FreshCount ==
  ASSUME Shape, NEW taken
  PROVE  /\ Fit(Fresh) /\ Covers(Fresh, taken) /\ Fresh.pc = "looks" /\ Fresh.sides = {}
         /\ Fit(NoCount) /\ Covers(NoCount, taken) /\ NoCount.pc = "idle"
<1>1. Len(stream) \in 0..MaxCopies
  BY StreamType, ConstantsAssumption DEF Shape
<1>2. NoCount \in Count /\ Fresh \in Count
  <2>1. 0 \in 0..MaxCopies
    BY ConstantsAssumption
  <2>2. NoCount \in Count
    BY <2>1 DEF NoCount, Count
  <2> QED BY <1>1, <2>2 DEF Fresh, Count
<1>3. Fit(NoCount) /\ Fit(Fresh)
  BY <1>1, <1>2 DEF Fit, NoCount, Fresh
<1>4. /\ Base(NoCount, taken) = {} /\ Base(Fresh, taken) = {}
      /\ HadNew(NoCount) = {} /\ HadNew(Fresh) = {}
  BY DEF Base, HadNew, NoCount, Fresh
<1>5. Covers(NoCount, taken) /\ Covers(Fresh, taken)
  BY <1>4, FS_EmptySet DEF Covers, NoCount, Fresh
<1> QED BY <1>3, <1>5 DEF NoCount, Fresh

\* A look at a durable counts all that waits there.
LEMMA SeenCount ==
  ASSUME Shape, TriedFit, NEW c, Fit(c), Covers(c, {}), NEW side \in Sides, side \notin c.sides,
         c.pc = "looks"
  PROVE  /\ Fit(Seen(c, side)) /\ Covers(Seen(c, side), {})
         /\ Seen(c, side).sides = c.sides \cup {side} /\ Seen(c, side).pc = c.pc
<1> DEFINE W == {n \in OnSide(side) : stream[n].at \in {"ready", "out"}}
           B == Base(c, {})
           e == Seen(c, side)
           N == Base(e, {})
<1>1. W \in SUBSET Seqs /\ Cardinality(W) = Pending(side)
  BY DEF OnSide, Pending
<1>2. Pending(side) \in 0..MaxCopies /\ IsFiniteSet(W) /\ Cardinality(W) \in Nat
  <2>1. Cardinality(W) \in 0..MaxCopies
    BY <1>1, CountOfCopies DEF Shape
  <2>2. IsFiniteSet(W)
    BY <1>1, Sizes, FS_Subset
  <2> QED BY <1>1, <2>1, <2>2, FS_CardinalityType
<1>3. /\ IsFiniteSet(B) /\ Cardinality(B) \in Nat /\ Cardinality(HadNew(c)) \in Nat
      /\ c.inbox \in Nat /\ c.broadcast \in Nat /\ c.again \in Nat /\ c.since \in Nat
  BY Sizes
<1>4. /\ DeliveredSeq \in 0..MaxCopies
      /\ \A n \in OnSide("broadcast") : stream[n].tries > 0 => n <= DeliveredSeq
  BY DeliveredIsLast
<1>5. c \in Count
  BY DEF Fit
<1>6. /\ e \in Count /\ e.pc = c.pc /\ e.since = c.since /\ e.last = c.last /\ e.had = c.had
      /\ e.again = c.again /\ e.sides = c.sides \cup {side}
      /\ side = "inbox" => /\ e.inbox = Pending(side) /\ e.broadcast = c.broadcast
                           /\ e.delivered = c.delivered
      /\ side # "inbox" => /\ e.broadcast = Pending(side) /\ e.inbox = c.inbox
                           /\ e.delivered = DeliveredSeq
  <2>1. c.sides \cup {side} \in SUBSET Sides
    BY <1>5 DEF Count
  <2>2. CASE side = "inbox"
    <3> DEFINE f == [c EXCEPT !.sides = c.sides \cup {side}, !.inbox = Pending(side)]
    <3>1. e = f
      BY <1>5, <2>2 DEF Seen, Count
    <3>2. /\ f \in Count /\ f.pc = c.pc /\ f.since = c.since /\ f.last = c.last /\ f.had = c.had
          /\ f.again = c.again /\ f.sides = c.sides \cup {side} /\ f.inbox = Pending(side)
          /\ f.broadcast = c.broadcast /\ f.delivered = c.delivered
      BY <1>2, <1>5, <2>1 DEF Count
    <3> HIDE DEF f, e
    <3> QED BY <2>2, <3>1, <3>2
  <2>3. CASE side # "inbox"
    <3> DEFINE f == [c EXCEPT !.sides = c.sides \cup {side}, !.broadcast = Pending(side),
                              !.delivered = DeliveredSeq]
    <3>1. e = f
      BY <1>5, <2>3 DEF Seen, Count
    <3>2. /\ f \in Count /\ f.pc = c.pc /\ f.since = c.since /\ f.last = c.last /\ f.had = c.had
          /\ f.again = c.again /\ f.sides = c.sides \cup {side} /\ f.broadcast = Pending(side)
          /\ f.inbox = c.inbox /\ f.delivered = DeliveredSeq
      BY <1>2, <1>4, <1>5, <2>1 DEF Count
    <3> HIDE DEF f, e
    <3> QED BY <2>3, <3>1, <3>2
  <2> QED BY <2>2, <2>3
<1> HIDE DEF e
<1>7. side = "inbox" \/ side = "broadcast"
  BY DEF Sides
<1>8. Fit(e)
  <2>1. ASSUME NEW n \in c.had, SideOf(stream[n].id) = "broadcast"
        PROVE  n <= e.delivered
    <3>1. "broadcast" \in c.sides /\ n <= c.delivered
      BY <2>1 DEF Fit
    <3>2. side = "inbox"
      BY <1>7, <3>1
    <3> QED BY <1>6, <3>1, <3>2
  <2>2. \A n \in c.had : SideOf(stream[n].id) \in e.sides
    BY <1>6 DEF Fit
  <2>3. /\ "inbox" \notin e.sides => e.inbox = 0
        /\ "broadcast" \notin e.sides => e.broadcast = 0
    BY <1>6, <1>7 DEF Fit
  <2> QED BY <1>6, <2>1, <2>2, <2>3 DEF Fit
<1>9. N \subseteq B \cup W
  <2>1. ASSUME NEW n \in N
        PROVE  n \in B \cup W
    <3>1. /\ n \in 1..c.since /\ n \notin c.had /\ SideOf(stream[n].id) \in c.sides \cup {side}
          /\ \/ stream[n].at \in {"ready", "out"}
             \/ SideOf(stream[n].id) = "broadcast" /\ n > e.delivered
      BY <1>6 DEF Base
    <3>2. n \in Seqs
      BY <3>1, Sizes DEF Fit, Seqs
    <3>3. CASE SideOf(stream[n].id) = side
      <4>1. n \in OnSide(side)
        BY <3>2, <3>3 DEF OnSide
      <4>2. CASE stream[n].at \in {"ready", "out"}
        BY <4>1, <4>2
      <4>3. CASE side = "broadcast" /\ n > e.delivered
        <5>1. ~(n <= DeliveredSeq) /\ n \in OnSide("broadcast")
          BY <1>4, <1>6, <3>1, <4>1, <4>3
        <5>2. ~(stream[n].tries > 0)
          BY <1>4, <5>1
        <5>3. stream[n].at = "ready"
          BY <3>2, <5>2 DEF TriedFit
        <5> QED BY <4>1, <5>3
      <4> QED BY <3>1, <3>3, <4>2, <4>3
    <3>4. CASE SideOf(stream[n].id) # side
      <4>1. SideOf(stream[n].id) \in c.sides
        BY <3>1, <3>4
      <4>2. side = "broadcast" => SideOf(stream[n].id) # "broadcast"
        BY <3>4
      <4>3. stream[n].at \in {"ready", "out"} \/ (SideOf(stream[n].id) = "broadcast" /\ n > c.delivered)
        BY <1>6, <1>7, <3>1, <4>2
      <4> QED BY <3>1, <4>1, <4>3 DEF Base
    <3> QED BY <3>3, <3>4
  <2> QED BY <2>1
<1>10. Cardinality(N) <= Cardinality(B) + Cardinality(W) /\ Cardinality(N) \in Nat
  <2> HIDE DEF N, B, W
  <2>1. IsFiniteSet(B \cup W) /\ Cardinality(B \cup W) <= Cardinality(B) + Cardinality(W)
    BY <1>2, <1>3, UnionAtMost
  <2>2. Cardinality(N) <= Cardinality(B \cup W) /\ IsFiniteSet(N)
    BY <1>9, <2>1, FS_Subset
  <2>3. Cardinality(N) \in Nat /\ Cardinality(B \cup W) \in Nat
    BY <2>1, <2>2, FS_CardinalityType
  <2> QED BY <1>2, <1>3, <2>1, <2>2, <2>3
<1>11. HadNew(e) = HadNew(c)
  BY <1>6 DEF HadNew
<1>12. /\ (c.inbox + c.broadcast) + (Cardinality(HadNew(c)) + c.again) >= Cardinality(B)
       /\ side = "inbox" => c.inbox = 0
       /\ side # "inbox" => c.broadcast = 0
  BY <1>7 DEF Covers, Fit
<1>13. (e.inbox + e.broadcast) + (Cardinality(HadNew(e)) + e.again) >= Cardinality(N)
  <2>1. e.inbox + e.broadcast = (c.inbox + c.broadcast) + Cardinality(W)
    <3> HIDE DEF W
    <3> QED BY <1>1, <1>2, <1>3, <1>6, <1>12
  <2> HIDE DEF N, B, W
  <2> QED BY <1>2, <1>3, <1>6, <1>10, <1>11, <1>12, <2>1
<1>14. Covers(e, {})
  BY <1>13 DEF Covers
<1> QED BY <1>6, <1>8, <1>14 DEF e

\* A count that both durables are in goes on, and knows the stream's bounds.
LEMMA CountedCount ==
  ASSUME Shape, NEW c, Fit(c), Covers(c, {}), c.sides = Sides,
         NEW pc \in {"bounds", "answer"}, NEW last \in {0, c.last, Len(stream)}
  PROVE  /\ Fit([c EXCEPT !.pc = pc, !.last = last])
         /\ Covers([c EXCEPT !.pc = pc, !.last = last], {})
<1> DEFINE e == [c EXCEPT !.pc = pc, !.last = last]
<1>1. last \in 0..MaxCopies /\ last <= Len(stream)
  <2>1. c.last \in 0..MaxCopies /\ c.last <= Len(stream)
    BY DEF Fit, Count
  <2>2. Len(stream) \in Nat /\ Len(stream) <= MaxCopies
    BY StreamType DEF Shape
  <2> QED BY <2>1, <2>2, ConstantsAssumption
<1>2. c \in Count
  BY DEF Fit
<1>3. /\ e \in Count /\ e.pc = pc /\ e.since = c.since /\ e.last = last /\ e.had = c.had
      /\ e.again = c.again /\ e.sides = c.sides /\ e.inbox = c.inbox
      /\ e.broadcast = c.broadcast /\ e.delivered = c.delivered
  BY <1>1, <1>2 DEF Count
<1> HIDE DEF e
<1>4. Fit(e)
  BY <1>1, <1>3 DEF Fit
<1>5. Base(e, {}) = Base(c, {}) /\ HadNew(e) = HadNew(c)
  BY <1>3 DEF Base, HadNew
<1>6. Covers(e, {})
  BY <1>3, <1>5 DEF Covers
<1> QED BY <1>4, <1>6 DEF e

\* What the counts take off for a fetch is what it fetched.
LEMMA LessIs ==
  ASSUME NEW m \in Nat, NEW n \in Nat
  PROVE  Less(m, n) \in 0..m /\ Less(m, n) + n >= m
BY DEF Less

\* A fetch is over: what it took is counted as had.
LEMMA FetchedCount ==
  ASSUME Shape, NEW c, Fit(c), NEW d, d.taken \subseteq OnSide(d.side), d.side \in c.sides,
         Covers(c, d.taken), c.pc = "looks"
  PROVE  /\ Fit(Fetched(c, d)) /\ Covers(Fetched(c, d), {})
         /\ Fetched(c, d).sides = c.sides /\ Fetched(c, d).pc = c.pc
<1> DEFINE T == d.taken
           B == Base(c, T)
           e == Fetched(c, d)
           N == Base(e, {})
           A == T \cap c.had
           O == {n \in T \ c.had : n <= c.since}
           H == {n \in T \ c.had : n > c.since}
<1>1. /\ IsFiniteSet(B) /\ Cardinality(B) \in Nat /\ Cardinality(HadNew(c)) \in Nat
      /\ IsFiniteSet(HadNew(c)) /\ IsFiniteSet(Seqs) /\ IsFiniteSet(c.had)
      /\ c.inbox \in Nat /\ c.broadcast \in Nat /\ c.again \in Nat /\ c.since \in Nat
      /\ c.delivered \in Nat /\ Seqs \subseteq Nat
  BY Sizes
<1>2. T \subseteq Seqs /\ (\A n \in T : SideOf(stream[n].id) = d.side) /\ Seqs \subseteq 1..MaxCopies
  <2>1. Len(stream) \in Nat /\ Len(stream) <= MaxCopies
    BY StreamType DEF Shape
  <2>2. Seqs \subseteq 1..MaxCopies
    BY <2>1, ConstantsAssumption DEF Seqs
  <2> QED BY <2>2 DEF OnSide
<1>3. c \in Count
  BY DEF Fit
<1>4. d.side \in {"inbox", "broadcast"}
  BY <1>3 DEF Count, Sides
<1>5. /\ IsFiniteSet(T) /\ IsFiniteSet(A) /\ IsFiniteSet(O) /\ IsFiniteSet(H)
      /\ Cardinality(T) \in Nat /\ Cardinality(A) \in Nat /\ Cardinality(O) \in Nat
      /\ Cardinality(H) \in Nat
  BY <1>1, <1>2, FS_Subset, FS_CardinalityType
<1>6. Delivered(c, T) \in T \cup {c.delivered} /\ \A n \in T \cup {c.delivered} : n <= Delivered(c, T)
  <2> DEFINE S == {c.delivered} \cup T
  <2>1. S \in SUBSET Nat /\ IsFiniteSet(S) /\ S # {}
    <3>1. IsFiniteSet({c.delivered})
      BY FS_Singleton
    <3>2. IsFiniteSet(S)
      BY <1>5, <3>1, FS_Union
    <3> QED BY <1>1, <1>2, <3>2
  <2>2. Delivered(c, T) = CHOOSE n \in S : \A m \in S : m <= n
    BY DEF Delivered
  <2>3. \E n \in S : \A m \in S : m <= n
    <3> HIDE DEF S
    <3> QED BY <2>1, HasGreatest
  <2>4. Delivered(c, T) \in S /\ \A m \in S : m <= Delivered(c, T)
    <3> HIDE DEF S
    <3> QED BY <2>2, <2>3
  <2> QED BY <2>4
<1>7. /\ e \in Count /\ e.pc = c.pc /\ e.since = c.since /\ e.last = c.last /\ e.sides = c.sides
      /\ e.had = c.had \cup T /\ e.again = c.again + Cardinality(A)
      /\ d.side = "inbox" => /\ e.inbox = Less(c.inbox, Cardinality(T))
                             /\ e.broadcast = c.broadcast /\ e.delivered = c.delivered
      /\ d.side # "inbox" => /\ e.broadcast = Less(c.broadcast, Cardinality(T))
                             /\ e.inbox = c.inbox /\ e.delivered = Delivered(c, T)
  <2> DEFINE h == c.had \cup T
             a == c.again + Cardinality(A)
             b == [c EXCEPT !.had = h, !.again = a]
  <2>1. h \in SUBSET (1..MaxCopies) /\ a \in Nat
    <3>1. c.had \subseteq 1..MaxCopies
      BY <1>3 DEF Count
    <3>2. T \subseteq 1..MaxCopies
      BY <1>2
    <3>3. a \in Nat
      <4> HIDE DEF A
      <4> QED BY <1>1, <1>5
    <3> QED BY <3>1, <3>2, <3>3
  <2>2. Cardinality(c.had \cap T) = Cardinality(A)
    <3>1. c.had \cap T = A
      OBVIOUS
    <3> QED BY <3>1
  <2>3. /\ b \in Count /\ b.pc = c.pc /\ b.since = c.since /\ b.last = c.last /\ b.sides = c.sides
        /\ b.had = h /\ b.again = a /\ b.inbox = c.inbox /\ b.broadcast = c.broadcast
        /\ b.delivered = c.delivered
    <3> HIDE DEF h, a
    <3> QED BY <1>3, <2>1 DEF Count
  <2>4. [c EXCEPT !.had = @ \cup T, !.again = @ + Cardinality(c.had \cap T)] = b
    BY <1>3, <2>2 DEF Count
  <2>5. /\ e = IF d.side = "inbox"
               THEN [b EXCEPT !.inbox = Less(@, Cardinality(T))]
               ELSE [b EXCEPT !.broadcast = Less(@, Cardinality(T)), !.delivered = Delivered(c, T)]
    <3> HIDE DEF b
    <3> QED BY <2>4 DEF Fetched
  <2>6. /\ Less(c.inbox, Cardinality(T)) \in 0..MaxCopies
        /\ Less(c.broadcast, Cardinality(T)) \in 0..MaxCopies
    <3>1. c.inbox \in 0..MaxCopies /\ c.broadcast \in 0..MaxCopies
      BY <1>3 DEF Count
    <3>2. /\ Less(c.inbox, Cardinality(T)) \in 0..c.inbox
          /\ Less(c.broadcast, Cardinality(T)) \in 0..c.broadcast
      BY <1>1, <1>5, LessIs
    <3>3. 0..c.inbox \subseteq 0..MaxCopies /\ 0..c.broadcast \subseteq 0..MaxCopies
      BY <3>1, ConstantsAssumption
    <3> QED BY <3>2, <3>3
  <2>7. Delivered(c, T) \in 0..MaxCopies
    <3>1. c.delivered \in 0..MaxCopies
      BY <1>3 DEF Count
    <3>2. \A n \in 1..MaxCopies : n \in 0..MaxCopies
      BY ConstantsAssumption
    <3>3. T \subseteq 0..MaxCopies
      BY <1>2, <3>2
    <3> QED BY <1>6, <3>1, <3>3
  <2> HIDE DEF b, e, T
  <2>8. CASE d.side = "inbox"
    <3> DEFINE f == [b EXCEPT !.inbox = Less(c.inbox, Cardinality(T))]
    <3>1. e = f
      BY <2>3, <2>5, <2>8 DEF Count
    <3>2. /\ f \in Count /\ f.pc = b.pc /\ f.since = b.since /\ f.last = b.last
          /\ f.sides = b.sides /\ f.had = b.had /\ f.again = b.again
          /\ f.inbox = Less(c.inbox, Cardinality(T))
          /\ f.broadcast = b.broadcast /\ f.delivered = b.delivered
      BY <2>3, <2>6 DEF Count
    <3> HIDE DEF f
    <3> QED BY <2>3, <2>8, <3>1, <3>2
  <2>9. CASE d.side # "inbox"
    <3> DEFINE f == [b EXCEPT !.broadcast = Less(c.broadcast, Cardinality(T)),
                              !.delivered = Delivered(c, T)]
    <3>1. e = f
      BY <2>3, <2>5, <2>9 DEF Count
    <3>2. /\ f \in Count /\ f.pc = b.pc /\ f.since = b.since /\ f.last = b.last
          /\ f.sides = b.sides /\ f.had = b.had /\ f.again = b.again
          /\ f.broadcast = Less(c.broadcast, Cardinality(T))
          /\ f.inbox = b.inbox /\ f.delivered = Delivered(c, T)
      BY <2>3, <2>6, <2>7 DEF Count
    <3> HIDE DEF f
    <3> QED BY <2>3, <2>9, <3>1, <3>2
  <2> QED BY <2>8, <2>9
<1> HIDE DEF e
<1>8. Fit(e)
  <2>1. ASSUME NEW n \in e.had
        PROVE  /\ n \in Seqs /\ SideOf(stream[n].id) \in e.sides
               /\ SideOf(stream[n].id) = "broadcast" => n <= e.delivered
    <3>1. CASE n \in T
      <4>1. n <= Delivered(c, T)
        BY <1>6, <3>1
      <4> QED BY <1>2, <1>4, <1>7, <3>1, <4>1
    <3>2. CASE n \in c.had
      <4>1. /\ n \in Seqs /\ SideOf(stream[n].id) \in e.sides
            /\ SideOf(stream[n].id) = "broadcast" => n <= c.delivered
        BY <1>7, <3>2 DEF Fit
      <4>2. n \in Nat /\ c.delivered \in Nat
        BY <1>1, <4>1
      <4>3. e.delivered \in Nat /\ c.delivered <= e.delivered
        <5>1. e.delivered \in Nat
          BY <1>7, ConstantsAssumption DEF Count
        <5>2. c.delivered <= Delivered(c, T)
          BY <1>6
        <5> QED BY <1>4, <1>7, <4>2, <5>1, <5>2
      <4> QED BY <4>1, <4>2, <4>3
    <3> QED BY <1>7, <2>1, <3>1, <3>2
  <2>2. /\ "inbox" \notin e.sides => e.inbox = 0
        /\ "broadcast" \notin e.sides => e.broadcast = 0
    BY <1>4, <1>7 DEF Fit
  <2>3. e.since <= Len(stream) /\ e.last <= Len(stream) /\ e.pc \notin {"bounds", "answer"}
    BY <1>7 DEF Fit
  <2> QED BY <1>7, <2>1, <2>2, <2>3 DEF Fit
<1>9. N \subseteq B \ O /\ O \subseteq B
  <2>1. O \subseteq B
    <3> SUFFICES ASSUME NEW n \in O
                 PROVE  n \in B
      OBVIOUS
    <3>1. n \in T /\ n \notin c.had /\ n <= c.since /\ n \in Seqs
      BY <1>2
    <3>2. n \in 1..c.since
      BY <1>1, <3>1 DEF Seqs
    <3> QED BY <1>2, <3>1, <3>2 DEF Base
  <2>2. ASSUME NEW n \in N
        PROVE  n \in B \ O
    <3>1. /\ n \in 1..c.since /\ n \notin c.had /\ n \notin T
          /\ SideOf(stream[n].id) \in c.sides
          /\ \/ stream[n].at \in {"ready", "out"}
             \/ SideOf(stream[n].id) = "broadcast" /\ n > e.delivered
      BY <1>7 DEF Base
    <3>2. n > e.delivered => n > c.delivered
      <4>1. e.delivered \in Nat
        BY <1>7, ConstantsAssumption DEF Count
      <4>2. c.delivered <= e.delivered
        BY <1>1, <1>6, <1>7
      <4> QED BY <1>1, <3>1, <4>1, <4>2
    <3> QED BY <3>1, <3>2 DEF Base
  <2> QED BY <2>1, <2>2
<1>10. Cardinality(N) + Cardinality(O) <= Cardinality(B) /\ Cardinality(N) \in Nat
  <2>1. Cardinality(B \ O) = Cardinality(B) - Cardinality(B \cap O)
    <3> HIDE DEF B, O
    <3> QED BY <1>1, FS_Difference
  <2>2. B \cap O = O
    BY <1>9
  <2>3. IsFiniteSet(B \ O)
    BY <1>1, FS_Subset
  <2> HIDE DEF N, B, O
  <2>4. Cardinality(N) <= Cardinality(B \ O) /\ IsFiniteSet(N)
    BY <1>9, <2>3, FS_Subset
  <2>5. Cardinality(N) \in Nat /\ Cardinality(B \ O) \in Nat
    BY <2>3, <2>4, FS_CardinalityType
  <2> QED BY <1>1, <1>5, <2>1, <2>2, <2>4, <2>5
<1>11. Cardinality(HadNew(e)) = Cardinality(HadNew(c)) + Cardinality(H)
  <2>1. HadNew(e) = HadNew(c) \cup H
    BY <1>7 DEF HadNew
  <2>2. HadNew(c) \cap H = {}
    BY DEF HadNew
  <2> HIDE DEF H
  <2>3. Cardinality(HadNew(c) \cup H) = Cardinality(HadNew(c)) + Cardinality(H) - Cardinality({})
    BY <1>1, <1>5, <2>2, FS_Union
  <2> QED BY <1>1, <1>5, <2>1, <2>3, FS_EmptySet
<1>12. Cardinality(T) = Cardinality(A) + (Cardinality(O) + Cardinality(H))
  <2>1. T = A \cup (O \cup H) /\ A \cap (O \cup H) = {} /\ O \cap H = {}
    <3>1. \A n \in T : n \in Nat
      BY <1>1, <1>2
    <3> QED BY <1>1, <3>1
  <2> HIDE DEF T, A, O, H
  <2>2. /\ IsFiniteSet(O \cup H)
        /\ Cardinality(O \cup H) = Cardinality(O) + Cardinality(H) - Cardinality({})
    BY <1>5, <2>1, FS_Union
  <2>3. Cardinality(T) = Cardinality(A) + Cardinality(O \cup H) - Cardinality({})
    BY <1>5, <2>1, <2>2, FS_Union
  <2>4. Cardinality(O \cup H) \in Nat
    BY <2>2, FS_CardinalityType
  <2> QED BY <1>5, <2>2, <2>3, <2>4, FS_EmptySet
<1>13. (c.inbox + c.broadcast) + (Cardinality(HadNew(c)) + c.again) >= Cardinality(B)
  BY DEF Covers
<1>14. /\ e.inbox \in Nat /\ e.broadcast \in Nat
       /\ (e.inbox + e.broadcast) + Cardinality(T) >= c.inbox + c.broadcast
  <2>1. /\ Less(c.inbox, Cardinality(T)) \in 0..c.inbox
        /\ Less(c.inbox, Cardinality(T)) + Cardinality(T) >= c.inbox
        /\ Less(c.broadcast, Cardinality(T)) \in 0..c.broadcast
        /\ Less(c.broadcast, Cardinality(T)) + Cardinality(T) >= c.broadcast
    BY <1>1, <1>5, LessIs
  <2> HIDE DEF T
  <2> QED BY <1>1, <1>5, <1>7, <2>1
<1>15. (e.inbox + e.broadcast) + (Cardinality(HadNew(e)) + e.again) >= Cardinality(N)
  <2> HIDE DEF N, B, T, A, O, H
  <2>1. e.again = c.again + Cardinality(A)
    BY <1>7
  <2> QED BY <1>1, <1>5, <1>10, <1>11, <1>12, <1>13, <1>14, <2>1
<1>16. Covers(e, {})
  BY <1>15 DEF Covers
<1> QED BY <1>7, <1>8, <1>16 DEF e
\* What a call's own fetch has in hand.
TakenBy(k) == IF k \in Pulls THEN pulls[k].taken ELSE {}

\* How far a pull's count is: what it fetches is of the durable it looked at
\* last.
InStep(d, c) ==
  /\ d.taken \subseteq OnSide(d.side)
  /\ d.pc # "fetch" => d.taken = {}
  /\ d.pc = "idle" => d.side = "inbox"
  /\ d.pc \in {"look", "fetch"} => c.pc = "looks"
  /\ d.pc = "look" => c.sides = IF d.side = "inbox" THEN {} ELSE {"inbox"}
  /\ d.pc = "fetch" => c.sides = IF d.side = "inbox" THEN {"inbox"} ELSE Sides

\* Every count is one the lemmas above are about.
Sound(k) == Fit(counts[k]) /\ Covers(counts[k], TakenBy(k))

CountsSound ==
  /\ counts \in [Counting -> Count]
  /\ \A k \in Counting : Sound(k)
  /\ \A p \in Pulls : InStep(pulls[p], counts[p])
  /\ \A k \in Counters : counts[k].pc = "looks" => counts[k].sides = {"inbox"}

\* Where the head of the loop leads.
LEMMA RoundGoesOn ==
  ASSUME NEW d \in Pull, NEW available \in 0..MaxCopies, NEW again \in BOOLEAN
  PROVE  LET r == Round(d, available, again) IN
         /\ r.taken = {}
         /\ \/ r.pc = "fetch" /\ r.side = d.side
            \/ r.pc = "look" /\ d.side = "inbox" /\ r.side = "broadcast"
            \/ r.pc = "handout" /\ d.side # "inbox"
<1> DEFINE r == Round(d, available, again)
<1>1. CASE again /\ d.round < MaxRounds /\ Want(d, available) > 0
  <2>1. r = [d EXCEPT !.pc = "fetch", !.round = @ + 1, !.available = available,
                      !.want = Want(d, available), !.taken = {}, !.dropped = FALSE]
    BY <1>1 DEF Round
  <2>2. r.pc = "fetch" /\ r.side = d.side /\ r.taken = {}
    <3> HIDE DEF r
    <3> QED BY <2>1 DEF Pull
  <2> QED BY <2>2
<1>2. CASE ~(again /\ d.round < MaxRounds /\ Want(d, available) > 0) /\ d.side = "inbox"
  <2>1. r = [d EXCEPT !.pc = "look", !.side = "broadcast", !.round = 0, !.taken = {}]
    BY <1>2 DEF Round
  <2>2. r.pc = "look" /\ r.side = "broadcast" /\ r.taken = {}
    <3> HIDE DEF r
    <3> QED BY <2>1 DEF Pull
  <2> QED BY <1>2, <2>2
<1>3. CASE ~(again /\ d.round < MaxRounds /\ Want(d, available) > 0) /\ d.side # "inbox"
  <2>1. r = [d EXCEPT !.pc = "handout", !.available = available, !.taken = {}]
    BY <1>3 DEF Round
  <2>2. r.pc = "handout" /\ r.taken = {}
    <3> HIDE DEF r
    <3> QED BY <2>1 DEF Pull
  <2> QED BY <1>3, <2>2
<1> QED BY <1>1, <1>2, <1>3

\* The count of a pull after a look or a fetch.
LEMMA PulledCount ==
  ASSUME Shape, NEW p \in Pulls, NEW c, Fit(c), Covers(c, {}), c.pc = "looks",
         NEW d \in Pull, pulls'[p] = d, d.taken = {},
         \/ d.pc = "fetch" /\ c.sides = IF d.side = "inbox" THEN {"inbox"} ELSE Sides
         \/ d.pc = "look" /\ d.side = "broadcast" /\ c.sides = {"inbox"}
         \/ d.pc = "handout" /\ c.sides = Sides
  PROVE  /\ Pulled(p, c) \in Count /\ Fit(Pulled(p, c)) /\ Covers(Pulled(p, c), {})
         /\ InStep(d, Pulled(p, c))
<1>1. c \in Count
  BY DEF Fit
<1>2. CASE d.pc # "handout"
  <2>1. Pulled(p, c) = c
    BY <1>2 DEF Pulled
  <2> QED BY <1>1, <1>2, <2>1 DEF InStep
<1>3. CASE d.pc = "handout"
  <2>1. PICK pc \in {"bounds", "answer"} : pc = IF c.broadcast > 0 THEN "bounds" ELSE "answer"
    OBVIOUS
  <2>2. Pulled(p, c) = [c EXCEPT !.pc = pc, !.last = c.last]
    <3>1. Pulled(p, c) = [c EXCEPT !.pc = pc]
      BY <1>3, <2>1 DEF Pulled, Counted
    <3>2. [c EXCEPT !.pc = pc] = [c EXCEPT !.pc = pc, !.last = c.last]
      BY <1>1 DEF Count
    <3> QED BY <3>1, <3>2
  <2>3. Fit(Pulled(p, c)) /\ Covers(Pulled(p, c), {})
    <3>1. c.sides = Sides
      BY <1>3
    <3>2. PICK e : e = [c EXCEPT !.pc = pc, !.last = c.last]
      OBVIOUS
    <3>3. Fit(e) /\ Covers(e, {})
      BY <3>1, <3>2, CountedCount
    <3> QED BY <2>2, <3>2, <3>3
  <2> QED BY <1>3, <2>3 DEF InStep, Fit
<1> QED BY <1>2, <1>3

\* A step of a pull, but a take, ends with nothing in hand.
LEMMA CountedPullStep ==
  ASSUME Shape, TriedFit, CountsSound, NEW p \in Pulls, CountedPull(p),
         ~(Take(p) /\ UNCHANGED counts)
  PROVE  \E d \in Pull, e \in Count :
           /\ pulls'[p] = d /\ d.taken = {} /\ counts' = [counts EXCEPT ![p] = e]
           /\ Fit(e) /\ Covers(e, {}) /\ InStep(d, e)
<1>1. PICK c \in Count : c = counts[p]
  BY DEF CountsSound, Counting
<1>2. PICK d \in Pull : d = pulls[p]
  BY RestType
<1>3. /\ Fit(c) /\ Covers(c, d.taken) /\ InStep(d, c)
      /\ d.kept \subseteq Seqs /\ d.side \in Sides
      /\ pulls \in [Pulls -> Pull] /\ counts \in [Counting -> Count] /\ p \in Counting
  <2>1. Sound(p) /\ p \in Counting
    BY DEF CountsSound, Counting
  <2>2. d.side \in Sides
    BY DEF Pull
  <2> QED BY <1>1, <1>2, <2>1, <2>2, RestType DEF CountsSound, Sound, TakenBy
<1>4. CASE Begin(p) /\ Goes(p, Fresh)
  <2>1. PICK blind \in BOOLEAN : pulls' = [pulls EXCEPT ![p].pc = "look", ![p].blind = blind]
    BY <1>4 DEF Begin
  <2>2. d.pc = "idle" /\ d.side = "inbox" /\ d.taken = {}
    BY <1>2, <1>3, <1>4 DEF Begin, At, InStep
  <2>3. PICK r : r = [d EXCEPT !.pc = "look", !.blind = blind]
    OBVIOUS
  <2>4. r \in Pull /\ r.pc = "look" /\ r.side = "inbox" /\ r.taken = {}
    BY <2>2, <2>3 DEF Pull
  <2>5. pulls'[p] = r
    BY <1>2, <1>3, <2>1, <2>3 DEF Pull
  <2>6. /\ Fit(Fresh) /\ Covers(Fresh, {}) /\ Fresh.pc = "looks" /\ Fresh.sides = {}
    BY FreshCount
  <2>7. InStep(r, Fresh)
    BY <2>4, <2>6 DEF InStep
  <2>8. Fresh \in Count /\ counts' = [counts EXCEPT ![p] = Fresh]
    BY <1>4, <2>6 DEF Goes, Fit
  <2> QED BY <2>4, <2>5, <2>6, <2>7, <2>8
<1>5. CASE Look(p) /\ Goes(p, Pulled(p, Seen(counts[p], pulls[p].side)))
  <2>1. /\ d.pc = "look" /\ d.taken = {}
        /\ c.pc = "looks" /\ c.sides = IF d.side = "inbox" THEN {} ELSE {"inbox"}
    BY <1>2, <1>3, <1>5 DEF Look, At, InStep
  <2>2. PICK available \in 0..MaxCopies : available = Pending(d.side)
    <3>1. {n \in OnSide(d.side) : stream[n].at \in {"ready", "out"}} \in SUBSET Seqs
      BY DEF OnSide
    <3> QED BY <3>1, CountOfCopies DEF Shape, Pending
  <2>3. PICK r \in Pull : r = Round(d, available, TRUE)
    BY RoundType
  <2>4. pulls'[p] = r
    BY <1>2, <1>3, <1>5, <2>2, <2>3 DEF Look
  <2>5. /\ r.taken = {}
        /\ \/ r.pc = "fetch" /\ r.side = d.side
           \/ r.pc = "look" /\ d.side = "inbox" /\ r.side = "broadcast"
           \/ r.pc = "handout" /\ d.side # "inbox"
    BY <2>3, RoundGoesOn
  <2>6. PICK s : s = Seen(c, d.side)
    OBVIOUS
  <2>7. /\ Fit(s) /\ Covers(s, {}) /\ s.pc = "looks"
        /\ s.sides = IF d.side = "inbox" THEN {"inbox"} ELSE Sides
    <3>1. d.side \notin c.sides /\ Covers(c, {})
      BY <1>3, <2>1 DEF Sides
    <3>2. /\ Fit(s) /\ Covers(s, {}) /\ s.pc = "looks" /\ s.sides = c.sides \cup {d.side}
      BY <1>3, <2>1, <2>6, <3>1, SeenCount
    <3> QED BY <1>3, <2>1, <3>2 DEF Sides
  <2>8. /\ Pulled(p, s) \in Count /\ Fit(Pulled(p, s)) /\ Covers(Pulled(p, s), {})
        /\ InStep(r, Pulled(p, s))
    BY <1>3, <2>4, <2>5, <2>7, PulledCount DEF Sides
  <2>9. counts' = [counts EXCEPT ![p] = Pulled(p, s)]
    BY <1>1, <1>2, <1>5, <2>6 DEF Goes
  <2> QED BY <2>4, <2>5, <2>8, <2>9
<1>6. CASE FetchEnds(p) /\ Goes(p, Pulled(p, Fetched(counts[p], pulls[p])))
  <2>1. /\ d.pc = "fetch" /\ d.taken \subseteq OnSide(d.side)
        /\ c.pc = "looks" /\ c.sides = IF d.side = "inbox" THEN {"inbox"} ELSE Sides
    BY <1>2, <1>3, <1>6 DEF FetchEnds, At, InStep
  <2>2. \E available \in 0..MaxCopies, again \in BOOLEAN :
           pulls' = [pulls EXCEPT ![p] = Round(d, available, again)]
    <3>1. d.available \in 0..MaxCopies /\ Cardinality(d.taken) \in Nat
      BY CountOfPull DEF Pull
    <3>2. (IF d.available > Cardinality(d.taken) THEN d.available - Cardinality(d.taken) ELSE 0)
             \in 0..MaxCopies
      BY <3>1, ConstantsAssumption
    <3>3. (Cardinality(d.taken) = d.want /\ d.dropped) \in BOOLEAN
      OBVIOUS
    <3> QED BY <1>2, <1>6, <3>2, <3>3 DEF FetchEnds
  <2>3. PICK available \in 0..MaxCopies, again \in BOOLEAN :
           pulls' = [pulls EXCEPT ![p] = Round(d, available, again)]
    BY <2>2
  <2>4. PICK r \in Pull : r = Round(d, available, again)
    BY RoundType
  <2>5. pulls'[p] = r
    BY <1>3, <2>3, <2>4
  <2>6. /\ r.taken = {}
        /\ \/ r.pc = "fetch" /\ r.side = d.side
           \/ r.pc = "look" /\ d.side = "inbox" /\ r.side = "broadcast"
           \/ r.pc = "handout" /\ d.side # "inbox"
    BY <2>4, RoundGoesOn
  <2>7. PICK s : s = Fetched(c, d)
    OBVIOUS
  <2>8. Fit(s) /\ Covers(s, {}) /\ s.pc = "looks" /\ s.sides = c.sides
    BY <1>3, <2>1, <2>7, FetchedCount DEF Sides
  <2>9. /\ Pulled(p, s) \in Count /\ Fit(Pulled(p, s)) /\ Covers(Pulled(p, s), {})
        /\ InStep(r, Pulled(p, s))
    BY <1>3, <2>1, <2>5, <2>6, <2>8, PulledCount DEF Sides
  <2>10. counts' = [counts EXCEPT ![p] = Pulled(p, s)]
    BY <1>1, <1>2, <1>6, <2>7 DEF Goes
  <2> QED BY <2>5, <2>6, <2>9, <2>10
<1>7. CASE MarkReadFails(p) /\ UNCHANGED counts
  <2>1. PICK r : r = [d EXCEPT !.pc = "retry"]
    OBVIOUS
  <2>2. r \in Pull /\ r.pc = "retry" /\ r.taken = d.taken
    BY <2>1 DEF Pull
  <2>3. pulls'[p] = r
    BY <1>2, <1>3, <1>7, <2>1 DEF MarkReadFails
  <2>4. d.pc = "handout" /\ d.taken = {}
    BY <1>2, <1>3, <1>7 DEF MarkReadFails, At, InStep
  <2>5. counts' = [counts EXCEPT ![p] = c]
    BY <1>1, <1>3, <1>7
  <2>6. InStep(r, c)
    BY <2>2, <2>4 DEF InStep
  <2> QED BY <1>3, <2>2, <2>3, <2>4, <2>5, <2>6
<1>8. ASSUME pulls'[p] = Idle, Goes(p, NoCount)
      PROVE  \E r \in Pull, e \in Count :
               /\ pulls'[p] = r /\ r.taken = {} /\ counts' = [counts EXCEPT ![p] = e]
               /\ Fit(e) /\ Covers(e, {}) /\ InStep(r, e)
  <2>1. Fit(NoCount) /\ Covers(NoCount, {}) /\ NoCount \in Count
    BY FreshCount DEF Fit
  <2>2. Idle \in Pull /\ Idle.taken = {} /\ Idle.pc = "idle" /\ Idle.side = "inbox"
    BY IdleType DEF Idle
  <2>3. InStep(Idle, NoCount)
    BY <2>2 DEF InStep
  <2> QED BY <1>8, <2>1, <2>2, <2>3 DEF Goes
<1>9. CASE /\ HandOut(p) \/ HandOutUnnoted(p) \/ MarkReadAgain(p) \/ MarkReadGivesUp(p)
           /\ Goes(p, NoCount)
  <2>1. Answer(p)
    BY <1>9 DEF HandOut, HandOutUnnoted, MarkReadAgain, MarkReadGivesUp
  <2> QED BY <1>8, <1>9, <2>1, AnswerType
<1>10. CASE PullFails(p) /\ Goes(p, NoCount)
  BY <1>8, <1>10, ShapePullFails
<1> QED BY <1>4, <1>5, <1>6, <1>7, <1>9, <1>10 DEF CountedPull

\* A take adds a copy that was ready to what is in hand.
LEMMA CountedTake ==
  ASSUME Shape, CountsSound, NEW p \in Pulls, Take(p)
  PROVE  \E d \in Pull :
           /\ pulls'[p] = d /\ InStep(d, counts[p])
           /\ \A n \in d.taken : n \in TakenBy(p) \/ (n \in Seqs /\ stream[n].at = "ready")
<1>1. PICK d \in Pull : d = pulls[p]
  BY RestType
<1>2. PICK n \in Seqs : TakeDropped(p, n) \/ TakeKept(p, n) \/ TakeUnjudged(p, n)
  BY DEF Take
<1>3. \E f \in Pull : /\ HandOver(p, n, f) /\ f.pc = d.pc /\ f.side = d.side
                      /\ f.taken = d.taken
  <2>1. n \in 1..MaxCopies /\ stream[n].id \in Ids
    <3>1. Len(stream) \in Nat /\ Len(stream) <= MaxCopies
      BY StreamType DEF Shape
    <3>2. stream[n].id \in Ids
      BY StreamType DEF Shape
    <3> QED BY <3>1, <3>2, ConstantsAssumption DEF Seqs
  <2>2. CASE TakeDropped(p, n)
    <3> DEFINE again == (~IsOwn(stream[n].id) /\ ~SeenBefore(d, stream[n].id)) /\ d.side = "inbox"
    <3>1. PICK f : f = [d EXCEPT !.dropped = TRUE, !.ranOut =
                          IF again THEN @ \cup {stream[n].id} ELSE @]
      OBVIOUS
    <3>2. HandOver(p, n, f)
      BY <1>1, <2>2, <3>1 DEF TakeDropped
    <3>3. f \in Pull /\ f.pc = d.pc /\ f.side = d.side /\ f.taken = d.taken
      <4> HIDE DEF again
      <4>1. d.ranOut \subseteq Ids
        BY DEF Pull
      <4>2. (IF again THEN d.ranOut \cup {stream[n].id} ELSE d.ranOut) \in SUBSET Ids
        BY <2>1, <4>1
      <4> QED BY <3>1, <4>2 DEF Pull
    <3> QED BY <3>1, <3>2, <3>3
  <2>3. CASE TakeKept(p, n) \/ TakeUnjudged(p, n)
    <3>1. PICK f : f = [d EXCEPT !.kept = @ \cup {n}]
      OBVIOUS
    <3>2. d.kept \cup {n} \in SUBSET (1..MaxCopies)
      BY <2>1 DEF Pull
    <3>3. f \in Pull /\ f.pc = d.pc /\ f.side = d.side /\ f.taken = d.taken
      BY <3>1, <3>2 DEF Pull
    <3>4. HandOver(p, n, f)
      BY <1>1, <2>3, <3>1 DEF TakeKept, TakeUnjudged
    <3> QED BY <3>3, <3>4
  <2> QED BY <1>2, <2>2, <2>3
<1>4. PICK f \in Pull : /\ HandOver(p, n, f) /\ f.pc = d.pc /\ f.side = d.side
                       /\ f.taken = d.taken
  BY <1>3
<1>5. PICK g : g = [f EXCEPT !.taken = f.taken \cup {n}]
  OBVIOUS
<1>6. n \in Ready(d.side) /\ pulls' = [pulls EXCEPT ![p] = g]
  BY <1>4, <1>5 DEF HandOver, Pull
<1>7. pulls'[p] = g /\ n \in OnSide(d.side) /\ stream[n].at = "ready"
  BY <1>6, RestType DEF Ready
<1>8. g \in Pull /\ g.pc = d.pc /\ g.side = d.side /\ g.taken = d.taken \cup {n}
  <2>1. n \in 1..MaxCopies
    <3>1. Len(stream) \in Nat /\ Len(stream) <= MaxCopies
      BY StreamType DEF Shape
    <3> QED BY <3>1, ConstantsAssumption DEF Seqs
  <2>2. f.taken \cup {n} \in SUBSET (1..MaxCopies)
    BY <2>1 DEF Pull
  <2> QED BY <1>4, <1>5, <2>2 DEF Pull
<1>9. d.pc = "fetch"
  BY <1>1 DEF Take, At
<1>10. InStep(d, counts[p])
  BY <1>1 DEF CountsSound
<1>11. InStep(g, counts[p])
  BY <1>7, <1>8, <1>9, <1>10 DEF InStep
<1> QED BY <1>1, <1>7, <1>8, <1>11 DEF TakenBy
\* What a step of the broker, the senders or the pulls leaves of a copy.
LEMMA StepOfCopies ==
  ASSUME Shape, [Next]_vars
  PROVE  /\ Shape' /\ IdsStay
         /\ \A n \in Seqs : stream'[n].at \in {"ready", "out"} => stream[n].at \in {"ready", "out"}
<1>1. CASE Next
  BY <1>1, ShapeStep, OverStays
<1>2. CASE UNCHANGED vars
  BY <1>2, ShapeStutter, StreamStays DEF vars
<1> QED BY <1>1, <1>2

LEMMA StepOfCount ==
  ASSUME Shape, [Next]_vars, NEW c, Fit(c), NEW taken, NEW more, Covers(c, taken),
         \A n \in more : n \in taken \/ (n \in Seqs /\ stream[n].at = "ready")
  PROVE  Fit(c)' /\ Covers(c, more)'
BY StepOfCopies, CountStays

LEMMA StepOfPull ==
  ASSUME IdsStay, NEW d, NEW c, InStep(d, c)
  PROVE  InStep(d, c)'
<1>1. OnSide(d.side) \subseteq OnSide(d.side)'
  BY DEF OnSide, IdsStay
<1> QED BY <1>1 DEF InStep

\* A count that the step leaves alone, with what its call has in hand.
LEMMA SoundStays ==
  ASSUME Shape, CountsSound, [Next]_vars, NEW k \in Counting, counts'[k] = counts[k],
         \A n \in TakenBy(k)' : n \in TakenBy(k) \/ (n \in Seqs /\ stream[n].at = "ready")
  PROVE  Sound(k)'
<1>1. PICK c : c = counts[k]
  OBVIOUS
<1>2. PICK taken : taken = TakenBy(k)
  OBVIOUS
<1>3. PICK more : more = TakenBy(k)'
  OBVIOUS
<1>4. Fit(c) /\ Covers(c, taken)
  BY <1>1, <1>2 DEF CountsSound, Sound
<1>5. Fit(c)' /\ Covers(c, more)'
  BY <1>2, <1>3, <1>4, StepOfCount
<1> QED BY <1>1, <1>3, <1>5 DEF Sound

\* A count that the step sets, with nothing in hand.
LEMMA SoundNew ==
  ASSUME Shape, [Next]_vars, NEW k \in Counting, NEW c, Fit(c), Covers(c, {}),
         counts'[k] = c, TakenBy(k)' = {}
  PROVE  Sound(k)'
<1>1. PICK none : none = {}
  OBVIOUS
<1>2. Fit(c)' /\ Covers(c, none)'
  BY <1>1, StepOfCount
<1> QED BY <1>1, <1>2 DEF Sound

\* The pulls of a step that is not a pull's.
LEMMA PullsAside ==
  ASSUME Around \/ UNCHANGED vars
  PROVE  pulls' = pulls
<1>1. CASE UNCHANGED vars
  BY <1>1 DEF vars
<1>2. CASE Around
  BY <1>2 DEF Around, BrokerStep, AckArrives, AckLost, AckWaitEnds, RecordDeadLetter,
              AdvisoryLost, Arrive, RunsOut, Sweep, StoreRow
<1> QED BY <1>1, <1>2

\* A step of a pull is one of the receive path, and no other call's.
LEMMA CountedIsStep ==
  ASSUME Shape, counts \in [Counting -> Count], NEW p \in Pulls, CountedPull(p)
  PROVE  /\ Next /\ \A q \in Pulls \ {p} : pulls'[q] = pulls[q]
         /\ \A k \in Counting \ {p} : counts'[k] = counts[k]
<1>1. PullStep(p)
  BY DEF CountedPull, PullStep, Progress
<1>2. \A q \in Pulls \ {p} : pulls'[q] = pulls[q]
  <2>1. CASE Begin(p) \/ Look(p) \/ FetchEnds(p) \/ MarkReadFails(p) \/ PullFails(p)
    BY <2>1, ShapeBegin, ShapeLoop, ShapeMarkReadFails, ShapePullFails
  <2>2. CASE HandOut(p) \/ HandOutUnnoted(p) \/ MarkReadAgain(p) \/ MarkReadGivesUp(p)
    BY <2>2, AnswerType DEF HandOut, HandOutUnnoted, MarkReadAgain, MarkReadGivesUp
  <2>3. CASE Take(p)
    <3>1. \E n, f : HandOver(p, n, f)
      BY <2>3 DEF Take, TakeDropped, TakeKept, TakeUnjudged
    <3> QED BY <3>1, RestType DEF HandOver
  <2> QED BY <1>1, <2>1, <2>2, <2>3 DEF PullStep, Progress
<1>3. \A k \in Counting \ {p} : counts'[k] = counts[k]
  BY DEF CountedPull, Goes
<1> QED BY <1>1, <1>2, <1>3 DEF Next

\* A step of a count without a pull, or of one whose pull is over.
LEMMA CountStep ==
  ASSUME Shape, TriedFit, CountsSound, NEW k \in Counting,
         \/ k \in Counters /\ (CountBegins(k) \/ CountGoesOn(k) \/ CountEnds(k))
         \/ StreamBounds(k)
  PROVE  \E c \in Count :
           /\ counts' = [counts EXCEPT ![k] = c] /\ Fit(c) /\ Covers(c, {})
           /\ IF c.pc = "looks" THEN k \in Counters /\ c.sides = {"inbox"}
              ELSE counts[k].pc = "looks" => k \in Counters
           /\ TakenBy(k) = {}
<1>1. PICK c \in Count : c = counts[k]
  BY DEF CountsSound
<1>2. Fit(c) /\ Covers(c, TakenBy(k))
  BY <1>1 DEF CountsSound, Sound
<1>3. k \in Counters => k \notin Pulls /\ TakenBy(k) = {}
  BY CountersAssumption DEF TakenBy
<1>4. CASE k \in Counters /\ CountBegins(k)
  <2>1. PICK f : f = Fresh
    OBVIOUS
  <2>2. Fit(f) /\ Covers(f, {}) /\ f.pc = "looks" /\ f.sides = {}
    BY <2>1, FreshCount
  <2>3. PICK s : s = Seen(f, "inbox")
    OBVIOUS
  <2>4. Fit(s) /\ Covers(s, {}) /\ s.sides = {"inbox"} /\ s.pc = "looks"
    BY <2>2, <2>3, SeenCount DEF Sides
  <2>5. s \in Count /\ counts' = [counts EXCEPT ![k] = s]
    BY <1>4, <2>1, <2>3, <2>4 DEF CountBegins, Goes, Fit
  <2> QED BY <1>3, <1>4, <2>4, <2>5
<1>5. CASE k \in Counters /\ CountGoesOn(k)
  <2>1. c.pc = "looks" /\ c.sides = {"inbox"} /\ Covers(c, {})
    BY <1>1, <1>2, <1>3, <1>5 DEF CountGoesOn, CountsSound
  <2>2. PICK s : s = Seen(c, "broadcast")
    OBVIOUS
  <2>3. Fit(s) /\ Covers(s, {}) /\ s.sides = Sides
    <3>1. "broadcast" \notin c.sides /\ "broadcast" \in Sides
      BY <2>1 DEF Sides
    <3>2. Fit(s) /\ Covers(s, {}) /\ s.sides = c.sides \cup {"broadcast"}
      BY <1>2, <2>1, <2>2, <3>1, SeenCount
    <3> QED BY <2>1, <3>2 DEF Sides
  <2>4. PICK pc \in {"bounds", "answer"} : pc = IF s.broadcast > 0 THEN "bounds" ELSE "answer"
    OBVIOUS
  <2>5. PICK e : e = [s EXCEPT !.pc = pc, !.last = s.last]
    OBVIOUS
  <2>6. Fit(e) /\ Covers(e, {})
    BY <2>3, <2>5, CountedCount
  <2>7. e = Counted(s) /\ e.pc = pc
    BY <2>3, <2>4, <2>5 DEF Counted, Fit, Count
  <2>8. e \in Count /\ counts' = [counts EXCEPT ![k] = e]
    BY <1>1, <1>5, <2>2, <2>6, <2>7 DEF CountGoesOn, Goes, Fit
  <2> QED BY <1>3, <1>5, <2>6, <2>7, <2>8
<1>6. CASE k \in Counters /\ CountEnds(k)
  <2>1. Fit(NoCount) /\ Covers(NoCount, {}) /\ NoCount.pc = "idle"
    BY FreshCount
  <2> QED BY <1>3, <1>6, <2>1 DEF CountEnds, Goes, Fit
<1>7. CASE StreamBounds(k)
  <2>1. PICK last \in {0, Len(stream)} : Goes(k, [counts[k] EXCEPT !.pc = "answer", !.last = last])
    BY <1>7 DEF StreamBounds
  <2>2. c.pc = "bounds" /\ c.sides = Sides
    BY <1>1, <1>2, <1>7 DEF StreamBounds, Fit
  <2>3. TakenBy(k) = {}
    BY <1>1, <2>2 DEF TakenBy, CountsSound, InStep
  <2>4. PICK e : e = [c EXCEPT !.pc = "answer", !.last = last]
    OBVIOUS
  <2>5. Fit(e) /\ Covers(e, {})
    BY <1>2, <2>1, <2>2, <2>3, <2>4, CountedCount
  <2>6. e.pc = "answer" /\ e \in Count /\ counts' = [counts EXCEPT ![k] = e]
    BY <1>1, <2>1, <2>4, <2>5 DEF Goes, Fit, Count
  <2> QED BY <1>1, <2>2, <2>3, <2>5, <2>6
<1> QED BY <1>4, <1>5, <1>6, <1>7

LEMMA CountsSoundStep ==
  ASSUME Shape, TriedFit, CountsSound, CountsNext
  PROVE  [Next]_vars /\ CountsSound'
<1>1. /\ counts \in [Counting -> Count] /\ Pulls \subseteq Counting /\ Counters \subseteq Counting
      /\ \A p \in Pulls : p \notin Counters
  BY CountersAssumption DEF CountsSound, Counting
<1>2. ASSUME NEW p \in Pulls, CountedPull(p)
      PROVE  [Next]_vars /\ CountsSound'
  <2>1. /\ Next /\ \A q \in Pulls \ {p} : pulls'[q] = pulls[q]
        /\ \A k \in Counting \ {p} : counts'[k] = counts[k]
    BY <1>1, <1>2, CountedIsStep
  <2>2. \A k \in Counting \ {p} : Sound(k)'
    <3>1. \A k \in Counting \ {p} : TakenBy(k)' = TakenBy(k)
      BY <2>1 DEF TakenBy
    <3> QED BY <2>1, <3>1, SoundStays
  <2>3. IdsStay
    BY <2>1, StepOfCopies
  <2>4. \A q \in Pulls \ {p} : InStep(pulls[q], counts[q])'
    <3> SUFFICES ASSUME NEW q \in Pulls \ {p}
                 PROVE  InStep(pulls[q], counts[q])'
      OBVIOUS
    <3>1. PICK d : d = pulls[q]
      OBVIOUS
    <3>2. PICK c : c = counts[q]
      OBVIOUS
    <3>3. InStep(d, c) /\ pulls'[q] = d /\ counts'[q] = c
      BY <1>1, <2>1, <3>1, <3>2 DEF CountsSound
    <3>4. InStep(d, c)'
      BY <2>3, <3>3, StepOfPull
    <3> QED BY <3>3, <3>4
  <2>5. /\ counts' \in [Counting -> Count] /\ Sound(p)' /\ InStep(pulls[p], counts[p])'
    <3>1. CASE Take(p) /\ UNCHANGED counts
      <4>1. counts' = counts
        BY <3>1
      <4>2. PICK d \in Pull :
               /\ pulls'[p] = d /\ InStep(d, counts[p])
               /\ \A n \in d.taken : n \in TakenBy(p) \/ (n \in Seqs /\ stream[n].at = "ready")
        BY <3>1, CountedTake
      <4>3. PICK c : c = counts[p]
        OBVIOUS
      <4>4. InStep(d, c)'
        BY <2>3, <4>2, <4>3, StepOfPull
      <4>5. TakenBy(p)' = d.taken
        BY <4>2 DEF TakenBy
      <4>6. Sound(p)'
        BY <1>1, <2>1, <4>1, <4>2, <4>5, SoundStays
      <4> QED BY <1>1, <4>1, <4>2, <4>3, <4>4, <4>6
    <3>2. CASE ~(Take(p) /\ UNCHANGED counts)
      <4>1. PICK d \in Pull, e \in Count :
               /\ pulls'[p] = d /\ d.taken = {} /\ counts' = [counts EXCEPT ![p] = e]
               /\ Fit(e) /\ Covers(e, {}) /\ InStep(d, e)
        BY <1>2, <3>2, CountedPullStep
      <4>2. counts'[p] = e /\ counts' \in [Counting -> Count]
        BY <1>1, <4>1
      <4>3. InStep(d, e)'
        BY <2>3, <4>1, StepOfPull
      <4>4. TakenBy(p)' = {}
        BY <4>1 DEF TakenBy
      <4>5. Sound(p)'
        BY <1>1, <2>1, <4>1, <4>2, <4>4, SoundNew
      <4> QED BY <4>1, <4>2, <4>3, <4>5
    <3> QED BY <3>1, <3>2
  <2>6. \A k \in Counters : counts'[k].pc = "looks" => counts'[k].sides = {"inbox"}
    BY <1>1, <2>1 DEF CountsSound
  <2> QED BY <2>1, <2>2, <2>4, <2>5, <2>6 DEF CountsSound
<1>3. ASSUME NEW k \in Counting, UNCHANGED vars,
             \/ k \in Counters /\ (CountBegins(k) \/ CountGoesOn(k) \/ CountEnds(k))
             \/ StreamBounds(k)
      PROVE  [Next]_vars /\ CountsSound'
  <2>1. PICK c \in Count :
           /\ counts' = [counts EXCEPT ![k] = c] /\ Fit(c) /\ Covers(c, {})
           /\ IF c.pc = "looks" THEN k \in Counters /\ c.sides = {"inbox"}
              ELSE counts[k].pc = "looks" => k \in Counters
           /\ TakenBy(k) = {}
    BY <1>3, CountStep
  <2>2. /\ counts'[k] = c /\ counts' \in [Counting -> Count]
        /\ \A m \in Counting \ {k} : counts'[m] = counts[m]
    BY <1>1, <2>1
  <2>3. pulls' = pulls /\ IdsStay /\ \A m \in Counting : TakenBy(m)' = TakenBy(m)
    BY <1>3, StreamStays DEF vars, TakenBy
  <2>4. Sound(k)'
    BY <1>3, <2>1, <2>2, <2>3, SoundNew
  <2>5. \A m \in Counting \ {k} : Sound(m)'
    BY <1>3, <2>2, <2>3, SoundStays
  <2>6. ASSUME NEW p \in Pulls
        PROVE  InStep(pulls[p], counts[p])'
    <3>1. PICK d : d = pulls[p]
      OBVIOUS
    <3>2. InStep(d, counts'[p])
      <4>1. InStep(d, counts[p])
        BY <3>1 DEF CountsSound
      <4>2. CASE p # k
        BY <1>1, <2>2, <4>1, <4>2
      <4>3. CASE p = k
        BY <1>1, <2>1, <2>2, <4>1, <4>3 DEF InStep
      <4> QED BY <4>2, <4>3
    <3>3. PICK e : e = counts'[p]
      OBVIOUS
    <3>4. InStep(d, e)'
      BY <2>3, <3>2, <3>3, StepOfPull
    <3> QED BY <2>3, <3>1, <3>3, <3>4
  <2>7. \A m \in Counters : counts'[m].pc = "looks" => counts'[m].sides = {"inbox"}
    BY <1>1, <2>1, <2>2 DEF CountsSound
  <2> QED BY <1>3, <2>2, <2>4, <2>5, <2>6, <2>7 DEF CountsSound
<1>4. CASE UNCHANGED counts /\ (Around \/ UNCHANGED vars)
  <2>1. [Next]_vars /\ pulls' = pulls
    BY <1>4, PullsAside DEF Around, Next
  <2>2. IdsStay /\ \A k \in Counting : TakenBy(k)' = TakenBy(k)
    BY <2>1, StepOfCopies DEF TakenBy
  <2>3. \A k \in Counting : Sound(k)'
    BY <1>4, <2>1, <2>2, SoundStays
  <2>4. ASSUME NEW p \in Pulls
        PROVE  InStep(pulls[p], counts[p])'
    <3>1. PICK d : d = pulls[p]
      OBVIOUS
    <3>2. PICK c : c = counts[p]
      OBVIOUS
    <3>3. InStep(d, c)
      BY <3>1, <3>2 DEF CountsSound
    <3>4. InStep(d, c)'
      BY <2>2, <3>3, StepOfPull
    <3> QED BY <1>4, <2>1, <3>1, <3>2, <3>4
  <2> QED BY <1>4, <2>1, <2>3, <2>4 DEF CountsSound
<1>5. ASSUME NEW k \in Counting,
             \/ CountBegins(k) \/ CountGoesOn(k) \/ CountEnds(k) \/ StreamBounds(k)
      PROVE  UNCHANGED vars
  BY <1>5 DEF CountBegins, CountGoesOn, CountEnds, StreamBounds
<1> QED BY <1>1, <1>2, <1>3, <1>4, <1>5 DEF CountsNext
\* How the numbers below add up.
LEMMA Sums ==
  ASSUME NEW w \in Nat, NEW x \in Nat, NEW i \in Nat, NEW m \in Nat, NEW o \in Nat,
         NEW a \in Nat, NEW b \in Nat, NEW h \in Nat, NEW c \in Nat, NEW d \in Nat,
         NEW g \in Nat, i <= m, m = o + a, d + o <= b, h + a <= c, w + i >= x,
         x + (h + g) >= b
  PROVE  w + c + g >= d
OBVIOUS

\* What an answer leaves out of its count are own copies its durable has not
\* reached: the count has them, or they came after it began.
LEMMA CoveredIsEnough ==
  ASSUME Shape, RowsFit, NEW k \in Counting, Sound(k), Answering(k), TakenBy(k) = {}
  PROVE  WaitingFor(counts[k]) + Cardinality(CameBetween(k)) + counts[k].again
           >= Cardinality(StillThere(k))
<1>1. PICK c : c = counts[k]
  OBVIOUS
<1> DEFINE B == Base(c, {})
           H == HadNew(c)
           I == {i \in Own : rows[i] > c.delivered /\ rows[i] <= c.last}
           D == StillThere(k)
           C == CameBetween(k)
           R == {rows[i] : i \in I}
           O == {n \in R : n <= c.since}
           A == {n \in R : n > c.since}
<1>2. Fit(c) /\ Covers(c, {}) /\ c.pc = "answer" /\ c.sides = Sides
  BY <1>1 DEF Sound, Answering, Fit
<1>3. /\ IsFiniteSet(B) /\ Cardinality(B) \in Nat /\ IsFiniteSet(H) /\ Cardinality(H) \in Nat
      /\ IsFiniteSet(Seqs) /\ Seqs \subseteq Nat /\ Len(stream) \in Nat
      /\ c.since \in Nat /\ c.inbox \in Nat /\ c.broadcast \in Nat /\ c.again \in Nat
      /\ c.delivered \in Nat /\ c.last \in Nat /\ c.had \subseteq Seqs /\ c.since <= Len(stream)
  BY <1>2, Sizes DEF Fit
<1>4. \A i \in I : /\ rows[i] \in Seqs /\ stream[rows[i]].id = i /\ i \in Own
                   /\ rows[i] > c.delivered /\ rows[i] <= c.last
  <2>1. ASSUME NEW i \in I
        PROVE  rows[i] \in Seqs /\ stream[rows[i]].id = i
    <3>1. i \in Ids /\ rows[i] > c.delivered /\ rows[i] \in Nat
      BY RestType, ConstantsAssumption
    <3>2. rows[i] # 0
      BY <1>3, <3>1
    <3> QED BY <3>1, <3>2 DEF RowsFit
  <2> QED BY <2>1
<1>5. R \subseteq Seqs /\ \A n \in R : /\ stream[n].id \in Own /\ n > c.delivered /\ n <= c.last
                                        /\ n \notin c.had
  <2>1. ASSUME NEW i \in I
        PROVE  rows[i] \notin c.had
    <3>1. SideOf(stream[rows[i]].id) = "broadcast"
      BY <1>4, ConstantsAssumption DEF SideOf
    <3>2. ~(rows[i] <= c.delivered)
      BY <1>3, <1>4
    <3> QED BY <1>2, <3>1, <3>2 DEF Fit
  <2> QED BY <1>4, <2>1
<1>6. /\ IsFiniteSet(R) /\ Cardinality(R) \in Nat /\ IsFiniteSet(I) /\ Cardinality(I) \in Nat
      /\ Cardinality(I) <= Cardinality(R)
  <2>1. IsFiniteSet(R) /\ Cardinality(R) \in Nat
    BY <1>3, <1>5, FS_Subset, FS_CardinalityType
  <2> DEFINE f == [i \in I |-> rows[i]]
  <2>2. f \in Injection(I, R)
    <3>1. \A i, j \in I : rows[i] = rows[j] => i = j
      BY <1>4
    <3>2. f \in [I -> R]
      OBVIOUS
    <3> HIDE DEF I, R
    <3> QED BY <3>1, <3>2 DEF Injection, IsInjective
  <2> HIDE DEF f, I, R
  <2>3. IsFiniteSet(I) /\ Cardinality(I) <= Cardinality(R)
    BY <2>1, <2>2, FS_Injection
  <2> QED BY <2>1, <2>3, FS_CardinalityType
<1>7. /\ IsFiniteSet(O) /\ IsFiniteSet(A) /\ Cardinality(O) \in Nat /\ Cardinality(A) \in Nat
      /\ Cardinality(R) = Cardinality(O) + Cardinality(A)
  <2>1. R = O \cup A /\ O \cap A = {}
    <3>1. \A n \in R : n \in Nat
      BY <1>3, <1>5
    <3>2. \A n \in R : (n <= c.since \/ n > c.since) /\ ~(n <= c.since /\ n > c.since)
      <4> HIDE DEF R
      <4> QED BY <1>3, <3>1
    <3> HIDE DEF R
    <3> QED BY <3>2
  <2>2. /\ IsFiniteSet(O) /\ IsFiniteSet(A) /\ Cardinality(O) \in Nat /\ Cardinality(A) \in Nat
    BY <1>6, FS_Subset, FS_CardinalityType
  <2> HIDE DEF R, O, A
  <2>3. Cardinality(R) = Cardinality(O) + Cardinality(A) - Cardinality({})
    BY <2>1, <2>2, FS_Union
  <2> QED BY <2>2, <2>3, FS_EmptySet
<1>8. D \cup O \subseteq B /\ D \cap O = {}
  <2>1. ASSUME NEW n \in O
        PROVE  n \in B
    <3>1. n \in Seqs /\ n \in Nat /\ n <= c.since /\ n \notin c.had /\ n > c.delivered
      BY <1>3, <1>5
    <3>2. n \in 1..c.since
      BY <1>3, <3>1 DEF Seqs
    <3>3. SideOf(stream[n].id) = "broadcast" /\ "broadcast" \in c.sides
      BY <1>2, <1>5, ConstantsAssumption DEF SideOf, Sides
    <3> QED BY <3>1, <3>2, <3>3 DEF Base
  <2>2. ASSUME NEW n \in D
        PROVE  n \in B /\ stream[n].id \notin Own
    <3>1. /\ n \in 1..c.since /\ stream[n].at \in {"ready", "out"} /\ stream[n].id \notin Own
          /\ n \notin c.had
      BY <1>1 DEF StillThere
    <3>2. SideOf(stream[n].id) \in c.sides
      BY <1>2 DEF SideOf, Sides
    <3> QED BY <3>1, <3>2 DEF Base
  <2> QED BY <1>5, <2>1, <2>2
<1>9. IsFiniteSet(D) /\ Cardinality(D) \in Nat /\ Cardinality(D) + Cardinality(O) <= Cardinality(B)
  <2> HIDE DEF B, D, O
  <2>1. IsFiniteSet(D) /\ IsFiniteSet(D \cup O) /\ Cardinality(D \cup O) <= Cardinality(B)
    BY <1>3, <1>8, FS_Subset
  <2>2. Cardinality(D \cup O) = Cardinality(D) + Cardinality(O) - Cardinality({})
    BY <1>7, <1>8, <2>1, FS_Union
  <2>3. Cardinality(D) \in Nat
    BY <2>1, FS_CardinalityType
  <2> QED BY <1>3, <1>7, <2>1, <2>2, <2>3, FS_EmptySet
<1>10. H \cup A \subseteq C /\ H \cap A = {} /\ C \subseteq Seqs
  <2>1. C = {n \in (c.since + 1)..Len(stream) : (stream[n].id \in Own /\ n <= c.last) \/ n \in c.had}
    BY <1>1 DEF CameBetween
  <2>2. \A n \in Seqs : n > c.since => n \in (c.since + 1)..Len(stream)
    BY <1>3 DEF Seqs
  <2>3. C \subseteq Seqs
    BY <1>3, <2>1 DEF Seqs
  <2>4. H \subseteq C
    BY <1>3, <2>1, <2>2 DEF HadNew
  <2>5. A \subseteq C
    BY <1>5, <2>1, <2>2
  <2>6. H \cap A = {}
    BY <1>5 DEF HadNew
  <2> QED BY <2>3, <2>4, <2>5, <2>6
<1>11. Cardinality(C) \in Nat /\ Cardinality(H) + Cardinality(A) <= Cardinality(C)
  <2> HIDE DEF H, A, C
  <2>1. IsFiniteSet(C) /\ IsFiniteSet(H \cup A) /\ Cardinality(H \cup A) <= Cardinality(C)
    BY <1>3, <1>10, FS_Subset
  <2>2. Cardinality(H \cup A) = Cardinality(H) + Cardinality(A) - Cardinality({})
    BY <1>3, <1>7, <1>10, FS_Union
  <2>3. Cardinality(C) \in Nat
    BY <2>1, FS_CardinalityType
  <2> QED BY <1>3, <1>7, <2>1, <2>2, <2>3, FS_EmptySet
<1>12. WaitingFor(c) + Cardinality(I) >= c.inbox + c.broadcast /\ WaitingFor(c) \in Nat
  <2>1. OwnBroadcastsBehind(c) = Cardinality(I)
    BY DEF OwnBroadcastsBehind
  <2> HIDE DEF I
  <2>2. SmallerOf(Cardinality(I), c.broadcast) \in Nat
        /\ SmallerOf(Cardinality(I), c.broadcast) <= Cardinality(I)
        /\ SmallerOf(Cardinality(I), c.broadcast) <= c.broadcast
    BY <1>3, <1>6 DEF SmallerOf
  <2>3. WaitingFor(c) = (c.inbox + c.broadcast) - SmallerOf(Cardinality(I), c.broadcast)
    BY <2>1 DEF WaitingFor
  <2> QED BY <1>3, <1>6, <2>2, <2>3
<1>13. (c.inbox + c.broadcast) + (Cardinality(H) + c.again) >= Cardinality(B)
  BY <1>2 DEF Covers
<1>14. WaitingFor(c) + Cardinality(C) + c.again >= Cardinality(D)
  <2> HIDE DEF B, H, I, D, C, R, O, A
  <2>1. PICK x \in Nat : x = c.inbox + c.broadcast
    BY <1>3
  <2>2. x + (Cardinality(H) + c.again) >= Cardinality(B) /\ WaitingFor(c) + Cardinality(I) >= x
    BY <1>12, <1>13, <2>1
  <2> QED BY <1>3, <1>6, <1>7, <1>9, <1>11, <1>12, <2>1, <2>2, Sums
<1> QED BY <1>1, <1>14

\* However own broadcasts, their second copies and rows, redeliveries, other
\* calls and failed looks fall between the steps of a count, the answer's
\* inbox_pending hides no more of the others' mail than CountsHideNothing
\* allows for: for any number of calls, with slow pulls too.
THEOREM Counts == CountsSpec => []CountsHideNothing
<1>1. CountsInit => Shape /\ RowsFit /\ TriedFit /\ CountsSound
  <2> SUFFICES ASSUME CountsInit
               PROVE  Shape /\ RowsFit /\ TriedFit /\ CountsSound
    OBVIOUS
  <2>1. Shape
    BY InitShape DEF CountsInit
  <2>2. /\ Seqs = {} /\ acks = {} /\ (\A i \in Ids : rows[i] = 0)
        /\ \A p \in Pulls : pulls[p] = Idle
    BY EmptySeq DEF CountsInit, Init, Seqs
  <2>3. RowsFit /\ TriedFit
    BY <2>2, IdleType DEF RowsFit, TriedFit
  <2>4. /\ Fit(NoCount) /\ Covers(NoCount, {}) /\ NoCount \in Count /\ NoCount.pc = "idle"
    BY <2>1, FreshCount DEF Fit
  <2>5. \A k \in Counting : counts[k] = NoCount /\ TakenBy(k) = {}
    BY <2>2, IdleType DEF CountsInit, TakenBy
  <2>6. \A p \in Pulls : InStep(pulls[p], counts[p])
    <3>1. Idle.side = "inbox" /\ Idle.taken = {} /\ Idle.pc = "idle"
      BY DEF Idle
    <3> QED BY <2>2, <3>1 DEF InStep
  <2>7. counts \in [Counting -> Count] /\ \A k \in Counting : Sound(k)
    BY <2>4, <2>5 DEF CountsInit, Sound
  <2>8. \A k \in Counters : counts[k].pc # "looks"
    BY <2>4, <2>5 DEF Counting
  <2> QED BY <2>1, <2>3, <2>6, <2>7, <2>8 DEF CountsSound
<1>2. /\ Shape /\ RowsFit /\ TriedFit /\ CountsSound /\ [CountsNext]_countVars
      => Shape' /\ RowsFit' /\ TriedFit' /\ CountsSound'
  <2>1. ASSUME Shape, RowsFit, TriedFit, CountsSound, CountsNext
        PROVE  Shape' /\ RowsFit' /\ TriedFit' /\ CountsSound'
    <3>1. [Next]_vars /\ CountsSound'
      BY <2>1, CountsSoundStep
    <3>2. CASE Next
      BY <2>1, <3>1, <3>2, ShapeStep, RowsStayFit, TriedStays DEF RowsFit
    <3>3. CASE UNCHANGED vars
      <4>1. Shape' /\ Seqs' = Seqs
        BY <2>1, <3>3, ShapeStutter, StreamStays DEF vars
      <4>2. RowsFit' /\ TriedFit'
        BY <2>1, <3>3, <4>1 DEF RowsFit, TriedFit, vars
      <4> QED BY <3>1, <4>1, <4>2
    <3> QED BY <3>1, <3>2, <3>3
  <2>2. ASSUME Shape, RowsFit, TriedFit, CountsSound, UNCHANGED countVars
        PROVE  Shape' /\ RowsFit' /\ TriedFit' /\ CountsSound'
    <3>1. Shape' /\ Seqs' = Seqs /\ UNCHANGED vars /\ counts' = counts
      BY <2>2, ShapeStutter, StreamStays DEF vars, countVars
    <3>2. RowsFit' /\ TriedFit'
      BY <2>2, <3>1 DEF RowsFit, TriedFit, vars
    <3>3. \A k \in Counting : Sound(k)'
      <4>1. stream' = stream /\ pulls' = pulls
        BY <3>1 DEF vars
      <4>2. \A k \in Counting : TakenBy(k)' = TakenBy(k)
        BY <4>1 DEF TakenBy
      <4> QED BY <2>2, <3>1, <4>2, SoundStays
    <3>4. CountsSound'
      <4>1. stream' = stream /\ pulls' = pulls
        BY <3>1 DEF vars
      <4>2. \A p \in Pulls : InStep(pulls[p], counts[p])'
        BY <2>2, <3>1, <4>1 DEF InStep, OnSide, CountsSound
      <4> QED BY <2>2, <3>1, <3>3, <4>2 DEF CountsSound
    <3> QED BY <3>1, <3>2, <3>4
  <2> QED BY <2>1, <2>2
<1>3. Shape /\ RowsFit /\ TriedFit /\ CountsSound => CountsHideNothing
  <2> SUFFICES ASSUME Shape, RowsFit, CountsSound, NEW k \in Counting, Answering(k)
               PROVE  WaitingFor(counts[k]) + Cardinality(CameBetween(k)) + counts[k].again
                        >= Cardinality(StillThere(k))
    BY DEF CountsHideNothing
  <2>1. Sound(k) /\ counts[k].pc = "answer"
    BY DEF CountsSound, Answering
  <2>2. TakenBy(k) = {}
    <3>1. CASE k \in Pulls
      <4>1. pulls[k].pc # "fetch" /\ InStep(pulls[k], counts[k])
        BY <2>1, <3>1 DEF CountsSound, InStep
      <4> QED BY <3>1, <4>1 DEF InStep, TakenBy
    <3> QED BY <3>1 DEF TakenBy
  <2> QED BY <2>1, <2>2, CoveredIsEnough
<1> QED BY <1>1, <1>2, <1>3, PTL DEF CountsSpec

\* Who was handed a message has its read, or a look at the reads or a record
\* of them failed.
ReadOrMissed == \A i \in Ids : handed[i] > 0 => i \in reads \/ misses > 0

LEMMA ReadOrMissedStep ==
  ASSUME Shape, ReadOrMissed, Next
  PROVE  ReadOrMissed'
<1>1. misses \in Nat
  BY RestType
<1>2. CASE UNCHANGED <<handed, reads>> /\ misses' \in {misses, misses + 1}
  BY <1>1, <1>2 DEF ReadOrMissed
<1>3. CASE \E p \in Pulls :
             HandOut(p) \/ HandOutUnnoted(p) \/ MarkReadAgain(p) \/ MarkReadGivesUp(p)
  <2>1. PICK p \in Pulls :
          HandOut(p) \/ HandOutUnnoted(p) \/ MarkReadAgain(p) \/ MarkReadGivesUp(p)
    BY <1>3
  <2> DEFINE K == IdsOf(pulls[p].kept)
  <2>2. Answer(p)
    BY <2>1 DEF HandOut, HandOutUnnoted, MarkReadAgain, MarkReadGivesUp
  <2>3. \A i \in Ids : IF i \in K THEN handed'[i] > handed[i] ELSE handed'[i] = handed[i]
    BY <2>2, AnswerType
  <2>4. \/ reads' = reads \cup K /\ misses' = misses
        \/ reads' = reads /\ misses' = misses + 1
    BY <2>1 DEF HandOut, HandOutUnnoted, MarkReadAgain, MarkReadGivesUp
  <2> HIDE DEF K
  <2> QED BY <1>1, <2>3, <2>4 DEF ReadOrMissed
<1>4. CASE \E p \in Pulls : \/ Begin(p) \/ Look(p) \/ FetchEnds(p)
                            \/ MarkReadFails(p) \/ PullFails(p)
  BY <1>2, <1>4, ShapeBegin, ShapeLoop, ShapeMarkReadFails, ShapePullFails
<1>5. CASE \E p \in Pulls : /\ pulls[p].pc = "fetch"
                            /\ \E n \in Seqs : \/ TakeDropped(p, n)
                                              \/ TakeKept(p, n) \/ TakeUnjudged(p, n)
  BY <1>2, <1>5, DropEffect, KeepEffect
<1>6. CASE \/ \E n \in Seqs : AckArrives(n) \/ AckWaitEnds(n)
           \/ \E i \in Ids : Arrive(i)
           \/ Aside
  <2>1. PullsStay
    BY <1>6, AckArrivesEffect, AckWaitEndsEffect, ArriveEffect, AsideEffect
  <2> QED BY <1>2, <2>1 DEF PullsStay
<1> QED BY Steps, <1>3, <1>4, <1>5, <1>6

\* While pulls end within the ack wait, what mesh_inbox counts as unread can
\* still come, but for failures it names, and what will not come says why.
THEOREM UnreadIsThere == QuickPulls => (Spec => []UnreadCanCome)
<1> SUFFICES ASSUME QuickPulls
             PROVE  Spec => []UnreadCanCome
  OBVIOUS
<1>1. Init => RowsFit /\ ReadOrMissed
  <2> SUFFICES ASSUME Init
               PROVE  RowsFit /\ ReadOrMissed
    OBVIOUS
  <2>1. \A i \in Ids : rows[i] = 0 /\ handed[i] = 0
    BY DEF Init
  <2> QED BY <2>1 DEF RowsFit, ReadOrMissed
<1>2. Shape /\ RowsFit /\ ReadOrMissed /\ [Next]_vars => RowsFit' /\ ReadOrMissed'
  <2>1. RowsFit /\ ReadOrMissed /\ UNCHANGED vars => RowsFit' /\ ReadOrMissed'
    BY DEF RowsFit, ReadOrMissed, Seqs, vars
  <2>2. Shape /\ RowsFit /\ ReadOrMissed /\ Next => RowsFit' /\ ReadOrMissed'
    BY RowsStayFit, ReadOrMissedStep DEF RowsFit
  <2> QED BY <2>1, <2>2
<1>3. Shape /\ NothingLost /\ RowsFit /\ ReadOrMissed => UnreadCanCome
  <2> SUFFICES ASSUME Shape, NothingLost, RowsFit, ReadOrMissed
               PROVE  UnreadCanCome
    OBVIOUS
  <2>1. MeshInbox.unread = Unread /\ MeshInbox.never_handed_out = NeverRead
    BY DEF MeshInbox
  <2>2. ASSUME NEW i \in Unread
        PROVE  InHand(i) \/ Unacked(i) \/ misses > 0 \/ i \in cut \/ i \in Namesake
    <3>1. i \in Ids /\ rows[i] # 0 /\ i \notin Own /\ i \notin reads /\ i \notin past
      BY DEF Unread, NeverRead, Addressed
    <3>2. rows[i] \in Seqs /\ stream[rows[i]].id = i
      BY <3>1 DEF RowsFit
    <3>3. Accounted(i)
      BY <3>2 DEF NothingLost
    <3> QED BY <3>1, <3>3 DEF Accounted, ReadOrMissed
  <2>3. ASSUME NEW i \in NeverRead \ Unread
        PROVE  MeshInbox.messages[i].expired \/ MeshInbox.messages[i].dead_lettered
    <3>1. i \in Addressed /\ i \notin reads /\ i \in past \cup deadNoted
      BY DEF Unread, NeverRead
    <3>2. /\ MeshInbox.messages[i].expired = (i \in past \ reads)
          /\ MeshInbox.messages[i].dead_lettered = (i \in deadNoted)
      BY <3>1 DEF MeshInbox
    <3> QED BY <3>1, <3>2
  <2> QED BY <2>1, <2>2, <2>3 DEF UnreadCanCome
<1> QED BY <1>1, <1>2, <1>3, LostInvariance, PTL DEF Spec
=============================================================================
