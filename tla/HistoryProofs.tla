---------------------------- MODULE HistoryProofs ----------------------------
(***************************************************************************)
(* What the pages tell, for any messages: any ids, parties, times and      *)
(* length of the table, and any team on the board.  Every order on these   *)
(* pages is a sorted set, and an element's place in it is one more than    *)
(* the number of those before it: so a sorting is there, holds each        *)
(* element once and begins with the least.  The inductive invariant of the *)
(* table is about names: whatever is stored or under way names the root of *)
(* a thread, and one row alone can be named otherwise, a legacy table's    *)
(* oldest.                                                                 *)
(***************************************************************************)
EXTENDS MessageTable, Board, FiniteSetTheorems, SequenceTheorems, TLAPS

-----------------------------------------------------------------------------
(***************************************************************************)
(* Order.                                                                  *)
(***************************************************************************)

\* A strict total order of a set, given as pairs.
Orders(R, S) ==
  /\ \A a \in S : <<a, a>> \notin R
  /\ \A a, b \in S : a # b => <<a, b>> \in R \/ <<b, a>> \in R
  /\ \A a, b, c \in S : <<a, b>> \in R /\ <<b, c>> \in R => <<a, c>> \in R

Before(R, S, k) == {j \in S : <<j, k>> \in R}
Place(R, S, k) == Cardinality(Before(R, S, k)) + 1

\* An element's place is in 1 to the size of the set, and tells the order.
LEMMA PlaceIs ==
  ASSUME NEW S, IsFiniteSet(S), NEW R, Orders(R, S)
  PROVE  /\ Cardinality(S) \in Nat
         /\ \A k \in S : Place(R, S, k) \in 1..Cardinality(S)
         /\ \A j, k \in S : <<j, k>> \in R => Place(R, S, j) < Place(R, S, k)
<1>1. Cardinality(S) \in Nat
  BY FS_CardinalityType
<1>2. ASSUME NEW T \in SUBSET S, NEW x \in S \ T
      PROVE  IsFiniteSet(T) /\ Cardinality(T) \in Nat /\ Cardinality(T) < Cardinality(S)
  <2>1. IsFiniteSet(T) /\ Cardinality(T) <= Cardinality(S) /\ Cardinality(T) # Cardinality(S)
    BY <1>2, FS_Subset
  <2>2. Cardinality(T) \in Nat
    BY <2>1, FS_CardinalityType
  <2> QED BY <1>1, <2>1, <2>2
<1>3. \A k \in S : Place(R, S, k) \in 1..Cardinality(S)
  <2> SUFFICES ASSUME NEW k \in S PROVE Place(R, S, k) \in 1..Cardinality(S)
    OBVIOUS
  <2>1. Before(R, S, k) \in SUBSET S /\ k \in S \ Before(R, S, k)
    BY DEF Before, Orders
  <2>2. Cardinality(Before(R, S, k)) \in Nat /\ Cardinality(Before(R, S, k)) < Cardinality(S)
    BY <1>2, <2>1
  <2> QED BY <1>1, <2>2 DEF Place
<1>4. ASSUME NEW j \in S, NEW k \in S, <<j, k>> \in R
      PROVE  Place(R, S, j) < Place(R, S, k)
  <2>1. Before(R, S, j) \in SUBSET Before(R, S, k) /\ j \in Before(R, S, k) /\ j \notin Before(R, S, j)
    BY <1>4 DEF Before, Orders
  <2>2. k \notin Before(R, S, k) /\ Before(R, S, k) \in SUBSET S
    BY DEF Before, Orders
  <2>3. IsFiniteSet(Before(R, S, k)) /\ Cardinality(Before(R, S, k)) \in Nat
    BY <1>2, <2>2
  <2>4. Cardinality(Before(R, S, j)) <= Cardinality(Before(R, S, k))
        /\ Cardinality(Before(R, S, j)) # Cardinality(Before(R, S, k))
    BY <2>1, <2>3, FS_Subset
  <2>5. Cardinality(Before(R, S, j)) \in Nat
    BY <2>1, <2>3, FS_Subset, FS_CardinalityType
  <2> QED BY <2>3, <2>4, <2>5 DEF Place
<1> QED BY <1>1, <1>3, <1>4

\* Sorting puts every element in once, in order.
LEMMA SortedIs ==
  ASSUME NEW S, IsFiniteSet(S), NEW R, Orders(R, S)
  PROVE  /\ Cardinality(S) \in Nat
         /\ Sorted(S, R) \in [1..Cardinality(S) -> S]
         /\ \A k \in S : \E n \in 1..Cardinality(S) : Sorted(S, R)[n] = k
         /\ \A m, n \in 1..Cardinality(S) : m # n => Sorted(S, R)[m] # Sorted(S, R)[n]
         /\ \A m, n \in 1..Cardinality(S) : m < n => <<Sorted(S, R)[m], Sorted(S, R)[n]>> \in R
<1> DEFINE n == Cardinality(S)
           f == [k \in S |-> Place(R, S, k)]
           D == 1..n
<1>1. n \in Nat /\ \A k \in S : Place(R, S, k) \in D
  BY PlaceIs
<1>2. \A j, k \in S : <<j, k>> \in R => f[j] < f[k]
  BY PlaceIs
<1>3. f \in [S -> D]
  BY <1>1
<1>4. \A j, k \in S : f[j] \in Int /\ f[k] \in Int
  BY <1>1, <1>3
<1> HIDE DEF f
<1>5. \A j, k \in S : f[j] = f[k] => j = k
  <2> SUFFICES ASSUME NEW j \in S, NEW k \in S, f[j] = f[k], j # k PROVE FALSE
    OBVIOUS
  <2>1. <<j, k>> \in R \/ <<k, j>> \in R
    BY DEF Orders
  <2>2. f[j] < f[k] \/ f[k] < f[j]
    BY <1>2, <2>1
  <2> QED BY <1>4, <2>2
<1>6. \A j, k \in S : f[j] < f[k] => <<j, k>> \in R
  <2> SUFFICES ASSUME NEW j \in S, NEW k \in S, f[j] < f[k], <<j, k>> \notin R PROVE FALSE
    OBVIOUS
  <2>1. j # k
    BY <1>4
  <2>2. <<k, j>> \in R
    BY <2>1 DEF Orders
  <2>3. f[k] < f[j]
    BY <1>2, <2>2
  <2> QED BY <1>4, <2>3
<1>7. IsFiniteSet(D) /\ Cardinality(D) = n
  BY <1>1, FS_Interval
<1>8. f \in Injection(S, D)
  BY <1>3, <1>5 DEF Injection, IsInjective
<1>9. f \in Surjection(S, D)
  BY <1>7, <1>8, FS_Injection
<1>10. \A m \in D : \E k \in S : f[k] = m
  BY <1>9 DEF Surjection
<1> DEFINE s == [m \in D |-> CHOOSE k \in S : f[k] = m]
           Good(t) == \A a, b \in DOMAIN t : a < b => <<t[a], t[b]>> \in R
<1>11. \A m \in D : s[m] \in S /\ f[s[m]] = m
  BY <1>10
<1>12. s \in [D -> S]
  BY <1>11
<1>13. DOMAIN s = D
  OBVIOUS
<1> HIDE DEF s
<1>14. \A a, b \in D : a # b => s[a] # s[b]
  BY <1>11
<1>15. s \in SetToSeqs(S)
  BY <1>12, <1>14 DEF SetToSeqs
<1>16. Good(s)
  BY <1>6, <1>11, <1>13
<1>17. Sorted(S, R) = CHOOSE t \in SetToSeqs(S) : Good(t)
  BY DEF Sorted
<1> DEFINE t == Sorted(S, R)
<1>18. t \in SetToSeqs(S) /\ Good(t)
  BY <1>15, <1>16, <1>17
<1> HIDE DEF Good
<1>19. t \in [D -> S] /\ \A a, b \in D : a # b => t[a] # t[b]
  BY <1>18 DEF SetToSeqs
<1>20. t \in Injection(D, S)
  BY <1>19 DEF Injection, IsInjective
<1>21. t \in Surjection(D, S)
  BY <1>7, <1>20, FS_Injection
<1>22. \A k \in S : \E m \in D : t[m] = k
  BY <1>21 DEF Surjection
<1>23. \A a, b \in D : a < b => <<t[a], t[b]>> \in R
  BY <1>18, <1>19 DEF Good
<1> QED BY <1>1, <1>19, <1>22, <1>23

\* A finite set of numbers has a least and a greatest one.
LEMMA ExtremesAre ==
  ASSUME NEW T \in SUBSET Nat, IsFiniteSet(T), T # {}
  PROVE  /\ EarliestOf(T) \in T /\ \A b \in T : EarliestOf(T) <= b
         /\ LatestOf(T) \in T /\ \A b \in T : b <= LatestOf(T)
<1> DEFINE R == {e \in T \X T : e[1] < e[2]}
           n == Cardinality(T)
<1>1. \A a, b \in T : <<a, b>> \in R <=> a < b
  OBVIOUS
<1> HIDE DEF R
<1>2. Orders(R, T)
  BY <1>1 DEF Orders
<1> DEFINE s == Sorted(T, R)
<1>3. /\ n \in Nat /\ \A m \in 1..n : s[m] \in T
      /\ \A k \in T : \E m \in 1..n : s[m] = k
      /\ \A m, l \in 1..n : m < l => <<s[m], s[l]>> \in R
  BY <1>2, SortedIs
<1> HIDE DEF s
<1>4. n >= 1
  BY <1>3, FS_EmptySet
<1>5. 1 \in 1..n /\ n \in 1..n
  BY <1>3, <1>4
<1>6. s[1] \in T /\ s[n] \in T
  BY <1>3, <1>5
<1>7. \A m \in 1..n : s[m] \in Nat /\ s[1] <= s[m] /\ s[m] <= s[n]
  <2> SUFFICES ASSUME NEW m \in 1..n PROVE s[m] \in Nat /\ s[1] <= s[m] /\ s[m] <= s[n]
    OBVIOUS
  <2>1. m = 1 \/ s[1] < s[m]
    <3>1. m = 1 \/ 1 < m
      BY <1>3
    <3>2. 1 < m => <<s[1], s[m]>> \in R
      BY <1>3, <1>5
    <3> QED BY <1>1, <1>3, <1>6, <3>1, <3>2
  <2>2. m = n \/ s[m] < s[n]
    <3>1. m = n \/ m < n
      BY <1>3
    <3>2. m < n => <<s[m], s[n]>> \in R
      BY <1>3, <1>5
    <3> QED BY <1>1, <1>3, <1>6, <3>1, <3>2
  <2>3. s[m] \in Nat /\ s[1] \in Nat /\ s[n] \in Nat
    BY <1>3, <1>6
  <2> QED BY <2>1, <2>2, <2>3
<1>8. \A b \in T : s[1] <= b /\ b <= s[n]
  BY <1>3, <1>7
<1>9. EarliestOf(T) \in T /\ \A b \in T : EarliestOf(T) <= b
  BY <1>6, <1>8 DEF EarliestOf
<1>10. LatestOf(T) \in T /\ \A b \in T : LatestOf(T) >= b
  BY <1>6, <1>8 DEF LatestOf
<1>11. \A a, b \in T : a >= b => b <= a
  OBVIOUS
<1> QED BY <1>9, <1>10, <1>11

-----------------------------------------------------------------------------
(***************************************************************************)
(* Tables.                                                                 *)
(***************************************************************************)

HasTimes(h) ==
  /\ h \in Seq(ToSet(h))
  /\ Len(h) \in Nat /\ DOMAIN h = 1..Len(h)
  /\ \A k \in DOMAIN h : h[k].at \in Nat

\* Rows in thread order: each of them once.
LEMMA InOrderIs ==
  ASSUME NEW h, HasTimes(h), NEW S \in SUBSET DOMAIN h
  PROVE  /\ IsFiniteSet(S) /\ Cardinality(S) \in Nat
         /\ InOrder(h, S) \in [1..Cardinality(S) -> S]
         /\ DOMAIN InOrder(h, S) = 1..Cardinality(S)
         /\ Len(InOrder(h, S)) = Cardinality(S)
         /\ \A k \in S : \E n \in 1..Cardinality(S) : InOrder(h, S)[n] = k
         /\ \A m, n \in 1..Cardinality(S) : m < n => Earlier(h, InOrder(h, S)[m], InOrder(h, S)[n])
         /\ ToSet(InOrder(h, S)) = S
         /\ InOrder(h, S) = <<>> <=> S = {}
<1> DEFINE R == {e \in S \X S : Earlier(h, e[1], e[2])}
           n == Cardinality(S)
           s == InOrder(h, S)
<1>1. IsFiniteSet(S)
  <2>1. \A l \in Nat : IsFiniteSet(1..l)
    BY FS_Interval
  <2>2. IsFiniteSet(DOMAIN h)
    BY <2>1 DEF HasTimes
  <2> QED BY <2>2, FS_Subset
<1>2. \A a, b \in S : <<a, b>> \in R <=> Earlier(h, a, b)
  OBVIOUS
<1>3. s = Sorted(S, R)
  BY DEF InOrder
<1> HIDE DEF R, s
<1>4. \A a \in S : a \in Nat /\ h[a].at \in Nat
  BY DEF HasTimes
<1>5. Orders(R, S)
  <2>1. \A a \in S : ~Earlier(h, a, a)
    BY <1>4 DEF Earlier
  <2>2. \A a, b \in S : a # b => Earlier(h, a, b) \/ Earlier(h, b, a)
    BY <1>4 DEF Earlier
  <2>3. \A a, b, c \in S : Earlier(h, a, b) /\ Earlier(h, b, c) => Earlier(h, a, c)
    BY <1>4 DEF Earlier
  <2> QED BY <1>2, <2>1, <2>2, <2>3 DEF Orders
<1>6. /\ n \in Nat /\ s \in [1..n -> S]
      /\ \A k \in S : \E m \in 1..n : s[m] = k
      /\ \A m, l \in 1..n : m < l => <<s[m], s[l]>> \in R
  BY <1>1, <1>3, <1>5, SortedIs
<1>7. DOMAIN s = 1..n
  BY <1>6
<1>8. Len(s) = n
  <2>1. s \in Seq(S)
    BY <1>6, SeqDef
  <2> QED BY <1>6, <1>7, <2>1, LenProperties
<1>9. \A m, l \in 1..n : m < l => Earlier(h, s[m], s[l])
  BY <1>2, <1>6
<1>10. ToSet(s) = S
  BY <1>6, <1>7 DEF ToSet
<1>11. s = <<>> <=> S = {}
  <2>1. s = <<>> => S = {}
    BY <1>7, <1>10 DEF ToSet
  <2>2. ASSUME S = {} PROVE s = <<>>
    <3>1. n = 0
      BY <2>2, FS_EmptySet
    <3>2. s \in Seq(S)
      BY <1>6, SeqDef
    <3> QED BY <1>8, <3>1, <3>2, EmptySeq
  <2> QED BY <2>1, <2>2
<1> QED BY <1>1, <1>6, <1>7, <1>8, <1>9, <1>10, <1>11 DEF s

\* A limit takes the beginning.
LEMMA FirstOfIs ==
  ASSUME NEW S, NEW s \in Seq(S), NEW n \in Nat
  PROVE  /\ FirstOf(s, n) \in Seq(S)
         /\ Len(FirstOf(s, n)) = IF Len(s) < n THEN Len(s) ELSE n
         /\ Len(FirstOf(s, n)) \in 0..Len(s)
         /\ \A i \in 1..Len(FirstOf(s, n)) : FirstOf(s, n)[i] = s[i]
<1> DEFINE l == IF Len(s) < n THEN Len(s) ELSE n
<1>1. Len(s) \in Nat /\ \A i \in 1..Len(s) : s[i] \in S
  BY LenProperties, ElementOfSeq
<1>2. l \in 0..Len(s) /\ l \in Int
  BY <1>1
<1>3. FirstOf(s, n) = SubSeq(s, 1, l)
  BY DEF FirstOf
<1>4. \A i \in 1..l : s[i] \in S
  BY <1>1, <1>2
<1> HIDE DEF l
<1>5. /\ SubSeq(s, 1, l) \in Seq(S)
      /\ Len(SubSeq(s, 1, l)) = IF 1 <= l THEN l - 1 + 1 ELSE 0
      /\ \A i \in 1..(l - 1 + 1) : SubSeq(s, 1, l)[i] = s[1 + i - 1]
  BY <1>2, <1>4, SubSeqProperties
<1>6. l - 1 + 1 = l /\ (1 <= l \/ l = 0)
  BY <1>1, <1>2
<1>7. Len(SubSeq(s, 1, l)) = l
  BY <1>5, <1>6
<1>8. \A i \in 1..l : 1 + i - 1 = i
  BY <1>2
<1> QED BY <1>2, <1>3, <1>5, <1>6, <1>7, <1>8 DEF l

\* The newest of a set: whoever is not among them is no later, and then they
\* are as many as may be.
LEMMA NewestAre ==
  ASSUME NEW S, IsFiniteSet(S), NEW time, NEW n, NEW N \in NewestOf(S, time, n)
  PROVE  /\ N \in SUBSET S
         /\ \A y \in S \ N : Cardinality(N) = n /\ \A x \in N : time[x] >= time[y]
<1>1. /\ N \in SUBSET S
      /\ Cardinality(N) = IF Cardinality(S) < n THEN Cardinality(S) ELSE n
      /\ \A x \in N, y \in S \ N : time[x] >= time[y]
  BY DEF NewestOf
<1>2. N # S => Cardinality(N) # Cardinality(S)
  BY <1>1, FS_Subset
<1> QED BY <1>1, <1>2

\* A function has a finite range on a finite set.
LEMMA ImageIsFinite ==
  ASSUME NEW S, IsFiniteSet(S), NEW f, DOMAIN f = S, f = [x \in S |-> f[x]]
  PROVE  IsFiniteSet({f[x] : x \in S})
<1> DEFINE T == {f[x] : x \in S}
<1>1. f \in Surjection(S, T)
  BY DEF Surjection
<1> QED BY <1>1, FS_Surjection

\* The times of some rows: what is least and greatest among them is one of them.
LEMMA TimesAre ==
  ASSUME NEW h, HasTimes(h), NEW S \in SUBSET DOMAIN h, S # {}
  PROVE  /\ Times(h, S) \in SUBSET Nat /\ IsFiniteSet(Times(h, S)) /\ Times(h, S) # {}
         /\ EarliestOf(Times(h, S)) \in Times(h, S) /\ LatestOf(Times(h, S)) \in Times(h, S)
         /\ \A k \in S : EarliestOf(Times(h, S)) <= h[k].at /\ h[k].at <= LatestOf(Times(h, S))
<1>1. IsFiniteSet(S)
  BY InOrderIs
<1> DEFINE f == [k \in S |-> h[k].at]
<1>2. IsFiniteSet({f[k] : k \in S})
  BY <1>1, ImageIsFinite
<1>3. {f[k] : k \in S} = Times(h, S)
  BY DEF Times
<1>4. Times(h, S) \in SUBSET Nat /\ Times(h, S) # {} /\ \A k \in S : h[k].at \in Times(h, S)
  BY DEF Times, HasTimes
<1> QED BY <1>2, <1>3, <1>4, ExtremesAre

\* The first of some rows in thread order is of the earliest time.
LEMMA FirstIsEarliest ==
  ASSUME NEW h, HasTimes(h), NEW S \in SUBSET DOMAIN h, S # {}
  PROVE  /\ InOrder(h, S)[1] \in S
         /\ h[InOrder(h, S)[1]].at = EarliestOf(Times(h, S))
<1> DEFINE s == InOrder(h, S)
           n == Cardinality(S)
<1>1. /\ n \in Nat /\ IsFiniteSet(S)
      /\ \A m \in 1..n : s[m] \in S
      /\ \A k \in S : \E m \in 1..n : s[m] = k
      /\ \A m, l \in 1..n : m < l => Earlier(h, s[m], s[l])
  BY InOrderIs
<1> HIDE DEF s
<1>2. 1 \in 1..n
  BY <1>1, FS_EmptySet
<1>3. s[1] \in S
  BY <1>1, <1>2
<1>4. \A k \in S : h[s[1]].at \in Nat /\ h[k].at \in Nat
  BY <1>3 DEF HasTimes
<1>5. \A k \in S : h[s[1]].at <= h[k].at
  <2> SUFFICES ASSUME NEW m \in 1..n PROVE h[s[1]].at <= h[s[m]].at
    BY <1>1
  <2>1. m = 1 \/ 1 < m
    BY <1>1
  <2>2. 1 < m => Earlier(h, s[1], s[m])
    BY <1>1, <1>2
  <2>3. s[m] \in S
    BY <1>1
  <2> QED BY <1>4, <2>1, <2>2, <2>3 DEF Earlier
<1>6. PICK k \in S : h[k].at = EarliestOf(Times(h, S))
  BY TimesAre DEF Times
<1>7. h[k].at <= h[s[1]].at
  BY <1>3, <1>6, TimesAre
<1>8. h[s[1]].at <= h[k].at
  BY <1>5
<1>9. \A a, b \in Nat : a <= b /\ b <= a => a = b
  OBVIOUS
<1>10. h[s[1]].at = h[k].at
  BY <1>4, <1>7, <1>8, <1>9
<1> QED BY <1>3, <1>6, <1>10 DEF s

\* Every party of some rows is named once.
LEMMA PartiesAre ==
  ASSUME NEW h, NEW s, NEW n \in Nat, DOMAIN s = 1..n
  PROVE  /\ PartiesInOrder(h, s) \in Seq(PartiesOf(h, s))
         /\ ToSet(PartiesInOrder(h, s)) = PartiesOf(h, s)
<1> DEFINE S == PartiesOf(h, s)
           R == {e \in S \X S : AppearsBefore(h, s, e[1], e[2])}
           p == PartiesInOrder(h, s)
<1>1. IsFiniteSet(S)
  <2>1. IsFiniteSet(DOMAIN s)
    BY FS_Interval
  <2> DEFINE f == [m \in DOMAIN s |-> h[s[m]].from]
             g == [m \in DOMAIN s |-> h[s[m]].to]
  <2>2. IsFiniteSet({f[m] : m \in DOMAIN s}) /\ IsFiniteSet({g[m] : m \in DOMAIN s})
    BY <2>1, ImageIsFinite
  <2>3. S = {f[m] : m \in DOMAIN s} \cup {g[m] : m \in DOMAIN s}
    BY DEF PartiesOf, NamedIn
  <2> QED BY <2>2, <2>3, FS_Union
<1> DEFINE At(x) == {m \in DOMAIN s : x \in NamedIn(h[s[m]])}
<1>2. \A x \in S : Appears(h, s, x) \in At(x)
  <2> SUFFICES ASSUME NEW x \in S PROVE Appears(h, s, x) \in At(x)
    OBVIOUS
  <2>1. At(x) \in SUBSET (1..n) /\ At(x) # {}
    BY DEF PartiesOf
  <2>2. IsFiniteSet(1..n)
    BY FS_Interval
  <2>3. IsFiniteSet(At(x))
    BY <2>1, <2>2, FS_Subset
  <2>4. Appears(h, s, x) = EarliestOf(At(x))
    BY DEF Appears
  <2>5. At(x) \in SUBSET Nat
    BY <2>1
  <2> HIDE DEF At
  <2> QED BY <2>1, <2>3, <2>4, <2>5, ExtremesAre
<1>3. \A x \in S : Appears(h, s, x) \in Nat /\ x \in NamedIn(h[s[Appears(h, s, x)]])
  BY <1>2
<1>4. \A x, y \in S : <<x, y>> \in R <=> AppearsBefore(h, s, x, y)
  OBVIOUS
<1>5. p = Sorted(S, R)
  BY DEF PartiesInOrder
<1> HIDE DEF S, R, p, At
<1>6. \A x \in S : ~AppearsBefore(h, s, x, x)
  BY <1>3 DEF AppearsBefore
<1>7. \A x, y \in S : x # y => AppearsBefore(h, s, x, y) \/ AppearsBefore(h, s, y, x)
  BY <1>3 DEF AppearsBefore, NamedIn
<1>8. \A x, y, z \in S : AppearsBefore(h, s, x, y) /\ AppearsBefore(h, s, y, z) => AppearsBefore(h, s, x, z)
  BY <1>3 DEF AppearsBefore
<1>9. Orders(R, S)
  BY <1>4, <1>6, <1>7, <1>8 DEF Orders
<1>10. /\ Cardinality(S) \in Nat /\ p \in [1..Cardinality(S) -> S]
       /\ \A x \in S : \E m \in 1..Cardinality(S) : p[m] = x
  BY <1>1, <1>5, <1>9, SortedIs
<1>11. p \in Seq(S)
  BY <1>10, SeqDef
<1>12. ToSet(p) = S
  BY <1>10 DEF ToSet
<1> QED BY <1>11, <1>12 DEF p, S

\* A table of messages.
IsTable(h) ==
  /\ HasTimes(h)
  /\ \A k \in DOMAIN h : /\ h[k].id \in ToSet(Ids) /\ h[k].thread \in Threads
                         /\ h[k].from \in Parties /\ h[k].to \in Parties

\* Every message has a thread.
LEMMA RootIs ==
  ASSUME NEW h, IsTable(h), NEW k \in DOMAIN h
  PROVE  Root(h[k]) \in Threads /\ Root(h[k]) # Nil /\ h[k].id # Nil
BY TableAssumption DEF IsTable, Root, Threads

\* The rows of an open thread are its messages in order.
LEMMA ThreadRowsAre ==
  ASSUME NEW h, IsTable(h), NEW t
  PROVE  /\ Members(h, t) \in SUBSET DOMAIN h
         /\ ThreadRows(h, t) = InOrder(h, Members(h, t))
         /\ ThreadRows(h, t) = <<>> <=> Members(h, t) = {}
<1>1. Members(h, t) \in SUBSET DOMAIN h
  BY DEF Members
<1>2. Members(h, t) = {k \in DOMAIN h : (h[k].thread = t \/ h[k].id = t) /\ Root(h[k]) = t}
  BY DEF Members, Root
<1>3. ThreadRows(h, t) = InOrder(h, Members(h, t))
  BY <1>2 DEF ThreadRows
<1> QED BY <1>1, <1>3, InOrderIs DEF IsTable

\* The ids of the beginning are the beginning of the ids.
LEMMA FirstIdsAre ==
  ASSUME NEW h, IsTable(h), NEW s \in Seq(DOMAIN h), NEW n \in Nat
  PROVE  LET t == FirstOf(s, n) IN
         FirstOf([m \in DOMAIN s |-> h[s[m]].id], n) = [m \in DOMAIN t |-> h[t[m]].id]
<1> DEFINE t == FirstOf(s, n)
           all == [m \in DOMAIN s |-> h[s[m]].id]
           some == [m \in DOMAIN t |-> h[t[m]].id]
           I == ToSet(Ids)
<1>1. \A k \in DOMAIN h : h[k].id \in I
  BY DEF IsTable
<1>2. /\ t \in Seq(DOMAIN h) /\ Len(t) \in 0..Len(s)
      /\ Len(t) = IF Len(s) < n THEN Len(s) ELSE n
      /\ \A i \in 1..Len(t) : t[i] = s[i]
  BY FirstOfIs
<1> HIDE DEF t, I
<1>3. /\ DOMAIN s = 1..Len(s) /\ Len(s) \in Nat /\ \A i \in 1..Len(s) : s[i] \in DOMAIN h
      /\ DOMAIN t = 1..Len(t) /\ Len(t) \in Nat /\ \A i \in 1..Len(t) : t[i] \in DOMAIN h
  BY <1>2, LenProperties, ElementOfSeq
<1>4. all \in [1..Len(s) -> I] /\ some \in [1..Len(t) -> I]
  BY <1>1, <1>3
<1>5. all \in Seq(I) /\ some \in Seq(I) /\ Len(all) = Len(s) /\ Len(some) = Len(t)
  <2>1. all \in Seq(I) /\ some \in Seq(I) /\ DOMAIN all = 1..Len(s) /\ DOMAIN some = 1..Len(t)
    BY <1>3, <1>4, SeqDef
  <2> HIDE DEF all, some
  <2> QED BY <1>3, <2>1, LenProperties
<1>6. \A i \in 1..Len(t) : all[i] = some[i]
  BY <1>2, <1>3
<1> HIDE DEF all, some
<1>7. /\ FirstOf(all, n) \in Seq(I)
      /\ Len(FirstOf(all, n)) = Len(some)
      /\ \A i \in 1..Len(FirstOf(all, n)) : FirstOf(all, n)[i] = all[i]
  BY <1>2, <1>5, FirstOfIs
<1>8. FirstOf(all, n) = some
  BY <1>5, <1>6, <1>7, SeqEqual
<1> QED BY <1>8 DEF all, some, t

\* A thread's pane is one.
LEMMA PaneIs ==
  ASSUME NEW h, IsTable(h), NEW t, Members(h, t) # {}
  PROVE  /\ Pane(h, t, InOrder(h, Members(h, t))) \in Panes
         /\ Pane(h, t, InOrder(h, Members(h, t))) # Nil
         /\ t \in Threads /\ t # Nil
<1> DEFINE S == Members(h, t)
           s == InOrder(h, S)
           n == Cardinality(S)
<1>1. HasTimes(h) /\ S \in SUBSET DOMAIN h
  BY DEF IsTable, Members
<1>2. t \in Threads /\ t # Nil
  BY RootIs DEF Members
<1>3. n \in Nat /\ s \in [1..n -> S] /\ DOMAIN s = 1..n /\ Len(s) = n /\ ToSet(s) = S
  BY <1>1, InOrderIs
<1>4. s[1] \in S /\ h[s[1]].at \in Nat
  BY <1>1, FirstIsEarliest DEF HasTimes
<1>5. LatestOf(Times(h, S)) \in Nat
  BY <1>1, TimesAre
<1> HIDE DEF s, S
<1>6. \A m \in 1..n : s[m] \in DOMAIN h
  BY <1>1, <1>3
<1>7. [m \in DOMAIN s |-> h[s[m]].id] \in Seq(ToSet(Ids))
  <2>1. [m \in DOMAIN s |-> h[s[m]].id] \in [1..n -> ToSet(Ids)]
    BY <1>3, <1>6 DEF IsTable
  <2> QED BY <1>3, <2>1, SeqDef
<1>8. PartiesInOrder(h, s) \in Seq(Parties)
  <2>1. PartiesOf(h, s) \in SUBSET Parties
    BY <1>3, <1>6 DEF PartiesOf, NamedIn, IsTable
  <2>2. PartiesInOrder(h, s) \in Seq(PartiesOf(h, s))
    BY <1>3, PartiesAre
  <2> QED BY <2>1, <2>2, SeqMonotonic
<1>9. h[s[1]].id \in ToSet(Ids)
  BY <1>1, <1>4 DEF IsTable
<1>10. Pane(h, t, s) \in Panes
  BY <1>2, <1>3, <1>4, <1>5, <1>7, <1>8, <1>9 DEF Pane, Panes
<1>11. Pane(h, t, s) # Nil
  BY <1>10, TableAssumption
<1> QED BY <1>2, <1>10, <1>11 DEF s, S

\* What an id opens: its thread, else its message's thread, else nothing.
LEMMA GetThreadIs ==
  ASSUME NEW h, IsTable(h), NEW id
  PROVE  /\ Members(h, id) # {} => GetThread(h, id) = Pane(h, id, InOrder(h, Members(h, id)))
         /\ Members(h, id) = {} /\ RowsWithId(h, id) = {} => GetThread(h, id) = Nil
         /\ Members(h, id) = {} /\ RowsWithId(h, id) # {} =>
              LET root == ResolveThreadRoot(h, id) IN
              /\ root # id /\ Members(h, root) # {}
              /\ \E k \in RowsWithId(h, id) : Root(h[k]) = root
              /\ GetThread(h, id) = Pane(h, root, InOrder(h, Members(h, root)))
<1> DEFINE root == ResolveThreadRoot(h, id)
<1>1. CASE Members(h, id) # {}
  BY <1>1, ThreadRowsAre DEF GetThread
<1>2. CASE Members(h, id) = {} /\ RowsWithId(h, id) = {}
  <2>1. root = id
    BY <1>2 DEF ResolveThreadRoot
  <2>2. ThreadRows(h, id) = <<>>
    BY <1>2, ThreadRowsAre
  <2> QED BY <1>2, <2>1, <2>2 DEF GetThread
<1>3. CASE Members(h, id) = {} /\ RowsWithId(h, id) # {}
  <2>1. PICK k \in RowsWithId(h, id) : root = Root(h[k])
    BY <1>3 DEF ResolveThreadRoot
  <2>2. k \in DOMAIN h /\ h[k].id = id
    BY DEF RowsWithId
  <2>3. root # id /\ Members(h, root) # {}
    BY <1>3, <2>1, <2>2 DEF Members
  <2>4. ThreadRows(h, id) = <<>> /\ ThreadRows(h, root) # <<>>
    BY <1>3, <2>3, ThreadRowsAre
  <2>5. GetThread(h, id) = Pane(h, root, ThreadRows(h, root))
    BY <2>3, <2>4 DEF GetThread
  <2> QED BY <1>3, <2>1, <2>3, <2>5, ThreadRowsAre
<1> QED BY <1>1, <1>2, <1>3

-----------------------------------------------------------------------------
(***************************************************************************)
(* What the pages tell of a table.                                         *)
(***************************************************************************)

\* The list and the pane it opens.
LEMMA ListFits == IsTable(table) => ListAndPaneAgree
<1> SUFFICES ASSUME IsTable(table), NEW who \in Parties \cup {Nil}, NEW page \in PagesOf(who),
                    NEW t \in page
             PROVE  LET row == ListRow(table, page, t)
                        pane == GetThread(table, t)
                    IN  pane # Nil /\ \A f \in DOMAIN row : row[f] = pane[f]
  BY DEF ListAndPaneAgree
<1> DEFINE S == Members(table, t)
           s == InOrder(table, S)
<1>1. t \in Listed(table, who)
  BY DEF PagesOf
<1>2. S # {}
  BY <1>1 DEF Listed, Members
<1>3. {k \in Skeleton(table, page) : Root(table[k]) = t} = S
  BY DEF Skeleton, Members, Root
<1>4. HasTimes(table) /\ S \in SUBSET DOMAIN table
  BY DEF IsTable, Members
<1>5. GetThread(table, t) = Pane(table, t, s) /\ Pane(table, t, s) # Nil
  BY <1>2, GetThreadIs, PaneIs
<1>6. ListRow(table, page, t) =
        [ thread_id    |-> t,
          started      |-> EarliestOf(Times(table, S)),
          last         |-> LatestOf(Times(table, S)),
          count        |-> Cardinality(S),
          first        |-> table[s[1]].id,
          participants |-> PartiesInOrder(table, s) ]
  BY <1>3 DEF ListRow
<1>7. Len(s) = Cardinality(S) /\ ToSet(s) = S
  BY <1>4, InOrderIs
<1>8. table[s[1]].at = EarliestOf(Times(table, S))
  BY <1>2, <1>4, FirstIsEarliest
<1> HIDE DEF s, S
<1> QED BY <1>5, <1>6, <1>7, <1>8 DEF Pane

\* Every message is in the pane of its thread.
LEMMA MessagesOpen == IsTable(table) => EveryMessageOpens
<1> SUFFICES ASSUME IsTable(table), NEW k \in DOMAIN table
             PROVE  LET pane == GetThread(table, Root(table[k])) IN
                    pane # Nil /\ table[k].id \in ToSet(pane.messages)
  BY DEF EveryMessageOpens
<1> DEFINE t == Root(table[k])
           S == Members(table, t)
           s == InOrder(table, S)
<1>1. k \in S /\ S \in SUBSET DOMAIN table /\ HasTimes(table)
  BY DEF Members, IsTable
<1>2. GetThread(table, t) = Pane(table, t, s) /\ Pane(table, t, s) # Nil
  BY <1>1, GetThreadIs, PaneIs
<1>3. ToSet(s) = S
  BY <1>1, InOrderIs
<1> HIDE DEF s, S
<1>4. PICK n \in DOMAIN s : s[n] = k
  BY <1>1, <1>3 DEF ToSet
<1>5. Pane(table, t, s).messages = [m \in DOMAIN s |-> table[s[m]].id]
  BY DEF Pane
<1>6. table[k].id \in ToSet(Pane(table, t, s).messages)
  BY <1>4, <1>5 DEF ToSet
<1> QED BY <1>2, <1>6

\* What a send joins is what the dashboard opens.
LEMMA SendsJoin == IsTable(table) => SendJoinsWhatOpens
<1> SUFFICES ASSUME IsTable(table), NEW id \in Threads \ {Nil}
             PROVE  ExistingThread(table, id) =
                      IF GetThread(table, id) = Nil THEN Nil ELSE GetThread(table, id).thread_id
  BY DEF SendJoinsWhatOpens
<1> DEFINE H == \E k \in DOMAIN table : (table[k].thread = id \/ table[k].id = id) /\ Root(table[k]) = id
           root == ResolveThreadRoot(table, id)
<1>1. H <=> Members(table, id) # {}
  BY DEF Members, Root
<1>2. ThreadRows(table, id) = <<>> <=> Members(table, id) = {}
  BY ThreadRowsAre
<1>3. \A t : Pane(table, t, InOrder(table, Members(table, t))).thread_id = t
  BY DEF Pane
<1>4. CASE Members(table, id) # {}
  <2>1. ExistingThread(table, id) = id
    BY <1>1, <1>2, <1>4 DEF ExistingThread
  <2> QED BY <1>3, <1>4, <2>1, GetThreadIs, PaneIs
<1>5. CASE Members(table, id) = {} /\ RowsWithId(table, id) # {}
  <2>1. ExistingThread(table, id) = root
    BY <1>1, <1>2, <1>5 DEF ExistingThread
  <2> QED BY <1>3, <1>5, <2>1, GetThreadIs, PaneIs
<1>6. CASE Members(table, id) = {} /\ RowsWithId(table, id) = {}
  <2>1. ExistingThread(table, id) = Nil
    BY <1>1, <1>2, <1>6 DEF ExistingThread
  <2> QED BY <1>6, <2>1, GetThreadIs
<1> QED BY <1>4, <1>5, <1>6

\* Home's thread has the newest message.
LEMMA HomeIsNewest == IsTable(table) => HomeShowsTheNewest
<1> SUFFICES ASSUME IsTable(table), table # <<>>
             PROVE  LoadLatestThread(table).last = LatestOf(Times(table, DOMAIN table))
  BY DEF HomeShowsTheNewest
<1> DEFINE last == LatestOf(Times(table, DOMAIN table))
           K == {k \in DOMAIN table : table[k].at = last}
           newest == LatestOf(K)
           t == Root(table[newest])
           S == Members(table, t)
<1>1. HasTimes(table) /\ DOMAIN table # {} /\ DOMAIN table \in SUBSET Nat
  <2>1. HasTimes(table)
    BY DEF IsTable
  <2>2. Len(table) # 0
    BY <2>1, EmptySeq DEF HasTimes
  <2> QED BY <2>1, <2>2 DEF HasTimes
<1>2. last \in Times(table, DOMAIN table) /\ \A k \in DOMAIN table : table[k].at <= last
  BY <1>1, TimesAre
<1>3. K \in SUBSET Nat /\ K # {} /\ IsFiniteSet(K)
  <2>1. K \in SUBSET DOMAIN table /\ K # {}
    BY <1>2 DEF Times
  <2> HIDE DEF K
  <2> QED BY <1>1, <2>1, InOrderIs
<1>4. newest \in K
  <2> HIDE DEF K
  <2> QED BY <1>3, ExtremesAre
<1>5. newest \in S /\ S \in SUBSET DOMAIN table /\ S # {}
  BY <1>4 DEF Members
<1>6. t # Nil
  BY <1>4, RootIs
<1>7. NewestThreadId(table) = t
  BY DEF NewestThreadId
<1>8. LoadLatestThread(table) = Pane(table, t, InOrder(table, S))
  BY <1>5, <1>6, <1>7, GetThreadIs DEF LoadLatestThread
<1>9. LoadLatestThread(table).last = LatestOf(Times(table, S))
  BY <1>1, <1>5, <1>8, InOrderIs DEF Pane
<1>10. LatestOf(Times(table, S)) \in Times(table, S) /\ last <= LatestOf(Times(table, S))
  <2>1. table[newest].at <= LatestOf(Times(table, S)) /\ LatestOf(Times(table, S)) \in Times(table, S)
    BY <1>1, <1>5, TimesAre
  <2> QED BY <1>4, <2>1
<1>11. LatestOf(Times(table, S)) <= last
  BY <1>2, <1>5, <1>10 DEF Times
<1>12. LatestOf(Times(table, S)) \in Nat /\ last \in Nat
  BY <1>1, <1>2, <1>5, TimesAre
<1>13. \A a, b \in Nat : a <= b /\ b <= a => a = b
  OBVIOUS
<1> QED BY <1>9, <1>10, <1>11, <1>12, <1>13

\* The log and the list.
LEMMA LogFits == LogAndListAgree
<1>1. ASSUME NEW who
      PROVE  LogItems(table, who, Nil) = {k \in DOMAIN table : TookPart(table[k], who)}
  BY TableAssumption DEF LogItems
<1> QED BY <1>1 DEF LogAndListAgree, Listed, LogItems, TookPart

\* The ids stored so far.
Used == {Ids[i] : i \in 1..stored}

\* A thread that somebody names in the table or is about to.
IsNamed(t) == t \in ThreadsOf(table) \/ \E d \in drafts : d.thread = t

\* A thread is named after its own first message, but for the oldest row of a
\* legacy table.
NamedRight ==
  \A k \in DOMAIN table :
    IsNamed(table[k].id) /\ Root(table[k]) # table[k].id => legacy /\ table[k].at = 1

RowsFit ==
  \A k \in DOMAIN table :
    table[k].id \in Used /\ table[k].thread \in Used \cup {Old, Nil} /\ table[k].at >= 1

DraftsFit ==
  \A d \in drafts : /\ d.from \in Parties /\ d.to \in Parties
                    /\ d.thread \in Used \cup {Old, Nil}

\* The inductive invariant.
TableInv ==
  /\ IsTable(table)
  /\ stored \in 0..Len(Ids) /\ legacy \in BOOLEAN
  /\ RowsFit /\ DraftsFit /\ NamedRight

\* The agents' history and the pane.
LEMMA HistoryFits == TableInv => HistoryBeginsThePane
<1> SUFFICES ASSUME TableInv, ~legacy, NEW id \in Threads \ {Nil}, NEW limit \in HistoryLimits
             PROVE  MeshHistory(table, id, limit) =
                      IF GetThread(table, id) = Nil THEN <<>>
                      ELSE FirstOf(GetThread(table, id).messages, limit)
  BY DEF HistoryBeginsThePane
<1> DEFINE root == ResolveThreadRoot(table, id)
           M == {k \in DOMAIN table : table[k].thread = root \/ table[k].id = root}
           said(S) == [n \in DOMAIN InOrder(table, S) |-> table[InOrder(table, S)[n]].id]
<1>1. IsTable(table) /\ HasTimes(table)
  BY DEF TableInv, IsTable
<1>2. MeshHistory(table, id, limit) = FirstOf(said(M), limit)
  <2> DEFINE s == InOrder(table, M)
  <2>1. s \in [1..Cardinality(M) -> M] /\ Cardinality(M) \in Nat /\ M \in SUBSET DOMAIN table
    BY <1>1, InOrderIs
  <2> HIDE DEF s, M
  <2>2. s \in Seq(M)
    BY <2>1, SeqDef
  <2>3. s \in Seq(DOMAIN table) /\ limit \in Nat
    BY <2>1, <2>2, SeqMonotonic, TableAssumption
  <2>4. PICK q : q = s
    OBVIOUS
  <2>5. FirstOf([m \in DOMAIN q |-> table[q[m]].id], limit)
          = [m \in DOMAIN FirstOf(q, limit) |-> table[FirstOf(q, limit)[m]].id]
    BY <1>1, <2>3, <2>4, FirstIdsAre
  <2> QED BY <2>4, <2>5 DEF MeshHistory, s, M
<1>3. \A t : Pane(table, t, InOrder(table, Members(table, t))).messages = said(Members(table, t))
  BY DEF Pane
<1>4. ASSUME NEW t, Members(table, t) # {}, M = Members(table, t),
             GetThread(table, id) = Pane(table, t, InOrder(table, Members(table, t)))
      PROVE  /\ MeshHistory(table, id, limit) = FirstOf(GetThread(table, id).messages, limit)
             /\ GetThread(table, id) # Nil
  <2>1. GetThread(table, id) # Nil
    BY <1>1, <1>4, PaneIs
  <2>2. GetThread(table, id).messages = said(Members(table, t))
    BY <1>3, <1>4
  <2>3. said(M) = said(Members(table, t))
    BY <1>4
  <2> QED BY <1>2, <2>1, <2>2, <2>3
<1>5. CASE RowsWithId(table, id) # {}
  <2>1. PICK k \in RowsWithId(table, id) : root = Root(table[k])
    BY <1>5 DEF ResolveThreadRoot
  <2>2. k \in DOMAIN table /\ table[k].id = id
    BY DEF RowsWithId
  <2>3. root # Nil /\ IsNamed(root)
    BY <1>1, <2>1, <2>2, RootIs DEF IsNamed, ThreadsOf
  <2>4. M = Members(table, root)
    <3>1. \A j \in DOMAIN table : table[j].id = root => Root(table[j]) = root
      BY <2>3 DEF TableInv, NamedRight
    <3>2. \A j \in DOMAIN table : table[j].thread = root => Root(table[j]) = root
      BY <2>3 DEF Root
    <3>3. \A j \in DOMAIN table : Root(table[j]) = root => table[j].thread = root \/ table[j].id = root
      BY DEF Root
    <3> HIDE DEF root
    <3> QED BY <3>1, <3>2, <3>3 DEF Members
  <2>5. k \in Members(table, root)
    BY <2>1, <2>2 DEF Members
  <2>6. ASSUME Members(table, id) # {} PROVE root = id
    <3>1. IsNamed(id)
      BY <2>6 DEF IsNamed, ThreadsOf, Members
    <3> QED BY <2>1, <2>2, <3>1 DEF TableInv, NamedRight
  <2>7. GetThread(table, id) = Pane(table, root, InOrder(table, Members(table, root)))
    <3> HIDE DEF root
    <3>1. Members(table, id) # {} => GetThread(table, id) = Pane(table, id, InOrder(table, Members(table, id)))
      BY <1>1, GetThreadIs
    <3>2. Members(table, id) = {} => GetThread(table, id) = Pane(table, root, InOrder(table, Members(table, root)))
      BY <1>1, <1>5, GetThreadIs DEF root
    <3> QED BY <2>6, <3>1, <3>2
  <2> QED BY <1>4, <2>4, <2>5, <2>7
<1>6. CASE RowsWithId(table, id) = {}
  <2>1. root = id
    BY <1>6 DEF ResolveThreadRoot
  <2>2. M = Members(table, id)
    BY <1>6, <2>1 DEF Members, Root, RowsWithId
  <2>3. CASE Members(table, id) # {}
    BY <1>1, <1>4, <2>2, <2>3, GetThreadIs
  <2>4. CASE Members(table, id) = {}
    <3>1. GetThread(table, id) = Nil
      BY <1>1, <1>6, <2>4, GetThreadIs
    <3>2. Cardinality({}) = 0 /\ {} \in SUBSET DOMAIN table
      BY FS_EmptySet
    <3>3. DOMAIN InOrder(table, {}) = 1..0
      BY <1>1, <3>2, InOrderIs
    <3>4. said({}) \in [1..0 -> ToSet(Ids)]
      BY <3>3
    <3>5. said({}) \in Seq(ToSet(Ids))
      BY <3>4, SeqDef
    <3>6. DOMAIN said({}) = 1..0
      BY <3>3
    <3> HIDE DEF said
    <3>7. Len(said({})) = 0
      BY <3>5, <3>6, LenProperties
    <3>8. said({}) = <<>>
      BY <3>5, <3>7, EmptySeq
    <3>9. Len(FirstOf(<<>>, limit)) = 0 /\ FirstOf(<<>>, limit) \in Seq({})
      <4>1. limit \in Nat /\ <<>> \in Seq({}) /\ Len(<<>>) = 0
        BY EmptySeq, TableAssumption
      <4>2. PICK none : none = <<>>
        OBVIOUS
      <4>3. /\ FirstOf(none, limit) \in Seq({})
            /\ Len(FirstOf(none, limit)) \in 0..Len(none)
        BY <4>1, <4>2, FirstOfIs
      <4> QED BY <4>1, <4>2, <4>3
    <3> QED BY <1>2, <2>2, <2>4, <3>1, <3>8, <3>9, EmptySeq
  <2> QED BY <2>3, <2>4
<1> QED BY <1>5, <1>6

\* Incidents: the lead sentence and the band.
LEMMA IncidentsFit == IsTable(table) => IncidentsAgree
<1> SUFFICES ASSUME IsTable(table), NEW since \in 0..LastTime, NEW latest \in LatestIncidents(table, since),
                    NEW band \in OpenIncidents(table, since)
             PROVE  LET row == table[latest.row] IN
                    /\ latest.row \in band => latest.closed_by = Nil
                    /\ latest.closed_by = Nil /\ latest.row \notin band =>
                         Cardinality(band) = PerSource /\ \A k \in band : table[k].at = row.at
                    /\ latest.closed_by # Nil =>
                         /\ latest.closed_by # row.from
                         /\ latest.closed_by \in ToSet(GetThread(table, Root(row)).participants)
  BY DEF IncidentsAgree
<1> DEFINE found == Incidents24h(table, since)
           U == Unanswered(table, since)
<1>1. PICK k \in found :
        /\ latest.row = k
        /\ table[k].at = LatestOf(Times(table, found))
        /\ latest.closed_by = IF Answers(table, k) = {} THEN Nil
                              ELSE table[CHOOSE j \in Answers(table, k) :
                                 table[j].at = EarliestOf(Times(table, Answers(table, k)))].from
  BY DEF LatestIncidents
<1>2. k \in DOMAIN table /\ HasTimes(table) /\ found \in SUBSET DOMAIN table
  BY DEF Incidents24h, IsTable
<1>5. \A j \in found : table[j].at \in Nat /\ table[j].at <= table[k].at
  BY <1>1, <1>2, TimesAre DEF HasTimes
<1>6. U \in SUBSET found /\ (k \in U <=> Answers(table, k) = {})
  BY DEF Unanswered
<1>7. /\ band \in SUBSET U
      /\ \A y \in U \ band : Cardinality(band) = PerSource /\ \A x \in band : table[x].at >= table[y].at
  <2>1. IsFiniteSet(U)
    BY <1>2, <1>6, InOrderIs
  <2> DEFINE time == [j \in DOMAIN table |-> table[j].at]
  <2>2. band \in NewestOf(U, time, PerSource)
    BY DEF OpenIncidents
  <2>3. \A j \in U : time[j] = table[j].at
    BY <1>2, <1>6
  <2> HIDE DEF time, U
  <2>4. /\ band \in SUBSET U
        /\ \A y \in U \ band : Cardinality(band) = PerSource /\ \A x \in band : time[x] >= time[y]
    BY <2>1, <2>2, NewestAre
  <2> QED BY <2>3, <2>4
<1> HIDE DEF found, U
<1>3. CASE Answers(table, k) = {}
  <2>1. latest.closed_by = Nil
    BY <1>1, <1>3
  <2>2. ASSUME k \notin band PROVE Cardinality(band) = PerSource /\ \A x \in band : table[x].at = table[k].at
    <3>1. k \in U \ band
      BY <1>3, <1>6, <2>2
    <3>2. Cardinality(band) = PerSource /\ \A x \in band : table[x].at >= table[k].at
      BY <1>7, <3>1
    <3>3. \A x \in band : table[x].at <= table[k].at /\ table[x].at \in Nat /\ table[k].at \in Nat
      BY <1>1, <1>5, <1>6, <1>7
    <3>4. \A a, b \in Nat : a >= b /\ a <= b => a = b
      OBVIOUS
    <3> QED BY <3>2, <3>3, <3>4
  <2> QED BY <1>1, <2>1, <2>2
<1>4. CASE Answers(table, k) # {}
  <2> DEFINE S == Members(table, Root(table[k]))
             s == InOrder(table, S)
             first == EarliestOf(Times(table, Answers(table, k)))
  <2>1. Answers(table, k) \in SUBSET DOMAIN table
    BY DEF Answers
  <2>2. \E j \in Answers(table, k) : table[j].at = first
    BY <1>2, <1>4, <2>1, TimesAre DEF Times
  <2>3. PICK j \in Answers(table, k) : latest.closed_by = table[j].from
    <3> HIDE DEF first
    <3>1. latest.closed_by = table[CHOOSE j \in Answers(table, k) : table[j].at = first].from
      BY <1>1, <1>4 DEF first
    <3> QED BY <2>2, <3>1
  <2>4. j \in DOMAIN table /\ Root(table[j]) = Root(table[k]) /\ table[j].from # table[k].from
    BY DEF Answers
  <2>5. latest.closed_by # Nil
    BY <2>3, <2>4, TableAssumption DEF IsTable
  <2>6. latest.row \notin band
    BY <1>1, <1>4, <1>6, <1>7
  <2>7. j \in S /\ S \in SUBSET DOMAIN table
    BY <2>4 DEF Members
  <2>8. GetThread(table, Root(table[k])) = Pane(table, Root(table[k]), s)
    BY <2>7, GetThreadIs
  <2>9. GetThread(table, Root(table[k])).participants = PartiesInOrder(table, s)
    BY <2>8 DEF Pane
  <2>10. Cardinality(S) \in Nat /\ DOMAIN s = 1..Cardinality(S) /\ ToSet(s) = S
    BY <1>2, <2>7, InOrderIs
  <2> HIDE DEF s
  <2>11. PICK n \in DOMAIN s : s[n] = j
    BY <2>7, <2>10 DEF ToSet
  <2>12. table[j].from \in PartiesOf(table, s)
    BY <2>11 DEF PartiesOf, NamedIn
  <2>13. table[j].from \in ToSet(PartiesInOrder(table, s))
    BY <2>10, <2>12, PartiesAre
  <2> QED BY <1>1, <2>3, <2>4, <2>5, <2>6, <2>9, <2>13
<1> QED BY <1>3, <1>4

-----------------------------------------------------------------------------
(***************************************************************************)
(* The table while it lives.                                               *)
(***************************************************************************)

\* What mesh_send joins is a thread of the table.
LEMMA JoinsThread ==
  ASSUME IsTable(table), NEW id, ExistingThread(table, id) # Nil
  PROVE  ExistingThread(table, id) \in ThreadsOf(table)
<1>1. ThreadRows(table, id) = <<>> <=> Members(table, id) = {}
  BY ThreadRowsAre
<1> DEFINE H == \E k \in DOMAIN table : (table[k].thread = id \/ table[k].id = id) /\ Root(table[k]) = id
<1>2. H <=> Members(table, id) # {}
  BY DEF Members, Root
<1>3. CASE Members(table, id) # {}
  <2>1. ExistingThread(table, id) = id
    BY <1>1, <1>2, <1>3 DEF ExistingThread
  <2> QED BY <1>3, <2>1 DEF Members, ThreadsOf
<1>4. CASE Members(table, id) = {} /\ RowsWithId(table, id) # {}
  <2>1. ExistingThread(table, id) = ResolveThreadRoot(table, id)
    BY <1>1, <1>2, <1>4 DEF ExistingThread
  <2>2. PICK k \in RowsWithId(table, id) : ResolveThreadRoot(table, id) = Root(table[k])
    BY <1>4 DEF ResolveThreadRoot
  <2> QED BY <2>1, <2>2 DEF RowsWithId, ThreadsOf
<1>5. CASE Members(table, id) = {} /\ RowsWithId(table, id) = {}
  BY <1>1, <1>2, <1>5 DEF ExistingThread
<1> QED BY <1>3, <1>4, <1>5

\* The table begins empty or with a legacy thread.
LEMMA TableBegins == TableInit => TableInv
<1> SUFFICES ASSUME TableInit PROVE TableInv
  OBVIOUS
<1>1. Ids \in Seq(ToSet(Ids)) /\ Len(Ids) \in Nat /\ Len(Ids) >= 2 /\ DOMAIN Ids = 1..Len(Ids)
  BY TableAssumption, LenProperties
<1>2. 1 \in DOMAIN Ids /\ 2 \in DOMAIN Ids
  BY <1>1
<1>3. Ids[1] # Ids[2] /\ Ids[1] \in ToSet(Ids) /\ Ids[2] \in ToSet(Ids)
  BY <1>2, TableAssumption DEF IsInjective, ToSet
<1>4. CASE table = <<>>
  <2>1. DOMAIN table = {} /\ Len(table) = 0 /\ DOMAIN table = 1..Len(table)
    BY <1>4
  <2>2. table \in Seq(ToSet(table))
    BY <1>4, EmptySeq
  <2>3. IsTable(table)
    BY <2>1, <2>2 DEF IsTable, HasTimes
  <2>4. stored = 0 /\ legacy = FALSE /\ drafts = {}
    BY <1>4, <2>1 DEF TableInit
  <2>5. RowsFit /\ NamedRight
    BY <2>1 DEF RowsFit, NamedRight
  <2>6. DraftsFit /\ legacy \in BOOLEAN
    BY <2>4 DEF DraftsFit
  <2>7. stored \in 0..Len(Ids)
    BY <1>1, <2>4
  <2> QED BY <2>3, <2>5, <2>6, <2>7 DEF TableInv
<1>5. CASE table \in LegacyTables
  <2>1. PICK p \in Exchanges, a \in 1..LastTime :
          table = <<[id |-> Ids[1], thread |-> Old, from |-> p[1], to |-> p[2], type |-> p[3], at |-> 1],
                    [id |-> Ids[2], thread |-> Ids[1], from |-> p[2], to |-> p[1], type |-> p[3], at |-> a]>>
    BY <1>5 DEF LegacyTables
  <2>2. a \in Nat /\ a >= 1
    BY TableAssumption
  <2>3. DOMAIN table = {1, 2} /\ Len(table) = 2 /\ DOMAIN table = 1..Len(table)
    BY <2>1
  <2>4. /\ table[1].id = Ids[1] /\ table[1].thread = Old /\ table[1].from = p[1] /\ table[1].to = p[2]
        /\ table[1].at = 1
        /\ table[2].id = Ids[2] /\ table[2].thread = Ids[1] /\ table[2].from = p[2] /\ table[2].to = p[1]
        /\ table[2].at = a
    BY <2>1
  <2>5. table \in Seq(ToSet(table))
    <3>1. table \in [1..2 -> ToSet(table)]
      BY <2>1, <2>3 DEF ToSet
    <3> QED BY <3>1, SeqDef
  <2>6. p[1] \in Parties /\ p[2] \in Parties
    BY DEF Parties
  <2>7. IsTable(table)
    BY <1>3, <2>2, <2>3, <2>4, <2>5, <2>6 DEF IsTable, HasTimes, Threads
  <2>8. stored = 2 /\ legacy = TRUE /\ drafts = {}
    BY <2>1, <2>3 DEF TableInit
  <2>9. Ids[1] \in Used /\ Ids[2] \in Used
    BY <2>8 DEF Used
  <2>10. Root(table[1]) = Old /\ Root(table[2]) = Ids[1]
    BY <1>3, <2>4, TableAssumption DEF Root
  <2>11. ~IsNamed(Ids[2])
    BY <1>3, <2>3, <2>8, <2>10, TableAssumption DEF IsNamed, ThreadsOf
  <2>12. NamedRight
    BY <2>3, <2>4, <2>8, <2>11 DEF NamedRight
  <2>13. RowsFit
    BY <2>2, <2>3, <2>4, <2>9 DEF RowsFit
  <2> QED BY <1>1, <2>7, <2>8, <2>12, <2>13 DEF TableInv, DraftsFit
<1> QED BY <1>4, <1>5 DEF TableInit

\* A send whose thread is looked up.
LEMMA DraftStep ==
  ASSUME TableInv, NEW p \in Exchanges, NEW t \in ThreadsOf(table) \cup {Nil}, Drafted(p, t)
  PROVE  TableInv'
<1>1. UNCHANGED <<table, stored, legacy>>
  BY DEF Drafted
<1>2. \A d \in drafts' : d \in drafts \/ (d.from = p[1] /\ d.to = p[2] /\ d.thread = t)
  BY DEF Drafted
<1>3. IsTable(table)
  BY DEF TableInv
<1>4. t \in Used \cup {Old, Nil}
  BY DEF TableInv, RowsFit, ThreadsOf, Root
<1>5. p[1] \in Parties /\ p[2] \in Parties
  BY DEF Parties
<1>6. \A k \in DOMAIN table : table[k].id # Nil
  BY <1>3, RootIs
<1>7. \A k \in DOMAIN table : IsNamed(table[k].id)' => IsNamed(table[k].id)
  BY <1>1, <1>2, <1>6 DEF IsNamed
<1>8. Used' = Used
  BY <1>1 DEF Used
<1>9. NamedRight'
  BY <1>1, <1>7 DEF TableInv, NamedRight
<1>10. IsTable(table)'
  BY <1>1, <1>3 DEF IsTable, HasTimes
<1>11. RowsFit'
  BY <1>1, <1>8 DEF TableInv, RowsFit
<1>12. DraftsFit'
  BY <1>2, <1>4, <1>5, <1>8 DEF TableInv, DraftsFit
<1> QED BY <1>1, <1>9, <1>10, <1>11, <1>12 DEF TableInv

\* A row is stored, maybe with an earlier time than its predecessor's.
LEMMA StoreStep ==
  ASSUME TableInv, NEW d \in drafts, NEW at \in 1..LastTime, StoreRow(d, at)
  PROVE  /\ TableInv'
         /\ \A k \in DOMAIN table : k \in DOMAIN table' /\ table'[k] = table[k]
<1> DEFINE r == [id |-> Ids[stored + 1], thread |-> d.thread, from |-> d.from,
                 to |-> d.to, type |-> d.type, at |-> at]
           n == Len(table)
<1>1. table' = Append(table, r) /\ stored' = stored + 1 /\ drafts' = drafts \ {d} /\ legacy' = legacy
      /\ stored < Len(Ids)
  BY DEF StoreRow
<1>2. IsTable(table) /\ HasTimes(table) /\ n \in Nat /\ DOMAIN table = 1..n /\ table \in Seq(ToSet(table))
  BY DEF TableInv, IsTable, HasTimes
<1>3. /\ Len(table') = n + 1 /\ DOMAIN table' = 1..(n + 1)
      /\ \A k \in 1..n : table'[k] = table[k]
      /\ table'[n + 1] = r
      /\ table' \in Seq(ToSet(table) \cup {r})
  <2>1. table \in Seq(ToSet(table) \cup {r})
    BY <1>2, SeqMonotonic
  <2> HIDE DEF r
  <2> QED BY <1>1, <1>2, <2>1, AppendProperties, LenProperties
<1>4. /\ r.id = Ids[stored + 1] /\ r.thread = d.thread /\ r.from = d.from /\ r.to = d.to /\ r.at = at
  OBVIOUS
<1> HIDE DEF r
<1>5. Ids \in Seq(ToSet(Ids)) /\ Len(Ids) \in Nat /\ DOMAIN Ids = 1..Len(Ids) /\ stored \in Nat
  BY TableAssumption, LenProperties DEF TableInv
<1>6. stored + 1 \in DOMAIN Ids /\ Ids[stored + 1] \in ToSet(Ids)
  BY <1>1, <1>5 DEF ToSet
<1>7. Ids[stored + 1] \notin Used \cup {Old, Nil}
  <2>1. \A i \in 1..stored : i \in DOMAIN Ids /\ i # stored + 1
    BY <1>1, <1>5
  <2>2. \A i \in 1..stored : Ids[i] # Ids[stored + 1]
    BY <1>6, <2>1, TableAssumption DEF IsInjective
  <2> QED BY <1>6, <2>2, TableAssumption DEF Used
<1>8. Used \subseteq Used' /\ Ids[stored + 1] \in Used'
  BY <1>1, <1>5 DEF Used
<1>9. Used \subseteq ToSet(Ids)
  <2>1. \A i \in 1..stored : i \in DOMAIN Ids
    BY <1>1, <1>5
  <2> QED BY <2>1 DEF Used, ToSet
<1>10. d.from \in Parties /\ d.to \in Parties /\ d.thread \in Used \cup {Old, Nil}
  BY DEF TableInv, DraftsFit
<1>11. at \in Nat /\ at >= 1
  BY TableAssumption
<1>12. \A k \in DOMAIN table' : (k \in DOMAIN table /\ table'[k] = table[k]) \/ (k = n + 1 /\ table'[k] = r)
  BY <1>2, <1>3
<1>13. \A k \in DOMAIN table : k \in DOMAIN table' /\ table'[k] = table[k]
  BY <1>2, <1>3
<1>14. HasTimes(table)'
  <2>1. table' \in Seq(ToSet(table'))
    <3>1. table' = [k \in 1..(n + 1) |-> table'[k]] /\ \A k \in 1..(n + 1) : table'[k] \in ToSet(table')
      BY <1>2, <1>3, SeqDef DEF ToSet
    <3>2. table' \in [1..(n + 1) -> ToSet(table')]
      BY <3>1
    <3> QED BY <1>2, <3>2, SeqDef
  <2>2. \A k \in DOMAIN table' : table'[k].at \in Nat
    BY <1>2, <1>4, <1>11, <1>12 DEF HasTimes
  <2> QED BY <1>2, <1>3, <2>1, <2>2 DEF HasTimes
<1>15. IsTable(table)'
  <2>1. ASSUME NEW k \in DOMAIN table'
        PROVE  /\ table'[k].id \in ToSet(Ids) /\ table'[k].thread \in Threads
               /\ table'[k].from \in Parties /\ table'[k].to \in Parties
    <3>1. CASE k \in DOMAIN table /\ table'[k] = table[k]
      BY <1>2, <3>1 DEF IsTable
    <3>2. CASE table'[k] = r
      BY <1>4, <1>6, <1>9, <1>10, <3>2 DEF Threads
    <3> QED BY <1>12, <3>1, <3>2
  <2> QED BY <1>14, <2>1 DEF IsTable
<1>16. RowsFit'
  <2> SUFFICES ASSUME NEW k \in DOMAIN table'
               PROVE  table'[k].id \in Used' /\ table'[k].thread \in Used' \cup {Old, Nil} /\ table'[k].at >= 1
    BY DEF RowsFit
  <2>1. CASE k \in DOMAIN table /\ table'[k] = table[k]
    BY <1>8, <2>1 DEF TableInv, RowsFit
  <2>2. CASE table'[k] = r
    BY <1>4, <1>8, <1>10, <1>11, <2>2
  <2> QED BY <1>12, <2>1, <2>2
<1>17. DraftsFit'
  BY <1>1, <1>8 DEF TableInv, DraftsFit
<1>18. Root(r) = d.thread \/ Root(r) = r.id
  BY <1>4 DEF Root
<1>19. d.thread # Nil => Root(r) = d.thread
  BY <1>4 DEF Root
<1> DEFINE New(t) == t \in ThreadsOf(table') \/ \E e \in drafts' : e.thread = t
<1>20. \A t : New(t) => IsNamed(t) \/ t = r.id
  <2> SUFFICES ASSUME NEW t, New(t), t # r.id PROVE IsNamed(t)
    OBVIOUS
  <2>1. CASE \E e \in drafts' : e.thread = t
    BY <1>1, <2>1 DEF IsNamed
  <2>2. CASE t \in ThreadsOf(table')
    <3>1. PICK k \in DOMAIN table' : t = Root(table'[k])
      BY <2>2 DEF ThreadsOf
    <3>2. CASE k \in DOMAIN table /\ table'[k] = table[k]
      BY <3>1, <3>2 DEF IsNamed, ThreadsOf
    <3>3. CASE table'[k] = r
      BY <1>18, <2>2, <3>1, <3>3 DEF IsNamed
    <3> QED BY <1>12, <3>2, <3>3
  <2> QED BY <2>1, <2>2
<1>21. ~IsNamed(r.id)
  <2>1. \A k \in DOMAIN table : Root(table[k]) \in Used \cup {Old, Nil}
    BY DEF TableInv, RowsFit, Root
  <2>2. \A e \in drafts : e.thread \in Used \cup {Old, Nil}
    BY DEF TableInv, DraftsFit
  <2> QED BY <1>4, <1>7, <2>1, <2>2 DEF IsNamed, ThreadsOf
<1>22. NamedRight'
  <2> SUFFICES ASSUME NEW k \in DOMAIN table', New(table'[k].id), Root(table'[k]) # table'[k].id
               PROVE  legacy /\ table'[k].at = 1
    BY <1>1 DEF NamedRight, IsNamed
  <2>3. New(table'[k].id)
    OBVIOUS
  <2> HIDE DEF New
  <2>1. CASE k \in DOMAIN table /\ table'[k] = table[k]
    <3>1. table[k].id # r.id
      BY <1>4, <1>7, <2>1 DEF TableInv, RowsFit
    <3>2. IsNamed(table[k].id)
      BY <1>20, <2>3, <2>1, <3>1
    <3> QED BY <2>1, <3>2 DEF TableInv, NamedRight
  <2>2. CASE table'[k] = r
    <3>1. Root(r) = d.thread /\ d.thread # r.id
      BY <1>18, <2>2
    <3>2. d.thread # Nil
      BY <1>4, <2>2 DEF Root
    <3>3. r.id \in ThreadsOf(table') \/ \E e \in drafts' : e.thread = r.id
      BY <2>3, <2>2 DEF New
    <3>4. ~\E e \in drafts' : e.thread = r.id
      BY <1>1, <1>21 DEF IsNamed
    <3>5. PICK j \in DOMAIN table' : Root(table'[j]) = r.id
      BY <3>3, <3>4 DEF ThreadsOf
    <3>6. CASE j \in DOMAIN table /\ table'[j] = table[j]
      BY <1>21, <3>5, <3>6 DEF IsNamed, ThreadsOf
    <3>7. CASE table'[j] = r
      BY <3>1, <3>5, <3>7
    <3> QED BY <1>12, <3>6, <3>7
  <2> QED BY <1>12, <2>1, <2>2
<1>23. stored' \in 0..Len(Ids) /\ legacy' \in BOOLEAN
  BY <1>1, <1>5 DEF TableInv
<1> QED BY <1>13, <1>15, <1>16, <1>17, <1>22, <1>23 DEF TableInv

\* The rotation leaves the younger rows, in their order.
LEMMA RotationLeaves ==
  ASSUME TableInv, NEW cutoff \in 1..LastTime, RotateMessages(cutoff)
  PROVE  /\ Len(table') \in Nat /\ DOMAIN table' = 1..Len(table') /\ table' \in Seq(ToSet(table'))
         /\ \A n \in DOMAIN table' : \E k \in DOMAIN table : table[k].at >= cutoff /\ table'[n] = table[k]
         /\ \A k \in DOMAIN table : table[k].at >= cutoff => \E n \in DOMAIN table' : table'[n] = table[k]
<1> DEFINE K == {k \in DOMAIN table : table[k].at >= cutoff}
           R == {e \in K \X K : e[1] < e[2]}
           left == Rising(K)
           c == Cardinality(K)
<1>1. HasTimes(table)
  BY DEF TableInv, IsTable
<1>2. K \in SUBSET DOMAIN table
  OBVIOUS
<1>3. IsFiniteSet(K) /\ K \in SUBSET Nat
  <2> HIDE DEF K
  <2> QED BY <1>1, <1>2, InOrderIs DEF HasTimes
<1>4. table' = [n \in DOMAIN left |-> table[left[n]]]
  BY DEF RotateMessages
<1>5. left = Sorted(K, R)
  BY DEF Rising
<1>6. \A a, b \in K : <<a, b>> \in R <=> a < b
  OBVIOUS
<1> HIDE DEF K, R, left
<1>7. Orders(R, K)
  <2>1. \A a \in K : ~(a < a)
    BY <1>3
  <2>2. \A a, b \in K : a # b => a < b \/ b < a
    BY <1>3
  <2>3. \A a, b, d \in K : a < b /\ b < d => a < d
    BY <1>3
  <2> QED BY <1>6, <2>1, <2>2, <2>3 DEF Orders
<1>8. c \in Nat /\ left \in [1..c -> K] /\ \A k \in K : \E n \in 1..c : left[n] = k
  BY <1>3, <1>5, <1>7, SortedIs
<1>9. DOMAIN table' = 1..c /\ \A n \in 1..c : table'[n] = table[left[n]] /\ left[n] \in K
  BY <1>4, <1>8
<1>10. table' \in [1..c -> ToSet(table')]
  BY <1>4, <1>8, <1>9 DEF ToSet
<1>11. table' \in Seq(ToSet(table'))
  BY <1>8, <1>10, SeqDef
<1>12. Len(table') = c
  BY <1>8, <1>9, <1>11, LenProperties
<1>13. \A n \in DOMAIN table' : \E k \in K : table'[n] = table[k]
  BY <1>9
<1>14. \A k \in K : \E n \in DOMAIN table' : table'[n] = table[k]
  BY <1>8, <1>9
<1> QED BY <1>8, <1>9, <1>11, <1>12, <1>13, <1>14 DEF K

LEMMA RotateStep ==
  ASSUME TableInv, NEW cutoff \in 1..LastTime, RotateMessages(cutoff)
  PROVE  TableInv'
<1>1. UNCHANGED <<stored, drafts, legacy>>
  BY DEF RotateMessages
<1>2. \A n \in DOMAIN table' : \E k \in DOMAIN table : table'[n] = table[k]
  BY RotationLeaves
<1>3. IsTable(table) /\ HasTimes(table)
  BY DEF TableInv, IsTable
<1>4. HasTimes(table)'
  BY <1>2, <1>3, RotationLeaves DEF HasTimes
<1>5. IsTable(table)'
  BY <1>2, <1>3, <1>4 DEF IsTable
<1>6. Used' = Used
  BY <1>1 DEF Used
<1>7. RowsFit' /\ DraftsFit'
  BY <1>1, <1>2, <1>6 DEF TableInv, RowsFit, DraftsFit
<1> DEFINE New(t) == t \in ThreadsOf(table') \/ \E e \in drafts' : e.thread = t
<1>8. \A t : New(t) => IsNamed(t)
  BY <1>1, <1>2 DEF IsNamed, ThreadsOf
<1>9. NamedRight'
  <2> SUFFICES ASSUME NEW n \in DOMAIN table', New(table'[n].id), Root(table'[n]) # table'[n].id
               PROVE  legacy /\ table'[n].at = 1
    BY <1>1 DEF NamedRight, IsNamed
  <2>1. IsNamed(table'[n].id)
    BY <1>8
  <2> HIDE DEF New
  <2>2. PICK k \in DOMAIN table : table'[n] = table[k]
    BY <1>2
  <2>3. IsNamed(table[k].id) /\ Root(table[k]) # table[k].id
    BY <2>1, <2>2
  <2> QED BY <2>2, <2>3 DEF TableInv, NamedRight
<1> QED BY <1>1, <1>5, <1>7, <1>9 DEF TableInv

\* Every step of the table keeps the invariant.
LEMMA TableStep == TableInv /\ [TableNext]_tableVars => TableInv'
<1> SUFFICES ASSUME TableInv, [TableNext]_tableVars PROVE TableInv'
  OBVIOUS
<1>1. IsTable(table)
  BY DEF TableInv
<1>2. ASSUME NEW p \in Exchanges, NEW wanted \in Threads, SendInThread(p, wanted) PROVE TableInv'
  BY <1>1, <1>2, JoinsThread, DraftStep DEF SendInThread
<1>3. ASSUME NEW p \in Exchanges, NEW k \in DOMAIN table, ReplyTo(p, k) PROVE TableInv'
  BY <1>3, DraftStep DEF ReplyTo, ThreadsOf
<1>4. ASSUME NEW d \in drafts, NEW at \in 1..LastTime, StoreRow(d, at) PROVE TableInv'
  BY <1>4, StoreStep
<1>5. ASSUME NEW cutoff \in 1..LastTime, RotateMessages(cutoff) PROVE TableInv'
  BY <1>5, RotateStep
<1>6. CASE UNCHANGED tableVars
  BY <1>6 DEF tableVars, TableInv, IsTable, HasTimes, RowsFit, DraftsFit, NamedRight, IsNamed, ThreadsOf,
              Root, Used
<1> QED BY <1>2, <1>3, <1>4, <1>5, <1>6 DEF TableNext

\* The inductive invariant of the table, for any ids, exchanges and times.
THEOREM TableInvariance == TableSpec => []TableInv
<1> QED BY TableBegins, TableStep, PTL DEF TableSpec

\* List, pane, log, Home and mesh_send tell the same of every thread of any
\* table that sends, replies and the rotation can make, in whatever order and
\* with whatever clocks (services/message-queries.ts: "List and open thread
\* have to agree on who spoke first"), and mesh_history, of any limit, where
\* the pane begins.
THEOREM PagesAgree == TableSpec => []ThreadsAgree
<1>1. TableInv => ThreadsAgree
  BY ListFits, MessagesOpen, SendsJoin, HomeIsNewest, LogFits, HistoryFits DEF TableInv, ThreadsAgree
<1> QED BY <1>1, TableInvariance, PTL

\* The lead sentence and the attention band of Home agree on every incident of
\* any such table.
THEOREM IncidentsTold == TableSpec => []IncidentsAgree
<1>1. TableInv => IncidentsAgree
  BY IncidentsFit DEF TableInv
<1> QED BY <1>1, TableInvariance, PTL

\* A pane that refreshes itself stays with its thread (message-queries.ts:
\* 391-394), for any ids, threads and times.
THEOREM StaysWithItsThread == TableSpec => PaneStays
<1> DEFINE Stays == \A t \in ThreadsOf(table) : GetThread(table', t) # Nil => GetThread(table', t).thread_id = t
<1>1. ASSUME TableInv, TableInv', [TableNext]_tableVars
      PROVE  [Stays]_table
  <2> SUFFICES ASSUME NEW t \in ThreadsOf(table), GetThread(table', t) # Nil, table' # table
               PROVE  GetThread(table', t).thread_id = t
    OBVIOUS
  <2>1. IsTable(table) /\ IsTable(table')
    BY <1>1 DEF TableInv, IsTable, HasTimes
  <2>2. \A root : Pane(table', root, InOrder(table', Members(table', root))).thread_id = root
    BY DEF Pane
  <2>3. PICK m \in DOMAIN table : Root(table[m]) = t
    BY DEF ThreadsOf
  <2>4. SUFFICES ASSUME Members(table', t) = {} PROVE FALSE
    BY <2>1, <2>2, GetThreadIs
  <2>5. PICK j \in DOMAIN table' : table'[j].id = t /\ Root(table'[j]) # t
    <3>1. RowsWithId(table', t) # {}
      BY <2>1, <2>4, GetThreadIs
    <3> QED BY <2>4, <3>1 DEF RowsWithId, Members
  <2>6. ASSUME NEW d \in drafts, NEW at \in 1..LastTime, StoreRow(d, at) PROVE FALSE
    <3>1. m \in DOMAIN table' /\ table'[m] = table[m]
      BY <1>1, <2>6, StoreStep
    <3> QED BY <2>3, <2>4, <3>1 DEF Members
  <2>7. ASSUME NEW cutoff \in 1..LastTime, RotateMessages(cutoff) PROVE FALSE
    <3>1. PICK k \in DOMAIN table : table[k].at >= cutoff /\ table'[j] = table[k]
      BY <1>1, <2>7, RotationLeaves
    <3>2. IsNamed(table[k].id) /\ Root(table[k]) # table[k].id
      BY <2>5, <3>1 DEF IsNamed
    <3>3. table[k].at = 1
      BY <1>1, <3>2 DEF TableInv, NamedRight
    <3>4. table[m].at >= cutoff
      <4>1. table[m].at \in Nat /\ table[m].at >= 1
        BY <1>1 DEF TableInv, RowsFit, IsTable, HasTimes
      <4>2. cutoff \in Nat /\ 1 >= cutoff
        BY <3>1, <3>3, TableAssumption
      <4> QED BY <4>1, <4>2
    <3>5. PICK n \in DOMAIN table' : table'[n] = table[m]
      BY <1>1, <2>7, <3>4, RotationLeaves
    <3> QED BY <2>3, <2>4, <3>5 DEF Members
  <2>8. \A p, u : ~Drafted(p, u)
    BY DEF Drafted
  <2> QED BY <1>1, <2>6, <2>7, <2>8 DEF TableNext, SendInThread, ReplyTo, tableVars
<1> QED BY <1>1, TableInvariance, TableStep, PTL DEF TableSpec, PaneStays

-----------------------------------------------------------------------------
(***************************************************************************)
(* The board.                                                              *)
(***************************************************************************)

\* The board looks for whose inbox the message went to.
LEMMA OwnerIs ==
  ASSUME IsBoard(talk, team), NEW m, NEW e \in ByKey(m.toKey)
  PROVE  Find(m.toKey, m.to) = e /\ e \in team /\ e # NoEntry
<1>1. e \in team /\ e.key = m.toKey /\ e.key # Nil
  BY DEF ByKey, IsBoard
<1>2. \A f \in ByKey(m.toKey) : f = e
  BY <1>1 DEF ByKey, IsBoard
<1>3. Only(ByKey(m.toKey)) = e
  BY <1>2 DEF Only
<1> QED BY <1>1, <1>3 DEF Find, NoEntry

\* What the pair said, by number.
Said(p) == {k \in Direct : PairOf(talk[k]) = p}

LEMMA TalkHasTimes ==
  ASSUME IsBoard(talk, team)
  PROVE  HasTimes(talk)
<1>1. talk \in Seq(ToSet(talk)) /\ \A k \in DOMAIN talk : talk[k].at \in Nat
  BY DEF IsBoard
<1>2. Len(talk) \in Nat /\ DOMAIN talk = 1..Len(talk)
  BY <1>1, LenProperties
<1> QED BY <1>1, <1>2 DEF HasTimes

\* A strand has a last message, and none of it is later.
LEMMA StrandIs ==
  ASSUME IsBoard(talk, team), NEW p \in Pairs
  PROVE  /\ Strand(p) \in Seq(Said(p)) /\ Len(Strand(p)) \in Nat /\ Len(Strand(p)) >= 1
         /\ Last(Strand(p)) = Strand(p)[Len(Strand(p))] /\ Last(Strand(p)) \in Said(p)
         /\ LastBetween(p) = talk[Last(Strand(p))]
         /\ Said(p) \in SUBSET DOMAIN talk /\ IsFiniteSet(Said(p))
         /\ \A k \in Said(p) : talk[k].at \in Nat /\ talk[k].at <= LastBetween(p).at
<1> DEFINE S == Said(p)
           s == Strand(p)
           n == Cardinality(S)
<1>1. HasTimes(talk)
  BY TalkHasTimes
<1>2. S \in SUBSET DOMAIN talk /\ S # {}
  BY DEF Said, Direct, Pairs
<1>3. s = InOrder(talk, S)
  BY DEF Strand, Said
<1>4. /\ n \in Nat /\ IsFiniteSet(S) /\ s \in [1..n -> S] /\ Len(s) = n
      /\ \A k \in S : \E i \in 1..n : s[i] = k
      /\ \A i, j \in 1..n : i < j => Earlier(talk, s[i], s[j])
  BY <1>1, <1>2, <1>3, InOrderIs
<1>5. n >= 1
  BY <1>2, <1>4, FS_EmptySet
<1> HIDE DEF S, s
<1>6. s[n] \in S /\ n \in 1..n
  BY <1>4, <1>5
<1>7. s \in Seq(S) /\ Last(s) = s[n]
  <2>1. s \in Seq(S)
    BY <1>4, SeqDef
  <2> QED BY <1>4, <2>1 DEF Last
<1>8. \A k \in S : talk[k].at \in Nat
  BY <1>1, <1>2 DEF HasTimes
<1>9. ASSUME NEW k \in S PROVE talk[k].at <= talk[s[n]].at
  <2>1. PICK i \in 1..n : s[i] = k
    BY <1>4
  <2>2. i = n \/ i < n
    BY <1>4
  <2>3. i < n => Earlier(talk, k, s[n])
    BY <1>4, <1>6, <2>1
  <2>4. talk[k].at \in Nat /\ talk[s[n]].at \in Nat
    BY <1>6, <1>8
  <2>5. \A a, b \in Nat : a < b \/ a = b => a <= b
    OBVIOUS
  <2> QED BY <2>1, <2>2, <2>3, <2>4, <2>5 DEF Earlier
<1>10. LastBetween(p) = talk[s[n]]
  BY <1>7 DEF LastBetween, s
<1> QED BY <1>2, <1>4, <1>5, <1>6, <1>7, <1>8, <1>9, <1>10 DEF S, s

\* The recent ones begin with one of the last moment.
LEMMA RecentIs ==
  ASSUME IsBoard(talk, team), NEW p \in Pairs, NEW r \in RecentBetween(p)
  PROVE  r[1] \in LastWords(p)
<1> DEFINE S == Said(p)
           s == Strand(p)
           n == Len(s)
           v == Reverse(s)
           t == FirstOf(v, HistoryListed)
           X == ToSet(t)
           c == Cardinality(X)
<1>1. /\ s \in Seq(S) /\ n \in Nat /\ n >= 1 /\ s[n] \in S
      /\ LastBetween(p) = talk[s[n]] /\ IsFiniteSet(S)
      /\ \A k \in S : talk[k].at \in Nat /\ talk[k].at <= talk[s[n]].at
  BY StrandIs
<1>2. r \in SetToSeqs(X) /\ \A i, j \in DOMAIN r : i < j => talk[r[i]].at >= talk[r[j]].at
  BY DEF RecentBetween
<1>3. v = [i \in 1..n |-> s[(n - i) + 1]]
  BY DEF Reverse
<1> HIDE DEF S, s
<1>4. \A i \in 1..n : s[i] \in S
  BY <1>1, ElementOfSeq
<1>5. v \in [1..n -> S] /\ v[1] = s[n]
  <2>1. \A i \in 1..n : (n - i) + 1 \in 1..n
    BY <1>1
  <2>2. 1 \in 1..n /\ (n - 1) + 1 = n
    BY <1>1
  <2> QED BY <1>3, <1>4, <2>1, <2>2
<1>6. v \in Seq(S) /\ Len(v) = n
  <2> HIDE DEF v
  <2>1. v \in Seq(S)
    BY <1>1, <1>5, SeqDef
  <2> QED BY <1>1, <1>5, <2>1, LenProperties
<1> HIDE DEF v
<1>7. /\ t \in Seq(S) /\ Len(t) = (IF n < HistoryListed THEN n ELSE HistoryListed)
      /\ Len(t) \in 0..n /\ \A i \in 1..Len(t) : t[i] = v[i]
  BY <1>6, FirstOfIs, BoardAssumption
<1>8. Len(t) \in Nat /\ 1 \in 1..Len(t)
  BY <1>1, <1>7, BoardAssumption
<1> HIDE DEF t
<1>9. X \in SUBSET S /\ s[n] \in X
  <2>1. DOMAIN t = 1..Len(t) /\ \A i \in 1..Len(t) : t[i] \in S
    BY <1>7, <1>8, LenProperties, ElementOfSeq
  <2> QED BY <1>5, <1>7, <1>8, <2>1 DEF ToSet
<1> HIDE DEF X
<1>10. IsFiniteSet(X) /\ c \in Nat
  BY <1>1, <1>9, FS_Subset, FS_CardinalityType
<1>11. r \in [1..c -> X] /\ \A i, j \in 1..c : i # j => r[i] # r[j]
  BY <1>2 DEF SetToSeqs
<1>12. r \in Surjection(1..c, X)
  <2>1. r \in Injection(1..c, X)
    BY <1>11 DEF Injection, IsInjective
  <2>2. IsFiniteSet(1..c) /\ Cardinality(1..c) = c
    BY <1>10, FS_Interval
  <2> QED BY <1>10, <2>1, <2>2, FS_Injection
<1>13. PICK i \in 1..c : r[i] = s[n]
  BY <1>9, <1>12 DEF Surjection
<1>14. 1 \in 1..c /\ (i = 1 \/ 1 < i) /\ DOMAIN r = 1..c
  BY <1>10, <1>11, <1>13
<1>15. r[1] \in S /\ talk[r[1]].at >= talk[s[n]].at
  <2>1. r[1] \in X
    BY <1>11, <1>14
  <2>2. i = 1 => talk[r[1]].at >= talk[s[n]].at
    BY <1>1, <1>13
  <2>3. 1 < i => talk[r[1]].at >= talk[s[n]].at
    BY <1>2, <1>13, <1>14
  <2> QED BY <1>9, <1>14, <2>1, <2>2, <2>3
<1>16. talk[r[1]].at = LastBetween(p).at
  <2>1. \A a, b \in Nat : a >= b /\ a <= b => a = b
    OBVIOUS
  <2> QED BY <1>1, <1>15, <2>1
<1> QED BY <1>15, <1>16 DEF LastWords, Said, S

\* A row in its parts.
LEMMA RowIs ==
  ASSUME NEW p, NEW m, NEW recent, NEW e, NEW human \in BOOLEAN, human => ~IsQuiet(m)
  PROVE  LET r == RowOf(p, m, recent, e, human)
             reach == IF e # NoEntry /\ e.active THEN ReachOf(e) ELSE "unreachable"
         IN  /\ r.pair = p /\ r.since = m.at
             /\ IsQuiet(m) => r.light = "grey"
             /\ ~IsQuiet(m) /\ human => r.light = "human"
             /\ ~IsQuiet(m) /\ ~human => r.light = LightOf(reach, Today - m.at)
             /\ r.holder = IF Done(m) \/ human THEN Nil ELSE IF e # NoEntry THEN e.name ELSE m.to
             /\ r.delivered <=> ~IsQuiet(m) /\ ~human /\ HandsOver(recent[1])
<1> DEFINE r == RowOf(p, m, recent, e, human)
           reach == IF e # NoEntry /\ e.active THEN ReachOf(e) ELSE "unreachable"
           light == CASE IsQuiet(m) -> "grey"
                      [] human -> "human"
                      [] ~IsQuiet(m) /\ ~human -> LightOf(reach, Today - m.at)
<1>1. /\ r.pair = p /\ r.since = m.at /\ r.light = light
      /\ r.holder = IF Done(m) \/ human THEN Nil ELSE IF e # NoEntry THEN e.name ELSE m.to
      /\ r.delivered <=>
           /\ ~IsQuiet(m) /\ ~human
           /\ talk[recent[1]].type \in DeliveryTypes \/ talk[recent[1]].link # Nil
  BY DEF RowOf
<1> HIDE DEF r, reach
<1>2. /\ IsQuiet(m) => light = "grey"
      /\ ~IsQuiet(m) /\ human => light = "human"
      /\ ~IsQuiet(m) /\ ~human => light = LightOf(reach, Today - m.at)
  <2>1. CASE IsQuiet(m)
    BY <2>1
  <2>2. CASE human
    BY <2>2
  <2>3. CASE ~IsQuiet(m) /\ ~human
    BY <2>3
  <2> QED BY <2>1, <2>2, <2>3
<1> QED BY <1>1, <1>2 DEF r, reach, HandsOver

\* The lights of an agent's ball.
LEMMA LightIs ==
  ASSUME NEW reach, NEW age
  PROVE  LightOf(reach, age) = "red" <=> reach = "unreachable"
BY DEF LightOf

LEMMA ReachIs ==
  ASSUME NEW e, e # NoEntry, e.active \in BOOLEAN
  PROVE  (IF e # NoEntry /\ e.active THEN ReachOf(e) ELSE "unreachable") = "unreachable" <=> ~CanBeWoken(e)
BY DEF ReachOf, CanBeWoken

\* A pair's row, when it is open, tells where the ball is.
LEMMA OpenRowFits ==
  ASSUME IsBoard(talk, team), NEW p \in Pairs, NEW recent \in RecentBetween(p)
  PROVE  /\ BoardRow(p, recent).pair = p
         /\ BoardRow(p, recent).since = LastBetween(p).at
         /\ BoardRow(p, recent).light # "grey" => OpenRowIsRight(BoardRow(p, recent))
<1> DEFINE m == LastBetween(p)
           e == Recipient(m)
           human == HumanBall(m, e)
           r == BoardRow(p, recent)
           reach == IF e # NoEntry /\ e.active THEN ReachOf(e) ELSE "unreachable"
<1>1. recent[1] \in LastWords(p)
  BY RecentIs
<1>2. r = RowOf(p, m, recent, e, human)
  BY DEF BoardRow
<1>3. human <=> ~IsQuiet(m) /\ (Asked(m) \/ (e # NoEntry /\ e.says = "human"))
  BY DEF HumanBall
<1>4. human \in BOOLEAN
  BY DEF HumanBall
<1>5. ~Done(m) /\ ~Asked(m) => e = Find(m.toKey, m.to)
  BY DEF Recipient
<1> HIDE DEF m, e, human, r, reach
<1>6. /\ r.pair = p /\ r.since = m.at
      /\ IsQuiet(m) => r.light = "grey"
      /\ ~IsQuiet(m) /\ human => r.light = "human"
      /\ ~IsQuiet(m) /\ ~human => r.light = LightOf(reach, Today - m.at)
      /\ r.holder = IF Done(m) \/ human THEN Nil ELSE IF e # NoEntry THEN e.name ELSE m.to
      /\ r.delivered <=> ~IsQuiet(m) /\ ~human /\ HandsOver(recent[1])
  <2>1. human => ~IsQuiet(m)
    BY <1>3
  <2> QED BY <1>2, <1>4, <2>1, RowIs DEF reach
<1>7. ASSUME r.light # "grey" PROVE OpenRowIsRight(r)
  <2>1. ~IsQuiet(m) /\ ~Done(m)
    BY <1>6, <1>7 DEF IsQuiet
  <2>2. ASSUME NEW f \in ByKey(m.toKey)
        PROVE  /\ r.holder # Nil => r.holder = f.name
               /\ r.light = "red" <=> r.holder # Nil /\ ~CanBeWoken(f)
    <3>1. Find(m.toKey, m.to) = f /\ f \in team /\ f # NoEntry
      BY OwnerIs
    <3>2. f.name # Nil /\ f.active \in BOOLEAN
      BY <3>1 DEF IsBoard
    <3>3. CASE human
      BY <1>6, <2>1, <3>3
    <3>4. CASE ~human
      <4>1. e = f
        BY <1>3, <1>5, <2>1, <3>1, <3>4
      <4>2. r.holder = f.name
        BY <1>6, <2>1, <3>1, <3>4, <4>1
      <4>3. r.light = "red" <=> reach = "unreachable"
        BY <1>6, <2>1, <3>4, LightIs
      <4>4. reach = "unreachable" <=> ~CanBeWoken(f)
        BY <3>1, <3>2, <4>1, ReachIs DEF reach
      <4> QED BY <3>2, <4>2, <4>3, <4>4
    <3> QED BY <1>4, <3>3, <3>4
  <2>3. r.delivered => \E k \in LastWords(p) : HandsOver(k)
    BY <1>1, <1>6
  <2>4. r.holder # Nil /\ (\A k \in LastWords(p) : HandsOver(k)) => r.delivered
    BY <1>1, <1>6, <2>1
  <2>5. LastBetween(r.pair) = m /\ r.pair = p
    BY <1>6 DEF m
  <2> QED BY <2>2, <2>3, <2>4, <2>5 DEF OpenRowIsRight
<1> QED BY <1>6, <1>7 DEF r, m

\* There are finitely many pairs.
LEMMA PairsAreFinite == IsBoard(talk, team) => IsFiniteSet(Pairs)
<1> SUFFICES ASSUME IsBoard(talk, team) PROVE IsFiniteSet(Pairs)
  OBVIOUS
<1>1. IsFiniteSet(Direct)
  <2>1. Direct \in SUBSET DOMAIN talk
    BY DEF Direct
  <2> QED BY <2>1, TalkHasTimes, InOrderIs
<1> DEFINE f == [k \in Direct |-> PairOf(talk[k])]
<1>2. IsFiniteSet({f[k] : k \in Direct})
  BY <1>1, ImageIsFinite
<1>3. {f[k] : k \in Direct} = Pairs
  BY DEF Pairs
<1> QED BY <1>2, <1>3

\* The board tells where the ball is, of any messages and any team, whatever
\* order its reads give to rows of one time and however many pairs they leave
\* out.
THEOREM BoardTells == IsBoard(talk, team) => BoardTellsTheBall
<1> SUFFICES ASSUME IsBoard(talk, team), NEW rows \in Boards
             PROVE  /\ \A r, o \in rows : r.pair = o.pair => r = o
                    /\ \A p \in Pairs \ {r.pair : r \in rows} :
                         Cardinality(rows) = PairsListed /\ \A r \in rows : r.since >= LastBetween(p).at
                    /\ \A quiet \in QuietLists(rows) :
                         \A r \in rows \ (WaitingForHuman(rows) \cup InPlay(rows) \cup quiet) :
                           Cardinality(quiet) = QuietListed /\ \A o \in quiet : o.since >= r.since
                    /\ \A r \in Open(rows) : OpenRowIsRight(r)
  BY DEF BoardTellsTheBall
<1>11. PICK pairs \in PairsRead : rows \in {BoardRows(pairs, g) : g \in Readings(pairs)}
  BY DEF Boards
<1>1. PICK f \in Readings(pairs) : rows = BoardRows(pairs, f)
  BY <1>11
<1> DEFINE time == [p \in Pairs |-> LastBetween(p).at]
<1>2. /\ pairs \in SUBSET Pairs
      /\ \A p \in Pairs \ pairs :
           Cardinality(pairs) = PairsListed /\ \A q \in pairs : time[q] >= time[p]
  <2>1. pairs \in NewestOf(Pairs, time, PairsListed)
    BY DEF PairsRead
  <2> HIDE DEF time
  <2> QED BY <2>1, PairsAreFinite, NewestAre
<1> DEFINE row == [p \in pairs |-> BoardRow(p, f[p])]
<1>3. rows = {row[p] : p \in pairs}
  BY <1>1 DEF BoardRows
<1>4. ASSUME NEW p \in pairs
      PROVE  /\ row[p].pair = p /\ row[p].since = time[p]
             /\ row[p].light # "grey" => OpenRowIsRight(row[p])
  <2>1. f[p] \in RecentBetween(p) /\ p \in Pairs
    BY <1>1, <1>2 DEF Readings
  <2> QED BY <2>1, OpenRowFits
<1>5. IsFiniteSet(rows) /\ Cardinality(rows) = Cardinality(pairs)
  <2>1. IsFiniteSet(pairs)
    BY <1>2, PairsAreFinite, FS_Subset
  <2>2. row \in [pairs -> rows] /\ \A q \in rows : \E p \in pairs : row[p] = q
    BY <1>3
  <2>3. \A p, q \in pairs : row[p] = row[q] => p = q
    BY <1>4
  <2> HIDE DEF row
  <2>4. row \in Bijection(pairs, rows)
    BY <2>2, <2>3 DEF Bijection, Injection, Surjection, IsInjective
  <2>5. ExistsBijection(pairs, rows)
    BY <2>4 DEF ExistsBijection
  <2> QED BY <2>1, <2>5, FS_Bijection
<1> HIDE DEF row
<1>6. ASSUME NEW r \in rows
      PROVE  \E p \in pairs : r = row[p] /\ r.pair = p /\ r.since = time[p]
  <2>1. PICK p \in pairs : r = row[p]
    BY <1>3
  <2> HIDE DEF time
  <2> QED BY <1>4, <2>1
<1>7. ASSUME NEW r \in rows, NEW o \in rows, r.pair = o.pair PROVE r = o
  <2> HIDE DEF time
  <2>1. PICK p \in pairs : r = row[p] /\ r.pair = p
    BY <1>6
  <2>2. PICK q \in pairs : o = row[q] /\ o.pair = q
    BY <1>6
  <2> QED BY <1>7, <2>1, <2>2
<1>8. ASSUME NEW p \in Pairs \ {r.pair : r \in rows}
      PROVE  Cardinality(rows) = PairsListed /\ \A r \in rows : r.since >= LastBetween(p).at
  <2>1. p \notin pairs
    BY <1>3, <1>4
  <2>2. time[p] = LastBetween(p).at
    OBVIOUS
  <2> HIDE DEF time
  <2>3. Cardinality(pairs) = PairsListed /\ \A q \in pairs : time[q] >= time[p]
    BY <1>2, <2>1
  <2>4. \A r \in rows : r.since >= time[p]
    BY <1>6, <2>3
  <2> QED BY <1>5, <2>2, <2>3, <2>4
<1>9. ASSUME NEW quiet \in QuietLists(rows),
             NEW r \in rows \ (WaitingForHuman(rows) \cup InPlay(rows) \cup quiet)
      PROVE  Cardinality(quiet) = QuietListed /\ \A o \in quiet : o.since >= r.since
  <2> DEFINE grey == rows \ Open(rows)
             since == [o \in rows |-> o.since]
  <2>1. quiet \in NewestOf(grey, since, QuietListed)
    BY DEF QuietLists
  <2>2. r \in grey \ quiet
    BY DEF WaitingForHuman, InPlay
  <2>3. IsFiniteSet(grey)
    BY <1>5, FS_Subset
  <2>4. \A o \in grey : since[o] = o.since
    OBVIOUS
  <2> HIDE DEF grey, since
  <2>5. quiet \in SUBSET grey /\ Cardinality(quiet) = QuietListed
        /\ \A o \in quiet : since[o] >= since[r]
    BY <2>1, <2>2, <2>3, NewestAre
  <2> QED BY <2>2, <2>4, <2>5
<1>10. ASSUME NEW r \in Open(rows) PROVE OpenRowIsRight(r)
  <2>1. r \in rows /\ r.light # "grey"
    BY DEF Open
  <2> HIDE DEF time
  <2>2. PICK p \in pairs : r = row[p]
    BY <1>6, <2>1
  <2> QED BY <1>4, <2>1, <2>2
<1> QED BY <1>7, <1>8, <1>9, <1>10
==============================================================================
