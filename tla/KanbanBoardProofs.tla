--------------------------- MODULE KanbanBoardProofs ---------------------------
(***************************************************************************)
(* Proofs about the kanban and its tabs.                                   *)
(***************************************************************************)
EXTENDS KanbanBoard, TLAPS, FiniteSetTheorems

-----------------------------------------------------------------------------
(* Sorted lists.                                                           *)

StrictOrder(S, R) ==
  /\ \A s \in S : <<s, s>> \notin R
  /\ \A s, t, u \in S : <<s, t>> \in R /\ <<t, u>> \in R => <<s, u>> \in R
  /\ \A s, t \in S : s # t => <<s, t>> \in R \/ <<t, s>> \in R

\* A sequence with every element of S once, in the order R.
SortedList(q, S, R) ==
  /\ q \in Seq(S)
  /\ \A s \in S : \E i \in 1 .. Len(q) : q[i] = s
  /\ \A i, j \in 1 .. Len(q) : i < j => <<q[i], q[j]>> \in R

Below(S, R, s) == {t \in S : <<t, s>> \in R}
RankIn(S, R, s) == 1 + Cardinality(Below(S, R, s))

\* The rank of an element counts those before it.
LEMMA RankGrows ==
  ASSUME NEW S, IsFiniteSet(S), NEW R, StrictOrder(S, R)
  PROVE  /\ Cardinality(S) \in Nat
         /\ \A s \in S : RankIn(S, R, s) \in 1 .. Cardinality(S)
         /\ \A s, t \in S : <<s, t>> \in R => RankIn(S, R, s) < RankIn(S, R, t)
<1>1. Cardinality(S) \in Nat
  BY FS_CardinalityType
<1>2. ASSUME NEW s \in S
      PROVE  /\ IsFiniteSet(Below(S, R, s)) /\ Cardinality(Below(S, R, s)) \in Nat
             /\ Cardinality(Below(S, R, s)) < Cardinality(S)
  <2>1. Below(S, R, s) \in SUBSET S /\ s \notin Below(S, R, s)
    BY DEF Below, StrictOrder
  <2>2. /\ IsFiniteSet(Below(S, R, s)) /\ Cardinality(Below(S, R, s)) <= Cardinality(S)
        /\ Cardinality(S) = Cardinality(Below(S, R, s)) => S = Below(S, R, s)
    BY <2>1, FS_Subset
  <2>3. Cardinality(Below(S, R, s)) \in Nat
    BY <2>2, FS_CardinalityType
  <2> QED BY <1>1, <2>1, <2>2, <2>3
<1>3. ASSUME NEW s \in S, NEW t \in S, <<s, t>> \in R
      PROVE  Cardinality(Below(S, R, s)) < Cardinality(Below(S, R, t))
  <2>1. Below(S, R, s) \in SUBSET Below(S, R, t)
    BY <1>3 DEF Below, StrictOrder
  <2>2. s \in Below(S, R, t) /\ s \notin Below(S, R, s)
    BY <1>3 DEF Below, StrictOrder
  <2>3. /\ Cardinality(Below(S, R, s)) <= Cardinality(Below(S, R, t))
        /\ Cardinality(Below(S, R, t)) = Cardinality(Below(S, R, s)) => Below(S, R, s) = Below(S, R, t)
    BY <1>2, <2>1, FS_Subset
  <2> QED BY <1>2, <2>2, <2>3
<1> QED BY <1>1, <1>2, <1>3 DEF RankIn

\* Every rank is taken.
LEMMA RanksTaken ==
  ASSUME NEW S, IsFiniteSet(S), NEW R, StrictOrder(S, R)
  PROVE  /\ \A i \in 1 .. Cardinality(S) : \E s \in S : RankIn(S, R, s) = i
         /\ \A s, t \in S : RankIn(S, R, s) = RankIn(S, R, t) => s = t
<1> DEFINE n == Cardinality(S)
           rank == [s \in S |-> RankIn(S, R, s)]
<1>1. /\ n \in Nat
      /\ \A s \in S : rank[s] \in 1 .. n /\ rank[s] = RankIn(S, R, s)
      /\ \A s, t \in S : <<s, t>> \in R => rank[s] < rank[t]
  BY RankGrows
<1>2. \A s, t \in S : rank[s] = rank[t] => s = t
  <2> SUFFICES ASSUME NEW s \in S, NEW t \in S, s # t PROVE rank[s] # rank[t]
    OBVIOUS
  <2>1. rank[s] < rank[t] \/ rank[t] < rank[s]
    BY <1>1 DEF StrictOrder
  <2>2. rank[s] \in Int /\ rank[t] \in Int
    BY <1>1
  <2> HIDE DEF rank
  <2> QED BY <2>1, <2>2
<1>3. rank \in Injection(S, 1 .. n)
  BY <1>1, <1>2 DEF Injection, IsInjective
<1>4. rank \in Surjection(S, 1 .. n)
  <2>1. IsFiniteSet(1 .. n) /\ Cardinality(1 .. n) = n
    BY <1>1, FS_Interval
  <2> HIDE DEF rank
  <2> QED BY <1>3, <2>1, FS_Injection
<1>5. \A i \in 1 .. n : \E s \in S : rank[s] = i
  BY <1>4 DEF Surjection
<1> HIDE DEF rank
<1> QED BY <1>1, <1>2, <1>5

\* A sequence of elements at their ranks is sorted.
LEMMA RanksSort ==
  ASSUME NEW S, IsFiniteSet(S), NEW R, StrictOrder(S, R), NEW q \in [1 .. Cardinality(S) -> S],
         \A i \in 1 .. Cardinality(S) : RankIn(S, R, q[i]) = i
  PROVE  SortedList(q, S, R) /\ Len(q) = Cardinality(S)
<1> DEFINE n == Cardinality(S)
<1>1. /\ n \in Nat
      /\ \A s \in S : RankIn(S, R, s) \in 1 .. n
      /\ \A s, t \in S : <<s, t>> \in R => RankIn(S, R, s) < RankIn(S, R, t)
  BY RankGrows
<1>2. /\ q \in [1 .. n -> S]
      /\ \A i \in 1 .. n : RankIn(S, R, q[i]) = i
  OBVIOUS
<1> HIDE DEF n
<1>7. q \in Seq(S) /\ Len(q) = n
  BY <1>1, <1>2
<1>8. \A s \in S : \E i \in 1 .. n : q[i] = s
  <2> TAKE s \in S
  <2>1. RankIn(S, R, s) \in 1 .. n
    BY <1>1
  <2>2. PICK i \in 1 .. n : i = RankIn(S, R, s)
    BY <2>1
  <2>3. q[i] \in S /\ RankIn(S, R, q[i]) = RankIn(S, R, s)
    BY <1>2, <2>2
  <2> QED BY <2>3, RanksTaken
<1>9. ASSUME NEW i \in 1 .. n, NEW j \in 1 .. n, i < j PROVE <<q[i], q[j]>> \in R
  <2>1. q[i] \in S /\ q[j] \in S /\ RankIn(S, R, q[i]) = i /\ RankIn(S, R, q[j]) = j
    BY <1>2
  <2>2. q[i] # q[j]
    BY <1>9, <2>1
  <2>3. <<q[j], q[i]>> \in R => j < i
    BY <1>1, <2>1
  <2>4. ~ (j < i)
    BY <1>1, <1>9
  <2> QED BY <2>1, <2>2, <2>3, <2>4 DEF StrictOrder
<1> QED BY <1>7, <1>8, <1>9 DEF SortedList, n

\* In a sorted sequence every element is at its rank.
LEMMA SortedRanks ==
  ASSUME NEW S, IsFiniteSet(S), NEW R, StrictOrder(S, R), NEW q, SortedList(q, S, R)
  PROVE  /\ Cardinality(S) \in Nat /\ Len(q) = Cardinality(S)
         /\ q \in [1 .. Len(q) -> S]
         /\ \A i \in 1 .. Len(q) : RankIn(S, R, q[i]) = i
         /\ \A i, j \in 1 .. Len(q) : q[i] = q[j] => i = j
<1> DEFINE n == Cardinality(S)
           m == Len(q)
<1>1. /\ n \in Nat
      /\ \A s, t \in S : <<s, t>> \in R => RankIn(S, R, s) < RankIn(S, R, t)
      /\ \A s \in S : RankIn(S, R, s) \in 1 .. n
  BY RankGrows
<1>2. /\ m \in Nat /\ q \in [1 .. m -> S]
      /\ \A s \in S : \E i \in 1 .. m : q[i] = s
      /\ \A i, j \in 1 .. m : i < j => <<q[i], q[j]>> \in R
  BY DEF SortedList
<1> HIDE DEF n, m
<1>3. ASSUME NEW i \in 1 .. m, NEW j \in 1 .. m PROVE <<q[i], q[j]>> \in R <=> i < j
  <2>1. q[i] \in S /\ q[j] \in S
    BY <1>2
  <2>2. CASE i < j
    BY <1>2, <2>2
  <2>3. CASE i = j
    BY <2>1, <2>3 DEF StrictOrder
  <2>4. CASE j < i
    <3>1. <<q[j], q[i]>> \in R
      BY <1>2, <2>4
    <3>2. <<q[i], q[j]>> \notin R
      BY <2>1, <3>1 DEF StrictOrder
    <3> QED BY <2>4, <3>2
  <2>5. i \in Int /\ j \in Int
    OBVIOUS
  <2> QED BY <2>2, <2>3, <2>4, <2>5
<1>4. \A i, j \in 1 .. m : q[i] = q[j] => i = j
  <2> SUFFICES ASSUME NEW i \in 1 .. m, NEW j \in 1 .. m, q[i] = q[j] PROVE i = j
    OBVIOUS
  <2>1. q[i] \in S /\ <<q[i], q[i]>> \notin R
    BY <1>2 DEF StrictOrder
  <2>2. ~ (i < j) /\ ~ (j < i) /\ i \in Int /\ j \in Int
    BY <1>3, <2>1
  <2> QED BY <2>2
<1>5. q \in Bijection(1 .. m, S)
  <2>1. q \in Injection(1 .. m, S)
    BY <1>2, <1>4 DEF Injection, IsInjective
  <2>2. q \in Surjection(1 .. m, S)
    BY <1>2 DEF Surjection
  <2> QED BY <2>1, <2>2 DEF Bijection
<1>6. m = n
  <2>1. ExistsBijection(1 .. m, S)
    BY <1>5 DEF ExistsBijection
  <2> QED BY <1>2, <2>1, FS_CountingElements DEF n
<1>7. ASSUME NEW i \in 1 .. m PROVE RankIn(S, R, q[i]) = i
  <2> DEFINE f == [j \in 1 .. i - 1 |-> q[j]]
             B == Below(S, R, q[i])
  <2>1. i - 1 \in Nat /\ \A j \in 1 .. i - 1 : j \in 1 .. m /\ j < i
    BY <1>2
  <2>2. \A j \in 1 .. i - 1 : f[j] \in B
    <3> TAKE j \in 1 .. i - 1
    <3>1. q[j] \in S /\ <<q[j], q[i]>> \in R
      BY <1>2, <2>1
    <3> QED BY <3>1 DEF Below
  <2>3. ASSUME NEW t \in B PROVE \E j \in 1 .. i - 1 : f[j] = t
    <3>1. t \in S /\ <<t, q[i]>> \in R
      BY DEF Below
    <3>2. PICK j \in 1 .. m : q[j] = t
      BY <1>2, <3>1
    <3>3. j < i
      BY <1>3, <3>1, <3>2
    <3>4. j \in 1 .. i - 1
      BY <1>2, <3>3
    <3> QED BY <3>2, <3>4
  <2>4. f \in [1 .. i - 1 -> B]
    BY <2>2
  <2>5. \A j, k \in 1 .. i - 1 : f[j] = f[k] => j = k
    BY <1>4, <2>1
  <2> HIDE DEF f, B
  <2>6. f \in Injection(1 .. i - 1, B) /\ f \in Surjection(1 .. i - 1, B)
    BY <2>3, <2>4, <2>5 DEF Injection, IsInjective, Surjection
  <2>7. ExistsBijection(1 .. i - 1, B)
    BY <2>6 DEF ExistsBijection, Bijection
  <2>8. Cardinality(B) = i - 1
    BY <2>1, <2>7, FS_CountingElements
  <2> QED BY <1>2, <2>8 DEF RankIn, B
<1> QED BY <1>1, <1>2, <1>4, <1>6, <1>7 DEF n, m

\* Two sorted sequences of one set are the same.
LEMMA SortedOnce ==
  ASSUME NEW S, IsFiniteSet(S), NEW R, StrictOrder(S, R),
         NEW p, SortedList(p, S, R), NEW q, SortedList(q, S, R)
  PROVE  p = q
<1>1. /\ Cardinality(S) \in Nat /\ Len(p) = Cardinality(S) /\ p \in [1 .. Len(p) -> S]
      /\ \A i \in 1 .. Len(p) : RankIn(S, R, p[i]) = i
  BY SortedRanks
<1>2. /\ Len(q) = Cardinality(S) /\ q \in [1 .. Len(q) -> S]
      /\ \A i \in 1 .. Len(q) : RankIn(S, R, q[i]) = i
  BY SortedRanks
<1>3. \A s, t \in S : RankIn(S, R, s) = RankIn(S, R, t) => s = t
  BY RanksTaken
<1>4. \A i \in 1 .. Len(p) : p[i] = q[i]
  BY <1>1, <1>2, <1>3
<1> QED BY <1>1, <1>2, <1>4

-----------------------------------------------------------------------------
(* The operators on lists.                                                 *)

Distinct(q) == \A i, j \in 1 .. Len(q) : q[i] = q[j] => i = j

\* Every story once.
AllOnce(q) ==
  q \in Seq(Stories) /\ Distinct(q) /\ \A s \in Stories : \E i \in 1 .. Len(q) : q[i] = s

\* The order of the database.
RowOrder(r) == {p \in Stories \X Stories : Before(r, p[1], p[2])}

\* The elements of a sequence of any set.
LEMMA ToSetIs ==
  ASSUME NEW T, NEW q \in Seq(T)
  PROVE  ToSet(q) = {q[i] : i \in 1 .. Len(q)}
BY DEF ToSet

\* A sorted list has each element once.
LEMMA SortedListDistinct ==
  ASSUME NEW S, IsFiniteSet(S), NEW R, StrictOrder(S, R), NEW q, SortedList(q, S, R)
  PROVE  /\ q \in Seq(S) /\ Distinct(q)
         /\ ToSet(q) = S
<1>1. q \in Seq(S) /\ Distinct(q)
  BY SortedRanks DEF SortedList, Distinct
<1>2. ToSet(q) = S
  BY DEF SortedList, ToSet
<1> QED BY <1>1, <1>2

\* Positions and then ids are a strict order of any cards, and those are finitely many.
LEMMA RowOrderStrict ==
  ASSUME NEW r \in Rows, NEW S \in SUBSET Stories
  PROVE  IsFiniteSet(S) /\ StrictOrder(S, RowOrder(r))
<1>1. IsFiniteSet(S)
  BY StoriesAssumption, FS_Subset
<1>2. \A s \in S : s \in Nat /\ s \in Stories /\ r[s].order \in Nat
  BY StoriesAssumption DEF Rows
<1>3. \A s \in S : <<s, s>> \notin RowOrder(r)
  BY <1>2 DEF RowOrder, Before
<1>4. \A s, t, u \in S : <<s, t>> \in RowOrder(r) /\ <<t, u>> \in RowOrder(r) => <<s, u>> \in RowOrder(r)
  BY <1>2 DEF RowOrder, Before
<1>5. \A s, t \in S : s # t => <<s, t>> \in RowOrder(r) \/ <<t, s>> \in RowOrder(r)
  BY <1>2 DEF RowOrder, Before
<1> QED BY <1>1, <1>3, <1>4, <1>5 DEF StrictOrder

\* Sorted sorts.
LEMMA SortedSorts ==
  ASSUME NEW r \in Rows, NEW S \in SUBSET Stories
  PROVE  SortedList(Sorted(r, S), S, RowOrder(r)) /\ Len(Sorted(r, S)) = Cardinality(S)
<1> DEFINE n == Cardinality(S)
           R == RowOrder(r)
           q == Sorted(r, S)
<1>1. IsFiniteSet(S) /\ StrictOrder(S, R)
  BY RowOrderStrict
<1>2. n \in Nat
  BY <1>1, FS_CardinalityType
<1>3. \A s \in S : Below(S, R, s) = {t \in S : Before(r, t, s)}
  BY DEF Below, RowOrder
<1>4. \A i \in 1 .. n : \E s \in S : RankIn(S, R, s) = i
  <2> HIDE DEF R
  <2> QED BY <1>1, RanksTaken
<1>5. ASSUME NEW i \in 1 .. n
      PROVE  LET c == CHOOSE s \in S : i = 1 + Cardinality({t \in S : Before(r, t, s)})
             IN c \in S /\ RankIn(S, R, c) = i
  <2> DEFINE c == CHOOSE s \in S : i = 1 + Cardinality({t \in S : Before(r, t, s)})
  <2>1. PICK s \in S : RankIn(S, R, s) = i
    BY <1>4
  <2>2. i = 1 + Cardinality({t \in S : Before(r, t, s)})
    BY <1>3, <2>1 DEF RankIn
  <2>3. c \in S /\ i = 1 + Cardinality({t \in S : Before(r, t, c)})
    BY <2>2
  <2> HIDE DEF c
  <2>4. c \in S /\ RankIn(S, R, c) = i
    BY <1>3, <2>3 DEF RankIn
  <2> QED BY <2>4 DEF c
<1>6. q = [i \in 1 .. n |-> CHOOSE s \in S : i = 1 + Cardinality({t \in S : Before(r, t, s)})]
  BY DEF Sorted
<1> HIDE DEF q, R
<1>7. q \in [1 .. n -> S] /\ \A i \in 1 .. n : RankIn(S, R, q[i]) = i
  BY <1>5, <1>6
<1> HIDE DEF n
<1>8. SortedList(q, S, R) /\ Len(q) = n
  BY <1>1, <1>7, RanksSort DEF n
<1> QED BY <1>8 DEF q, R, n

\* The places of a set of places, in their order.
Less(I) == {p \in I \X I : p[1] < p[2]}

\* < on places.
LEMMA LessStrict ==
  ASSUME NEW I \in SUBSET Int
  PROVE  StrictOrder(I, Less(I))
<1>1. \A i \in I : i \in Int
  OBVIOUS
<1> QED BY <1>1 DEF StrictOrder, Less

NthPlace(I, k) == CHOOSE i \in I : k = Cardinality({j \in I : j <= i})

\* The places of a finite set of them, from the first to the last.
LEMMA NthPlaces ==
  ASSUME NEW I \in SUBSET Int, IsFiniteSet(I)
  PROVE  LET p == [k \in 1 .. Cardinality(I) |-> NthPlace(I, k)]
         IN  /\ SortedList(p, I, Less(I)) /\ Len(p) = Cardinality(I)
             /\ p \in [1 .. Cardinality(I) -> I]
<1> DEFINE n == Cardinality(I)
           R == Less(I)
           p == [k \in 1 .. n |-> NthPlace(I, k)]
<1>1. IsFiniteSet(I) /\ StrictOrder(I, R)
  BY LessStrict
<1>2. n \in Nat
  BY <1>1, FS_CardinalityType
<1>3. ASSUME NEW i \in I PROVE Cardinality({j \in I : j <= i}) = RankIn(I, R, i)
  <2> DEFINE B == Below(I, R, i)
  <2>1. B \in SUBSET I /\ IsFiniteSet(B) /\ i \notin B
    BY <1>1, FS_Subset DEF Below, StrictOrder
  <2>2. {j \in I : j <= i} = B \cup {i}
    <3>1. B = {j \in I : j < i}
      BY DEF Below, Less
    <3>2. \A j \in I : j <= i <=> j < i \/ j = i
      OBVIOUS
    <3> HIDE DEF B
    <3> QED BY <3>1, <3>2
  <2>3. RankIn(I, R, i) = 1 + Cardinality(B)
    BY DEF RankIn
  <2> HIDE DEF B
  <2>4. Cardinality(B \cup {i}) = Cardinality(B) + 1
    BY <2>1, FS_AddElement
  <2>5. Cardinality(B) \in Nat
    BY <2>1, FS_CardinalityType
  <2>6. Cardinality({j \in I : j <= i}) = Cardinality(B \cup {i})
    BY <2>2, Zenon
  <2> QED BY <2>3, <2>4, <2>5, <2>6
<1> HIDE DEF p, R
<1>4. \A k \in 1 .. n : \E i \in I : RankIn(I, R, i) = k
  <2> HIDE DEF n
  <2>1. \A U, Q : IsFiniteSet(U) /\ StrictOrder(U, Q) =>
          \A k \in 1 .. Cardinality(U) : \E i \in U : RankIn(U, Q, i) = k
    BY RanksTaken
  <2>2. \A k \in 1 .. Cardinality(I) : \E i \in I : RankIn(I, R, i) = k
    BY <1>1, <2>1, Zenon
  <2> QED BY <2>2 DEF n
<1>5. ASSUME NEW k \in 1 .. n PROVE NthPlace(I, k) \in I /\ RankIn(I, R, NthPlace(I, k)) = k
  <2>1. PICK i \in I : RankIn(I, R, i) = k
    BY <1>4
  <2>2. k = Cardinality({j \in I : j <= i})
    BY <1>3, <2>1
  <2>3. NthPlace(I, k) \in I /\ k = Cardinality({j \in I : j <= NthPlace(I, k)})
    BY <2>2 DEF NthPlace
  <2> QED BY <1>3, <2>3
<1>6. p \in [1 .. n -> I] /\ \A k \in 1 .. n : RankIn(I, R, p[k]) = k
  BY <1>5 DEF p
<1> HIDE DEF n
<1>8. SortedList(p, I, R) /\ Len(p) = n
  BY <1>1, <1>6, RanksSort DEF n
<1> QED BY <1>6, <1>8 DEF n, p, R

\* Chosen takes the elements from these places.
LEMMA ChosenPlaces ==
  ASSUME NEW T, NEW q \in Seq(T), NEW I \in SUBSET (1 .. Len(q))
  PROVE  \E p : /\ SortedList(p, I, Less(I))
                /\ p \in [1 .. Len(p) -> I] /\ Len(p) \in Nat
                /\ \A k \in 1 .. Len(p) : p[k] \in 1 .. Len(q) /\ p[k] \in Int
                /\ Chosen(q, I) = [k \in 1 .. Len(p) |-> q[p[k]]]
                /\ Chosen(q, I) \in Seq(T)
<1> DEFINE n == Cardinality(I)
           p == [k \in 1 .. n |-> NthPlace(I, k)]
<1>1. Len(q) \in Nat /\ \A i \in 1 .. Len(q) : q[i] \in T
  OBVIOUS
<1>2. I \in SUBSET Int /\ IsFiniteSet(I)
  <2>1. IsFiniteSet(1 .. Len(q))
    BY <1>1, FS_Interval
  <2>2. IsFiniteSet(I)
    BY <2>1, FS_Subset
  <2> QED BY <1>1, <2>2
<1>3. n \in Nat
  BY <1>2, FS_CardinalityType
<1>4. SortedList(p, I, Less(I)) /\ Len(p) = n /\ p \in [1 .. n -> I]
  BY <1>2, NthPlaces
<1>5. Chosen(q, I) = [k \in 1 .. n |-> q[p[k]]]
  BY DEF Chosen, NthPlace
<1> HIDE DEF n, p
<1>6. \A k \in 1 .. n : p[k] \in I /\ p[k] \in 1 .. Len(q)
  BY <1>4
<1>7. \A k \in 1 .. n : q[p[k]] \in T
  BY <1>1, <1>6
<1>8. Chosen(q, I) \in Seq(T)
  BY <1>3, <1>5, <1>7
<1>9. \A k \in 1 .. n : p[k] \in Int
  BY <1>1, <1>6
<1> QED BY <1>3, <1>4, <1>5, <1>6, <1>8, <1>9

\* What is chosen from a sorted list is sorted.
LEMMA ChosenSorted ==
  ASSUME NEW S, NEW R, NEW q, SortedList(q, S, R), NEW I \in SUBSET (1 .. Len(q))
  PROVE  SortedList(Chosen(q, I), {q[i] : i \in I}, R)
<1> DEFINE T == {q[i] : i \in I}
           c == Chosen(q, I)
<1>1. q \in Seq(S) /\ \A i, j \in 1 .. Len(q) : i < j => <<q[i], q[j]>> \in R
  BY DEF SortedList
<1>2. PICK p : /\ SortedList(p, I, Less(I))
               /\ p \in [1 .. Len(p) -> I] /\ Len(p) \in Nat
               /\ \A k \in 1 .. Len(p) : p[k] \in 1 .. Len(q) /\ p[k] \in Int
               /\ Chosen(q, I) = [k \in 1 .. Len(p) |-> q[p[k]]]
  BY <1>1, ChosenPlaces
<1>3. /\ \A i \in I : \E k \in 1 .. Len(p) : p[k] = i
      /\ \A k, l \in 1 .. Len(p) : k < l => p[k] < p[l]
  BY <1>2 DEF SortedList, Less
<1>0. \A k \in 1 .. Len(p) : p[k] \in I /\ p[k] \in 1 .. Len(q)
  BY <1>2
<1>4. c \in Seq(T) /\ Len(c) = Len(p) /\ \A k \in 1 .. Len(p) : c[k] = q[p[k]]
  BY <1>2
<1>5. \A s \in T : \E k \in 1 .. Len(c) : c[k] = s
  BY <1>2, <1>3, <1>4
<1>6. \A k, l \in 1 .. Len(c) : k < l => <<c[k], c[l]>> \in R
  BY <1>0, <1>1, <1>3, <1>4
<1> HIDE DEF T, c
<1>7. SortedList(c, T, R)
  BY <1>4, <1>5, <1>6 DEF SortedList
<1> QED BY <1>7 DEF T, c

\* Of a list without repetitions, what is chosen has none.
LEMMA ChosenDistinct ==
  ASSUME NEW T, NEW q \in Seq(T), Distinct(q), NEW I \in SUBSET (1 .. Len(q))
  PROVE  /\ Chosen(q, I) \in Seq(T) /\ Distinct(Chosen(q, I))
         /\ ToSet(Chosen(q, I)) = {q[i] : i \in I}
<1> DEFINE c == Chosen(q, I)
<1>2. PICK p : /\ SortedList(p, I, Less(I))
               /\ p \in [1 .. Len(p) -> I] /\ Len(p) \in Nat
               /\ \A k \in 1 .. Len(p) : p[k] \in 1 .. Len(q) /\ p[k] \in Int
               /\ Chosen(q, I) = [k \in 1 .. Len(p) |-> q[p[k]]]
  BY ChosenPlaces
<1>3. /\ \A i \in I : \E k \in 1 .. Len(p) : p[k] = i
      /\ \A k, l \in 1 .. Len(p) : k < l => p[k] < p[l]
  BY <1>2 DEF SortedList, Less
<1>0. /\ \A i \in 1 .. Len(q) : q[i] \in T
      /\ \A k \in 1 .. Len(p) : p[k] \in I /\ p[k] \in 1 .. Len(q) /\ p[k] \in Int
  <2>1. \A i \in 1 .. Len(q) : q[i] \in T
    OBVIOUS
  <2>2. \A k \in 1 .. Len(p) : p[k] \in I
    BY <1>2
  <2> HIDE DEF c
  <2> QED BY <1>2, <2>1, <2>2
<1>4. c \in Seq(T) /\ Len(c) = Len(p) /\ DOMAIN c = 1 .. Len(p) /\ \A k \in 1 .. Len(p) : c[k] = q[p[k]]
  BY <1>0, <1>2
<1>5. ToSet(c) = {q[i] : i \in I}
  <2> HIDE DEF c
  <2>1. ToSet(c) = {c[k] : k \in 1 .. Len(p)}
    BY <1>4 DEF ToSet
  <2>2. \A i \in I : \E k \in 1 .. Len(p) : c[k] = q[i]
    BY <1>3, <1>4
  <2>3. \A k \in 1 .. Len(p) : c[k] \in {q[i] : i \in I}
    BY <1>0, <1>4
  <2> QED BY <2>1, <2>2, <2>3
<1>6. \A k, l \in 1 .. Len(p) : p[k] = p[l] => k = l
  <2> SUFFICES ASSUME NEW k \in 1 .. Len(p), NEW l \in 1 .. Len(p), p[k] = p[l] PROVE k = l
    OBVIOUS
  <2>1. p[k] \in Int /\ p[l] \in Int
    BY <1>0
  <2>2. ~ (k < l) /\ ~ (l < k)
    BY <1>3, <2>1
  <2> QED BY <2>2, <1>2
<1>7. Distinct(c)
  <2> SUFFICES ASSUME NEW k \in 1 .. Len(p), NEW l \in 1 .. Len(p), c[k] = c[l] PROVE k = l
    BY <1>4 DEF Distinct
  <2>1. q[p[k]] = q[p[l]] /\ p[k] \in 1 .. Len(q) /\ p[l] \in 1 .. Len(q)
    BY <1>0, <1>4
  <2>2. p[k] = p[l]
    BY <2>1 DEF Distinct
  <2> QED BY <1>6, <2>2
<1> QED BY <1>4, <1>5, <1>7

\* At finds the place of an element that occurs once.
LEMMA AtPlace ==
  ASSUME NEW T, NEW q \in Seq(T), Distinct(q), NEW i \in 1 .. Len(q)
  PROVE  At(q, q[i]) = i
<1> DEFINE I == {j \in 1 .. Len(q) : q[j] = q[i]}
<1>1. I = {i}
  BY DEF Distinct
<1>2. At(q, q[i]) = Min(I)
  BY <1>1 DEF At, SelectInSeq
<1>3. Min({i}) = i
  BY DEF Min
<1> QED BY <1>1, <1>2, <1>3

\* The place that At finds has the element.
LEMMA AtElement ==
  ASSUME NEW T, NEW q \in Seq(T), Distinct(q), NEW s \in ToSet(q)
  PROVE  At(q, s) \in 1 .. Len(q) /\ q[At(q, s)] = s
<1>1. PICK i \in 1 .. Len(q) : q[i] = s
  BY DEF ToSet
<1> QED BY <1>1, AtPlace

\* The places of a list in the order its elements are shown in.
PlaceOrder(q, o) ==
  {p \in (1 .. Len(q)) \X (1 .. Len(q)) :
     o[q[p[1]]] < o[q[p[2]]] \/ (o[q[p[1]]] = o[q[p[2]]] /\ p[1] < p[2])}

NthShown(q, o, i) ==
  CHOOSE k \in DOMAIN q :
    i = 1 + Cardinality({j \in DOMAIN q :
          \/ o[q[j]] < o[q[k]]
          \/ o[q[j]] = o[q[k]] /\ j < k})

\* Stable takes the places of a list by position and then by place.
LEMMA NthShownRank ==
  ASSUME NEW q \in Seq(Stories), NEW o \in [Stories -> Nat]
  PROVE  LET p == [i \in 1 .. Len(q) |-> NthShown(q, o, i)]
         IN  SortedList(p, 1 .. Len(q), PlaceOrder(q, o)) /\ Len(p) = Len(q)
<1> DEFINE n == Len(q)
           I == 1 .. n
           R == PlaceOrder(q, o)
           p == [i \in 1 .. n |-> NthShown(q, o, i)]
<1>1. n \in Nat /\ DOMAIN q = I /\ \A i \in I : q[i] \in Stories /\ o[q[i]] \in Nat /\ i \in Nat
  OBVIOUS
<1>2. IsFiniteSet(I) /\ Cardinality(I) = n
  BY <1>1, FS_Interval
<1>3. \A i, j \in I : <<i, j>> \in R <=> o[q[i]] < o[q[j]] \/ (o[q[i]] = o[q[j]] /\ i < j)
  BY DEF PlaceOrder
<1>4. \A k \in I : Below(I, R, k) =
        {j \in DOMAIN q : \/ o[q[j]] < o[q[k]]
                          \/ o[q[j]] = o[q[k]] /\ j < k}
  BY <1>1, <1>3 DEF Below
<1> HIDE DEF R
<1>5. StrictOrder(I, R)
  <2>1. \A i \in I : <<i, i>> \notin R
    BY <1>1, <1>3
  <2>2. \A i, j, k \in I : <<i, j>> \in R /\ <<j, k>> \in R => <<i, k>> \in R
    BY <1>1, <1>3
  <2>3. \A i, j \in I : i # j => <<i, j>> \in R \/ <<j, i>> \in R
    BY <1>1, <1>3
  <2> QED BY <2>1, <2>2, <2>3 DEF StrictOrder
<1> HIDE DEF I
<1>6. \A i \in 1 .. Cardinality(I) : \E k \in I : RankIn(I, R, k) = i
  <2>1. \A U, Q : IsFiniteSet(U) /\ StrictOrder(U, Q) =>
          \A k \in 1 .. Cardinality(U) : \E i \in U : RankIn(U, Q, i) = k
    BY RanksTaken
  <2> QED BY <1>2, <1>5, <2>1, Zenon
<1>7. ASSUME NEW i \in 1 .. n PROVE NthShown(q, o, i) \in I /\ RankIn(I, R, NthShown(q, o, i)) = i
  <2>1. PICK k \in I : RankIn(I, R, k) = i
    BY <1>2, <1>6
  <2>2. k \in DOMAIN q
        /\ i = 1 + Cardinality({j \in DOMAIN q : \/ o[q[j]] < o[q[k]]
                                                 \/ o[q[j]] = o[q[k]] /\ j < k})
    BY <1>1, <1>4, <2>1 DEF RankIn
  <2> DEFINE c == NthShown(q, o, i)
  <2>3. c \in DOMAIN q
        /\ i = 1 + Cardinality({j \in DOMAIN q : \/ o[q[j]] < o[q[c]]
                                                 \/ o[q[j]] = o[q[c]] /\ j < c})
    BY <2>2 DEF NthShown
  <2> HIDE DEF c
  <2>4. c \in I /\ RankIn(I, R, c) = i
    BY <1>1, <1>4, <2>3 DEF RankIn
  <2> QED BY <2>4 DEF c
<1>8. p \in [1 .. Cardinality(I) -> I] /\ \A i \in 1 .. Cardinality(I) : RankIn(I, R, p[i]) = i
  BY <1>2, <1>7
<1> HIDE DEF p
<1>9. SortedList(p, I, R) /\ Len(p) = Cardinality(I)
  BY <1>2, <1>5, <1>8, RanksSort
<1> HIDE DEF n
<1> QED BY <1>2, <1>9 DEF I, R, p, n

\* Stable keeps every story, by its position.
LEMMA StableSorts ==
  ASSUME NEW q, AllOnce(q), NEW o \in [Stories -> Nat]
  PROVE  /\ AllOnce(Stable(q, o))
         /\ \A i, j \in 1 .. Len(Stable(q, o)) :
              i < j => o[Stable(q, o)[i]] <= o[Stable(q, o)[j]]
<1> DEFINE n == Len(q)
           p == [i \in 1 .. n |-> NthShown(q, o, i)]
           c == Stable(q, o)
<1>1. /\ q \in Seq(Stories) /\ Distinct(q) /\ n \in Nat
      /\ \A s \in Stories : \E i \in 1 .. n : q[i] = s
      /\ \A i \in 1 .. n : q[i] \in Stories /\ i \in Int
  BY DEF AllOnce
<1>2. SortedList(p, 1 .. n, PlaceOrder(q, o)) /\ Len(p) = n
  BY <1>1, NthShownRank
<1>3. c = [i \in 1 .. n |-> q[p[i]]]
  <2>1. DOMAIN q = 1 .. n
    BY <1>1
  <2> QED BY <2>1 DEF Stable, NthShown
<1> HIDE DEF p, n, c
<1>4. /\ p \in [1 .. n -> 1 .. n]
      /\ \A k \in 1 .. n : \E i \in 1 .. n : p[i] = k
      /\ \A i, j \in 1 .. n : i < j => <<p[i], p[j]>> \in PlaceOrder(q, o)
  BY <1>2 DEF SortedList
<1>5. \A i \in 1 .. n : p[i] \in 1 .. n /\ p[i] \in Int /\ o[q[p[i]]] \in Nat
  BY <1>1, <1>4
<1>6. c \in Seq(Stories) /\ Len(c) = n /\ \A i \in 1 .. n : c[i] = q[p[i]]
  BY <1>1, <1>3, <1>5
<1>7. \A s \in Stories : \E i \in 1 .. n : c[i] = s
  <2> TAKE s \in Stories
  <2>1. PICK k \in 1 .. n : q[k] = s
    BY <1>1
  <2>2. PICK i \in 1 .. n : p[i] = k
    BY <1>4
  <2>3. c[i] = s
    BY <1>6, <2>1, <2>2
  <2> QED BY <2>3
<1>8. \A i, j \in 1 .. n : i < j => o[q[p[i]]] < o[q[p[j]]] \/ (o[q[p[i]]] = o[q[p[j]]] /\ p[i] < p[j])
  BY <1>4 DEF PlaceOrder
<1>9. \A i, j \in 1 .. n : i < j => o[c[i]] <= o[c[j]]
  <2> SUFFICES ASSUME NEW i \in 1 .. n, NEW j \in 1 .. n, i < j PROVE o[c[i]] <= o[c[j]]
    OBVIOUS
  <2>1. c[i] = q[p[i]] /\ c[j] = q[p[j]]
    BY <1>6
  <2>2. o[q[p[i]]] \in Nat /\ o[q[p[j]]] \in Nat
    BY <1>5
  <2>3. o[q[p[i]]] <= o[q[p[j]]]
    BY <1>8, <2>2
  <2> QED BY <2>1, <2>3
<1>10. \A i, j \in 1 .. n : p[i] = p[j] => i = j
  <2> SUFFICES ASSUME NEW i \in 1 .. n, NEW j \in 1 .. n, p[i] = p[j] PROVE i = j
    OBVIOUS
  <2>1. ~ (i < j) /\ ~ (j < i)
    BY <1>5, <1>8
  <2> QED BY <1>1, <2>1
<1>11. \A i, j \in 1 .. n : c[i] = c[j] => i = j
  <2> SUFFICES ASSUME NEW i \in 1 .. n, NEW j \in 1 .. n, c[i] = c[j] PROVE i = j
    OBVIOUS
  <2>1. q[p[i]] = q[p[j]] /\ p[i] \in 1 .. n /\ p[j] \in 1 .. n
    BY <1>5, <1>6
  <2>2. p[i] = p[j]
    BY <1>1, <2>1 DEF Distinct, n
  <2> QED BY <1>10, <2>2
<1>12. AllOnce(c)
  BY <1>6, <1>7, <1>11 DEF AllOnce, Distinct
<1> QED BY <1>6, <1>9, <1>12 DEF c

-----------------------------------------------------------------------------
(* What a drag does to the rows.                                           *)

\* A drag of any cards.
IsDrag(drag) ==
  /\ drag.cards \in Seq(Stories) /\ Distinct(drag.cards)
  /\ drag.status \in Statuses
  /\ drag.after \in Stories \cup {NoCard} /\ drag.before \in Stories \cup {NoCard}
  /\ drag.after = NoCard \/ drag.before = NoCard

\* The positions a drag starts from are numbers.
LEMMA OrdersTyped ==
  ASSUME NEW r \in Rows, NEW drag, IsDrag(drag)
  PROVE  AnchorOrder(r, drag) \in Nat /\ StartOrder(r, drag) \in Nat
<1>1. \A s \in Stories : r[s].order \in Nat
  BY DEF Rows
<1>2. CASE drag.before # NoCard
  <2>1. drag.before \in Stories
    BY <1>2 DEF IsDrag
  <2> QED BY <1>1, <1>2, <2>1 DEF AnchorOrder, StartOrder, Anchor
<1>3. CASE drag.before = NoCard /\ drag.after # NoCard
  <2>1. drag.after \in Stories
    BY <1>3 DEF IsDrag
  <2> QED BY <1>1, <1>3, <2>1 DEF AnchorOrder, StartOrder, Anchor
<1>4. CASE drag.before = NoCard /\ drag.after = NoCard
  BY <1>4 DEF AnchorOrder, StartOrder, Anchor
<1> QED BY <1>2, <1>3, <1>4

\* The cards and those behind them, each once.
LEMMA ListedAre ==
  ASSUME NEW r \in Rows, NEW drag, IsDrag(drag), NEW from \in Nat
  PROVE  LET ids == Listed(r, drag, from)
             B == Behind(r, drag, from)
             q == Sorted(r, B)
             m == Len(drag.cards)
         IN  /\ ids \in Seq(Stories) /\ Distinct(ids)
             /\ ToSet(ids) = ToSet(drag.cards) \cup B
             /\ SortedList(q, B, RowOrder(r))
             /\ m \in Nat /\ Len(q) \in Nat /\ Len(ids) = m + Len(q)
             /\ \A i \in 1 .. m : ids[i] = drag.cards[i]
             /\ \A j \in 1 .. Len(q) : ids[m + j] = q[j]
<1> DEFINE ids == Listed(r, drag, from)
           B == Behind(r, drag, from)
           q == Sorted(r, B)
           c == drag.cards
           m == Len(c)
<1>1. c \in Seq(Stories) /\ Distinct(c) /\ m \in Nat
  BY DEF IsDrag
<1>2. B \in SUBSET Stories /\ B \cap ToSet(c) = {}
  BY DEF Behind
<1> HIDE DEF B
<1>3. SortedList(q, B, RowOrder(r)) /\ IsFiniteSet(B) /\ StrictOrder(B, RowOrder(r))
  BY <1>2, RowOrderStrict, SortedSorts
<1> HIDE DEF q
<1>4. q \in Seq(B) /\ Distinct(q) /\ ToSet(q) = B
  BY <1>3, SortedListDistinct
<1>5. q \in Seq(Stories) /\ Len(q) \in Nat
  BY <1>2, <1>4
<1>6. ids = c \o q
  BY DEF Listed, q, B
<1> HIDE DEF ids, c, m
<1>7. /\ ids \in Seq(Stories) /\ Len(ids) = m + Len(q)
      /\ \A i \in 1 .. Len(ids) : ids[i] = IF i <= m THEN c[i] ELSE q[i - m]
  BY <1>1, <1>5, <1>6 DEF m
<1>8. \A i \in 1 .. m : i \in 1 .. Len(ids) /\ i <= m /\ ids[i] = c[i]
  BY <1>1, <1>5, <1>7
<1>9. \A j \in 1 .. Len(q) : m + j \in 1 .. Len(ids) /\ ids[m + j] = q[j]
  <2> TAKE j \in 1 .. Len(q)
  <2>1. PICK k \in Int : k = m + j
    BY <1>1
  <2>2. k \in 1 .. Len(ids) /\ ~ (k <= m) /\ k - m = j
    BY <1>1, <1>5, <1>7, <2>1
  <2>3. ids[k] = q[k - m]
    BY <1>7, <2>2
  <2> QED BY <2>1, <2>2, <2>3
<1>10. \A i \in 1 .. Len(ids) : i \in 1 .. m \/ (i - m \in 1 .. Len(q) /\ i = m + (i - m))
  BY <1>1, <1>5, <1>7
<1>11. /\ ToSet(c) = {c[i] : i \in 1 .. m}
       /\ ToSet(ids) = {ids[i] : i \in 1 .. Len(ids)}
       /\ \A j \in 1 .. Len(q) : q[j] \in B
       /\ \A s \in B : \E j \in 1 .. Len(q) : q[j] = s
  <2>1. ToSet(c) = {c[i] : i \in 1 .. m}
    BY <1>1 DEF ToSet, m
  <2>2. ToSet(ids) = {ids[i] : i \in 1 .. Len(ids)}
    BY <1>7 DEF ToSet
  <2>3. \A j \in 1 .. Len(q) : q[j] \in B
    BY <1>4
  <2>4. \A s \in B : \E j \in 1 .. Len(q) : q[j] = s
    BY <1>3 DEF SortedList
  <2> QED BY <2>1, <2>2, <2>3, <2>4
<1>12. ToSet(ids) = ToSet(c) \cup B
  <2>1. ASSUME NEW i \in 1 .. Len(ids) PROVE ids[i] \in ToSet(c) \cup B
    BY <1>8, <1>9, <1>10, <1>11
  <2>2. ASSUME NEW s \in ToSet(c) PROVE \E i \in 1 .. Len(ids) : ids[i] = s
    BY <1>8, <1>11
  <2>3. ASSUME NEW s \in B PROVE \E i \in 1 .. Len(ids) : ids[i] = s
    BY <1>9, <1>11
  <2> QED BY <1>11, <2>1, <2>2, <2>3
<1>13. Distinct(ids)
  <2> SUFFICES ASSUME NEW i \in 1 .. Len(ids), NEW j \in 1 .. Len(ids), ids[i] = ids[j] PROVE i = j
    BY DEF Distinct
  <2>1. CASE i \in 1 .. m /\ j \in 1 .. m
    BY <1>1, <1>8, <2>1 DEF Distinct, m
  <2> DEFINE card(k) == ids[k] \in ToSet(c)
             behind(k) == ids[k] \in B
  <2>10. \A k \in 1 .. m : card(k)
    BY <1>8, <1>11
  <2>11. \A k \in 1 .. Len(ids) : k \notin 1 .. m => behind(k)
    BY <1>9, <1>10, <1>11
  <2>2. CASE i \in 1 .. m /\ j \notin 1 .. m
    BY <1>2, <2>2, <2>10, <2>11
  <2>3. CASE i \notin 1 .. m /\ j \in 1 .. m
    BY <1>2, <2>3, <2>10, <2>11
  <2>4. CASE i \notin 1 .. m /\ j \notin 1 .. m
    <3>1. i - m \in 1 .. Len(q) /\ j - m \in 1 .. Len(q) /\ i = m + (i - m) /\ j = m + (j - m)
      BY <1>10, <2>4
    <3>2. q[i - m] = q[j - m]
      BY <1>9, <3>1
    <3>3. i - m = j - m
      BY <1>4, <3>1, <3>2 DEF Distinct
    <3> QED BY <3>1, <3>3
  <2> QED BY <2>1, <2>2, <2>3, <2>4
<1> QED BY <1>1, <1>3, <1>5, <1>7, <1>8, <1>9, <1>12, <1>13 DEF ids, q, B, c, m

\* The two updates.
LEMMA PlacedRows ==
  ASSUME NEW r \in Rows, NEW ids \in Seq(Stories), Distinct(ids), NEW start \in Nat
  PROVE  /\ Placed(r, ids, start) \in Rows
         /\ \A s \in Stories : /\ Placed(r, ids, start)[s].status = r[s].status
                               /\ s \notin ToSet(ids) => Placed(r, ids, start)[s] = r[s]
                               /\ s \in ToSet(ids) =>
                                    Placed(r, ids, start)[s].order = start + At(ids, s) - 1
<1> DEFINE f == Placed(r, ids, start)
<1>1. \A s \in ToSet(ids) : At(ids, s) \in 1 .. Len(ids)
  BY AtElement
<1>2. \A s \in Stories : /\ r[s] \in [status : Statuses, order : Nat]
  BY DEF Rows
<1>3. f = [s \in Stories |-> IF s \in ToSet(ids) THEN [r[s] EXCEPT !.order = start + At(ids, s) - 1]
                             ELSE r[s]]
  BY DEF Placed
<1>4. ASSUME NEW s \in Stories
      PROVE  /\ f[s] \in [status : Statuses, order : Nat] /\ f[s].status = r[s].status
             /\ s \notin ToSet(ids) => f[s] = r[s]
             /\ s \in ToSet(ids) => f[s].order = start + At(ids, s) - 1
  <2>1. CASE s \in ToSet(ids)
    <3>1. PICK n \in Nat : n = start + At(ids, s) - 1
      BY <1>1, <2>1
    <3>2. f[s] = [r[s] EXCEPT !.order = n]
      BY <1>3, <2>1, <3>1
    <3> QED BY <1>2, <2>1, <3>1, <3>2
  <2>2. CASE s \notin ToSet(ids)
    BY <1>2, <1>3, <2>2
  <2> QED BY <2>1, <2>2
<1>5. f \in Rows
  <2> HIDE DEF f
  <2> QED BY <1>3, <1>4 DEF Rows
<1> QED BY <1>4, <1>5

\* The second UPDATE changes the status of the dragged cards.
LEMMA MovedRows ==
  ASSUME NEW r \in Rows, NEW drag, drag.status \in Statuses
  PROVE  /\ Moved(r, drag) \in Rows
         /\ \A s \in Stories : /\ Moved(r, drag)[s].order = r[s].order
                               /\ s \notin ToSet(drag.cards) => Moved(r, drag)[s] = r[s]
                               /\ s \in ToSet(drag.cards) => Moved(r, drag)[s].status = drag.status
<1> DEFINE f == Moved(r, drag)
<1>2. \A s \in Stories : /\ r[s] \in [status : Statuses, order : Nat]
  BY DEF Rows
<1>3. f = [s \in Stories |-> IF s \in ToSet(drag.cards) THEN [r[s] EXCEPT !.status = drag.status]
                             ELSE r[s]]
  BY DEF Moved
<1>4. ASSUME NEW s \in Stories
      PROVE  /\ f[s] \in [status : Statuses, order : Nat] /\ f[s].order = r[s].order
             /\ s \notin ToSet(drag.cards) => f[s] = r[s]
             /\ s \in ToSet(drag.cards) => f[s].status = drag.status
  BY <1>2, <1>3
<1>5. f \in Rows
  <2> HIDE DEF f
  <2> QED BY <1>3, <1>4 DEF Rows
<1> QED BY <1>4, <1>5

\* What the whole handler does, place by place in its list.
LEMMA DraggedRows ==
  ASSUME NEW r \in Rows, NEW drag, IsDrag(drag)
  PROVE  LET f == Dragged(r, drag)
             B == Behind(r, drag, AnchorOrder(r, drag))
             ids == Listed(r, drag, AnchorOrder(r, drag))
         IN  /\ f \in Rows
             /\ \A s \in Stories :
                  /\ s \in ToSet(drag.cards) => f[s].status = drag.status
                  /\ s \notin ToSet(drag.cards) => f[s].status = r[s].status
                  /\ s \notin ToSet(drag.cards) \cup B => f[s] = r[s]
             /\ \A i \in 1 .. Len(ids) : f[ids[i]].order = StartOrder(r, drag) + i - 1
<1> DEFINE from == AnchorOrder(r, drag)
           start == StartOrder(r, drag)
           B == Behind(r, drag, from)
           ids == Listed(r, drag, from)
           p == Placed(r, ids, start)
           f == Dragged(r, drag)
<1>1. from \in Nat /\ start \in Nat
  BY OrdersTyped
<1>2. ids \in Seq(Stories) /\ Distinct(ids) /\ ToSet(ids) = ToSet(drag.cards) \cup B
  BY <1>1, ListedAre
<1>3. f = Moved(p, drag)
  BY DEF Dragged
<1> HIDE DEF from, start, ids, B
<1>4. /\ p \in Rows
      /\ \A s \in Stories : /\ p[s].status = r[s].status
                            /\ s \notin ToSet(ids) => p[s] = r[s]
                            /\ s \in ToSet(ids) => p[s].order = start + At(ids, s) - 1
  BY <1>1, <1>2, PlacedRows
<1> HIDE DEF p, f
<1>5. /\ f \in Rows
      /\ \A s \in Stories : /\ f[s].order = p[s].order
                            /\ s \notin ToSet(drag.cards) => f[s] = p[s]
                            /\ s \in ToSet(drag.cards) => f[s].status = drag.status
  BY <1>3, <1>4, MovedRows DEF IsDrag
<1>6. ASSUME NEW i \in 1 .. Len(ids) PROVE f[ids[i]].order = start + i - 1
  <2>1. ids[i] \in Stories /\ At(ids, ids[i]) = i
    BY <1>2, AtPlace
  <2>2. ids[i] \in ToSet(ids)
    BY <1>2 DEF ToSet
  <2> QED BY <1>4, <1>5, <2>1, <2>2
<1>7. \A s \in Stories :
        /\ s \in ToSet(drag.cards) => f[s].status = drag.status
        /\ s \notin ToSet(drag.cards) => f[s].status = r[s].status
        /\ s \notin ToSet(drag.cards) \cup B => f[s] = r[s]
  BY <1>2, <1>4, <1>5
<1> QED BY <1>5, <1>6, <1>7 DEF from, start, ids, B, f

\* The cards that stay are in front of the position the drag starts at.
LEMMA OthersInFront ==
  ASSUME NEW r \in Rows, NEW drag, IsDrag(drag), NEW s \in Stories,
         r[s].status = drag.status, s \notin ToSet(drag.cards),
         s \notin Behind(r, drag, AnchorOrder(r, drag))
  PROVE  r[s].order < StartOrder(r, drag)
<1>1. \A t \in Stories : r[t].order \in Nat
  BY DEF Rows
<1>2. s \in {drag.after} \ {drag.before} \/ ~ (r[s].order >= AnchorOrder(r, drag))
  BY DEF Behind
<1>3. CASE drag.before # NoCard
  <2>1. drag.before \in Stories /\ drag.after = NoCard
    BY <1>3 DEF IsDrag
  <2>2. AnchorOrder(r, drag) = r[drag.before].order /\ StartOrder(r, drag) = r[drag.before].order
    BY <1>3 DEF AnchorOrder, StartOrder, Anchor
  <2>3. s # NoCard
    BY StoriesAssumption
  <2>4. ~ (r[s].order >= r[drag.before].order)
    BY <1>2, <2>1, <2>2, <2>3
  <2>5. r[s].order \in Nat /\ r[drag.before].order \in Nat
    BY <1>1, <2>1
  <2> QED BY <2>2, <2>4, <2>5
<1>4. CASE drag.before = NoCard /\ drag.after # NoCard
  <2>1. drag.after \in Stories
    BY <1>4 DEF IsDrag
  <2>2. AnchorOrder(r, drag) = r[drag.after].order /\ StartOrder(r, drag) = r[drag.after].order + 1
    BY <1>4 DEF AnchorOrder, StartOrder, Anchor
  <2>3. r[s].order <= r[drag.after].order
    BY <1>1, <1>2, <2>1, <2>2
  <2> QED BY <1>1, <2>1, <2>2, <2>3
<1>5. CASE drag.before = NoCard /\ drag.after = NoCard
  <2>1. AnchorOrder(r, drag) = 0
    BY <1>5 DEF AnchorOrder, Anchor
  <2>2. s # NoCard /\ r[s].order >= 0
    BY <1>1, StoriesAssumption
  <2> QED BY <1>2, <1>5, <2>1, <2>2
<1> QED BY <1>3, <1>4, <1>5

\* No ties, said of pairs.
LEMMA TiesAre ==
  ASSUME NEW r
  PROVE  Ties(r) = {} <=> \A s, t \in Stories : s # t /\ r[s].status = r[t].status => r[s].order # r[t].order
<1>1. ASSUME NEW s \in Stories, NEW t \in Stories, s # t, r[s].status = r[t].status,
             r[s].order = r[t].order
      PROVE  <<s, t>> \in Ties(r)
  BY <1>1 DEF Ties
<1>2. ASSUME NEW p \in Ties(r)
      PROVE  /\ p[1] \in Stories /\ p[2] \in Stories /\ p[1] # p[2]
             /\ r[p[1]].status = r[p[2]].status /\ r[p[1]].order = r[p[2]].order
  BY <1>2 DEF Ties
<1> QED BY <1>1, <1>2

\* A drag handled alone makes no ties.
LEMMA NoNewTies ==
  ASSUME NEW r \in Rows, NEW drag, IsDrag(drag), Ties(r) = {}
  PROVE  Ties(Dragged(r, drag)) = {}
<1> DEFINE from == AnchorOrder(r, drag)
           start == StartOrder(r, drag)
           B == Behind(r, drag, from)
           ids == Listed(r, drag, from)
           f == Dragged(r, drag)
           D == ToSet(drag.cards)
<1>1. from \in Nat /\ start \in Nat
  BY OrdersTyped
<1>2. ids \in Seq(Stories) /\ Distinct(ids) /\ ToSet(ids) = D \cup B
  BY <1>1, ListedAre
<1>3. /\ \A s \in Stories : /\ s \in D => f[s].status = drag.status
                            /\ s \notin D => f[s].status = r[s].status
                            /\ s \notin D \cup B => f[s] = r[s]
      /\ \A i \in 1 .. Len(ids) : f[ids[i]].order = start + i - 1
  BY DraggedRows
<1>4. \A s \in B : r[s].status = drag.status
  BY DEF Behind
<1>5. \A s \in Stories : r[s].status = drag.status /\ s \notin D \cup B => r[s].order < start
  BY OthersInFront
<1>6. \A s \in Stories : r[s].order \in Nat
  BY DEF Rows
<1> HIDE DEF from, start, B, f, ids, D
<1>7. \A s \in D \cup B : \E i \in 1 .. Len(ids) : ids[i] = s
  BY <1>2 DEF ToSet
<1>8. ASSUME NEW s \in Stories, NEW t \in Stories, s # t, f[s].status = f[t].status
      PROVE  f[s].order # f[t].order
  <2>1. CASE s \in D \cup B /\ t \in D \cup B
    <3>1. PICK i \in 1 .. Len(ids) : ids[i] = s
      BY <1>7, <2>1
    <3>2. PICK j \in 1 .. Len(ids) : ids[j] = t
      BY <1>7, <2>1
    <3>3. f[s].order = start + i - 1 /\ f[t].order = start + j - 1
      BY <1>3, <3>1, <3>2
    <3>4. i # j /\ i \in Int /\ j \in Int
      BY <1>8, <3>1, <3>2
    <3> QED BY <1>1, <3>3, <3>4
  <2>2. CASE s \notin D \cup B /\ t \notin D \cup B
    <3>1. f[s] = r[s] /\ f[t] = r[t]
      BY <1>3, <2>2
    <3> QED BY <1>8, <3>1, TiesAre
  <2>3. ASSUME NEW u \in Stories, NEW v \in Stories, f[u].status = f[v].status,
               u \in D \cup B, v \notin D \cup B
        PROVE  f[u].order > f[v].order
    <3>1. PICK i \in 1 .. Len(ids) : ids[i] = u
      BY <1>7, <2>3
    <3>2. f[u].order = start + i - 1
      BY <1>3, <3>1
    <3>3. f[u].status = drag.status
      BY <1>3, <1>4, <2>3
    <3>4. f[v] = r[v]
      BY <1>3, <2>3
    <3>5. r[v].order < start
      BY <1>5, <2>3, <3>3, <3>4
    <3>6. r[v].order \in Nat /\ i \in Nat /\ i >= 1
      BY <1>6
    <3> QED BY <1>1, <3>2, <3>4, <3>5, <3>6
  <2>4. \A u \in Stories : f[u].order \in Nat
    BY DraggedRows DEF Rows, f
  <2>5. CASE s \in D \cup B /\ t \notin D \cup B
    <3>1. f[s].order > f[t].order
      BY <1>8, <2>3, <2>5
    <3> QED BY <2>4, <3>1
  <2>6. CASE s \notin D \cup B /\ t \in D \cup B
    <3>1. f[t].order > f[s].order
      BY <1>8, <2>3, <2>6
    <3> QED BY <2>4, <3>1
  <2> QED BY <2>1, <2>2, <2>5, <2>6
<1>9. Ties(f) = {}
  BY <1>8, TiesAre
<1> QED BY <1>9 DEF f

-----------------------------------------------------------------------------
(* A drag puts the cards where the user did.                               *)

InStatus(r, status) == {s \in Stories : r[s].status = status}

\* What is left of a sorted list is sorted.
LEMMA WithoutSorted ==
  ASSUME NEW S, NEW R, NEW q, SortedList(q, S, R), NEW D
  PROVE  SortedList(Without(q, D), S \ D, R)
<1> DEFINE I == {i \in DOMAIN q : q[i] \notin D}
<1>1. q \in Seq(S) /\ \A s \in S : \E i \in 1 .. Len(q) : q[i] = s
  BY DEF SortedList
<1>2. I \in SUBSET (1 .. Len(q))
  BY <1>1
<1>3. {q[i] : i \in I} = S \ D
  <2>1. \A i \in I : q[i] \in S \ D
    BY <1>1
  <2>2. \A s \in S \ D : \E i \in I : q[i] = s
    BY <1>1
  <2> QED BY <2>1, <2>2
<1>4. Without(q, D) = Chosen(q, I)
  BY DEF Without
<1> HIDE DEF I
<1> QED BY <1>2, <1>3, <1>4, ChosenSorted

\* A column of the database is the sorted list of its cards.
LEMMA ColumnSorted ==
  ASSUME NEW r \in Rows, NEW status
  PROVE  SortedList(Column(r, status), InStatus(r, status), RowOrder(r))
<1> DEFINE S == InStatus(r, status)
<1>1. S \in SUBSET Stories /\ Column(r, status) = Sorted(r, S)
  BY DEF InStatus, Column
<1> HIDE DEF S
<1>2. SortedList(Sorted(r, S), S, RowOrder(r))
  BY <1>1, SortedSorts
<1> QED BY <1>1, <1>2 DEF S

\* A column is known by its cards in their order.
LEMMA ColumnIs ==
  ASSUME NEW r \in Rows, NEW status, NEW q, SortedList(q, InStatus(r, status), RowOrder(r))
  PROVE  Column(r, status) = q
<1> DEFINE S == InStatus(r, status)
<1>1. S \in SUBSET Stories
  BY DEF InStatus
<1>2. SortedList(Column(r, status), S, RowOrder(r))
  BY ColumnSorted
<1> HIDE DEF S
<1>3. IsFiniteSet(S) /\ StrictOrder(S, RowOrder(r))
  BY <1>1, RowOrderStrict
<1>4. SortedList(q, S, RowOrder(r))
  BY DEF S
<1> QED BY <1>2, <1>3, <1>4, SortedOnce

\* Sorted by one order, and by another that agrees on the elements.
LEMMA SortedBySame ==
  ASSUME NEW S, NEW R, NEW Q, NEW q, SortedList(q, S, R),
         \A s, t \in S : <<s, t>> \in R => <<s, t>> \in Q
  PROVE  SortedList(q, S, Q)
<1>1. \A i \in 1 .. Len(q) : q[i] \in S
  BY DEF SortedList
<1> QED BY <1>1 DEF SortedList

\* A drag takes its cards out of the columns they do not go to, and changes nothing else there.
LEMMA OtherColumns ==
  ASSUME NEW r \in Rows, NEW drag, IsDrag(drag), NEW status, status # drag.status
  PROVE  Column(Dragged(r, drag), status) = Without(Column(r, status), ToSet(drag.cards))
<1> DEFINE f == Dragged(r, drag)
           D == ToSet(drag.cards)
           B == Behind(r, drag, AnchorOrder(r, drag))
           q == Without(Column(r, status), D)
           S == InStatus(r, status) \ D
<1>1. /\ f \in Rows
      /\ \A s \in Stories : /\ s \in D => f[s].status = drag.status
                            /\ s \notin D => f[s].status = r[s].status
                            /\ s \notin D \cup B => f[s] = r[s]
  BY DraggedRows
<1>2. \A s \in B : r[s].status = drag.status
  BY DEF Behind
<1>3. SortedList(q, S, RowOrder(r))
  BY ColumnSorted, WithoutSorted
<1>4. S = InStatus(f, status)
  <2> HIDE DEF f, D, B
  <2> QED BY <1>1 DEF InStatus
<1>5. \A s \in S : s \in Stories /\ f[s] = r[s]
  <2> HIDE DEF f, D, B
  <2> QED BY <1>1, <1>2 DEF InStatus
<1> HIDE DEF f, D, B, q, S
<1>6. \A s, t \in S : <<s, t>> \in RowOrder(r) => <<s, t>> \in RowOrder(f)
  BY <1>5 DEF RowOrder, Before
<1>7. SortedList(q, S, RowOrder(f))
  BY <1>3, <1>6, SortedBySame
<1>8. Column(f, status) = q
  BY <1>1, <1>4, <1>7, ColumnIs
<1> QED BY <1>8 DEF f, q, D

\* Where a sorted column without ties is cut by one of its cards.
LEMMA CutPlace ==
  ASSUME NEW r \in Rows, Ties(r) = {}, NEW status, NEW S \in SUBSET InStatus(r, status),
         NEW q, SortedList(q, S, RowOrder(r)), NEW a \in S
  PROVE  /\ At(q, a) \in 1 .. Len(q) /\ q[At(q, a)] = a
         /\ \A i \in 1 .. Len(q) : /\ i < At(q, a) => r[q[i]].order < r[a].order
                                   /\ i > At(q, a) => r[q[i]].order > r[a].order
<1> DEFINE k == At(q, a)
<1>1. /\ S \in SUBSET Stories /\ \A s \in S : r[s].status = status /\ r[s].order \in Nat
  BY DEF InStatus, Rows
<1>2. q \in Seq(S) /\ Distinct(q) /\ ToSet(q) = S
  <2>1. IsFiniteSet(S) /\ StrictOrder(S, RowOrder(r))
    BY <1>1, RowOrderStrict
  <2> QED BY <2>1, SortedListDistinct
<1>3. k \in 1 .. Len(q) /\ q[k] = a
  BY <1>2, AtElement
<1> HIDE DEF k
<1>4. \A i, j \in 1 .. Len(q) : i < j => <<q[i], q[j]>> \in RowOrder(r) /\ q[i] # q[j]
  <2>1. \A i, j \in 1 .. Len(q) : i < j => <<q[i], q[j]>> \in RowOrder(r)
    BY DEF SortedList
  <2>2. \A i, j \in 1 .. Len(q) : q[i] = q[j] => i = j
    BY <1>2 DEF Distinct
  <2>3. \A i, j \in 1 .. Len(q) : i < j => i # j
    OBVIOUS
  <2> QED BY <2>1, <2>2, <2>3
<1>5. ASSUME NEW s \in S, NEW t \in S, <<s, t>> \in RowOrder(r), s # t
      PROVE  r[s].order < r[t].order
  <2>1. s \in Stories /\ t \in Stories /\ r[s].status = r[t].status
        /\ r[s].order \in Nat /\ r[t].order \in Nat
    BY <1>1
  <2>2. r[s].order # r[t].order
    BY <1>5, <2>1, TiesAre
  <2>3. Before(r, s, t)
    BY <1>5 DEF RowOrder
  <2> QED BY <2>1, <2>2, <2>3 DEF Before
<1>6. \A i \in 1 .. Len(q) : q[i] \in S
  BY <1>2
<1>7. ASSUME NEW i \in 1 .. Len(q), i < k PROVE r[q[i]].order < r[a].order
  BY <1>3, <1>4, <1>5, <1>6, <1>7
<1>8. ASSUME NEW i \in 1 .. Len(q), i > k PROVE r[q[i]].order > r[a].order
  <2>1. k < i
    BY <1>3, <1>8
  <2>2. r[a].order < r[q[i]].order
    BY <1>3, <1>4, <1>5, <1>6, <2>1
  <2>3. r[a].order \in Nat /\ r[q[i]].order \in Nat
    BY <1>1, <1>6
  <2> QED BY <2>2, <2>3
<1> QED BY <1>3, <1>7, <1>8 DEF k

\* A drag that names its place: the first card of the column when there is none.
NamesPlace(r, drag) ==
  /\ Anchor(drag) = NoCard => \A s \in Stories \ ToSet(drag.cards) : r[s].status # drag.status
  /\ Anchor(drag) # NoCard => r[Anchor(drag)].status = drag.status
  /\ Anchor(drag) \notin ToSet(drag.cards)

PlaceIn(rest, drag) ==
  CASE drag.before # NoCard -> At(rest, drag.before) - 1
    [] drag.before = NoCard /\ drag.after # NoCard -> At(rest, drag.after)
    [] OTHER -> 0

\* The cards behind the place of a drag are those that make room.
LEMMA PlaceCuts ==
  ASSUME NEW r \in Rows, Ties(r) = {}, NEW drag, IsDrag(drag), NamesPlace(r, drag),
         NEW rest, SortedList(rest, InStatus(r, drag.status) \ ToSet(drag.cards), RowOrder(r))
  PROVE  /\ PlaceIn(rest, drag) \in 0 .. Len(rest)
         /\ \A i \in 1 .. Len(rest) :
              rest[i] \in Behind(r, drag, AnchorOrder(r, drag)) <=> i > PlaceIn(rest, drag)
<1> DEFINE S == InStatus(r, drag.status) \ ToSet(drag.cards)
           B == Behind(r, drag, AnchorOrder(r, drag))
           n == Len(rest)
<1>1. /\ S \in SUBSET InStatus(r, drag.status)
      /\ S = {s \in Stories : r[s].status = drag.status /\ s \notin ToSet(drag.cards)}
      /\ \A s \in S : s \in Stories /\ r[s].order \in Nat
  BY DEF InStatus, Rows
<1>2. B = {s \in S : s \notin {drag.after} \ {drag.before} /\ r[s].order >= AnchorOrder(r, drag)}
  BY DEF Behind, InStatus
<1>3. n \in Nat /\ \A i \in 1 .. n : rest[i] \in S /\ i \in Int
  BY DEF SortedList
<1> HIDE DEF S, B
<1>4. SortedList(rest, S, RowOrder(r))
  BY DEF S
<1> HIDE DEF n
<1>5. CASE drag.before # NoCard
  <2> DEFINE a == drag.before
             k == At(rest, a)
  <2>1. a \in Stories /\ drag.after = NoCard
    BY <1>5 DEF IsDrag
  <2>2. AnchorOrder(r, drag) = r[a].order /\ Anchor(drag) = a /\ PlaceIn(rest, drag) = k - 1
    BY <1>5 DEF AnchorOrder, Anchor, PlaceIn
  <2>3. a \in S
    BY <1>1, <1>5, <2>1, <2>2 DEF NamesPlace
  <2> HIDE DEF a, k
  <2>4. /\ k \in 1 .. n /\ rest[k] = a
        /\ \A i \in 1 .. n : /\ i < k => r[rest[i]].order < r[a].order
                             /\ i > k => r[rest[i]].order > r[a].order
    BY <1>1, <1>4, <2>3, CutPlace DEF k, n
  <2>5. \A s \in S : s \in B <=> r[s].order >= r[a].order
    <3>1. \A s \in S : s # NoCard
      BY <1>1, StoriesAssumption
    <3> QED BY <1>2, <2>1, <2>2, <3>1
  <2>6. ASSUME NEW i \in 1 .. n PROVE rest[i] \in B <=> i > k - 1
    <3>1. rest[i] \in S /\ r[rest[i]].order \in Nat /\ r[a].order \in Nat /\ i \in Int /\ k \in Int
      BY <1>1, <1>3, <2>3, <2>4
    <3>2. CASE i < k
      <4>1. r[rest[i]].order < r[a].order
        BY <2>4, <3>2
      <4> QED BY <2>5, <3>1, <3>2, <4>1
    <3>3. CASE i = k
      BY <2>4, <2>5, <3>1, <3>3
    <3>4. CASE i > k
      <4>1. r[rest[i]].order > r[a].order
        BY <2>4, <3>4
      <4> QED BY <2>5, <3>1, <3>4, <4>1
    <3> QED BY <3>1, <3>2, <3>3, <3>4
  <2>7. k - 1 \in 0 .. n
    BY <1>3, <2>4
  <2> QED BY <2>2, <2>6, <2>7 DEF B, n
<1>6. CASE drag.before = NoCard /\ drag.after # NoCard
  <2> DEFINE a == drag.after
             k == At(rest, a)
  <2>1. a \in Stories
    BY <1>6 DEF IsDrag
  <2>2. AnchorOrder(r, drag) = r[a].order /\ Anchor(drag) = a /\ PlaceIn(rest, drag) = k
    BY <1>6 DEF AnchorOrder, Anchor, PlaceIn
  <2>3. a \in S
    BY <1>1, <1>6, <2>1, <2>2 DEF NamesPlace
  <2>5. \A s \in S : s \in B <=> s # a /\ r[s].order >= r[a].order
    BY <1>2, <1>6, <2>2
  <2> HIDE DEF a, k
  <2>4. /\ k \in 1 .. n /\ rest[k] = a
        /\ \A i \in 1 .. n : /\ i < k => r[rest[i]].order < r[a].order
                             /\ i > k => r[rest[i]].order > r[a].order
    BY <1>1, <1>4, <2>3, CutPlace DEF k, n
  <2>6. ASSUME NEW i \in 1 .. n PROVE rest[i] \in B <=> i > k
    <3>1. rest[i] \in S /\ r[rest[i]].order \in Nat /\ r[a].order \in Nat /\ i \in Int /\ k \in Int
      BY <1>1, <1>3, <2>3, <2>4
    <3>2. CASE i < k
      <4>1. r[rest[i]].order < r[a].order
        BY <2>4, <3>2
      <4> QED BY <2>5, <3>1, <3>2, <4>1
    <3>3. CASE i = k
      BY <2>4, <2>5, <3>1, <3>3
    <3>4. CASE i > k
      <4>1. r[rest[i]].order > r[a].order
        BY <2>4, <3>4
      <4>2. rest[i] # a
        BY <3>1, <4>1
      <4> QED BY <2>5, <3>1, <3>4, <4>1, <4>2
    <3> QED BY <3>1, <3>2, <3>3, <3>4
  <2>7. k \in 0 .. n
    BY <1>3, <2>4
  <2> QED BY <2>2, <2>6, <2>7 DEF B, n
<1>7. CASE drag.before = NoCard /\ drag.after = NoCard
  <2>1. Anchor(drag) = NoCard /\ PlaceIn(rest, drag) = 0
    BY <1>7 DEF Anchor, PlaceIn
  <2>2. S = {}
    BY <1>1, <2>1 DEF NamesPlace
  <2>3. \A i \in 1 .. n : FALSE
    BY <1>3, <2>2
  <2> QED BY <1>3, <2>1, <2>3 DEF n
<1> QED BY <1>5, <1>6, <1>7

\* It puts them where the user did in the column they go to.
LEMMA DraggedColumn ==
  ASSUME NEW r \in Rows, Ties(r) = {}, NEW drag, IsDrag(drag), NamesPlace(r, drag)
  PROVE  Column(Dragged(r, drag), drag.status) = Inserted(Column(r, drag.status), drag)
<1> DEFINE f == Dragged(r, drag)
           st == drag.status
           c == drag.cards
           D == ToSet(c)
           m == Len(c)
           from == AnchorOrder(r, drag)
           start == StartOrder(r, drag)
           B == Behind(r, drag, from)
           ids == Listed(r, drag, from)
           behind == Sorted(r, B)
           rest == Without(Column(r, st), D)
           n == Len(rest)
           k == PlaceIn(rest, drag)
           S == InStatus(r, st) \ D
           front == SubSeq(rest, 1, k)
           back == SubSeq(rest, k + 1, n)
           q == front \o ids
<1>1. from \in Nat /\ start \in Nat
  BY OrdersTyped
<1>2. /\ ids \in Seq(Stories) /\ ToSet(ids) = D \cup B /\ m \in Nat
      /\ SortedList(behind, B, RowOrder(r)) /\ ids = c \o behind
  BY <1>1, ListedAre DEF Listed
<1>3. /\ f \in Rows
      /\ \A s \in Stories : /\ s \in D => f[s].status = st
                            /\ s \notin D => f[s].status = r[s].status
                            /\ s \notin D \cup B => f[s] = r[s]
      /\ \A i \in 1 .. Len(ids) : f[ids[i]].order = start + i - 1
  BY DraggedRows
<1>4. SortedList(rest, S, RowOrder(r))
  BY ColumnSorted, WithoutSorted
<1>5. k \in 0 .. n /\ \A i \in 1 .. n : rest[i] \in B <=> i > k
  BY <1>4, PlaceCuts
<1>6. Inserted(Column(r, st), drag) = (front \o c) \o back
  BY DEF Inserted, PlaceIn
<1>7. \A s \in S : s \in Stories /\ s \notin D /\ r[s].status = st
  BY DEF InStatus
<1>8. B \subseteq S
  BY DEF Behind, InStatus
<1>9. \A s \in S : s \notin B => r[s].order < start
  <2>1. \A s \in Stories : r[s].status = st /\ s \notin D /\ s \notin B => r[s].order < start
    BY OthersInFront
  <2> HIDE DEF S, B, D, st, start
  <2> QED BY <1>7, <2>1
<1>10. c \in Seq(Stories) /\ D \subseteq Stories
  BY DEF IsDrag, ToSet
<1>11. \A s \in Stories : s \in InStatus(f, st) <=> s \in D \/ s \in S
  <2> HIDE DEF f, st, D, B
  <2> QED BY <1>3 DEF InStatus
<1> HIDE DEF f, st, c, D, m, from, start, B, ids, behind, rest, k, S, front, back, q, n
<1>12. /\ n \in Nat /\ rest \in Seq(S) /\ n = Len(rest)
       /\ \A s \in S : \E i \in 1 .. n : rest[i] = s
       /\ \A i, j \in 1 .. n : i < j => <<rest[i], rest[j]>> \in RowOrder(r)
  BY <1>4 DEF SortedList, n
<1>13. k \in Int /\ 0 <= k /\ k <= n
  BY <1>5, <1>12
<1>14. /\ front \in Seq(S) /\ Len(front) = k
       /\ \A i \in 1 .. k : front[i] = rest[i]
  BY <1>12, <1>13 DEF front
<1>15. /\ back \in Seq(S) /\ Len(back) = n - k
       /\ \A j \in 1 .. n - k : back[j] = rest[k + j]
  BY <1>12, <1>13 DEF back, n
\* The cards behind the place are listed by the server in the order they are in.
<1>16. back = behind
  <2>1. ASSUME NEW j \in 1 .. n - k PROVE k + j \in 1 .. n /\ k + j > k
    BY <1>12, <1>13
  <2>2. \A j \in 1 .. n - k : back[j] \in B
    BY <1>5, <1>15, <2>1
  <2>3. ASSUME NEW s \in B PROVE \E j \in 1 .. n - k : back[j] = s
    <3>1. PICK i \in 1 .. n : rest[i] = s
      BY <1>8, <1>12
    <3>2. i > k
      BY <1>5, <3>1
    <3>3. i - k \in 1 .. n - k /\ k + (i - k) = i
      BY <1>12, <1>13, <3>2
    <3> QED BY <1>15, <3>1, <3>3
  <2>4. ASSUME NEW i \in 1 .. n - k, NEW j \in 1 .. n - k, i < j
        PROVE  <<back[i], back[j]>> \in RowOrder(r)
    <3>1. k + i \in 1 .. n /\ k + j \in 1 .. n /\ k + i < k + j
      BY <1>12, <1>13, <2>4
    <3> QED BY <1>12, <1>15, <3>1
  <2>5. back \in Seq(B)
    BY <1>12, <1>13, <1>15, <2>2
  <2>6. SortedList(back, B, RowOrder(r))
    BY <1>15, <2>3, <2>4, <2>5 DEF SortedList
  <2>7. B \in SUBSET Stories
    BY <1>7, <1>8
  <2>8. IsFiniteSet(B) /\ StrictOrder(B, RowOrder(r))
    BY <2>7, RowOrderStrict
  <2> QED BY <1>2, <2>6, <2>8, SortedOnce
<1>17. Inserted(Column(r, st), drag) = q
  <2>1. behind \in Seq(S)
    BY <1>15, <1>16
  <2>2. front \in Seq(Stories) /\ behind \in Seq(Stories)
    BY <1>7, <1>14, <2>1
  <2>3. (front \o c) \o behind = front \o (c \o behind)
    BY <1>10, <2>2
  <2> QED BY <1>2, <1>6, <1>16, <2>3 DEF q
<1>18. /\ q \in Seq(Stories) /\ Len(q) = k + Len(ids) /\ Len(ids) \in Nat
       /\ \A i \in 1 .. Len(q) : q[i] = IF i <= k THEN front[i] ELSE ids[i - k]
  <2>1. front \in Seq(Stories)
    BY <1>7, <1>14
  <2>2. /\ q \in Seq(Stories) /\ Len(q) = Len(front) + Len(ids) /\ Len(ids) \in Nat
        /\ \A i \in 1 .. Len(q) : q[i] = IF i <= Len(front) THEN front[i] ELSE ids[i - Len(front)]
    BY <1>2, <2>1 DEF q
  <2> QED BY <1>14, <2>2
<1>19. \A i \in 1 .. Len(q) : IF i <= k THEN i \in 1 .. k /\ i \in 1 .. n ELSE i - k \in 1 .. Len(ids)
  BY <1>12, <1>13, <1>18
<1>20. /\ \A i \in 1 .. Len(ids) : ids[i] \in D \cup B
       /\ \A s \in D \cup B : \E i \in 1 .. Len(ids) : ids[i] = s
  <2>1. ToSet(ids) = {ids[i] : i \in 1 .. Len(ids)}
    <3>1. ids \in Seq(Stories)
      BY <1>2
    <3> QED BY <3>1, ToSetIs
  <2> QED BY <1>2, <2>1
\* In front nothing has changed, and the list follows with positions that grow.
<1>21. \A i \in 1 .. k : /\ i \in 1 .. n /\ front[i] = rest[i] /\ rest[i] \in S /\ rest[i] \notin B
                         /\ f[rest[i]] = r[rest[i]] /\ r[rest[i]].order < start
  <2> TAKE i \in 1 .. k
  <2>1. i \in 1 .. n /\ ~ (i > k)
    BY <1>12, <1>13
  <2>2. rest[i] \in S /\ rest[i] \notin B
    BY <1>5, <1>12, <2>1
  <2>3. rest[i] \in Stories /\ rest[i] \notin D \cup B
    BY <1>7, <2>2
  <2> QED BY <1>3, <1>9, <1>14, <2>1, <2>2, <2>3
<1>22. \A i \in 1 .. Len(q) : q[i] \in InStatus(f, st)
  <2> TAKE i \in 1 .. Len(q)
  <2>1. CASE i <= k
    <3>1. q[i] \in S
      BY <1>18, <1>19, <1>21, <2>1
    <3> QED BY <1>7, <1>11, <3>1
  <2>2. CASE ~ (i <= k)
    <3>1. q[i] \in D \cup B
      BY <1>18, <1>19, <1>20, <2>2
    <3>2. q[i] \in Stories /\ (q[i] \in D \/ q[i] \in S)
      BY <1>7, <1>8, <1>10, <3>1
    <3> QED BY <1>11, <3>2
  <2> QED BY <2>1, <2>2
<1>23. \A s \in InStatus(f, st) : \E i \in 1 .. Len(q) : q[i] = s
  <2> TAKE s \in InStatus(f, st)
  <2>1. s \in D \/ s \in S
    BY <1>11 DEF InStatus
  <2>2. CASE s \in D \cup B
    <3>1. PICK i \in 1 .. Len(ids) : ids[i] = s
      BY <1>20, <2>2
    <3>2. k + i \in 1 .. Len(q) /\ ~ (k + i <= k) /\ (k + i) - k = i
      BY <1>13, <1>18
    <3> QED BY <1>18, <3>1, <3>2
  <2>3. CASE s \notin D \cup B
    <3>1. PICK i \in 1 .. n : rest[i] = s
      BY <1>12, <2>1, <2>3
    <3>2. i <= k
      BY <1>5, <1>12, <1>13, <2>3, <3>1
    <3>3. i \in 1 .. k /\ i \in 1 .. Len(q)
      BY <1>12, <1>13, <1>18, <3>2
    <3>4. q[i] = s
      BY <1>18, <1>21, <3>1, <3>2, <3>3
    <3> QED BY <3>3, <3>4
  <2> QED BY <2>2, <2>3
<1>24. ASSUME NEW i \in 1 .. Len(q), NEW j \in 1 .. Len(q), i < j
       PROVE  <<q[i], q[j]>> \in RowOrder(f)
  <2>0. /\ q[i] \in Stories /\ q[j] \in Stories /\ i \in Int /\ j \in Int
        /\ f[q[i]].order \in Nat /\ f[q[j]].order \in Nat
    BY <1>3, <1>18 DEF Rows
  <2>1. CASE i <= k /\ j <= k
    <3>1. /\ i \in 1 .. k /\ j \in 1 .. k /\ i \in 1 .. n /\ j \in 1 .. n
          /\ q[i] = rest[i] /\ q[j] = rest[j]
      BY <1>18, <1>19, <1>21, <2>1
    <3>2. <<rest[i], rest[j]>> \in RowOrder(r)
      BY <1>12, <1>24, <3>1
    <3>3. f[rest[i]] = r[rest[i]] /\ f[rest[j]] = r[rest[j]]
      BY <1>21, <3>1
    <3> QED BY <3>1, <3>2, <3>3 DEF RowOrder, Before
  <2>2. CASE i <= k /\ ~ (j <= k)
    <3>1. i \in 1 .. k /\ q[i] = rest[i] /\ j - k \in 1 .. Len(ids) /\ q[j] = ids[j - k]
      BY <1>18, <1>19, <1>21, <2>2
    <3>2. f[q[i]].order < start
      BY <1>21, <3>1
    <3>3. f[q[j]].order = start + (j - k) - 1
      BY <1>3, <3>1
    <3>4. f[q[i]].order < f[q[j]].order
      BY <1>1, <1>13, <2>0, <3>1, <3>2, <3>3
    <3> QED BY <2>0, <3>4 DEF RowOrder, Before
  <2>3. CASE ~ (i <= k) /\ ~ (j <= k)
    <3>1. i - k \in 1 .. Len(ids) /\ q[i] = ids[i - k] /\ j - k \in 1 .. Len(ids) /\ q[j] = ids[j - k]
      BY <1>18, <1>19, <2>3
    <3>2. f[q[i]].order = start + (i - k) - 1 /\ f[q[j]].order = start + (j - k) - 1
      BY <1>3, <3>1
    <3>3. f[q[i]].order < f[q[j]].order
      BY <1>1, <1>13, <1>24, <2>0, <3>2
    <3> QED BY <2>0, <3>3 DEF RowOrder, Before
  <2>4. CASE ~ (i <= k) /\ j <= k
    BY <1>13, <1>24, <2>0, <2>4
  <2> QED BY <2>1, <2>2, <2>3, <2>4
<1>25. q \in Seq(InStatus(f, st))
  BY <1>18, <1>22
<1>26. SortedList(q, InStatus(f, st), RowOrder(f))
  BY <1>23, <1>24, <1>25 DEF SortedList
<1>27. Column(f, st) = q
  BY <1>3, <1>26, ColumnIs
<1> QED BY <1>17, <1>27 DEF f, st

\* The drags of DragKeepsOrder name a card that is still in the column.
LEMMA PossibleDragsAre ==
  ASSUME NEW drag \in PossibleDrags
  PROVE  IsDrag(drag) /\ NamesPlace(rows, drag)
<1>1. /\ drag.cards \in {c \in Stories \X Stories : c[1] # c[2]} \cup {<<s>> : s \in Stories}
      /\ drag.status \in Statuses
      /\ drag.after \in Stories \cup {NoCard} /\ drag.before \in Stories \cup {NoCard}
      /\ drag.after = NoCard \/ drag.before = NoCard
  BY DEF PossibleDrags
<1>2. NamesPlace(rows, drag)
  BY DEF PossibleDrags, NamesPlace
<1>3. drag.cards \in Seq(Stories) /\ Distinct(drag.cards)
  <2>1. CASE drag.cards \in {c \in Stories \X Stories : c[1] # c[2]}
    <3>1. PICK s \in Stories, t \in Stories : drag.cards = <<s, t>> /\ s # t
      BY <2>1
    <3> QED BY <3>1 DEF Distinct
  <2>2. CASE drag.cards \in {<<s>> : s \in Stories}
    <3>1. PICK s \in Stories : drag.cards = <<s>>
      BY <2>2
    <3> QED BY <3>1 DEF Distinct
  <2> QED BY <1>1, <2>1, <2>2
<1> QED BY <1>1, <1>2, <1>3 DEF IsDrag

\* Both together, for any number of cards of a drag.
LEMMA DragsKeepOrder ==
  ASSUME rows \in Rows
  PROVE  DragKeepsOrder
<1> SUFFICES ASSUME Ties(rows) = {}, NEW drag \in PossibleDrags, NEW status \in Statuses
             PROVE  Column(Dragged(rows, drag), status) =
                      IF status = drag.status THEN Inserted(Column(rows, status), drag)
                      ELSE Without(Column(rows, status), ToSet(drag.cards))
  BY DEF DragKeepsOrder
<1>1. IsDrag(drag) /\ NamesPlace(rows, drag)
  BY PossibleDragsAre
<1>2. CASE status = drag.status
  <2>1. Column(Dragged(rows, drag), drag.status) = Inserted(Column(rows, drag.status), drag)
    BY <1>1, DraggedColumn
  <2> QED BY <1>2, <2>1
<1>3. CASE status # drag.status
  <2>1. Column(Dragged(rows, drag), status) = Without(Column(rows, status), ToSet(drag.cards))
    BY <1>1, <1>3, OtherColumns
  <2> QED BY <1>3, <2>1
<1> QED BY <1>2, <1>3

-----------------------------------------------------------------------------
(* Types.                                                                  *)

\* A user drags one card, and names at most one other.
Drags == {d \in [cards : {<<s>> : s \in Stories}, status : Statuses,
                 after : Stories \cup {NoCard}, before : Stories \cup {NoCard}] :
            d.after = NoCard \/ d.before = NoCard}

Steps == {"sent", "valid", "loaded", "listed", "placed", "moved", "done", "rejected"}

Listings == {q \in Seq(Stories) : Distinct(q)}

Requests == [tab : Tabs, drag : Drags, step : Steps, from : Nat, start : Nat,
             ids : Listings, lone : BOOLEAN]

Loads == [ids : SUBSET Stories, rows : Rows \cup {NoRows}, own : SUBSET Stories]

BoardTypes ==
  /\ rows \in Rows
  /\ requests \in Seq(Requests)
  /\ inbox \in [Tabs -> Seq(SUBSET Stories)]
  /\ waiting \in [Tabs -> SUBSET Stories]
  /\ loads \in [Tabs -> Seq(Loads)]
  /\ cards \in [Tabs -> Rows]
  /\ order \in [Tabs -> [Stories -> Nat]]
  /\ \A t \in Tabs : AllOnce(list[t])
  /\ list \in [Tabs -> Seq(Stories)]
  /\ suspect \in [Tabs -> SUBSET Stories]

\* The drags that tabs send.
LEMMA DragsAre ==
  ASSUME NEW drag \in Drags
  PROVE  /\ IsDrag(drag)
         /\ \E s \in Stories : drag.cards = <<s>> /\ ToSet(drag.cards) = {s}
         /\ drag.status \in Statuses
<1>1. PICK s \in Stories : drag.cards = <<s>>
  BY DEF Drags
<1>2. /\ drag.status \in Statuses
      /\ drag.after \in Stories \cup {NoCard} /\ drag.before \in Stories \cup {NoCard}
      /\ drag.after = NoCard \/ drag.before = NoCard
  BY DEF Drags
<1>3. <<s>> \in Seq(Stories) /\ Distinct(<<s>>) /\ ToSet(<<s>>) = {s}
  BY DEF Distinct, ToSet
<1> QED BY <1>1, <1>2, <1>3 DEF IsDrag

\* At is 0 for what is not there.
LEMMA AtAny ==
  ASSUME NEW T, NEW q \in Seq(T), Distinct(q), NEW s
  PROVE  At(q, s) \in 0 .. Len(q) /\ (s \in ToSet(q) => At(q, s) \in 1 .. Len(q))
<1>1. CASE s \in ToSet(q)
  <2>1. At(q, s) \in 1 .. Len(q)
    BY <1>1, AtElement
  <2>2. Len(q) \in Nat
    OBVIOUS
  <2> QED BY <2>1, <2>2
<1>2. CASE s \notin ToSet(q)
  <2>1. {i \in 1 .. Len(q) : q[i] = s} = {}
    BY <1>2, ToSetIs
  <2>2. At(q, s) = 0
    BY <2>1 DEF At, SelectInSeq
  <2>3. Len(q) \in Nat
    OBVIOUS
  <2> QED BY <1>2, <2>2, <2>3
<1> QED BY <1>1, <1>2

\* The end of a list without repetitions has none.
LEMMA SubSeqDistinct ==
  ASSUME NEW T, NEW q \in Seq(T), Distinct(q), NEW k \in Nat
  PROVE  SubSeq(q, k + 1, Len(q)) \in Seq(T) /\ Distinct(SubSeq(q, k + 1, Len(q)))
<1> DEFINE n == Len(q)
           b == SubSeq(q, k + 1, n)
<1>0. n \in Nat
  OBVIOUS
<1>1. CASE k <= n
  <2>1. b \in Seq(T) /\ Len(b) = n - k /\ \A j \in 1 .. n - k : b[j] = q[k + j]
    BY <1>0, <1>1
  <2> HIDE DEF b
  <2>2. ASSUME NEW i \in 1 .. Len(b), NEW j \in 1 .. Len(b), b[i] = b[j] PROVE i = j
    <3>1. k + i \in 1 .. n /\ k + j \in 1 .. n
      BY <1>0, <1>1, <2>1
    <3>2. q[k + i] = q[k + j]
      BY <2>1, <2>2
    <3>3. k + i = k + j
      BY <3>1, <3>2 DEF Distinct
    <3> QED BY <3>3
  <2> QED BY <2>1, <2>2 DEF Distinct, b
<1>2. CASE ~ (k <= n)
  <2>1. b = <<>>
    BY <1>0, <1>2
  <2> QED BY <2>1 DEF Distinct
<1> QED BY <1>1, <1>2

\* Nor has a list from which cards are taken.
LEMMA WithoutDistinct ==
  ASSUME NEW T, NEW q \in Seq(T), Distinct(q), NEW D
  PROVE  Without(q, D) \in Seq(T) /\ Distinct(Without(q, D))
<1> DEFINE I == {i \in DOMAIN q : q[i] \notin D}
<1>1. I \in SUBSET (1 .. Len(q)) /\ Without(q, D) = Chosen(q, I)
  BY DEF Without
<1> HIDE DEF I
<1> QED BY <1>1, ChosenDistinct

\* A tab shows in a list every card it has loaded with that status, once.
LEMMA ShownAre ==
  ASSUME NEW t, AllOnce(list[t]), NEW status
  PROVE  /\ Shown(t, status) \in Seq(Stories) /\ Distinct(Shown(t, status))
         /\ ToSet(Shown(t, status)) = {s \in Stories : cards[t][s].status = status}
<1> DEFINE q == list[t]
           I == {i \in DOMAIN q : cards[t][q[i]].status = status}
<1>1. /\ q \in Seq(Stories) /\ Distinct(q) /\ \A s \in Stories : \E i \in 1 .. Len(q) : q[i] = s
  BY DEF AllOnce
<1>2. I \in SUBSET (1 .. Len(q)) /\ Shown(t, status) = Chosen(q, I)
  BY <1>1 DEF Shown
<1>3. {q[i] : i \in I} = {s \in Stories : cards[t][s].status = status}
  <2>1. \A i \in I : q[i] \in Stories /\ cards[t][q[i]].status = status
    BY <1>1
  <2>2. \A s \in Stories : cards[t][s].status = status => \E i \in I : q[i] = s
    BY <1>1
  <2> QED BY <2>1, <2>2
<1> HIDE DEF q, I
<1> QED BY <1>1, <1>2, <1>3, ChosenDistinct

\* The positions a tab computes are numbers.
LEMMA LocalOrderTyped ==
  ASSUME NEW o \in [Stories -> Nat], NEW q \in Seq(Stories), Distinct(q), NEW drag \in Drags
  PROVE  LocalOrder(o, q, drag) \in [Stories -> Nat]
<1> DEFINE first == IF drag.after = NoCard THEN 0 ELSE o[drag.after] + 1
           skipped == IF drag.after = NoCard THEN 0 ELSE At(q, drag.after)
           rest == Without(q, ToSet(drag.cards))
           behind == SubSeq(rest, skipped + 1, Len(rest))
           c == drag.cards
           f == LocalOrder(o, q, drag)
<1>1. first \in Nat
  <2>1. drag.after \in Stories \cup {NoCard}
    BY DEF Drags
  <2> QED BY <2>1
<1>2. skipped \in Nat
  <2>1. At(q, drag.after) \in 0 .. Len(q)
    BY AtAny
  <2> QED BY <2>1
<1>3. rest \in Seq(Stories) /\ Distinct(rest)
  BY WithoutDistinct
<1> HIDE DEF skipped, rest
<1>4. behind \in Seq(Stories) /\ Distinct(behind)
  BY <1>2, <1>3, SubSeqDistinct
<1>5. c \in Seq(Stories) /\ Distinct(c)
  BY DragsAre DEF IsDrag
<1>6. f = [s \in Stories |->
             CASE Contains(c, s) -> first + At(c, s) - 1
               [] Contains(behind, s) /\ ~ Contains(c, s) -> first + Len(c) + At(behind, s)
               [] OTHER -> o[s]]
  BY DEF LocalOrder, skipped, rest
<1> HIDE DEF f, behind, c, first
<1>7. \A s \in Stories : Contains(c, s) => At(c, s) \in Nat /\ At(c, s) >= 1
  <2> TAKE s \in Stories
  <2> HAVE Contains(c, s)
  <2>1. s \in ToSet(c)
    BY <1>5, ToSetIs DEF Contains
  <2>2. At(c, s) \in 1 .. Len(c)
    BY <1>5, <2>1, AtAny
  <2> QED BY <2>2
<1>8. \A s \in Stories : At(behind, s) \in Nat
  <2> TAKE s \in Stories
  <2>1. At(behind, s) \in 0 .. Len(behind)
    BY <1>4, AtAny
  <2> QED BY <2>1
<1>9. Len(c) \in Nat
  BY <1>5
<1>10. ASSUME NEW s \in Stories PROVE f[s] \in Nat
  <2>1. CASE Contains(c, s)
    <3>1. f[s] = first + At(c, s) - 1
      BY <1>6, <2>1
    <3> QED BY <1>1, <1>7, <2>1, <3>1
  <2>2. CASE Contains(behind, s) /\ ~ Contains(c, s)
    <3>1. f[s] = first + Len(c) + At(behind, s)
      BY <1>6, <2>2
    <3> QED BY <1>1, <1>8, <1>9, <3>1
  <2>3. CASE ~ Contains(behind, s) /\ ~ Contains(c, s)
    BY <1>6, <2>3
  <2> QED BY <2>1, <2>2, <2>3
<1>11. f \in [Stories -> Nat]
  BY <1>6, <1>10
<1> QED BY <1>11 DEF f

-----------------------------------------------------------------------------
(* What the actions change.                                                *)

\* Request i goes on, and no other.
Advances(i) ==
  /\ requests' \in Seq(Requests) /\ DOMAIN requests' = DOMAIN requests
  /\ \A j \in DOMAIN requests : j # i => requests'[j] = requests[j]
  /\ requests'[i].tab = requests[i].tab /\ requests'[i].drag = requests[i].drag

\* A request is replaced by a later state of it.
LEMMA RequestSet ==
  ASSUME BoardTypes, NEW i \in DOMAIN requests, NEW q \in Requests,
         q.tab = requests[i].tab, q.drag = requests[i].drag,
         requests' = [requests EXCEPT ![i] = q]
  PROVE  Advances(i) /\ requests'[i] = q
<1>1. requests \in Seq(Requests)
  BY DEF BoardTypes
<1>2. requests' \in Seq(Requests) /\ DOMAIN requests' = DOMAIN requests
  BY <1>1
<1> QED BY <1>1, <1>2 DEF Advances

\* A request whose step alone changes.
LEMMA ProgressIs ==
  ASSUME BoardTypes, NEW i \in DOMAIN requests, NEW step \in Steps, Progress(i, step)
  PROVE  /\ Advances(i) /\ requests'[i].step = step
         /\ requests'[i].ids = requests[i].ids /\ requests'[i].lone = requests[i].lone
         /\ requests'[i].from = requests[i].from /\ requests'[i].start = requests[i].start
<1> DEFINE q == [requests[i] EXCEPT !.step = step]
<1>1. requests[i] \in Requests
  BY DEF BoardTypes
<1>2. /\ q \in Requests /\ q.tab = requests[i].tab /\ q.drag = requests[i].drag /\ q.step = step
      /\ q.ids = requests[i].ids /\ q.lone = requests[i].lone
      /\ q.from = requests[i].from /\ q.start = requests[i].start
  BY <1>1 DEF Requests
<1>3. requests' = [requests EXCEPT ![i] = q]
  BY DEF Progress
<1> HIDE DEF q
<1> QED BY <1>2, <1>3, RequestSet

\* The request was valid, or was refused.
LEMMA ValidateIs ==
  ASSUME BoardTypes, NEW i \in DOMAIN requests, Validate(i)
  PROVE  /\ Advances(i) /\ requests[i].step = "sent"
         /\ requests'[i].ids = requests[i].ids
         /\ \/ /\ requests'[i].step = "valid" /\ requests'[i].lone = (Running = {})
               /\ UNCHANGED suspect
            \/ /\ requests'[i].step = "rejected" /\ requests'[i].lone = requests[i].lone
               /\ suspect' = [suspect EXCEPT ![requests[i].tab] = @ \cup ToSet(requests[i].drag.cards)]
         /\ UNCHANGED <<rows, inbox, waiting, loads, cards, order, list>>
<1>1. requests[i] \in Requests /\ requests[i].step = "sent"
      /\ UNCHANGED <<rows, inbox, waiting, loads, cards, order, list>>
  BY DEF BoardTypes, Validate, screens
<1>2. CASE /\ requests' = [requests EXCEPT ![i].step = "valid", ![i].lone = Running = {}]
           /\ UNCHANGED suspect
  <2> DEFINE q == [requests[i] EXCEPT !.step = "valid", !.lone = Running = {}]
  <2>0. PICK b \in BOOLEAN : b = (Running = {})
    OBVIOUS
  <2>1. /\ q \in Requests /\ q.tab = requests[i].tab /\ q.drag = requests[i].drag
        /\ q.step = "valid" /\ q.ids = requests[i].ids /\ q.lone = b
    BY <1>1, <2>0 DEF Requests, Steps
  <2>2. requests' = [requests EXCEPT ![i] = q]
    BY <1>2
  <2> HIDE DEF q
  <2>3. Advances(i) /\ requests'[i] = q
    BY <2>1, <2>2, RequestSet
  <2> QED BY <1>1, <1>2, <2>0, <2>1, <2>3
<1>3. CASE /\ Progress(i, "rejected")
           /\ suspect' = [suspect EXCEPT ![requests[i].tab] = @ \cup ToSet(requests[i].drag.cards)]
  <2>1. /\ Advances(i) /\ requests'[i].step = "rejected"
        /\ requests'[i].ids = requests[i].ids /\ requests'[i].lone = requests[i].lone
    BY <1>3, ProgressIs DEF Steps
  <2> QED BY <1>1, <1>3, <2>1
<1> QED BY <1>2, <1>3 DEF Validate

\* The handler has loaded the anchor.
LEMMA LoadAnchorIs ==
  ASSUME BoardTypes, NEW i \in DOMAIN requests, LoadAnchor(i)
  PROVE  /\ Advances(i) /\ requests[i].step = "valid" /\ requests'[i].step = "loaded"
         /\ requests'[i].ids = requests[i].ids /\ requests'[i].lone = requests[i].lone
         /\ requests'[i].from = AnchorOrder(rows, requests[i].drag)
         /\ requests'[i].start = StartOrder(rows, requests[i].drag)
         /\ UNCHANGED <<rows, inbox, waiting, loads, cards, order, list, suspect>>
<1> DEFINE drag == requests[i].drag
           q == [requests[i] EXCEPT !.step = "loaded", !.from = AnchorOrder(rows, drag),
                                    !.start = StartOrder(rows, drag)]
<1>1. requests[i] \in Requests /\ requests[i].step = "valid"
      /\ UNCHANGED <<rows, inbox, waiting, loads, cards, order, list, suspect>>
  BY DEF BoardTypes, LoadAnchor, screens
<1>2. AnchorOrder(rows, drag) \in Nat /\ StartOrder(rows, drag) \in Nat
  <2>1. drag \in Drags
    BY <1>1 DEF Requests
  <2> QED BY <2>1, DragsAre, OrdersTyped DEF BoardTypes
<1>3. /\ q \in Requests /\ q.tab = requests[i].tab /\ q.drag = requests[i].drag
      /\ q.step = "loaded" /\ q.ids = requests[i].ids /\ q.lone = requests[i].lone
      /\ q.from = AnchorOrder(rows, drag) /\ q.start = StartOrder(rows, drag)
  BY <1>1, <1>2 DEF Requests, Steps
<1>4. requests' = [requests EXCEPT ![i] = q]
  BY DEF LoadAnchor
<1> HIDE DEF q
<1>5. Advances(i) /\ requests'[i] = q
  BY <1>3, <1>4, RequestSet
<1> QED BY <1>1, <1>3, <1>5

\* It has listed the cards that make room, behind those of the drag.
LEMMA ListCardsIs ==
  ASSUME BoardTypes, NEW i \in DOMAIN requests, ListCards(i)
  PROVE  /\ Advances(i) /\ requests[i].step = "loaded" /\ requests'[i].step = "listed"
         /\ requests'[i].ids = Listed(rows, requests[i].drag, requests[i].from)
         /\ ToSet(requests[i].drag.cards) \subseteq ToSet(requests'[i].ids)
         /\ requests'[i].lone = requests[i].lone
         /\ requests'[i].from = requests[i].from /\ requests'[i].start = requests[i].start
         /\ UNCHANGED <<rows, inbox, waiting, loads, cards, order, list, suspect>>
<1> DEFINE ids == Listed(rows, requests[i].drag, requests[i].from)
           q == [requests[i] EXCEPT !.step = "listed", !.ids = ids]
<1>1. requests[i] \in Requests /\ requests[i].step = "loaded"
      /\ UNCHANGED <<rows, inbox, waiting, loads, cards, order, list, suspect>>
  BY DEF BoardTypes, ListCards, screens
<1>2. ids \in Listings /\ ToSet(requests[i].drag.cards) \subseteq ToSet(ids)
  <2>1. requests[i].drag \in Drags /\ requests[i].from \in Nat
    BY <1>1 DEF Requests
  <2>2. IsDrag(requests[i].drag) /\ rows \in Rows
    BY <2>1, DragsAre DEF BoardTypes
  <2>3. /\ ids \in Seq(Stories) /\ Distinct(ids)
        /\ ToSet(requests[i].drag.cards) \subseteq ToSet(ids)
    BY <2>1, <2>2, ListedAre
  <2> HIDE DEF ids
  <2> QED BY <2>3 DEF Listings
<1>4. requests' = [requests EXCEPT ![i] = q]
  BY DEF ListCards
<1> HIDE DEF ids
<1>3. /\ q \in Requests /\ q.tab = requests[i].tab /\ q.drag = requests[i].drag
      /\ q.step = "listed" /\ q.ids = ids /\ q.lone = requests[i].lone
      /\ q.from = requests[i].from /\ q.start = requests[i].start
  BY <1>1, <1>2 DEF Requests, Steps
<1> HIDE DEF q
<1>5. Advances(i) /\ requests'[i] = q
  BY <1>3, <1>4, RequestSet
<1> QED BY <1>1, <1>2, <1>3, <1>5 DEF ids

\* The first UPDATE.
LEMMA PlaceIs ==
  ASSUME BoardTypes, NEW i \in DOMAIN requests, Place(i)
  PROVE  /\ Advances(i) /\ requests[i].step = "listed" /\ requests'[i].step = "placed"
         /\ requests'[i].ids = requests[i].ids /\ requests'[i].lone = requests[i].lone
         /\ rows' = Placed(rows, requests[i].ids, requests[i].start)
         /\ UNCHANGED <<inbox, waiting, loads, cards, order, list, suspect>>
<1>1. Progress(i, "placed") /\ requests[i].step = "listed"
      /\ rows' = Placed(rows, requests[i].ids, requests[i].start)
      /\ UNCHANGED <<inbox, waiting, loads, cards, order, list, suspect>>
  BY DEF Place, screens
<1>2. /\ Advances(i) /\ requests'[i].step = "placed"
      /\ requests'[i].ids = requests[i].ids /\ requests'[i].lone = requests[i].lone
  BY <1>1, ProgressIs DEF Steps
<1> QED BY <1>1, <1>2

\* The second UPDATE.
LEMMA ChangeStatusIs ==
  ASSUME BoardTypes, NEW i \in DOMAIN requests, ChangeStatus(i)
  PROVE  /\ Advances(i) /\ requests[i].step = "placed" /\ requests'[i].step = "moved"
         /\ requests'[i].ids = requests[i].ids /\ requests'[i].lone = requests[i].lone
         /\ rows' = Moved(rows, requests[i].drag)
         /\ UNCHANGED <<inbox, waiting, loads, cards, order, list, suspect>>
<1>1. Progress(i, "moved") /\ requests[i].step = "placed"
      /\ rows' = Moved(rows, requests[i].drag)
      /\ UNCHANGED <<inbox, waiting, loads, cards, order, list, suspect>>
  BY DEF ChangeStatus, screens
<1>2. /\ Advances(i) /\ requests'[i].step = "moved"
      /\ requests'[i].ids = requests[i].ids /\ requests'[i].lone = requests[i].lone
  BY <1>1, ProgressIs DEF Steps
<1> QED BY <1>1, <1>2

\* The message of a request, to the other tabs; or its loss.
LEMMA EmitIs ==
  ASSUME BoardTypes, NEW i \in DOMAIN requests, Emit(i) \/ LoseMessage(i)
  PROVE  /\ Advances(i) /\ requests[i].step = "moved" /\ requests'[i].step = "done"
         /\ requests'[i].ids = requests[i].ids /\ requests'[i].lone = requests[i].lone
         /\ UNCHANGED <<rows, waiting, loads, cards, order, list>>
         /\ \/ /\ UNCHANGED suspect
               /\ inbox' = [t \in Tabs |-> IF t = requests[i].tab THEN inbox[t]
                                           ELSE Append(inbox[t], ToSet(requests[i].ids))]
            \/ /\ UNCHANGED inbox
               /\ suspect' = [t \in Tabs |-> IF t = requests[i].tab THEN suspect[t]
                                             ELSE suspect[t] \cup ToSet(requests[i].ids)]
<1>1. Progress(i, "done") /\ requests[i].step = "moved"
      /\ UNCHANGED <<rows, waiting, loads, cards, order, list>>
  BY DEF Emit, LoseMessage, screens
<1>2. /\ Advances(i) /\ requests'[i].step = "done"
      /\ requests'[i].ids = requests[i].ids /\ requests'[i].lone = requests[i].lone
  BY <1>1, ProgressIs DEF Steps
<1>3. CASE Emit(i)
  BY <1>1, <1>2, <1>3 DEF Emit
<1>4. CASE LoseMessage(i)
  BY <1>1, <1>2, <1>4 DEF LoseMessage
<1> QED BY <1>3, <1>4

\* What is left when an element is removed.
LEMMA RemoveAtIs ==
  ASSUME NEW T, NEW q \in Seq(T), NEW i \in DOMAIN q
  PROVE  /\ RemoveAt(q, i) \in Seq(T) /\ Len(RemoveAt(q, i)) = Len(q) - 1
         /\ \A k \in 1 .. Len(q) - 1 : RemoveAt(q, i)[k] = q[IF k < i THEN k ELSE k + 1]
<1> DEFINE n == Len(q)
           a == SubSeq(q, 1, i - 1)
           b == SubSeq(q, i + 1, n)
<1>1. n \in Nat /\ i \in 1 .. n
  OBVIOUS
<1>2. a \in Seq(T) /\ Len(a) = i - 1 /\ \A k \in 1 .. i - 1 : a[k] = q[k]
  BY <1>1
<1>3. b \in Seq(T) /\ Len(b) = n - i /\ \A k \in 1 .. n - i : b[k] = q[i + k]
  BY <1>1
<1>4. RemoveAt(q, i) = a \o b
  BY DEF RemoveAt
<1> HIDE DEF a, b
<1>5. /\ a \o b \in Seq(T) /\ Len(a \o b) = n - 1
      /\ \A k \in 1 .. n - 1 : (a \o b)[k] = IF k <= i - 1 THEN a[k] ELSE b[k - (i - 1)]
  BY <1>1, <1>2, <1>3
<1>6. ASSUME NEW k \in 1 .. n - 1 PROVE (a \o b)[k] = q[IF k < i THEN k ELSE k + 1]
  <2>1. CASE k < i
    <3>1. k <= i - 1 /\ k \in 1 .. i - 1
      BY <1>1, <2>1
    <3> QED BY <1>2, <1>5, <2>1, <3>1
  <2>2. CASE ~ (k < i)
    <3>1. ~ (k <= i - 1) /\ k - (i - 1) \in 1 .. n - i /\ i + (k - (i - 1)) = k + 1
      BY <1>1, <2>2
    <3> QED BY <1>3, <1>5, <2>2, <3>1
  <2> QED BY <2>1, <2>2
<1> QED BY <1>4, <1>5, <1>6

\* The elements of a sequence of a set are in the set.
LEMMA ToSetIn ==
  ASSUME NEW T, NEW q \in Seq(T)
  PROVE  ToSet(q) \subseteq T
<1>1. \A i \in DOMAIN q : q[i] \in T
  OBVIOUS
<1> QED BY <1>1 DEF ToSet

\* What is unsaved are stories.
LEMMA UnsavedStories ==
  ASSUME BoardTypes, NEW t
  PROVE  Unsaved(t) \in SUBSET Stories
<1>1. ASSUME NEW i \in DOMAIN requests PROVE ToSet(requests[i].drag.cards) \subseteq Stories
  <2>0. requests[i] \in Requests
    BY DEF BoardTypes
  <2>1. requests[i].drag \in Drags
    BY <2>0 DEF Requests
  <2> QED BY <2>1, DragsAre
<1> QED BY <1>1 DEF Unsaved

\* Drops and moves to the top are drags of one card.
LEMMA DropsSend ==
  ASSUME BoardTypes, NEW t \in Tabs, NEW s \in Stories, Drop(t, s) \/ MoveToTop(t, s)
  PROVE  \E drag \in Drags : Send(t, drag)
<1>1. \A status : /\ Shown(t, status) \in Seq(Stories) /\ Distinct(Shown(t, status))
                  /\ ToSet(Shown(t, status)) = {u \in Stories : cards[t][u].status = status}
  BY ShownAre DEF BoardTypes
<1>2. CASE Drop(t, s)
  <2>1. PICK status \in Statuses :
          LET rest == Without(Shown(t, status), {s}) IN
          \E place \in 0 .. Len(rest) :
            Send(t, [cards |-> <<s>>, status |-> status,
                     after |-> IF place = 0 THEN NoCard ELSE rest[place],
                     before |-> IF place = 0 /\ rest # <<>> THEN rest[1] ELSE NoCard])
    BY <1>2 DEF Drop
  <2> DEFINE rest == Without(Shown(t, status), {s})
  <2>2. rest \in Seq(Stories)
    BY <1>1, WithoutDistinct
  <2> HIDE DEF rest
  <2>3. PICK place \in 0 .. Len(rest) :
            Send(t, [cards |-> <<s>>, status |-> status,
                     after |-> IF place = 0 THEN NoCard ELSE rest[place],
                     before |-> IF place = 0 /\ rest # <<>> THEN rest[1] ELSE NoCard])
    BY <2>1 DEF rest
  <2> DEFINE drag == [cards |-> <<s>>, status |-> status,
                      after |-> IF place = 0 THEN NoCard ELSE rest[place],
                      before |-> IF place = 0 /\ rest # <<>> THEN rest[1] ELSE NoCard]
  <2>4. place # 0 => rest[place] \in Stories
    BY <2>2
  <2>5. rest # <<>> => rest[1] \in Stories
    BY <2>2
  <2>6. drag \in Drags
    BY <2>4, <2>5 DEF Drags
  <2> QED BY <2>3, <2>6
<1>3. CASE MoveToTop(t, s)
  <2> DEFINE status == cards[t][s].status
             top == Head(Shown(t, status))
             drag == [cards |-> <<s>>, status |-> status, after |-> NoCard, before |-> top]
  <2>1. Send(t, drag)
    BY <1>3 DEF MoveToTop
  <2>2. status \in Statuses
    BY DEF BoardTypes, Rows
  <2>3. top \in Stories
    <3>1. s \in ToSet(Shown(t, status)) /\ Shown(t, status) \in Seq(Stories)
      BY <1>1
    <3>2. Shown(t, status) # <<>>
      BY <3>1 DEF ToSet
    <3> QED BY <3>1, <3>2
  <2> HIDE DEF top, status
  <2>4. drag \in Drags
    BY <2>2, <2>3 DEF Drags
  <2> QED BY <2>1, <2>4
<1> QED BY <1>2, <1>3

\* A load that is under way learns the cards that are dragged.
LEMMA SendBeside ==
  ASSUME BoardTypes, NEW t \in Tabs, NEW drag \in Drags, Send(t, drag), NEW k \in DOMAIN loads[t]
  PROVE  /\ loads'[t][k].ids = loads[t][k].ids
         /\ loads'[t][k].rows = loads[t][k].rows
         /\ loads'[t][k].own = loads[t][k].own \cup ToSet(drag.cards)
<1>1. loads \in [Tabs -> Seq(Loads)] /\ loads[t] \in Seq(Loads)
  BY DEF BoardTypes
<1>2. loads[t][k] \in Loads
  BY <1>1
<1>3. loads' = [loads EXCEPT ![t] = [l \in DOMAIN loads[t] |-> Beside(loads[t][l], drag)]]
  BY DEF Send
<1>4. loads'[t] = [l \in DOMAIN loads[t] |-> Beside(loads[t][l], drag)]
  BY <1>1, <1>3
<1>5. loads'[t][k] = Beside(loads[t][k], drag)
  BY <1>4
<1>6. loads'[t][k] = [loads[t][k] EXCEPT !.own = loads[t][k].own \cup ToSet(drag.cards)]
  BY <1>5 DEF Beside
<1> QED BY <1>2, <1>6 DEF Loads

\* What a drag changes in its tab, and the request it makes.
LEMMA SendIs ==
  ASSUME BoardTypes, NEW t \in Tabs, NEW drag \in Drags, Send(t, drag)
  PROVE  /\ UNCHANGED <<rows, inbox, waiting>>
         /\ requests' \in Seq(Requests) /\ Len(requests) \in Nat
         /\ DOMAIN requests = 1 .. Len(requests) /\ DOMAIN requests' = 1 .. Len(requests) + 1
         /\ \A j \in DOMAIN requests : requests'[j] = requests[j]
         /\ LET q == requests'[Len(requests) + 1]
            IN  q.tab = t /\ q.drag = drag /\ q.step = "sent" /\ q.ids = <<>> /\ q.lone = TRUE
         /\ cards' = [cards EXCEPT ![t] = Moved(cards[t], drag)]
         /\ order' \in [Tabs -> [Stories -> Nat]] /\ \A u \in Tabs \ {t} : order'[u] = order[u]
         /\ list' = [list EXCEPT ![t] = Stable(list[t], order'[t])]
         /\ loads' \in [Tabs -> Seq(Loads)] /\ \A u \in Tabs \ {t} : loads'[u] = loads[u]
         /\ DOMAIN loads'[t] = DOMAIN loads[t]
         /\ \A k \in DOMAIN loads[t] : /\ loads'[t][k].ids = loads[t][k].ids
                                       /\ loads'[t][k].rows = loads[t][k].rows
                                       /\ loads'[t][k].own = loads[t][k].own \cup ToSet(drag.cards)
         /\ suspect' = [suspect EXCEPT ![t] = @ \cup (Unsaved(t) \cap ToSet(drag.cards))]
<1> DEFINE q == [tab |-> t, drag |-> drag, step |-> "sent",
                 from |-> 0, start |-> 0, ids |-> <<>>, lone |-> TRUE]
           D == ToSet(drag.cards)
           L == [k \in DOMAIN loads[t] |-> Beside(loads[t][k], drag)]
           o == LocalOrder(order[t], Shown(t, drag.status), drag)
<1>1. /\ requests' = Append(requests, q)
      /\ cards' = [cards EXCEPT ![t] = Moved(cards[t], drag)]
      /\ order' = [order EXCEPT ![t] = o]
      /\ list' = [list EXCEPT ![t] = Stable(list[t], order'[t])]
      /\ loads' = [loads EXCEPT ![t] = L]
      /\ suspect' = [suspect EXCEPT ![t] = @ \cup (Unsaved(t) \cap D)]
      /\ UNCHANGED <<rows, inbox, waiting>>
  BY DEF Send
<1>2. q \in Requests
  <2>1. <<>> \in Listings
    BY DEF Listings, Distinct
  <2> QED BY <2>1 DEF Requests, Steps
<1>3. D \subseteq Stories
  BY DragsAre
<1>4. L \in Seq(Loads) /\ DOMAIN L = DOMAIN loads[t]
      /\ \A k \in DOMAIN loads[t] : /\ L[k].ids = loads[t][k].ids /\ L[k].rows = loads[t][k].rows
                                    /\ L[k].own = loads[t][k].own \cup D
  <2>0. loads[t] \in Seq(Loads)
    BY DEF BoardTypes
  <2> HIDE DEF D
  <2>1. ASSUME NEW k \in DOMAIN loads[t]
        PROVE  /\ L[k] \in Loads /\ L[k].ids = loads[t][k].ids /\ L[k].rows = loads[t][k].rows
               /\ L[k].own = loads[t][k].own \cup D
    <3>1. loads[t][k] \in Loads
      BY <2>0
    <3>2. L[k] = [loads[t][k] EXCEPT !.own = loads[t][k].own \cup D]
      BY DEF Beside, D
    <3> HIDE DEF L
    <3> QED BY <1>3, <3>1, <3>2 DEF Loads
  <2>2. DOMAIN L = 1 .. Len(loads[t]) /\ Len(loads[t]) \in Nat
    BY <2>0
  <2> HIDE DEF L
  <2>3. L \in Seq(Loads)
    <3>1. L = [k \in 1 .. Len(loads[t]) |-> L[k]]
      BY <2>2 DEF L
    <3>2. \A k \in 1 .. Len(loads[t]) : L[k] \in Loads
      BY <2>0, <2>1
    <3> QED BY <2>2, <3>1, <3>2
  <2> QED BY <2>0, <2>1, <2>2, <2>3
<1>5. o \in [Stories -> Nat]
  <2>1. Shown(t, drag.status) \in Seq(Stories) /\ Distinct(Shown(t, drag.status))
    BY ShownAre DEF BoardTypes
  <2>2. order[t] \in [Stories -> Nat]
    BY DEF BoardTypes
  <2> QED BY <2>1, <2>2, LocalOrderTyped
<1> HIDE DEF L, D, o
<1>6. /\ loads' \in [Tabs -> Seq(Loads)] /\ \A u \in Tabs \ {t} : loads'[u] = loads[u]
      /\ loads'[t] = L
  BY <1>1, <1>4 DEF BoardTypes
<1>7. order' \in [Tabs -> [Stories -> Nat]] /\ \A u \in Tabs \ {t} : order'[u] = order[u]
  BY <1>1, <1>5 DEF BoardTypes
<1>8. requests \in Seq(Requests) /\ Len(requests) \in Nat /\ DOMAIN requests = 1 .. Len(requests)
  BY DEF BoardTypes
<1> HIDE DEF q
<1>9. /\ requests' \in Seq(Requests) /\ DOMAIN requests' = 1 .. Len(requests) + 1
      /\ \A j \in DOMAIN requests : requests'[j] = requests[j]
      /\ requests'[Len(requests) + 1] = q
  BY <1>1, <1>2, <1>8
<1>10. q.tab = t /\ q.drag = drag /\ q.step = "sent" /\ q.ids = <<>> /\ q.lone = TRUE
  BY DEF q
<1> QED BY <1>1, <1>4, <1>6, <1>7, <1>8, <1>9, <1>10 DEF D

\* The debounce takes the next message.
LEMMA ReceiveIs ==
  ASSUME BoardTypes, NEW t \in Tabs, Receive(t)
  PROVE  /\ UNCHANGED <<rows, requests, loads, cards, order, list>>
         /\ inbox[t] \in Seq(SUBSET Stories) /\ inbox[t] # <<>>
         /\ inbox' = [inbox EXCEPT ![t] = Tail(inbox[t])]
         /\ waiting' = [waiting EXCEPT ![t] = Head(inbox[t])]
         /\ suspect' = [suspect EXCEPT ![t] = @ \cup (waiting[t] \ Head(inbox[t]))]
BY DEF Receive, BoardTypes

\* The tab asks for the cards of the message.
LEMMA LoadIs ==
  ASSUME BoardTypes, NEW t \in Tabs, Load(t)
  PROVE  LET load == [ids |-> waiting[t], rows |-> NoRows, own |-> {}]
         IN  /\ UNCHANGED <<rows, requests, inbox, cards, order, list, suspect>>
             /\ load \in Loads
             /\ waiting' = [waiting EXCEPT ![t] = {}]
             /\ loads[t] \in Seq(Loads)
             /\ loads' = [loads EXCEPT ![t] = Append(loads[t], load)]
<1>1. waiting[t] \in SUBSET Stories
  BY DEF BoardTypes
<1> QED BY <1>1 DEF Load, BoardTypes, Loads

\* A load with other rows and drags.
LEMMA LoadAnswered ==
  ASSUME NEW l \in Loads, NEW r, NEW o
  PROVE  [[l EXCEPT !.rows = r] EXCEPT !.own = o] = [ids |-> l.ids, rows |-> r, own |-> o]
<1> DEFINE m == [[l EXCEPT !.rows = r] EXCEPT !.own = o]
           k == [ids |-> l.ids, rows |-> r, own |-> o]
<1>1. DOMAIN l = {"ids", "rows", "own"} /\ l = [f \in {"ids", "rows", "own"} |-> l[f]]
  BY DEF Loads
<1>2. DOMAIN m = {"ids", "rows", "own"} /\ m = [f \in {"ids", "rows", "own"} |-> m[f]]
  BY <1>1
<1>3. m.ids = l.ids /\ m.rows = r /\ m.own = o
  BY <1>1
<1>4. k = [f \in {"ids", "rows", "own"} |-> k[f]] /\ k.ids = l.ids /\ k.rows = r /\ k.own = o
  OBVIOUS
<1> HIDE DEF m, k
<1>5. \A f \in {"ids", "rows", "own"} : m[f] = k[f]
  BY <1>3, <1>4
<1>6. m = k
  BY <1>2, <1>4, <1>5
<1> QED BY <1>6 DEF m, k

\* The server answers a load.
LEMMA QueryIs ==
  ASSUME BoardTypes, NEW t \in Tabs, NEW i, Query(t, i)
  PROVE  /\ UNCHANGED <<rows, requests, inbox, waiting, cards, order, list, suspect>>
         /\ i \in DOMAIN loads[t] /\ loads[t][i].rows = NoRows
         /\ loads' \in [Tabs -> Seq(Loads)] /\ \A u \in Tabs \ {t} : loads'[u] = loads[u]
         /\ DOMAIN loads'[t] = DOMAIN loads[t]
         /\ \A k \in DOMAIN loads[t] : k # i => loads'[t][k] = loads[t][k]
         /\ loads'[t][i].ids = loads[t][i].ids /\ loads'[t][i].rows = rows
         /\ loads'[t][i].own = Unsaved(t)
<1>1. i \in DOMAIN loads[t] /\ loads[t] \in Seq(Loads) /\ loads \in [Tabs -> Seq(Loads)] /\ rows \in Rows
  BY DEF Query, BoardTypes
<1>2. Unsaved(t) \in SUBSET Stories
  BY UnsavedStories
<1> DEFINE l == loads[t][i]
           m == [ids |-> l.ids, rows |-> rows, own |-> Unsaved(t)]
           L == [loads[t] EXCEPT ![i] = m]
<1>3. l \in Loads
  BY <1>1
<1>4. loads' = [loads EXCEPT ![t][i].rows = rows, ![t][i].own = Unsaved(t)]
  BY DEF Query
<1>5. loads' = [loads EXCEPT ![t] = L]
  <2> DEFINE M == [loads EXCEPT ![t][i].rows = rows]
  <2>1. M = [loads EXCEPT ![t] = [loads[t] EXCEPT ![i] = [l EXCEPT !.rows = rows]]]
    OBVIOUS
  <2>2. loads' = [M EXCEPT ![t] = [M[t] EXCEPT ![i] = [M[t][i] EXCEPT !.own = Unsaved(t)]]]
    BY <1>4
  <2>3. M[t] = [loads[t] EXCEPT ![i] = [l EXCEPT !.rows = rows]] /\ DOMAIN M = Tabs
        /\ \A u \in Tabs \ {t} : M[u] = loads[u]
    BY <1>1, <2>1
  <2>4. M[t][i] = [l EXCEPT !.rows = rows] /\ DOMAIN M[t] = DOMAIN loads[t]
    BY <1>1, <2>3
  <2>5. [[l EXCEPT !.rows = rows] EXCEPT !.own = Unsaved(t)] = m
    BY <1>3, LoadAnswered
  <2> HIDE DEF M, m, l
  <2>6. [M[t] EXCEPT ![i] = m] = L
    BY <1>1, <2>3, <2>4
  <2>7. loads' = [M EXCEPT ![t] = L]
    BY <2>2, <2>4, <2>5, <2>6
  <2>8. [M EXCEPT ![t] = L] = [loads EXCEPT ![t] = L]
    BY <1>1, <2>3
  <2> QED BY <2>7, <2>8
<1>6. m \in Loads
  BY <1>1, <1>2, <1>3 DEF Loads
<1>7. m.ids = l.ids /\ m.rows = rows /\ m.own = Unsaved(t)
  OBVIOUS
<1> HIDE DEF m
<1>8. L \in Seq(Loads) /\ DOMAIN L = DOMAIN loads[t] /\ L[i] = m
      /\ \A k \in DOMAIN loads[t] : k # i => L[k] = loads[t][k]
  BY <1>1, <1>6
<1> HIDE DEF L
<1>9. /\ loads' \in [Tabs -> Seq(Loads)] /\ \A u \in Tabs \ {t} : loads'[u] = loads[u]
      /\ loads'[t] = L
  BY <1>1, <1>5, <1>8
<1>10. /\ UNCHANGED <<rows, requests, inbox, waiting, cards, order, list, suspect>>
       /\ loads[t][i].rows = NoRows
  BY DEF Query
<1> QED BY <1>1, <1>7, <1>8, <1>9, <1>10

\* What an answer makes of the cards, and that its load is gone.
LEMMA AnswerIs ==
  ASSUME BoardTypes, NEW t \in Tabs, NEW i, Answer(t, i)
  PROVE  /\ UNCHANGED <<rows, requests, inbox, waiting>>
         /\ i \in DOMAIN loads[t] /\ loads[t][i] \in Loads /\ loads[t][i].rows \in Rows
         /\ loads[t] \in Seq(Loads)
         /\ loads' = [loads EXCEPT ![t] = RemoveAt(loads[t], i)]
         /\ cards' \in [Tabs -> Rows] /\ \A u \in Tabs \ {t} : cards'[u] = cards[u]
         /\ \A s \in Stories : cards'[t][s] = IF s \in loads[t][i].ids THEN loads[t][i].rows[s]
                                              ELSE cards[t][s]
         /\ order' \in [Tabs -> [Stories -> Nat]] /\ \A u \in Tabs \ {t} : order'[u] = order[u]
         /\ \A s \in Stories : order'[t][s] = cards'[t][s].order
         /\ list' = [list EXCEPT ![t] = Stable(list[t], order'[t])]
         /\ suspect' = [suspect EXCEPT ![t] =
              @ \cup Overtaken(t, i) \cup (loads[t][i].own \cap loads[t][i].ids)]
<1> DEFINE l == loads[t][i]
           c == [s \in Stories |-> IF s \in l.ids THEN l.rows[s] ELSE cards[t][s]]
           o == [s \in Stories |-> cards'[t][s].order]
<1>1. /\ UNCHANGED <<rows, requests, inbox, waiting>>
      /\ i \in DOMAIN loads[t] /\ l.rows # NoRows
      /\ loads' = [loads EXCEPT ![t] = RemoveAt(loads[t], i)]
      /\ cards' = [cards EXCEPT ![t] = c]
      /\ order' = [order EXCEPT ![t] = o]
      /\ list' = [list EXCEPT ![t] = Stable(list[t], order'[t])]
      /\ suspect' = [suspect EXCEPT ![t] = @ \cup Overtaken(t, i) \cup (l.own \cap l.ids)]
  BY DEF Answer
<1>2. loads[t] \in Seq(Loads)
  BY DEF BoardTypes
<1>3. l \in Loads /\ l.rows \in Rows
  <2>1. l \in Loads
    BY <1>1, <1>2
  <2> QED BY <1>1, <2>1 DEF Loads
<1>4. cards \in [Tabs -> Rows] /\ order \in [Tabs -> [Stories -> Nat]]
  BY DEF BoardTypes
<1>5. c \in Rows
  <2> HIDE DEF l
  <2> QED BY <1>3, <1>4 DEF Rows
<1>6. \A s \in Stories : c[s] = IF s \in l.ids THEN l.rows[s] ELSE cards[t][s]
  OBVIOUS
<1> HIDE DEF c, o, l
<1>7. cards' \in [Tabs -> Rows] /\ cards'[t] = c /\ \A u \in Tabs \ {t} : cards'[u] = cards[u]
  BY <1>1, <1>4, <1>5
<1>8. o \in [Stories -> Nat] /\ \A s \in Stories : o[s] = cards'[t][s].order
  <2>1. \A s \in Stories : cards'[t][s].order \in Nat
    BY <1>5, <1>7 DEF Rows
  <2> QED BY <2>1 DEF o
<1>9. order' \in [Tabs -> [Stories -> Nat]] /\ order'[t] = o /\ \A u \in Tabs \ {t} : order'[u] = order[u]
  BY <1>1, <1>4, <1>8
<1>10. \A s \in Stories : cards'[t][s] = IF s \in l.ids THEN l.rows[s] ELSE cards[t][s]
  BY <1>6, <1>7
<1>11. \A s \in Stories : order'[t][s] = cards'[t][s].order
  BY <1>8, <1>9
<1> QED BY <1>1, <1>2, <1>3, <1>7, <1>9, <1>10, <1>11 DEF l

\* A load fails.
LEMMA LoadFailsIs ==
  ASSUME BoardTypes, NEW t \in Tabs, NEW i, LoadFails(t, i)
  PROVE  /\ UNCHANGED <<rows, requests, inbox, waiting, cards, order, list>>
         /\ i \in DOMAIN loads[t] /\ loads[t][i] \in Loads /\ loads[t] \in Seq(Loads)
         /\ loads' = [loads EXCEPT ![t] = RemoveAt(loads[t], i)]
         /\ suspect' = [suspect EXCEPT ![t] = @ \cup loads[t][i].ids]
<1>1. i \in DOMAIN loads[t] /\ loads[t] \in Seq(Loads)
  BY DEF LoadFails, BoardTypes
<1>2. loads[t][i] \in Loads
  BY <1>1
<1> QED BY <1>1, <1>2 DEF LoadFails

-----------------------------------------------------------------------------
(* The types are kept.                                                     *)

\* The actions, as the lemmas below take them.
LEMMA NextCases ==
  ASSUME BoardTypes, [Next]_vars
  PROVE  \/ \E t \in Tabs : \E drag \in Drags : Send(t, drag)
         \/ \E i \in DOMAIN requests :
              Validate(i) \/ LoadAnchor(i) \/ ListCards(i) \/ Place(i) \/ ChangeStatus(i)
              \/ Emit(i) \/ LoseMessage(i)
         \/ \E t \in Tabs : Receive(t) \/ Load(t)
         \/ \E t \in Tabs : \E i \in Nat : Query(t, i) \/ Answer(t, i) \/ LoadFails(t, i)
         \/ UNCHANGED vars
<1>1. CASE \E t \in Tabs, s \in Stories : Drop(t, s) \/ MoveToTop(t, s)
  <2>1. PICK t \in Tabs, s \in Stories : Drop(t, s) \/ MoveToTop(t, s)
    BY <1>1
  <2>2. \E drag \in Drags : Send(t, drag)
    BY <2>1, DropsSend
  <2> QED BY <2>2
<1>2. CASE \E i \in 1 .. MaxDrags :
             /\ i \in DOMAIN requests
             /\ Validate(i) \/ LoadAnchor(i) \/ ListCards(i) \/ Place(i) \/ ChangeStatus(i)
                \/ Emit(i) \/ LoseMessage(i)
  BY <1>2
<1>3. CASE \E t \in Tabs : Receive(t) \/ Load(t)
  BY <1>3
<1>4. CASE \E t \in Tabs, i \in 1 .. MaxDrags : Query(t, i) \/ Answer(t, i) \/ LoadFails(t, i)
  <2>1. PICK t \in Tabs, i \in 1 .. MaxDrags : Query(t, i) \/ Answer(t, i) \/ LoadFails(t, i)
    BY <1>4
  <2>2. i \in Nat
    OBVIOUS
  <2> QED BY <2>1, <2>2
<1> QED BY <1>1, <1>2, <1>3, <1>4 DEF Next

\* Every list and every card is initially that of the database.
LEMMA InitTypes ==
  ASSUME Init
  PROVE  BoardTypes
<1>1. rows \in Rows
  BY StoriesAssumption, BoardAssumption DEF Init, Rows
<1>2. AllOnce(Sorted(rows, Stories))
  <2> DEFINE q == Sorted(rows, Stories)
  <2>1. IsFiniteSet(Stories) /\ StrictOrder(Stories, RowOrder(rows))
    BY <1>1, RowOrderStrict
  <2>2. SortedList(q, Stories, RowOrder(rows))
    BY <1>1, SortedSorts
  <2> HIDE DEF q
  <2>3. q \in Seq(Stories) /\ Distinct(q)
    BY <2>1, <2>2, SortedListDistinct
  <2>4. AllOnce(q)
    BY <2>2, <2>3 DEF AllOnce, SortedList
  <2> QED BY <2>4 DEF q
<1>3. \A t \in Tabs : list[t] = Sorted(rows, Stories)
  BY DEF Init
<1>4. requests = <<>> /\ inbox = [t \in Tabs |-> <<>>] /\ waiting = [t \in Tabs |-> {}]
      /\ loads = [t \in Tabs |-> <<>>] /\ cards = [t \in Tabs |-> rows]
      /\ order = [t \in Tabs |-> [s \in Stories |-> s]]
      /\ list = [t \in Tabs |-> Sorted(rows, Stories)]
      /\ suspect = [t \in Tabs |-> {}]
  BY DEF Init
<1>5. requests \in Seq(Requests)
  BY <1>4
<1>6. inbox \in [Tabs -> Seq(SUBSET Stories)] /\ waiting \in [Tabs -> SUBSET Stories]
      /\ suspect \in [Tabs -> SUBSET Stories]
  BY <1>4
<1>7. loads \in [Tabs -> Seq(Loads)] /\ cards \in [Tabs -> Rows]
  BY <1>1, <1>4
<1>8. order \in [Tabs -> [Stories -> Nat]]
  BY <1>4, StoriesAssumption
<1>9. \A t \in Tabs : AllOnce(list[t])
  BY <1>2, <1>3
<1>10. list \in [Tabs -> Seq(Stories)]
  BY <1>2, <1>4 DEF AllOnce
<1> QED BY <1>1, <1>5, <1>6, <1>7, <1>8, <1>9, <1>10 DEF BoardTypes

\* Steps of a request that leave the tabs alone.
LEMMA ServerTypes ==
  ASSUME BoardTypes, NEW i \in DOMAIN requests, Advances(i), rows' \in Rows,
         UNCHANGED <<waiting, loads, cards, order, list>>,
         inbox' \in [Tabs -> Seq(SUBSET Stories)], suspect' \in [Tabs -> SUBSET Stories]
  PROVE  BoardTypes'
BY DEF BoardTypes, Advances

\* A tab whose list is sorted again.
LEMMA ListTypes ==
  ASSUME BoardTypes, NEW t \in Tabs, order' \in [Tabs -> [Stories -> Nat]],
         list' = [list EXCEPT ![t] = Stable(list[t], order'[t])]
  PROVE  /\ list' \in [Tabs -> Seq(Stories)] /\ \A u \in Tabs : AllOnce(list'[u])
         /\ \A i, j \in 1 .. Len(list'[t]) :
              i < j => order'[t][list'[t][i]] <= order'[t][list'[t][j]]
<1>1. AllOnce(list[t]) /\ order'[t] \in [Stories -> Nat]
  BY DEF BoardTypes
<1> DEFINE q == Stable(list[t], order'[t])
<1>2. PICK o \in [Stories -> Nat] : o = order'[t]
  BY <1>1
<1>3. /\ AllOnce(Stable(list[t], o))
      /\ \A i, j \in 1 .. Len(Stable(list[t], o)) :
           i < j => o[Stable(list[t], o)[i]] <= o[Stable(list[t], o)[j]]
  BY <1>1, StableSorts
<1>4. /\ AllOnce(q)
      /\ \A i, j \in 1 .. Len(q) : i < j => order'[t][q[i]] <= order'[t][q[j]]
  BY <1>2, <1>3
<1> HIDE DEF q
<1>5. list' = [list EXCEPT ![t] = q] /\ q \in Seq(Stories)
  BY <1>4 DEF q, AllOnce
<1>6. list'[t] = q /\ \A u \in Tabs \ {t} : list'[u] = list[u]
  BY <1>5 DEF BoardTypes
<1>7. list' \in [Tabs -> Seq(Stories)]
  BY <1>5 DEF BoardTypes
<1>8. \A u \in Tabs : AllOnce(list'[u])
  BY <1>4, <1>6 DEF BoardTypes
<1> QED BY <1>4, <1>6, <1>7, <1>8

\* Every step keeps the types.
LEMMA TypesKept ==
  ASSUME BoardTypes, [Next]_vars
  PROVE  BoardTypes'
<1>0. /\ suspect \in [Tabs -> SUBSET Stories] /\ inbox \in [Tabs -> Seq(SUBSET Stories)]
      /\ waiting \in [Tabs -> SUBSET Stories] /\ rows \in Rows
      /\ loads \in [Tabs -> Seq(Loads)] /\ cards \in [Tabs -> Rows]
  BY DEF BoardTypes
<1>1. ASSUME NEW t \in Tabs, NEW drag \in Drags, Send(t, drag) PROVE BoardTypes'
  <2>1. /\ UNCHANGED <<rows, inbox, waiting>> /\ requests' \in Seq(Requests)
        /\ cards' = [cards EXCEPT ![t] = Moved(cards[t], drag)]
        /\ order' \in [Tabs -> [Stories -> Nat]]
        /\ list' = [list EXCEPT ![t] = Stable(list[t], order'[t])]
        /\ loads' \in [Tabs -> Seq(Loads)]
        /\ suspect' = [suspect EXCEPT ![t] = @ \cup (Unsaved(t) \cap ToSet(drag.cards))]
    BY <1>1, SendIs
  <2>2. Moved(cards[t], drag) \in Rows
    BY <1>0, DragsAre, MovedRows
  <2>3. list' \in [Tabs -> Seq(Stories)] /\ \A u \in Tabs : AllOnce(list'[u])
    BY <2>1, ListTypes
  <2>4. suspect' \in [Tabs -> SUBSET Stories]
    BY <1>0, <2>1, UnsavedStories
  <2>5. cards' \in [Tabs -> Rows]
    BY <1>0, <2>1, <2>2
  <2> QED BY <1>0, <2>1, <2>3, <2>4, <2>5 DEF BoardTypes
<1>2. ASSUME NEW i \in DOMAIN requests,
             \/ Validate(i) \/ LoadAnchor(i) \/ ListCards(i) \/ Place(i) \/ ChangeStatus(i)
             \/ Emit(i) \/ LoseMessage(i)
      PROVE  BoardTypes'
  <2>0. requests[i] \in Requests
    BY DEF BoardTypes
  <2>1. /\ requests[i].drag \in Drags /\ requests[i].tab \in Tabs /\ requests[i].start \in Nat
        /\ requests[i].ids \in Listings
    BY <2>0 DEF Requests
  <2>2. ToSet(requests[i].drag.cards) \subseteq Stories /\ requests[i].drag.status \in Statuses
    BY <2>1, DragsAre
  <2>3. /\ requests[i].ids \in Seq(Stories) /\ Distinct(requests[i].ids)
        /\ ToSet(requests[i].ids) \subseteq Stories
    BY <2>1 DEF ToSet, Listings
  <2>4. CASE Validate(i)
    <3>1. /\ Advances(i) /\ UNCHANGED <<rows, inbox, waiting, loads, cards, order, list>>
          /\ \/ UNCHANGED suspect
             \/ suspect' = [suspect EXCEPT ![requests[i].tab] = @ \cup ToSet(requests[i].drag.cards)]
      BY <2>4, ValidateIs
    <3>2. suspect' \in [Tabs -> SUBSET Stories]
      <4>1. PICK D \in SUBSET Stories : D = ToSet(requests[i].drag.cards)
        BY <2>2
      <4>2. [suspect EXCEPT ![requests[i].tab] = @ \cup D] \in [Tabs -> SUBSET Stories]
        BY <1>0, <2>1
      <4> QED BY <1>0, <3>1, <4>1, <4>2
    <3> QED BY <1>0, <3>1, <3>2, ServerTypes
  <2>5. CASE LoadAnchor(i)
    BY <1>0, <2>5, LoadAnchorIs, ServerTypes
  <2>6. CASE ListCards(i)
    BY <1>0, <2>6, ListCardsIs, ServerTypes
  <2>7. CASE Place(i)
    <3>1. /\ Advances(i) /\ rows' = Placed(rows, requests[i].ids, requests[i].start)
          /\ UNCHANGED <<inbox, waiting, loads, cards, order, list, suspect>>
      BY <2>7, PlaceIs
    <3>2. Placed(rows, requests[i].ids, requests[i].start) \in Rows
      BY <1>0, <2>1, <2>3, PlacedRows
    <3> QED BY <1>0, <3>1, <3>2, ServerTypes
  <2>8. CASE ChangeStatus(i)
    <3>1. /\ Advances(i) /\ rows' = Moved(rows, requests[i].drag)
          /\ UNCHANGED <<inbox, waiting, loads, cards, order, list, suspect>>
      BY <2>8, ChangeStatusIs
    <3>2. Moved(rows, requests[i].drag) \in Rows
      BY <1>0, <2>2, MovedRows
    <3> QED BY <1>0, <3>1, <3>2, ServerTypes
  <2>9. CASE Emit(i) \/ LoseMessage(i)
    <3>1. /\ Advances(i) /\ UNCHANGED <<rows, waiting, loads, cards, order, list>>
          /\ \/ /\ UNCHANGED suspect
                /\ inbox' = [t \in Tabs |-> IF t = requests[i].tab THEN inbox[t]
                                            ELSE Append(inbox[t], ToSet(requests[i].ids))]
             \/ /\ UNCHANGED inbox
                /\ suspect' = [t \in Tabs |-> IF t = requests[i].tab THEN suspect[t]
                                              ELSE suspect[t] \cup ToSet(requests[i].ids)]
      BY <2>9, EmitIs
    <3>2. suspect' \in [Tabs -> SUBSET Stories]
      BY <1>0, <2>3, <3>1
    <3>3. inbox' \in [Tabs -> Seq(SUBSET Stories)]
      <4>1. PICK M \in SUBSET Stories : M = ToSet(requests[i].ids)
        BY <2>3
      <4>2. \A t \in Tabs : inbox[t] \in Seq(SUBSET Stories) /\ Append(inbox[t], M) \in Seq(SUBSET Stories)
        BY <1>0
      <4> QED BY <1>0, <3>1, <4>1, <4>2
    <3> QED BY <1>0, <3>1, <3>2, <3>3, ServerTypes
  <2> QED BY <1>2, <2>4, <2>5, <2>6, <2>7, <2>8, <2>9
<1>3. ASSUME NEW t \in Tabs, Receive(t) PROVE BoardTypes'
  <2>1. /\ UNCHANGED <<rows, requests, loads, cards, order, list>>
        /\ inbox[t] \in Seq(SUBSET Stories) /\ inbox[t] # <<>>
        /\ inbox' = [inbox EXCEPT ![t] = Tail(inbox[t])]
        /\ waiting' = [waiting EXCEPT ![t] = Head(inbox[t])]
        /\ suspect' = [suspect EXCEPT ![t] = @ \cup (waiting[t] \ Head(inbox[t]))]
    BY <1>3, ReceiveIs
  <2>2. Head(inbox[t]) \in SUBSET Stories /\ Tail(inbox[t]) \in Seq(SUBSET Stories)
    BY <2>1
  <2>3. suspect' \in [Tabs -> SUBSET Stories] /\ waiting' \in [Tabs -> SUBSET Stories]
    BY <1>0, <2>1, <2>2
  <2>4. inbox' \in [Tabs -> Seq(SUBSET Stories)]
    BY <1>0, <2>1, <2>2
  <2> QED BY <1>0, <2>1, <2>3, <2>4 DEF BoardTypes
<1>4. ASSUME NEW t \in Tabs, Load(t) PROVE BoardTypes'
  <2> DEFINE load == [ids |-> waiting[t], rows |-> NoRows, own |-> {}]
  <2>1. /\ UNCHANGED <<rows, requests, inbox, cards, order, list, suspect>>
        /\ load \in Loads
        /\ waiting' = [waiting EXCEPT ![t] = {}]
        /\ loads[t] \in Seq(Loads)
        /\ loads' = [loads EXCEPT ![t] = Append(loads[t], load)]
    BY <1>4, LoadIs
  <2> HIDE DEF load
  <2>2. waiting' \in [Tabs -> SUBSET Stories] /\ loads' \in [Tabs -> Seq(Loads)]
    BY <1>0, <2>1
  <2> QED BY <2>1, <2>2 DEF BoardTypes
<1>5. ASSUME NEW t \in Tabs, NEW i, Query(t, i) PROVE BoardTypes'
  BY <1>5, QueryIs DEF BoardTypes
<1>6. ASSUME NEW t \in Tabs, NEW i, Answer(t, i) PROVE BoardTypes'
  <2>1. /\ UNCHANGED <<rows, requests, inbox, waiting>>
        /\ i \in DOMAIN loads[t] /\ loads[t][i] \in Loads /\ loads[t] \in Seq(Loads)
        /\ loads' = [loads EXCEPT ![t] = RemoveAt(loads[t], i)]
        /\ cards' \in [Tabs -> Rows] /\ order' \in [Tabs -> [Stories -> Nat]]
        /\ list' = [list EXCEPT ![t] = Stable(list[t], order'[t])]
        /\ suspect' = [suspect EXCEPT ![t] =
             @ \cup Overtaken(t, i) \cup (loads[t][i].own \cap loads[t][i].ids)]
    BY <1>6, AnswerIs
  <2>2. list' \in [Tabs -> Seq(Stories)] /\ \A u \in Tabs : AllOnce(list'[u])
    BY <2>1, ListTypes
  <2>3. RemoveAt(loads[t], i) \in Seq(Loads)
    BY <2>1, RemoveAtIs
  <2>4. loads' \in [Tabs -> Seq(Loads)]
    BY <1>0, <2>1, <2>3
  <2>5. loads[t][i].ids \subseteq Stories
    BY <2>1 DEF Loads
  <2>6. Overtaken(t, i) \subseteq Stories
    BY <2>5 DEF Overtaken
  <2>7. suspect' \in [Tabs -> SUBSET Stories]
    BY <1>0, <2>1, <2>5, <2>6
  <2> QED BY <1>0, <2>1, <2>2, <2>4, <2>7 DEF BoardTypes
<1>7. ASSUME NEW t \in Tabs, NEW i, LoadFails(t, i) PROVE BoardTypes'
  <2>1. /\ UNCHANGED <<rows, requests, inbox, waiting, cards, order, list>>
        /\ i \in DOMAIN loads[t] /\ loads[t][i] \in Loads /\ loads[t] \in Seq(Loads)
        /\ loads' = [loads EXCEPT ![t] = RemoveAt(loads[t], i)]
        /\ suspect' = [suspect EXCEPT ![t] = @ \cup loads[t][i].ids]
    BY <1>7, LoadFailsIs
  <2>2. RemoveAt(loads[t], i) \in Seq(Loads)
    BY <2>1, RemoveAtIs
  <2>3. loads[t][i].ids \subseteq Stories
    BY <2>1 DEF Loads
  <2>4. loads' \in [Tabs -> Seq(Loads)] /\ suspect' \in [Tabs -> SUBSET Stories]
    BY <1>0, <2>1, <2>2, <2>3
  <2> QED BY <1>0, <2>1, <2>4 DEF BoardTypes
<1>8. CASE UNCHANGED vars
  BY <1>8 DEF vars, BoardTypes
<1> QED BY <1>1, <1>2, <1>3, <1>4, <1>5, <1>6, <1>7, <1>8, NextCases

-----------------------------------------------------------------------------
(* Ties.                                                                   *)

Alone == \A i \in DOMAIN requests : requests[i].lone

\* While no two requests have overlapped, the one that runs finds no ties and will leave none.
AloneInv ==
  /\ \A i \in DOMAIN requests : requests[i].step = "sent" => requests[i].lone
  /\ Alone =>
       /\ \A i, j \in Running : i = j
       /\ Running = {} => Ties(rows) = {}
       /\ \A i \in DOMAIN requests :
            LET drag == requests[i].drag
                step == requests[i].step
            IN  /\ step \in {"valid", "loaded", "listed"} => Ties(rows) = {}
                /\ step \in {"loaded", "listed"} =>
                     requests[i].from = AnchorOrder(rows, drag) /\ requests[i].start = StartOrder(rows, drag)
                /\ step = "listed" => requests[i].ids = Listed(rows, drag, AnchorOrder(rows, drag))
                /\ step = "placed" => Ties(Moved(rows, drag)) = {}

RunSteps == {"valid", "loaded", "listed", "placed"}

\* The requests between their check and their last UPDATE.
LEMMA RunningIs ==
  Running = {j \in DOMAIN requests : requests[j].step \in RunSteps}
BY DEF Running, RunSteps

\* Initially nothing runs, and positions are ids.
LEMMA InitAlone ==
  ASSUME Init
  PROVE  AloneInv
<1>1. requests = <<>> /\ DOMAIN requests = {} /\ \A s \in Stories : rows[s].order = s
  BY DEF Init
<1>2. Running = {}
  BY <1>1 DEF Running
<1>3. Ties(rows) = {}
  BY <1>1, TiesAre
<1> QED BY <1>1, <1>2, <1>3 DEF AloneInv

\* A new drag does not run yet.
LEMMA AloneSend ==
  ASSUME BoardTypes, AloneInv, NEW t \in Tabs, NEW drag \in Drags, Send(t, drag)
  PROVE  AloneInv'
<1>1. /\ rows' = rows /\ Len(requests) \in Nat
      /\ DOMAIN requests = 1 .. Len(requests) /\ DOMAIN requests' = 1 .. Len(requests) + 1
      /\ \A j \in DOMAIN requests : requests'[j] = requests[j]
      /\ LET q == requests'[Len(requests) + 1] IN q.step = "sent" /\ q.lone = TRUE
  BY SendIs
<1>2. /\ DOMAIN requests \subseteq DOMAIN requests'
      /\ \A j \in DOMAIN requests' : j \in DOMAIN requests
                                     \/ (requests'[j].step = "sent" /\ requests'[j].lone)
  BY <1>1
<1>3. Alone' => Alone
  BY <1>1, <1>2 DEF Alone
<1>4. Running' = Running
  BY <1>1, <1>2 DEF Running
<1>5. \A i \in DOMAIN requests' : requests'[i].step = "sent" => requests'[i].lone
  BY <1>1, <1>2 DEF AloneInv
<1> QED BY <1>1, <1>2, <1>3, <1>4, <1>5 DEF AloneInv

\* Validated while another runs, a request is not alone; otherwise it is the only one to run.
LEMMA AloneValidate ==
  ASSUME BoardTypes, AloneInv, NEW i \in DOMAIN requests, Validate(i)
  PROVE  AloneInv'
<1>1. /\ DOMAIN requests' = DOMAIN requests /\ rows' = rows /\ requests[i].step = "sent"
      /\ \A j \in DOMAIN requests : j # i => requests'[j] = requests[j]
      /\ \/ requests'[i].step = "valid" /\ requests'[i].lone = (Running = {})
         \/ requests'[i].step = "rejected" /\ requests'[i].lone = requests[i].lone
  BY ValidateIs DEF Advances
<1>2. requests[i].lone
  BY <1>1 DEF AloneInv
<1>3. Alone' => Alone
  BY <1>1, <1>2 DEF Alone
<1>4. \A j \in DOMAIN requests' : requests'[j].step = "sent" => requests'[j].lone
  BY <1>1 DEF AloneInv
<1>5. CASE requests'[i].step = "valid" /\ requests'[i].lone = (Running = {})
  <2>1. Running' = Running \cup {i}
    BY <1>1, <1>5 DEF Running
  <2>2. Alone' => Running = {}
    BY <1>1, <1>5 DEF Alone
  <2>3. Alone' => Ties(rows) = {} /\ \A j \in DOMAIN requests : requests[j].step \notin RunSteps
    BY <1>3, <2>2, RunningIs DEF AloneInv
  <2> SUFFICES ASSUME Alone'
               PROVE  /\ \A j, k \in Running' : j = k
                      /\ Running' # {}
                      /\ Ties(rows) = {}
                      /\ \A j \in DOMAIN requests : requests'[j].step \notin {"loaded", "listed", "placed"}
    BY <1>1, <1>4 DEF AloneInv
  <2>4. \A j \in DOMAIN requests : requests'[j].step \notin {"loaded", "listed", "placed"}
    BY <1>1, <1>5, <2>3 DEF RunSteps
  <2> QED BY <2>1, <2>2, <2>3, <2>4
<1>6. CASE requests'[i].step = "rejected" /\ requests'[i].lone = requests[i].lone
  <2>1. Running' = Running
    BY <1>1, <1>6 DEF Running
  <2>2. \A j \in DOMAIN requests : requests'[j].step \in RunSteps => requests'[j] = requests[j]
    BY <1>1, <1>6 DEF RunSteps
  <2> QED BY <1>1, <1>3, <1>4, <2>1, <2>2 DEF AloneInv, RunSteps
<1> QED BY <1>1, <1>5, <1>6

\* The other steps of a request that is alone: no other runs.
LEMMA AloneRuns ==
  ASSUME BoardTypes, AloneInv, NEW i \in DOMAIN requests, Advances(i),
         requests[i].step # "sent", requests'[i].lone = requests[i].lone,
         requests'[i].step # "sent"
  PROVE  /\ \A j \in DOMAIN requests' : requests'[j].step = "sent" => requests'[j].lone
         /\ Alone' => /\ Alone
                      /\ requests[i].step \in RunSteps =>
                           \A j \in DOMAIN requests : j # i => requests'[j].step \notin RunSteps
<1>1. /\ DOMAIN requests' = DOMAIN requests
      /\ \A j \in DOMAIN requests : j # i => requests'[j] = requests[j]
  BY DEF Advances
<1>2. \A j \in DOMAIN requests' : requests'[j].step = "sent" => requests'[j].lone
  BY <1>1 DEF AloneInv
<1>3. Alone' => Alone
  BY <1>1 DEF Alone
<1>4. ASSUME Alone, requests[i].step \in RunSteps, NEW j \in DOMAIN requests, j # i
      PROVE  requests'[j].step \notin RunSteps
  BY <1>1, <1>4, RunningIs DEF AloneInv
<1> QED BY <1>2, <1>3, <1>4

\* The one that runs goes on.
LEMMA AloneGoesOn ==
  ASSUME BoardTypes, AloneInv, NEW i \in DOMAIN requests, Advances(i),
         requests[i].step \in RunSteps, requests'[i].lone = requests[i].lone,
         requests'[i].step \in RunSteps,
         Alone => LET drag == requests[i].drag
                      step == requests'[i].step
                      q == requests'[i]
                  IN  /\ step \in {"valid", "loaded", "listed"} => Ties(rows') = {}
                      /\ step \in {"loaded", "listed"} =>
                           q.from = AnchorOrder(rows', drag) /\ q.start = StartOrder(rows', drag)
                      /\ step = "listed" => q.ids = Listed(rows', drag, AnchorOrder(rows', drag))
                      /\ step = "placed" => Ties(Moved(rows', drag)) = {}
  PROVE  AloneInv'
<1>1. /\ DOMAIN requests' = DOMAIN requests /\ requests'[i].drag = requests[i].drag
      /\ requests[i].step # "sent" /\ requests'[i].step # "sent"
  BY DEF Advances, RunSteps
<1>2. /\ \A j \in DOMAIN requests' : requests'[j].step = "sent" => requests'[j].lone
      /\ Alone' => /\ Alone
                   /\ \A j \in DOMAIN requests : j # i => requests'[j].step \notin RunSteps
  BY <1>1, AloneRuns
<1>3. ASSUME Alone'
      PROVE  /\ \A j, k \in Running' : j = k
             /\ Running' # {}
             /\ \A j \in DOMAIN requests' :
                  LET drag == requests'[j].drag
                      step == requests'[j].step
                      q == requests'[j]
                  IN  /\ step \in {"valid", "loaded", "listed"} => Ties(rows') = {}
                      /\ step \in {"loaded", "listed"} =>
                           q.from = AnchorOrder(rows', drag) /\ q.start = StartOrder(rows', drag)
                      /\ step = "listed" => q.ids = Listed(rows', drag, AnchorOrder(rows', drag))
                      /\ step = "placed" => Ties(Moved(rows', drag)) = {}
  <2>1. Running' = {i}
    BY <1>1, <1>2, <1>3 DEF Running, RunSteps
  <2>2. ASSUME NEW j \in DOMAIN requests'
        PROVE  LET drag == requests'[j].drag
                   step == requests'[j].step
                   q == requests'[j]
               IN  /\ step \in {"valid", "loaded", "listed"} => Ties(rows') = {}
                   /\ step \in {"loaded", "listed"} =>
                        q.from = AnchorOrder(rows', drag) /\ q.start = StartOrder(rows', drag)
                   /\ step = "listed" => q.ids = Listed(rows', drag, AnchorOrder(rows', drag))
                   /\ step = "placed" => Ties(Moved(rows', drag)) = {}
    <3>1. CASE j = i
      BY <1>1, <1>2, <1>3, <3>1
    <3>2. CASE j # i
      BY <1>1, <1>2, <1>3, <3>2 DEF RunSteps
    <3> QED BY <3>1, <3>2
  <2> QED BY <2>1, <2>2
<1> QED BY <1>2, <1>3 DEF AloneInv

\* A request ends without ties, and nothing runs.
LEMMA AloneEnds ==
  ASSUME BoardTypes, AloneInv, NEW i \in DOMAIN requests, Advances(i),
         requests[i].step # "sent", requests'[i].lone = requests[i].lone,
         requests'[i].step \in {"moved", "done"},
         \/ requests[i].step \in RunSteps /\ (Alone => Ties(rows') = {})
         \/ requests[i].step \notin RunSteps /\ rows' = rows
  PROVE  AloneInv'
<1>1. /\ DOMAIN requests' = DOMAIN requests
      /\ \A j \in DOMAIN requests : j # i => requests'[j] = requests[j]
  BY DEF Advances
<1>2. /\ \A j \in DOMAIN requests' : requests'[j].step = "sent" => requests'[j].lone
      /\ Alone' => /\ Alone
                   /\ requests[i].step \in RunSteps =>
                        \A j \in DOMAIN requests : j # i => requests'[j].step \notin RunSteps
  BY AloneRuns
<1>3. CASE requests[i].step \in RunSteps /\ (Alone => Ties(rows') = {})
  <2>1. Alone' => \A j \in DOMAIN requests' : requests'[j].step \notin RunSteps
    BY <1>1, <1>2, <1>3 DEF RunSteps
  <2>2. Alone' => Running' = {} /\ Ties(rows') = {}
    BY <1>2, <1>3, <2>1 DEF Running, RunSteps
  <2> QED BY <1>2, <2>1, <2>2 DEF AloneInv, RunSteps
<1>4. CASE requests[i].step \notin RunSteps /\ rows' = rows
  <2>1. Running' = Running
    BY <1>1, <1>4 DEF Running, RunSteps
  <2>2. \A j \in DOMAIN requests : requests'[j].step \in RunSteps => requests'[j] = requests[j]
    BY <1>1, <1>4 DEF RunSteps
  <2> QED BY <1>1, <1>2, <1>4, <2>1, <2>2 DEF AloneInv, RunSteps
<1> QED BY <1>3, <1>4

\* Every step of a request: the first UPDATE and the second make the table of Dragged.
LEMMA AloneServer ==
  ASSUME BoardTypes, AloneInv, NEW i \in DOMAIN requests,
         \/ Validate(i) \/ LoadAnchor(i) \/ ListCards(i) \/ Place(i) \/ ChangeStatus(i)
         \/ Emit(i) \/ LoseMessage(i)
  PROVE  AloneInv'
<1> DEFINE drag == requests[i].drag
<1>1. drag \in Drags /\ rows \in Rows
  <2>1. requests[i] \in Requests
    BY DEF BoardTypes
  <2> QED BY <2>1 DEF Requests, BoardTypes
<1>2. IsDrag(drag)
  BY <1>1, DragsAre
<1> HIDE DEF drag
<1>3. CASE LoadAnchor(i)
  <2>1. /\ Advances(i) /\ requests[i].step = "valid" /\ requests'[i].step = "loaded"
        /\ requests'[i].lone = requests[i].lone /\ rows' = rows
        /\ requests'[i].from = AnchorOrder(rows, drag)
        /\ requests'[i].start = StartOrder(rows, drag)
    BY <1>3, LoadAnchorIs DEF drag
  <2>2. Alone => Ties(rows) = {}
    BY <2>1 DEF AloneInv
  <2>3. requests[i].step \in RunSteps /\ requests'[i].step \in RunSteps
    BY <2>1 DEF RunSteps
  <2> QED BY <2>1, <2>2, <2>3, AloneGoesOn DEF drag
<1>4. CASE ListCards(i)
  <2>1. /\ Advances(i) /\ requests[i].step = "loaded" /\ requests'[i].step = "listed"
        /\ requests'[i].lone = requests[i].lone /\ rows' = rows
        /\ requests'[i].from = requests[i].from /\ requests'[i].start = requests[i].start
        /\ requests'[i].ids = Listed(rows, drag, requests[i].from)
    BY <1>4, ListCardsIs DEF drag
  <2>2. Alone => /\ Ties(rows) = {} /\ requests[i].from = AnchorOrder(rows, drag)
                 /\ requests[i].start = StartOrder(rows, drag)
    BY <2>1 DEF AloneInv, drag
  <2>3. requests[i].step \in RunSteps /\ requests'[i].step \in RunSteps
    BY <2>1 DEF RunSteps
  <2> QED BY <2>1, <2>2, <2>3, AloneGoesOn DEF drag
<1>5. CASE Place(i)
  <2>1. /\ Advances(i) /\ requests[i].step = "listed" /\ requests'[i].step = "placed"
        /\ requests'[i].lone = requests[i].lone
        /\ rows' = Placed(rows, requests[i].ids, requests[i].start)
    BY <1>5, PlaceIs
  <2>2. Alone => /\ Ties(rows) = {} /\ requests[i].start = StartOrder(rows, drag)
                 /\ requests[i].ids = Listed(rows, drag, AnchorOrder(rows, drag))
    BY <2>1 DEF AloneInv, drag
  <2>3. Alone => Moved(rows', drag) = Dragged(rows, drag)
    BY <2>1, <2>2 DEF Dragged
  <2>4. Alone => Ties(Moved(rows', drag)) = {}
    BY <1>1, <1>2, <2>2, <2>3, NoNewTies
  <2>5. requests[i].step \in RunSteps /\ requests'[i].step \in RunSteps
    BY <2>1 DEF RunSteps
  <2> QED BY <2>1, <2>4, <2>5, AloneGoesOn DEF drag
<1>6. CASE ChangeStatus(i)
  <2>1. /\ Advances(i) /\ requests[i].step = "placed" /\ requests'[i].step = "moved"
        /\ requests'[i].lone = requests[i].lone /\ rows' = Moved(rows, drag)
    BY <1>6, ChangeStatusIs DEF drag
  <2>2. Alone => Ties(rows') = {}
    BY <2>1 DEF AloneInv, drag
  <2>3. requests[i].step \in RunSteps /\ requests[i].step # "sent"
    BY <2>1 DEF RunSteps
  <2> QED BY <2>1, <2>2, <2>3, AloneEnds
<1>7. CASE Emit(i) \/ LoseMessage(i)
  <2>1. /\ Advances(i) /\ requests[i].step = "moved" /\ requests'[i].step = "done"
        /\ requests'[i].lone = requests[i].lone /\ rows' = rows
    BY <1>7, EmitIs
  <2>2. requests[i].step \notin RunSteps /\ requests[i].step # "sent"
    BY <2>1 DEF RunSteps
  <2> QED BY <2>1, <2>2, AloneEnds
<1> QED BY <1>3, <1>4, <1>5, <1>6, <1>7, AloneValidate

\* Every step keeps it.
LEMMA AloneKept ==
  ASSUME BoardTypes, AloneInv, [Next]_vars
  PROVE  AloneInv'
<1>1. CASE rows' = rows /\ requests' = requests
  BY <1>1 DEF AloneInv, Alone, Running
<1>2. ASSUME NEW t \in Tabs, NEW drag \in Drags, Send(t, drag) PROVE AloneInv'
  BY <1>2, AloneSend
<1>3. ASSUME NEW i \in DOMAIN requests,
             \/ Validate(i) \/ LoadAnchor(i) \/ ListCards(i) \/ Place(i) \/ ChangeStatus(i)
             \/ Emit(i) \/ LoseMessage(i)
      PROVE  AloneInv'
  BY <1>3, AloneServer
<1>4. ASSUME NEW t \in Tabs, Receive(t) \/ Load(t) PROVE AloneInv'
  BY <1>1, <1>4 DEF Receive, Load
<1>5. ASSUME NEW t \in Tabs, NEW i, Query(t, i) \/ Answer(t, i) \/ LoadFails(t, i) PROVE AloneInv'
  BY <1>1, <1>5 DEF Query, Answer, LoadFails
<1>6. CASE UNCHANGED vars
  BY <1>1, <1>6 DEF vars
<1> QED BY <1>2, <1>3, <1>4, <1>5, <1>6, NextCases

\* At rest nothing runs.
LEMMA TiesMeanOverlap ==
  ASSUME AloneInv
  PROVE  TiesOnlyFromOverlap
<1> SUFFICES ASSUME Calm, Alone PROVE Ties(rows) = {}
  BY DEF TiesOnlyFromOverlap, Alone
<1>1. Running = {}
  BY DEF Calm, Running
<1> QED BY <1>1 DEF AloneInv

-----------------------------------------------------------------------------
(* What the server has not been told of the drags of a tab.                *)

Unfinished(i) == requests[i].step \notin {"moved", "done", "rejected"}

CardsOf(i) == ToSet(requests[i].drag.cards)

\* The drags of a tab that are not in the database yet are shown by it, and no load whose answer
\* is on its way can undo them unnoticed.
OwnInv ==
  \A t \in Tabs : \A i \in DOMAIN requests : requests[i].tab = t /\ Unfinished(i) =>
    \A s \in CardsOf(i) :
      /\ \A k \in DOMAIN loads[t] : loads[t][k].rows # NoRows => s \in loads[t][k].own
      /\ s \notin suspect[t] =>
           /\ cards[t][s].status = requests[i].drag.status
           /\ \A j \in DOMAIN requests :
                requests[j].tab = t /\ Unfinished(j) /\ s \in CardsOf(j) => j = i

\* The message about a request will name its cards.
IdsInv ==
  \A i \in DOMAIN requests : requests[i].step \in {"listed", "placed", "moved"} =>
    CardsOf(i) \subseteq ToSet(requests[i].ids)

\* A card is unsaved by an unfinished request of the tab.
LEMMA UnsavedIs ==
  ASSUME NEW t, NEW s
  PROVE  s \in Unsaved(t) <=> \E i \in DOMAIN requests : requests[i].tab = t /\ Unfinished(i) /\ s \in CardsOf(i)
BY DEF Unsaved, Unfinished, CardsOf

\* The steps of a request leave the tabs alone, but for the messages and for the history.
LEMMA ServerIs ==
  ASSUME BoardTypes, NEW i \in DOMAIN requests,
         \/ Validate(i) \/ LoadAnchor(i) \/ ListCards(i) \/ Place(i) \/ ChangeStatus(i)
         \/ Emit(i) \/ LoseMessage(i)
  PROVE  /\ DOMAIN requests' = DOMAIN requests
         /\ \A j \in DOMAIN requests : /\ j # i => requests'[j] = requests[j]
                                       /\ requests'[j].tab = requests[j].tab
                                       /\ requests'[j].drag = requests[j].drag
         /\ requests[i].step \in {"moved", "done", "rejected"}
              => requests'[i].step \in {"moved", "done", "rejected"}
         /\ requests'[i].step \in {"listed", "placed", "moved"} =>
              \/ ToSet(requests[i].drag.cards) \subseteq ToSet(requests'[i].ids)
              \/ requests[i].step \in {"listed", "placed", "moved"} /\ requests'[i].ids = requests[i].ids
         /\ UNCHANGED <<waiting, loads, cards, order, list>>
         /\ \A t \in Tabs : suspect[t] \subseteq suspect'[t]
<1>0. suspect \in [Tabs -> SUBSET Stories]
  BY DEF BoardTypes
<1>1. CASE Validate(i)
  <2>1. /\ Advances(i) /\ requests[i].step = "sent" /\ requests'[i].step \in {"valid", "rejected"}
        /\ UNCHANGED <<rows, inbox, waiting, loads, cards, order, list>>
        /\ \/ UNCHANGED suspect
           \/ suspect' = [suspect EXCEPT ![requests[i].tab] = @ \cup ToSet(requests[i].drag.cards)]
    BY <1>1, ValidateIs
  <2>2. \A t \in Tabs : suspect[t] \subseteq suspect'[t]
    BY <1>0, <2>1
  <2> QED BY <2>1, <2>2 DEF Advances
<1>2. CASE LoadAnchor(i)
  BY <1>2, LoadAnchorIs DEF Advances
<1>3. CASE ListCards(i)
  BY <1>3, ListCardsIs DEF Advances
<1>4. CASE Place(i)
  BY <1>4, PlaceIs DEF Advances
<1>5. CASE ChangeStatus(i)
  BY <1>5, ChangeStatusIs DEF Advances
<1>6. CASE Emit(i) \/ LoseMessage(i)
  <2>1. /\ Advances(i) /\ requests'[i].step = "done"
        /\ UNCHANGED <<rows, waiting, loads, cards, order, list>>
        /\ \/ UNCHANGED suspect
           \/ suspect' = [t \in Tabs |-> IF t = requests[i].tab THEN suspect[t]
                                         ELSE suspect[t] \cup ToSet(requests[i].ids)]
    BY <1>6, EmitIs
  <2>2. \A t \in Tabs : suspect[t] \subseteq suspect'[t]
    BY <1>0, <2>1
  <2> QED BY <2>1, <2>2 DEF Advances
<1> QED BY <1>1, <1>2, <1>3, <1>4, <1>5, <1>6

\* Every step keeps IdsInv.
LEMMA IdsKept ==
  ASSUME BoardTypes, IdsInv, [Next]_vars
  PROVE  IdsInv'
<1>1. CASE requests' = requests
  BY <1>1 DEF IdsInv, CardsOf
<1>2. ASSUME NEW t \in Tabs, NEW drag \in Drags, Send(t, drag) PROVE IdsInv'
  <2>1. /\ DOMAIN requests = 1 .. Len(requests) /\ DOMAIN requests' = 1 .. Len(requests) + 1
        /\ \A j \in DOMAIN requests : requests'[j] = requests[j]
        /\ requests'[Len(requests) + 1].step = "sent" /\ Len(requests) \in Nat
    BY <1>2, SendIs
  <2>2. \A j \in DOMAIN requests' : j \in DOMAIN requests \/ requests'[j].step = "sent"
    BY <2>1
  <2> QED BY <2>1, <2>2 DEF IdsInv, CardsOf
<1>3. ASSUME NEW i \in DOMAIN requests,
             \/ Validate(i) \/ LoadAnchor(i) \/ ListCards(i) \/ Place(i) \/ ChangeStatus(i)
             \/ Emit(i) \/ LoseMessage(i)
      PROVE  IdsInv'
  <2>1. /\ DOMAIN requests' = DOMAIN requests
        /\ \A j \in DOMAIN requests : /\ j # i => requests'[j] = requests[j]
                                      /\ requests'[j].drag = requests[j].drag
        /\ requests'[i].step \in {"listed", "placed", "moved"} =>
             \/ ToSet(requests[i].drag.cards) \subseteq ToSet(requests'[i].ids)
             \/ requests[i].step \in {"listed", "placed", "moved"} /\ requests'[i].ids = requests[i].ids
    BY <1>3, ServerIs
  <2>2. ASSUME NEW j \in DOMAIN requests', requests'[j].step \in {"listed", "placed", "moved"}
        PROVE  CardsOf(j)' \subseteq ToSet(requests'[j].ids)
    <3>1. CASE j = i
      BY <2>1, <2>2, <3>1 DEF IdsInv, CardsOf
    <3>2. CASE j # i
      BY <2>1, <2>2, <3>2 DEF IdsInv, CardsOf
    <3> QED BY <3>1, <3>2
  <2> QED BY <2>2 DEF IdsInv
<1>4. ASSUME NEW t \in Tabs, Receive(t) \/ Load(t) PROVE IdsInv'
  BY <1>1, <1>4 DEF Receive, Load
<1>5. ASSUME NEW t \in Tabs, NEW i, Query(t, i) \/ Answer(t, i) \/ LoadFails(t, i) PROVE IdsInv'
  BY <1>1, <1>5 DEF Query, Answer, LoadFails
<1>6. CASE UNCHANGED vars
  BY <1>1, <1>6 DEF vars
<1> QED BY <1>2, <1>3, <1>4, <1>5, <1>6, NextCases

\* OwnInv of a tab and a request.
Own(t, i, s) ==
  /\ \A k \in DOMAIN loads[t] : loads[t][k].rows # NoRows => s \in loads[t][k].own
  /\ s \notin suspect[t] =>
       /\ cards[t][s].status = requests[i].drag.status
       /\ \A j \in DOMAIN requests :
            requests[j].tab = t /\ Unfinished(j) /\ s \in CardsOf(j) => j = i

\* OwnInv by its parts.
LEMMA OwnInvIs ==
  OwnInv <=> \A t \in Tabs : \A i \in DOMAIN requests : requests[i].tab = t /\ Unfinished(i) =>
               \A s \in CardsOf(i) : Own(t, i, s)
BY DEF OwnInv, Own

\* A drag goes to the loads that are under way, and a card dragged twice is suspect.
LEMMA OwnSend ==
  ASSUME BoardTypes, OwnInv, NEW t \in Tabs, NEW drag \in Drags, Send(t, drag)
  PROVE  OwnInv'
<1>a. Len(requests) \in Nat /\ DOMAIN requests = 1 .. Len(requests)
      /\ DOMAIN requests' = 1 .. Len(requests) + 1
      /\ \A j \in DOMAIN requests : requests'[j] = requests[j]
  BY SendIs
<1>b. PICK n \in Nat : n = Len(requests)
  BY <1>a
<1>c. PICK D : D = ToSet(drag.cards)
  OBVIOUS
<1>d. LET q == requests'[n + 1] IN q.tab = t /\ q.drag = drag /\ q.step = "sent"
  BY <1>b, SendIs
<1>e. cards' = [cards EXCEPT ![t] = Moved(cards[t], drag)]
  BY SendIs
<1>f. suspect' = [suspect EXCEPT ![t] = @ \cup (Unsaved(t) \cap D)]
  BY <1>c, SendIs
<1>g. /\ \A u \in Tabs \ {t} : loads'[u] = loads[u]
      /\ DOMAIN loads'[t] = DOMAIN loads[t]
  BY SendIs
<1>h. \A k \in DOMAIN loads[t] : /\ loads'[t][k].rows = loads[t][k].rows
                                 /\ loads'[t][k].own = loads[t][k].own \cup D
  <2>1. \A k \in DOMAIN loads[t] : /\ loads'[t][k].ids = loads[t][k].ids
                                   /\ loads'[t][k].rows = loads[t][k].rows
                                   /\ loads'[t][k].own = loads[t][k].own \cup ToSet(drag.cards)
    BY SendBeside
  <2> QED BY <1>c, <2>1
<1>1. /\ DOMAIN requests = 1 .. n /\ DOMAIN requests' = 1 .. n + 1
      /\ \A j \in DOMAIN requests : requests'[j] = requests[j]
      /\ LET q == requests'[n + 1] IN q.tab = t /\ q.drag = drag /\ q.step = "sent"
      /\ \A u \in Tabs \ {t} : loads'[u] = loads[u]
      /\ DOMAIN loads'[t] = DOMAIN loads[t]
      /\ \A k \in DOMAIN loads[t] : /\ loads'[t][k].rows = loads[t][k].rows
                                    /\ loads'[t][k].own = loads[t][k].own \cup D
  BY <1>a, <1>b, <1>d, <1>g, <1>h
<1>2. cards \in [Tabs -> Rows] /\ suspect \in [Tabs -> SUBSET Stories] /\ D \subseteq Stories
      /\ drag.status \in Statuses
  BY <1>c, DragsAre DEF BoardTypes
<1>3. /\ cards'[t] = Moved(cards[t], drag) /\ \A u \in Tabs \ {t} : cards'[u] = cards[u]
      /\ suspect'[t] = suspect[t] \cup (Unsaved(t) \cap D)
      /\ \A u \in Tabs \ {t} : suspect'[u] = suspect[u]
  BY <1>2, <1>e, <1>f
<1>4. /\ \A s \in Stories \ D : cards'[t][s] = cards[t][s]
      /\ \A s \in D : cards'[t][s].status = drag.status
  BY <1>2, <1>3, <1>c, MovedRows
<1>5. \A j \in DOMAIN requests : (Unfinished(j)' <=> Unfinished(j)) /\ CardsOf(j)' = CardsOf(j)
  BY <1>1 DEF Unfinished, CardsOf
<1>6. CardsOf(n + 1)' = D /\ requests'[n + 1].tab = t
  BY <1>1, <1>c DEF CardsOf
<1>7. \A j \in DOMAIN requests' : j \in DOMAIN requests \/ j = n + 1
  BY <1>1
<1>8. \A j \in DOMAIN requests : CardsOf(j) \subseteq Stories
  <2>1. ASSUME NEW j \in DOMAIN requests PROVE CardsOf(j) \subseteq Stories
    <3>1. requests[j] \in Requests
      BY DEF BoardTypes
    <3>2. requests[j].drag \in Drags
      BY <3>1 DEF Requests
    <3> QED BY <3>2, DragsAre DEF CardsOf
  <2> QED BY <2>1
<1>9. ASSUME NEW u \in Tabs, NEW i \in DOMAIN requests', requests'[i].tab = u, Unfinished(i)',
             NEW s \in CardsOf(i)'
      PROVE  Own(u, i, s)'
  <2>1. CASE i \in DOMAIN requests /\ u = t
    <3>1. requests'[i] = requests[i] /\ requests[i].tab = t /\ s \in CardsOf(i) /\ Own(t, i, s)
      BY <1>1, <1>5, <1>9, <2>1, OwnInvIs
    <3>2. s \in Unsaved(t) /\ s \in Stories
      BY <1>5, <1>8, <1>9, <2>1, <3>1, UnsavedIs
    <3>3. \A k \in DOMAIN loads'[t] : loads'[t][k].rows # NoRows => s \in loads'[t][k].own
      BY <1>1, <3>1 DEF Own
    <3>4. ASSUME s \notin suspect'[t]
          PROVE  /\ cards'[t][s].status = requests'[i].drag.status
                 /\ \A j \in DOMAIN requests' :
                      requests'[j].tab = t /\ Unfinished(j)' /\ s \in CardsOf(j)' => j = i
      <4>1. s \notin suspect[t] /\ s \notin D
        BY <1>3, <3>2, <3>4
      <4>2. cards'[t][s].status = requests'[i].drag.status
        BY <1>4, <3>1, <3>2, <4>1 DEF Own
      <4>3. \A j \in DOMAIN requests :
              requests'[j].tab = t /\ Unfinished(j)' /\ s \in CardsOf(j)' => j = i
        BY <1>1, <1>5, <3>1, <4>1 DEF Own
      <4>4. s \notin CardsOf(n + 1)'
        BY <1>6, <4>1
      <4> QED BY <1>7, <4>2, <4>3, <4>4
    <3> QED BY <2>1, <3>3, <3>4 DEF Own
  <2>2. CASE i \in DOMAIN requests /\ u # t
    <3>1. requests'[i] = requests[i] /\ requests[i].tab = u /\ s \in CardsOf(i) /\ Own(u, i, s)
      BY <1>1, <1>5, <1>9, <2>2, OwnInvIs
    <3>2. \A j \in DOMAIN requests' : requests'[j].tab = u => j \in DOMAIN requests
      BY <1>6, <1>7, <2>2
    <3>3. loads'[u] = loads[u] /\ cards'[u] = cards[u] /\ suspect'[u] = suspect[u]
      BY <1>1, <1>3, <2>2
    <3> QED BY <1>1, <1>5, <3>1, <3>2, <3>3 DEF Own
  <2>3. CASE i = n + 1
    <3>1. u = t /\ s \in D /\ requests'[i].drag = drag
      BY <1>1, <1>6, <1>9, <2>3
    <3>2. \A k \in DOMAIN loads'[t] : loads'[t][k].rows # NoRows => s \in loads'[t][k].own
      BY <1>1, <3>1
    <3>3. ASSUME s \notin suspect'[t]
          PROVE  /\ cards'[t][s].status = requests'[i].drag.status
                 /\ \A j \in DOMAIN requests' :
                      requests'[j].tab = t /\ Unfinished(j)' /\ s \in CardsOf(j)' => j = i
      <4>1. s \notin Unsaved(t)
        BY <1>3, <3>1, <3>3
      <4>2. \A j \in DOMAIN requests : requests'[j].tab = t /\ Unfinished(j)' => s \notin CardsOf(j)'
        BY <1>1, <1>5, <4>1, UnsavedIs
      <4> QED BY <1>4, <1>7, <2>3, <3>1, <4>2
    <3> QED BY <3>1, <3>2, <3>3 DEF Own
  <2> QED BY <1>7, <2>1, <2>2, <2>3
<1>10. \A u \in Tabs : \A i \in DOMAIN requests' : requests'[i].tab = u /\ Unfinished(i)' =>
         \A s \in CardsOf(i)' : Own(u, i, s)'
  BY <1>9
<1> QED BY <1>10 DEF OwnInv, Own

\* Requests only finish, and what they refuse is suspect.
LEMMA OwnServer ==
  ASSUME BoardTypes, OwnInv, NEW i \in DOMAIN requests,
         \/ Validate(i) \/ LoadAnchor(i) \/ ListCards(i) \/ Place(i) \/ ChangeStatus(i)
         \/ Emit(i) \/ LoseMessage(i)
  PROVE  OwnInv'
<1>1. /\ DOMAIN requests' = DOMAIN requests
      /\ \A j \in DOMAIN requests : /\ j # i => requests'[j] = requests[j]
                                    /\ requests'[j].tab = requests[j].tab
                                    /\ requests'[j].drag = requests[j].drag
      /\ requests[i].step \in {"moved", "done", "rejected"}
           => requests'[i].step \in {"moved", "done", "rejected"}
      /\ UNCHANGED <<waiting, loads, cards, order, list>>
      /\ \A t \in Tabs : suspect[t] \subseteq suspect'[t]
  BY ServerIs
<1>2. \A j \in DOMAIN requests : (Unfinished(j)' => Unfinished(j)) /\ CardsOf(j)' = CardsOf(j)
  BY <1>1 DEF Unfinished, CardsOf
<1>3. ASSUME NEW t \in Tabs, NEW j \in DOMAIN requests', requests'[j].tab = t, Unfinished(j)',
             NEW s \in CardsOf(j)'
      PROVE  Own(t, j, s)'
  <2>1. Own(t, j, s)
    BY <1>1, <1>2, <1>3, OwnInvIs
  <2> QED BY <1>1, <1>2, <2>1 DEF Own
<1>4. \A t \in Tabs : \A j \in DOMAIN requests' : requests'[j].tab = t /\ Unfinished(j)' =>
        \A s \in CardsOf(j)' : Own(t, j, s)'
  BY <1>3
<1> QED BY <1>4 DEF OwnInv, Own

\* Loads come, are answered knowing the drags of the tab, and go.
LEMMA OwnTab ==
  ASSUME BoardTypes, OwnInv, requests' = requests,
         \A t \in Tabs :
           /\ suspect[t] \subseteq suspect'[t]
           /\ \A k \in DOMAIN loads'[t] : loads'[t][k].rows # NoRows =>
                \/ \E m \in DOMAIN loads[t] : loads'[t][k] = loads[t][m]
                \/ loads'[t][k].own = Unsaved(t)
           /\ \A s \in Unsaved(t) \ suspect'[t] : cards'[t][s].status = cards[t][s].status
  PROVE  OwnInv'
<1>1. \A j \in DOMAIN requests : (Unfinished(j)' <=> Unfinished(j)) /\ CardsOf(j)' = CardsOf(j)
  BY DEF Unfinished, CardsOf
<1>2. ASSUME NEW t \in Tabs, NEW i \in DOMAIN requests', requests'[i].tab = t, Unfinished(i)',
             NEW s \in CardsOf(i)'
      PROVE  Own(t, i, s)'
  <2>1. Own(t, i, s) /\ i \in DOMAIN requests /\ requests[i].tab = t /\ Unfinished(i) /\ s \in CardsOf(i)
    BY <1>1, <1>2, OwnInvIs
  <2>2. s \in Unsaved(t)
    BY <2>1, UnsavedIs
  <2>3. \A k \in DOMAIN loads'[t] : loads'[t][k].rows # NoRows => s \in loads'[t][k].own
    BY <2>1, <2>2 DEF Own
  <2>4. s \notin suspect'[t] =>
          /\ cards'[t][s].status = requests'[i].drag.status
          /\ \A j \in DOMAIN requests' :
               requests'[j].tab = t /\ Unfinished(j)' /\ s \in CardsOf(j)' => j = i
    BY <1>1, <2>1, <2>2 DEF Own
  <2> QED BY <2>3, <2>4 DEF Own
<1>3. \A t \in Tabs : \A i \in DOMAIN requests' : requests'[i].tab = t /\ Unfinished(i)' =>
        \A s \in CardsOf(i)' : Own(t, i, s)'
  BY <1>2
<1> QED BY <1>3 DEF OwnInv, Own

\* Every step keeps OwnInv.
LEMMA OwnKept ==
  ASSUME BoardTypes, OwnInv, [Next]_vars
  PROVE  OwnInv'
<1>0. /\ suspect \in [Tabs -> SUBSET Stories] /\ loads \in [Tabs -> Seq(Loads)]
      /\ \A t \in Tabs : Unsaved(t) \subseteq Stories
  BY UnsavedStories DEF BoardTypes
<1>1. ASSUME NEW t \in Tabs, NEW drag \in Drags, Send(t, drag) PROVE OwnInv'
  BY <1>1, OwnSend
<1>2. ASSUME NEW i \in DOMAIN requests,
             \/ Validate(i) \/ LoadAnchor(i) \/ ListCards(i) \/ Place(i) \/ ChangeStatus(i)
             \/ Emit(i) \/ LoseMessage(i)
      PROVE  OwnInv'
  BY <1>2, OwnServer
<1>3. ASSUME NEW t \in Tabs, Receive(t) PROVE OwnInv'
  <2>1. /\ requests' = requests /\ loads' = loads /\ cards' = cards
        /\ suspect' = [suspect EXCEPT ![t] = @ \cup (waiting[t] \ Head(inbox[t]))]
    BY <1>3, ReceiveIs
  <2>2. \A u \in Tabs : suspect[u] \subseteq suspect'[u]
    BY <1>0, <2>1
  <2> QED BY <2>1, <2>2, OwnTab
<1>4. ASSUME NEW t \in Tabs, Load(t) PROVE OwnInv'
  <2> DEFINE load == [ids |-> waiting[t], rows |-> NoRows, own |-> {}]
  <2>1. /\ requests' = requests /\ cards' = cards /\ suspect' = suspect
        /\ loads[t] \in Seq(Loads) /\ loads' = [loads EXCEPT ![t] = Append(loads[t], load)]
        /\ load \in Loads
    BY <1>4, LoadIs
  <2>2. load.rows = NoRows
    OBVIOUS
  <2> HIDE DEF load
  <2>3. \A k \in DOMAIN Append(loads[t], load) :
          (k \in DOMAIN loads[t] /\ Append(loads[t], load)[k] = loads[t][k])
          \/ Append(loads[t], load)[k] = load
    BY <2>1
  <2>4. \A u \in Tabs : \A k \in DOMAIN loads'[u] : loads'[u][k].rows # NoRows =>
          \E m \in DOMAIN loads[u] : loads'[u][k] = loads[u][m]
    BY <1>0, <2>1, <2>2, <2>3
  <2> QED BY <2>1, <2>4, OwnTab
<1>5. ASSUME NEW t \in Tabs, NEW i, Query(t, i) PROVE OwnInv'
  <2>1. /\ requests' = requests /\ cards' = cards /\ suspect' = suspect
        /\ \A u \in Tabs \ {t} : loads'[u] = loads[u]
        /\ DOMAIN loads'[t] = DOMAIN loads[t]
        /\ \A k \in DOMAIN loads[t] : k # i => loads'[t][k] = loads[t][k]
        /\ loads'[t][i].own = Unsaved(t)
    BY <1>5, QueryIs
  <2>2. \A u \in Tabs : \A k \in DOMAIN loads'[u] :
          \/ \E m \in DOMAIN loads[u] : loads'[u][k] = loads[u][m]
          \/ loads'[u][k].own = Unsaved(u)
    BY <2>1
  <2> QED BY <2>1, <2>2, OwnTab
<1>6. ASSUME NEW t \in Tabs, NEW i, i \in DOMAIN loads[t], loads' = [loads EXCEPT ![t] = RemoveAt(loads[t], i)]
      PROVE  \A u \in Tabs : \A k \in DOMAIN loads'[u] : \E m \in DOMAIN loads[u] : loads'[u][k] = loads[u][m]
  <2> DEFINE q == loads[t]
             r == RemoveAt(q, i)
  <2>1. q \in Seq(Loads) /\ Len(q) \in Nat
    BY <1>0
  <2>2. /\ r \in Seq(Loads) /\ Len(r) = Len(q) - 1
        /\ \A k \in 1 .. Len(q) - 1 : r[k] = q[IF k < i THEN k ELSE k + 1]
    BY <1>6, <2>1, RemoveAtIs
  <2>3. loads'[t] = r /\ \A u \in Tabs \ {t} : loads'[u] = loads[u]
    BY <1>0, <1>6
  <2> HIDE DEF q, r
  <2>4. \A k \in DOMAIN r : \E m \in DOMAIN q : r[k] = q[m]
    <3> TAKE k \in DOMAIN r
    <3>1. k \in 1 .. Len(q) - 1 /\ (IF k < i THEN k ELSE k + 1) \in DOMAIN q
      BY <2>1, <2>2
    <3> QED BY <2>2, <3>1
  <2> QED BY <2>3, <2>4 DEF q
<1>7. ASSUME NEW t \in Tabs, NEW i, Answer(t, i) PROVE OwnInv'
  <2>1. /\ requests' = requests
        /\ i \in DOMAIN loads[t] /\ loads[t][i] \in Loads /\ loads[t][i].rows \in Rows
        /\ loads' = [loads EXCEPT ![t] = RemoveAt(loads[t], i)]
        /\ \A u \in Tabs \ {t} : cards'[u] = cards[u]
        /\ \A s \in Stories : cards'[t][s] = IF s \in loads[t][i].ids THEN loads[t][i].rows[s]
                                             ELSE cards[t][s]
        /\ suspect' = [suspect EXCEPT ![t] =
             @ \cup Overtaken(t, i) \cup (loads[t][i].own \cap loads[t][i].ids)]
    BY <1>7, AnswerIs
  <2>2. /\ suspect'[t] = suspect[t] \cup Overtaken(t, i) \cup (loads[t][i].own \cap loads[t][i].ids)
        /\ \A u \in Tabs \ {t} : suspect'[u] = suspect[u]
    BY <1>0, <2>1
  <2>3. loads[t][i].rows # NoRows
    BY <1>7 DEF Answer
  <2>4. \A s \in Unsaved(t) \ suspect'[t] : cards'[t][s].status = cards[t][s].status
    <3> TAKE s \in Unsaved(t) \ suspect'[t]
    <3>1. PICK j \in DOMAIN requests : requests[j].tab = t /\ Unfinished(j) /\ s \in CardsOf(j)
      BY UnsavedIs
    <3>2. s \in loads[t][i].own
      BY <2>1, <2>3, <3>1, OwnInvIs DEF Own
    <3>3. s \notin loads[t][i].ids /\ s \in Stories
      BY <1>0, <2>2, <3>2
    <3> QED BY <2>1, <3>3
  <2>5. \A u \in Tabs : /\ suspect[u] \subseteq suspect'[u]
                        /\ \A s \in Unsaved(u) \ suspect'[u] : cards'[u][s].status = cards[u][s].status
    BY <2>1, <2>2, <2>4
  <2>6. \A u \in Tabs : \A k \in DOMAIN loads'[u] : \E m \in DOMAIN loads[u] : loads'[u][k] = loads[u][m]
    BY <1>6, <2>1
  <2> QED BY <2>1, <2>5, <2>6, OwnTab
<1>8. ASSUME NEW t \in Tabs, NEW i, LoadFails(t, i) PROVE OwnInv'
  <2>1. /\ requests' = requests /\ cards' = cards /\ i \in DOMAIN loads[t]
        /\ loads' = [loads EXCEPT ![t] = RemoveAt(loads[t], i)]
        /\ suspect' = [suspect EXCEPT ![t] = @ \cup loads[t][i].ids]
    BY <1>8, LoadFailsIs
  <2>2. \A u \in Tabs : suspect[u] \subseteq suspect'[u]
    BY <1>0, <2>1
  <2>3. \A u \in Tabs : \A k \in DOMAIN loads'[u] : \E m \in DOMAIN loads[u] : loads'[u][k] = loads[u][m]
    BY <1>6, <2>1
  <2> QED BY <2>1, <2>2, <2>3, OwnTab
<1>9. CASE UNCHANGED vars
  <2>1. requests' = requests /\ loads' = loads /\ cards' = cards /\ suspect' = suspect
    BY <1>9 DEF vars
  <2> QED BY <2>1, OwnTab
<1> QED BY <1>1, <1>2, <1>3, <1>4, <1>5, <1>7, <1>8, <1>9, NextCases

-----------------------------------------------------------------------------
(* What a tab shows.                                                       *)

\* A message naming the card will come to the tab.
Announced(t, s) ==
  \/ \E i \in DOMAIN requests :
       requests[i].tab # t /\ requests[i].step \in {"placed", "moved"} /\ s \in ToSet(requests[i].ids)
  \/ \E k \in DOMAIN inbox[t] : s \in inbox[t][k]
  \/ s \in waiting[t]

LastIn(q, s, k) ==
  /\ k \in DOMAIN q /\ s \in q[k].ids
  /\ \A j \in DOMAIN q : s \in q[j].ids => j <= k

\* The user of the tab only watches.
Watches(t) == \A i \in DOMAIN requests : requests[i].tab # t

Agree(t, a, b) == a.status = b.status /\ (Watches(t) => a = b)

Current(t, load, s) == load.rows # NoRows /\ s \notin load.own => Agree(t, load.rows[s], rows[s])

\* The load k of the tab brings the card as it is.
Loaded(t, k, s) == Current(t, loads[t][k], s)

\* Neither the tab nor the server is about to change the card, and it had no accident.
Settled(t, s) == s \notin suspect[t] /\ s \notin Unsaved(t) /\ ~ Announced(t, s)

\* The last load with the card brings it as it is in the database; without a load it is shown so.
Shows(t, s) ==
  /\ \A k \in DOMAIN loads[t] : LastIn(loads[t], s, k) => Current(t, loads[t][k], s)
  /\ (\A k \in DOMAIN loads[t] : s \notin loads[t][k].ids) => Agree(t, cards[t][s], rows[s])

ShownInv == \A t \in Tabs : \A s \in Stories : Settled(t, s) => Shows(t, s)

\* As before but for the positions, which matter to those who only watch.
LEMMA ShowsStays ==
  ASSUME NEW t \in Tabs, NEW s \in Stories, Shows(t, s), Watches(t)' => Watches(t),
         UNCHANGED <<loads, cards>>,
         rows'[s].status = rows[s].status, Watches(t) => rows'[s] = rows[s]
  PROVE  Shows(t, s)'
BY DEF Shows, Current, Agree

\* Who only watches, does so until a drag.
LEMMA WatchesStays ==
  ASSUME NEW t, DOMAIN requests' = DOMAIN requests,
         \A j \in DOMAIN requests : requests'[j].tab = requests[j].tab
  PROVE  Watches(t)' <=> Watches(t)
BY DEF Watches

\* A request that changes no row.
LEMMA ShownSame ==
  ASSUME ShownInv, NEW i \in DOMAIN requests, Advances(i),
         UNCHANGED <<rows, loads, cards>>,
         \A t \in Tabs : \A s \in Stories : Settled(t, s)' => Settled(t, s)
  PROVE  ShownInv'
<1>1. DOMAIN requests' = DOMAIN requests /\ \A j \in DOMAIN requests : requests'[j].tab = requests[j].tab
  BY DEF Advances
<1>2. ASSUME NEW t \in Tabs, NEW s \in Stories, Settled(t, s)' PROVE Shows(t, s)'
  <2>1. Shows(t, s)
    BY <1>2 DEF ShownInv
  <2>2. Watches(t)' <=> Watches(t)
    BY <1>1, WatchesStays
  <2> QED BY <2>1, <2>2, ShowsStays
<1> QED BY <1>2 DEF ShownInv

\* Only the request that takes a step can save a card.
LEMMA UnsavedStays ==
  ASSUME NEW i \in DOMAIN requests, Advances(i), NEW t, NEW s,
         s \in Unsaved(t), s \notin Unsaved(t)'
  PROVE  /\ requests[i].tab = t /\ s \in CardsOf(i) /\ Unfinished(i)
         /\ ~ Unfinished(i)'
<1>1. /\ DOMAIN requests' = DOMAIN requests
      /\ \A j \in DOMAIN requests : j # i => requests'[j] = requests[j]
      /\ requests'[i].tab = requests[i].tab /\ requests'[i].drag = requests[i].drag
  BY DEF Advances
<1>2. PICK j \in DOMAIN requests : requests[j].tab = t /\ Unfinished(j) /\ s \in CardsOf(j)
  BY UnsavedIs
<1>3. s \in Unsaved(t)' <=> \E k \in DOMAIN requests' : requests'[k].tab = t /\ Unfinished(k)' /\ s \in CardsOf(k)'
  BY DEF Unsaved, Unfinished, CardsOf
<1>4. ~ (requests'[j].tab = t /\ Unfinished(j)' /\ s \in CardsOf(j)')
  BY <1>1, <1>2, <1>3
<1>5. j = i
  BY <1>1, <1>2, <1>4 DEF Unfinished, CardsOf
<1> QED BY <1>1, <1>2, <1>4, <1>5 DEF CardsOf

\* What is announced stays so until the message is sent.
LEMMA AnnouncedStays ==
  ASSUME NEW i \in DOMAIN requests, Advances(i), NEW t, NEW s, Announced(t, s),
         UNCHANGED <<inbox, waiting>>,
         requests'[i].ids = requests[i].ids,
         requests[i].step \in {"placed", "moved"} => requests'[i].step \in {"placed", "moved"}
  PROVE  Announced(t, s)'
BY DEF Announced, Advances

\* A row changes for the other tabs only with a message to come, and for its own as the tab shows it.
LEMMA ShownServer ==
  ASSUME BoardTypes, OwnInv, IdsInv, ShownInv, NEW i \in DOMAIN requests,
         \/ Validate(i) \/ LoadAnchor(i) \/ ListCards(i) \/ Place(i) \/ ChangeStatus(i)
         \/ Emit(i) \/ LoseMessage(i)
  PROVE  ShownInv'
<1>0. /\ suspect \in [Tabs -> SUBSET Stories] /\ rows \in Rows /\ inbox \in [Tabs -> Seq(SUBSET Stories)]
      /\ requests[i] \in Requests
  BY DEF BoardTypes
<1>a. /\ requests[i].drag \in Drags /\ requests[i].tab \in Tabs /\ requests[i].start \in Nat
      /\ requests[i].ids \in Seq(Stories) /\ Distinct(requests[i].ids)
  BY <1>0 DEF Requests, Listings
<1>b. \A t \in Tabs : suspect[t] \subseteq suspect'[t]
  BY ServerIs
<1>1. CASE Validate(i)
  <2>1. /\ Advances(i) /\ requests[i].step = "sent" /\ requests'[i].ids = requests[i].ids
        /\ \/ requests'[i].step = "valid"
           \/ /\ requests'[i].step = "rejected"
              /\ suspect' = [suspect EXCEPT ![requests[i].tab] = @ \cup ToSet(requests[i].drag.cards)]
        /\ UNCHANGED <<rows, inbox, waiting, loads, cards, order, list>>
    BY <1>1, ValidateIs
  <2>2. ASSUME NEW t \in Tabs, NEW s \in Stories, Settled(t, s)' PROVE Settled(t, s)
    <3>1. s \notin suspect[t] /\ ~ Announced(t, s)
      BY <1>b, <2>1, <2>2, AnnouncedStays DEF Settled
    <3>2. s \notin Unsaved(t)
      <4> SUFFICES ASSUME s \in Unsaved(t) PROVE FALSE
        OBVIOUS
      <4>1. requests[i].tab = t /\ s \in CardsOf(i) /\ ~ Unfinished(i)'
        BY <2>1, <2>2, UnsavedStays DEF Settled
      <4>2. suspect' = [suspect EXCEPT ![requests[i].tab] = @ \cup ToSet(requests[i].drag.cards)]
        BY <2>1, <4>1 DEF Unfinished
      <4>3. s \in suspect'[t]
        BY <1>0, <4>1, <4>2 DEF CardsOf
      <4> QED BY <2>2, <4>3 DEF Settled
    <3> QED BY <3>1, <3>2 DEF Settled
  <2> QED BY <2>1, <2>2, ShownSame
<1>2. CASE LoadAnchor(i)
  <2>1. /\ Advances(i) /\ requests[i].step = "valid" /\ requests'[i].step = "loaded"
        /\ requests'[i].ids = requests[i].ids
        /\ UNCHANGED <<rows, inbox, waiting, loads, cards, order, list, suspect>>
    BY <1>2, LoadAnchorIs
  <2>2. ASSUME NEW t \in Tabs, NEW s \in Stories, Settled(t, s)' PROVE Settled(t, s)
    <3>1. s \notin suspect[t] /\ ~ Announced(t, s)
      BY <2>1, <2>2, AnnouncedStays DEF Settled
    <3>2. s \notin Unsaved(t)
      BY <2>1, <2>2, UnsavedStays DEF Settled, Unfinished
    <3> QED BY <3>1, <3>2 DEF Settled
  <2> QED BY <2>1, <2>2, ShownSame
<1>3. CASE ListCards(i)
  <2>1. /\ Advances(i) /\ requests[i].step = "loaded" /\ requests'[i].step = "listed"
        /\ UNCHANGED <<rows, inbox, waiting, loads, cards, order, list, suspect>>
    BY <1>3, ListCardsIs
  <2>2. ASSUME NEW t \in Tabs, NEW s \in Stories, Settled(t, s)' PROVE Settled(t, s)
    <3>1. s \notin suspect[t] /\ ~ Announced(t, s)
      BY <2>1, <2>2 DEF Settled, Announced, Advances
    <3>2. s \notin Unsaved(t)
      BY <2>1, <2>2, UnsavedStays DEF Settled, Unfinished
    <3> QED BY <3>1, <3>2 DEF Settled
  <2> QED BY <2>1, <2>2, ShownSame
<1>4. CASE Place(i)
  <2>1. /\ Advances(i) /\ requests[i].step = "listed" /\ requests'[i].step = "placed"
        /\ requests'[i].ids = requests[i].ids
        /\ rows' = Placed(rows, requests[i].ids, requests[i].start)
        /\ UNCHANGED <<inbox, waiting, loads, cards, order, list, suspect>>
    BY <1>4, PlaceIs
  <2>2. \A s \in Stories : /\ rows'[s].status = rows[s].status
                           /\ s \notin ToSet(requests[i].ids) => rows'[s] = rows[s]
    BY <1>0, <1>a, <2>1, PlacedRows
  <2>3. ASSUME NEW t \in Tabs, NEW s \in Stories, Settled(t, s)' PROVE Shows(t, s)'
    <3>1. s \notin suspect[t] /\ ~ Announced(t, s)
      BY <2>1, <2>3, AnnouncedStays DEF Settled
    <3>2. s \notin Unsaved(t)
      BY <2>1, <2>3, UnsavedStays DEF Settled, Unfinished
    <3>3. Shows(t, s)
      BY <3>1, <3>2 DEF Settled, ShownInv
    <3>4. Watches(t)' <=> Watches(t)
      BY <2>1, WatchesStays DEF Advances
    <3>5. Watches(t) => rows'[s] = rows[s]
      <4>1. ASSUME requests[i].tab # t PROVE s \notin ToSet(requests[i].ids)
        BY <2>1, <2>3, <4>1 DEF Settled, Announced, Advances
      <4> QED BY <2>2, <4>1 DEF Watches
    <3> QED BY <2>1, <2>2, <3>3, <3>4, <3>5, ShowsStays
  <2> QED BY <2>3 DEF ShownInv
<1>5. CASE ChangeStatus(i)
  <2>1. /\ Advances(i) /\ requests[i].step = "placed" /\ requests'[i].step = "moved"
        /\ requests'[i].ids = requests[i].ids
        /\ rows' = Moved(rows, requests[i].drag)
        /\ UNCHANGED <<inbox, waiting, loads, cards, order, list, suspect>>
    BY <1>5, ChangeStatusIs
  <2>2. \A s \in Stories : /\ s \notin CardsOf(i) => rows'[s] = rows[s]
                           /\ s \in CardsOf(i) => rows'[s].status = requests[i].drag.status
    BY <1>0, <1>a, <2>1, DragsAre, MovedRows DEF CardsOf
  <2>3. CardsOf(i) \subseteq ToSet(requests[i].ids)
    BY <2>1 DEF IdsInv
  <2>4. ASSUME NEW t \in Tabs, NEW s \in Stories, Settled(t, s)' PROVE Shows(t, s)'
    <3>1. s \notin suspect[t] /\ ~ Announced(t, s)
      BY <2>1, <2>4, AnnouncedStays DEF Settled
    <3>2. Watches(t)' <=> Watches(t)
      BY <2>1, WatchesStays DEF Advances
    <3>3. CASE s \notin CardsOf(i)
      <4>1. s \notin Unsaved(t)
        BY <2>1, <2>4, <3>3, UnsavedStays DEF Settled
      <4>2. Shows(t, s)
        BY <3>1, <4>1 DEF Settled, ShownInv
      <4> QED BY <2>1, <2>2, <3>2, <3>3, <4>2, ShowsStays
    <3>4. CASE s \in CardsOf(i)
      <4>1. requests[i].tab = t
        BY <2>1, <2>3, <2>4, <3>4 DEF Settled, Announced, Advances
      <4>2. Own(t, i, s)
        BY <2>1, <3>4, <4>1, OwnInvIs DEF Unfinished
      <4>3. ~ Watches(t)
        BY <4>1 DEF Watches
      <4>4. cards[t][s].status = rows'[s].status
        BY <2>2, <3>1, <3>4, <4>2 DEF Own
      <4> QED BY <2>1, <3>2, <4>2, <4>3, <4>4 DEF Shows, Current, Agree, Own
    <3> QED BY <3>3, <3>4
  <2> QED BY <2>4 DEF ShownInv
<1>6. CASE Emit(i) \/ LoseMessage(i)
  <2>1. /\ Advances(i) /\ requests[i].step = "moved" /\ requests'[i].step = "done"
        /\ UNCHANGED <<rows, waiting, loads, cards, order, list>>
        /\ \/ inbox' = [t \in Tabs |-> IF t = requests[i].tab THEN inbox[t]
                                       ELSE Append(inbox[t], ToSet(requests[i].ids))]
           \/ /\ UNCHANGED inbox
              /\ suspect' = [t \in Tabs |-> IF t = requests[i].tab THEN suspect[t]
                                            ELSE suspect[t] \cup ToSet(requests[i].ids)]
    BY <1>6, EmitIs
  <2>2. ASSUME NEW t \in Tabs, NEW s \in Stories, Settled(t, s)' PROVE Settled(t, s)
    <3>1. s \notin suspect[t] /\ s \notin suspect'[t] /\ s \notin waiting[t]
      BY <1>b, <2>1, <2>2 DEF Settled, Announced
    <3>2. s \notin Unsaved(t)
      BY <2>1, <2>2, UnsavedStays DEF Settled, Unfinished
    <3>3. \A k \in DOMAIN inbox[t] : s \notin inbox[t][k]
      <4>1. \A k \in DOMAIN inbox'[t] : s \notin inbox'[t][k]
        BY <2>2 DEF Settled, Announced
      <4>2. inbox[t] \in Seq(SUBSET Stories)
        BY <1>0
      <4>b. ToSet(requests[i].ids) \subseteq Stories
        BY <1>a, ToSetIn
      <4>3. PICK M \in SUBSET Stories : M = ToSet(requests[i].ids)
        BY <4>b
      <4>4. inbox'[t] = inbox[t] \/ inbox'[t] = Append(inbox[t], M)
        BY <2>1, <4>3
      <4>5. \A k \in DOMAIN inbox[t] : k \in DOMAIN Append(inbox[t], M) /\ Append(inbox[t], M)[k] = inbox[t][k]
        BY <4>2
      <4> QED BY <4>1, <4>4, <4>5
    <3>4. ASSUME NEW j \in DOMAIN requests, requests[j].tab # t, requests[j].step \in {"placed", "moved"}
          PROVE  s \notin ToSet(requests[j].ids)
      <4>1. CASE j # i
        BY <2>1, <2>2, <3>4, <4>1 DEF Settled, Announced, Advances
      <4>2. CASE j = i
        <5>b. ToSet(requests[i].ids) \subseteq Stories
          BY <1>a, ToSetIn
        <5>1. PICK M \in SUBSET Stories : M = ToSet(requests[i].ids)
          BY <5>b
        <5>2. CASE inbox'[t] = Append(inbox[t], M)
          <6>1. inbox[t] \in Seq(SUBSET Stories)
            BY <1>0
          <6>2. Len(inbox[t]) + 1 \in DOMAIN inbox'[t] /\ inbox'[t][Len(inbox[t]) + 1] = M
            BY <5>2, <6>1
          <6>3. s \notin M
            BY <2>2, <6>2 DEF Settled, Announced
          <6> QED BY <4>2, <5>1, <6>3
        <5>3. CASE suspect'[t] = suspect[t] \cup M
          BY <3>1, <4>2, <5>1, <5>3
        <5> QED BY <2>1, <3>4, <4>2, <5>1, <5>2, <5>3
      <4> QED BY <4>1, <4>2
    <3> QED BY <3>1, <3>2, <3>3, <3>4 DEF Settled, Announced
  <2> QED BY <2>1, <2>2, ShownSame
<1> QED BY <1>1, <1>2, <1>3, <1>4, <1>5, <1>6

\* The dragged card is not settled, the others have not changed.
LEMMA ShownSend ==
  ASSUME BoardTypes, ShownInv, NEW t \in Tabs, NEW drag \in Drags, Send(t, drag)
  PROVE  ShownInv'
<1>a. /\ UNCHANGED <<rows, inbox, waiting>>
      /\ Len(requests) \in Nat /\ DOMAIN requests = 1 .. Len(requests)
      /\ DOMAIN requests' = 1 .. Len(requests) + 1
      /\ \A j \in DOMAIN requests : requests'[j] = requests[j]
  BY SendIs
<1>b. PICK n \in Nat : n = Len(requests)
  BY <1>a
<1>c. PICK D : D = ToSet(drag.cards)
  OBVIOUS
<1>d. LET q == requests'[n + 1] IN q.tab = t /\ q.drag = drag /\ q.step = "sent"
  BY <1>b, SendIs
<1>e. cards' = [cards EXCEPT ![t] = Moved(cards[t], drag)]
  BY SendIs
<1>f. suspect' = [suspect EXCEPT ![t] = @ \cup (Unsaved(t) \cap D)]
  BY <1>c, SendIs
<1>g. /\ \A u \in Tabs \ {t} : loads'[u] = loads[u]
      /\ DOMAIN loads'[t] = DOMAIN loads[t]
  BY SendIs
<1>h. \A k \in DOMAIN loads[t] : /\ loads'[t][k].ids = loads[t][k].ids
                                 /\ loads'[t][k].rows = loads[t][k].rows
                                 /\ loads'[t][k].own = loads[t][k].own \cup D
  <2>1. \A k \in DOMAIN loads[t] : /\ loads'[t][k].ids = loads[t][k].ids
                                   /\ loads'[t][k].rows = loads[t][k].rows
                                   /\ loads'[t][k].own = loads[t][k].own \cup ToSet(drag.cards)
    BY SendBeside
  <2> QED BY <1>c, <2>1
<1>1. /\ UNCHANGED <<rows, inbox, waiting>>
      /\ DOMAIN requests = 1 .. n /\ DOMAIN requests' = 1 .. n + 1
      /\ \A j \in DOMAIN requests : requests'[j] = requests[j]
      /\ LET q == requests'[n + 1] IN q.tab = t /\ q.drag = drag /\ q.step = "sent"
      /\ \A u \in Tabs \ {t} : loads'[u] = loads[u]
      /\ DOMAIN loads'[t] = DOMAIN loads[t]
      /\ \A k \in DOMAIN loads[t] : /\ loads'[t][k].ids = loads[t][k].ids
                                    /\ loads'[t][k].rows = loads[t][k].rows
                                    /\ loads'[t][k].own = loads[t][k].own \cup D
  BY <1>a, <1>b, <1>d, <1>g, <1>h
<1>2. cards \in [Tabs -> Rows] /\ suspect \in [Tabs -> SUBSET Stories] /\ drag.status \in Statuses
  BY DragsAre DEF BoardTypes
<1>3. /\ cards'[t] = Moved(cards[t], drag) /\ \A u \in Tabs \ {t} : cards'[u] = cards[u]
      /\ \A u \in Tabs : suspect[u] \subseteq suspect'[u]
  BY <1>2, <1>e, <1>f
<1>4. \A s \in Stories \ D : cards'[t][s] = cards[t][s]
  BY <1>2, <1>3, <1>c, MovedRows
<1>5. n + 1 \in DOMAIN requests' /\ requests'[n + 1].tab = t /\ CardsOf(n + 1)' = D /\ Unfinished(n + 1)'
      /\ DOMAIN requests \subseteq DOMAIN requests'
      /\ \A j \in DOMAIN requests' : j \in DOMAIN requests \/ j = n + 1
  BY <1>1, <1>c DEF CardsOf, Unfinished
<1>6. ASSUME NEW u \in Tabs, NEW s \in Stories, Settled(u, s)' PROVE Settled(u, s)
  <2>1. s \notin suspect[u] /\ ~ Announced(u, s)
    BY <1>1, <1>3, <1>5, <1>6 DEF Settled, Announced
  <2>2. s \notin Unsaved(u)
    BY <1>1, <1>5, <1>6 DEF Settled, Unsaved
  <2> QED BY <2>1, <2>2 DEF Settled
<1>7. ASSUME NEW u \in Tabs, NEW s \in Stories, Settled(u, s)' PROVE Shows(u, s)'
  <2>1. Shows(u, s)
    BY <1>6, <1>7 DEF ShownInv
  <2>2. CASE u # t
    <3>1. Watches(u)' => Watches(u)
      BY <1>1, <1>5 DEF Watches
    <3>2. loads'[u] = loads[u] /\ cards'[u] = cards[u] /\ rows' = rows
      BY <1>1, <1>3, <2>2
    <3> QED BY <2>1, <3>1, <3>2 DEF Shows, Current, Agree
  <2>3. CASE u = t
    <3>1. ~ Watches(t)'
      BY <1>5 DEF Watches
    <3>2. s \notin D
      <4>1. s \notin Unsaved(t)'
        BY <1>7, <2>3 DEF Settled
      <4> QED BY <1>5, <4>1 DEF Unsaved, Unfinished, CardsOf
    <3>3. cards'[t][s] = cards[t][s] /\ rows' = rows
      BY <1>1, <1>4, <3>2
    <3>4. ASSUME NEW k \in DOMAIN loads'[t], LastIn(loads'[t], s, k)
          PROVE  Loaded(t, k, s)'
      <4>1. LastIn(loads[t], s, k)
        BY <1>1, <3>4 DEF LastIn
      <4>2. Current(t, loads[t][k], s) /\ k \in DOMAIN loads[t]
        BY <2>1, <2>3, <4>1 DEF Shows, LastIn
      <4> QED BY <1>1, <3>1, <3>2, <3>3, <4>2 DEF Loaded, Current, Agree
    <3>5. (\A k \in DOMAIN loads'[t] : s \notin loads'[t][k].ids) => Agree(t, cards[t][s], rows[s])'
      BY <1>1, <2>1, <2>3, <3>1, <3>3 DEF Shows, Agree
    <3> QED BY <2>3, <3>4, <3>5 DEF Shows, Loaded
  <2> QED BY <2>2, <2>3
<1> QED BY <1>7 DEF ShownInv

\* What follows from the loads of the tab, for a step of the tab that makes no request.
LEMMA ShownTab ==
  ASSUME ShownInv, NEW t \in Tabs, UNCHANGED <<rows, requests>>,
         \A u \in Tabs \ {t} : /\ suspect'[u] = suspect[u] /\ inbox'[u] = inbox[u]
                               /\ waiting'[u] = waiting[u] /\ loads'[u] = loads[u]
                               /\ cards'[u] = cards[u],
         \A s \in Stories : Settled(t, s)' => Shows(t, s)'
  PROVE  ShownInv'
<1>1. ASSUME NEW u \in Tabs \ {t}, NEW s \in Stories, Settled(u, s)' PROVE Shows(u, s)'
  <2>1. Settled(u, s)
    BY <1>1 DEF Settled, Announced, Unsaved
  <2>2. Shows(u, s)
    BY <2>1 DEF ShownInv
  <2> QED BY <2>2 DEF Shows, Current, Agree, Watches
<1> QED BY <1>1 DEF ShownInv

\* The message a tab holds is dropped for a later one; the cards it does not name are in danger.
LEMMA ShownReceive ==
  ASSUME BoardTypes, ShownInv, NEW t \in Tabs, Receive(t)
  PROVE  ShownInv'
<1>1. /\ UNCHANGED <<rows, requests, loads, cards, order, list>>
      /\ inbox[t] \in Seq(SUBSET Stories) /\ inbox[t] # <<>>
      /\ inbox' = [inbox EXCEPT ![t] = Tail(inbox[t])]
      /\ waiting' = [waiting EXCEPT ![t] = Head(inbox[t])]
      /\ suspect' = [suspect EXCEPT ![t] = @ \cup (waiting[t] \ Head(inbox[t]))]
  BY ReceiveIs
<1>2. /\ suspect \in [Tabs -> SUBSET Stories] /\ inbox \in [Tabs -> Seq(SUBSET Stories)]
      /\ waiting \in [Tabs -> SUBSET Stories]
  BY DEF BoardTypes
<1>3. /\ suspect'[t] = suspect[t] \cup (waiting[t] \ Head(inbox[t]))
      /\ inbox'[t] = Tail(inbox[t]) /\ waiting'[t] = Head(inbox[t])
      /\ \A u \in Tabs \ {t} : suspect'[u] = suspect[u] /\ inbox'[u] = inbox[u] /\ waiting'[u] = waiting[u]
  BY <1>1, <1>2
<1>4. \A k \in DOMAIN inbox[t] : inbox[t][k] = Head(inbox[t])
                                 \/ (k - 1 \in DOMAIN Tail(inbox[t]) /\ Tail(inbox[t])[k - 1] = inbox[t][k])
  <2> DEFINE q == inbox[t]
  <2>1. q \in Seq(SUBSET Stories) /\ q # <<>> /\ Len(q) \in Nat
    BY <1>1
  <2>2. Head(q) = q[1] /\ Len(Tail(q)) = Len(q) - 1 /\ Tail(q) \in Seq(SUBSET Stories)
        /\ \A k \in 1 .. Len(q) - 1 : Tail(q)[k] = q[k + 1]
    BY <2>1
  <2> HIDE DEF q
  <2>3. ASSUME NEW k \in DOMAIN q, k # 1 PROVE k - 1 \in DOMAIN Tail(q) /\ Tail(q)[k - 1] = q[k]
    <3>1. k - 1 \in 1 .. Len(q) - 1 /\ (k - 1) + 1 = k
      BY <2>1, <2>3
    <3> QED BY <2>2, <3>1
  <2> QED BY <2>2, <2>3 DEF q
<1>5. ASSUME NEW s \in Stories, Settled(t, s)' PROVE Shows(t, s)'
  <2>1. s \notin suspect'[t] /\ s \notin waiting'[t] /\ \A k \in DOMAIN inbox'[t] : s \notin inbox'[t][k]
    BY <1>5 DEF Settled, Announced
  <2>2. s \notin suspect[t] /\ s \notin waiting[t] /\ \A k \in DOMAIN inbox[t] : s \notin inbox[t][k]
    BY <1>3, <1>4, <2>1
  <2>3. s \notin Unsaved(t)
    BY <1>1, <1>5 DEF Settled, Unsaved
  <2>4. Settled(t, s)
    BY <1>1, <1>5, <2>2, <2>3 DEF Settled, Announced
  <2>5. Shows(t, s)
    BY <2>4 DEF ShownInv
  <2> QED BY <1>1, <2>5 DEF Shows, Current, Agree, Watches
<1> QED BY <1>1, <1>3, <1>5, ShownTab

\* The load just sent is the last one for its cards, and has no rows yet.
LEMMA ShownLoad ==
  ASSUME BoardTypes, ShownInv, NEW t \in Tabs, Load(t)
  PROVE  ShownInv'
<1> DEFINE load == [ids |-> waiting[t], rows |-> NoRows, own |-> {}]
           q == loads[t]
           n == Len(q)
<1>1. /\ UNCHANGED <<rows, requests, inbox, cards, order, list, suspect>>
      /\ load \in Loads
      /\ waiting' = [waiting EXCEPT ![t] = {}]
      /\ q \in Seq(Loads)
      /\ loads' = [loads EXCEPT ![t] = Append(q, load)]
  BY LoadIs
<1>2. load.ids = waiting[t] /\ load.rows = NoRows
  OBVIOUS
<1>3. waiting \in [Tabs -> SUBSET Stories] /\ loads \in [Tabs -> Seq(Loads)]
  BY DEF BoardTypes
<1> HIDE DEF load
<1>4. /\ n \in Nat /\ DOMAIN q = 1 .. n
      /\ DOMAIN Append(q, load) = 1 .. n + 1
      /\ \A k \in 1 .. n : Append(q, load)[k] = q[k]
      /\ Append(q, load)[n + 1] = load
  BY <1>1
<1>5. /\ loads'[t] = Append(q, load) /\ \A u \in Tabs \ {t} : loads'[u] = loads[u]
      /\ \A u \in Tabs \ {t} : waiting'[u] = waiting[u]
  BY <1>1, <1>3
<1> HIDE DEF q, n
<1>6. ASSUME NEW s \in Stories, Settled(t, s)' PROVE Shows(t, s)'
  <2>0. s \notin Unsaved(t)
    BY <1>1, <1>6 DEF Settled, Unsaved
  <2>1. CASE s \in waiting[t]
    <3>1. n + 1 \in DOMAIN loads'[t] /\ s \in loads'[t][n + 1].ids
      BY <1>2, <1>4, <1>5, <2>1
    <3>2. \A k \in DOMAIN loads'[t] : LastIn(loads'[t], s, k) => k = n + 1
      BY <1>4, <1>5, <3>1 DEF LastIn
    <3>3. loads'[t][n + 1].rows = NoRows
      BY <1>2, <1>4, <1>5
    <3> QED BY <3>1, <3>2, <3>3 DEF Shows, Current
  <2>2. CASE s \notin waiting[t]
    <3>1. Settled(t, s)
      BY <1>1, <1>6, <2>0, <2>2 DEF Settled, Announced
    <3>2. Shows(t, s)
      BY <3>1 DEF ShownInv
    <3>3. s \notin load.ids
      BY <1>2, <2>2
    <3>4. ASSUME NEW k \in DOMAIN loads'[t], LastIn(loads'[t], s, k)
          PROVE  Loaded(t, k, s)'
      <4>1. k \in 1 .. n
        BY <1>4, <1>5, <3>3, <3>4 DEF LastIn
      <4>2. LastIn(q, s, k) /\ loads'[t][k] = q[k]
        BY <1>4, <1>5, <3>4, <4>1 DEF LastIn
      <4>3. Current(t, loads[t][k], s)
        BY <1>4, <3>2, <4>1, <4>2 DEF Shows, q
      <4> QED BY <1>1, <4>2, <4>3 DEF Loaded, Current, Agree, Watches, q
    <3>5. (\A k \in DOMAIN loads'[t] : s \notin loads'[t][k].ids) => Agree(t, cards[t][s], rows[s])'
      <4> SUFFICES ASSUME \A k \in DOMAIN loads'[t] : s \notin loads'[t][k].ids
                   PROVE  Agree(t, cards[t][s], rows[s])'
        OBVIOUS
      <4>1. \A k \in DOMAIN q : s \notin q[k].ids
        BY <1>4, <1>5
      <4>2. Agree(t, cards[t][s], rows[s])
        BY <3>2, <4>1 DEF Shows, q
      <4> QED BY <1>1, <4>2 DEF Agree, Watches
    <3> QED BY <3>4, <3>5 DEF Shows, Loaded
  <2> QED BY <2>1, <2>2
<1> QED BY <1>1, <1>5, <1>6, ShownTab

\* The server answers with its rows of now.
LEMMA ShownQuery ==
  ASSUME BoardTypes, ShownInv, NEW t \in Tabs, NEW i, Query(t, i)
  PROVE  ShownInv'
<1>1. /\ UNCHANGED <<rows, requests, inbox, waiting, cards, order, list, suspect>>
      /\ i \in DOMAIN loads[t]
      /\ \A u \in Tabs \ {t} : loads'[u] = loads[u]
      /\ DOMAIN loads'[t] = DOMAIN loads[t]
      /\ \A k \in DOMAIN loads[t] : k # i => loads'[t][k] = loads[t][k]
      /\ loads'[t][i].ids = loads[t][i].ids /\ loads'[t][i].rows = rows
  BY QueryIs
<1>2. \A k \in DOMAIN loads[t] : loads'[t][k].ids = loads[t][k].ids
  BY <1>1
<1>3. ASSUME NEW s \in Stories, Settled(t, s)' PROVE Shows(t, s)'
  <2>1. Settled(t, s)
    BY <1>1, <1>3 DEF Settled, Announced, Unsaved
  <2>2. Shows(t, s)
    BY <2>1 DEF ShownInv
  <2>3. \A k : LastIn(loads'[t], s, k) => LastIn(loads[t], s, k)
    BY <1>1, <1>2 DEF LastIn
  <2>4. ASSUME NEW k \in DOMAIN loads'[t], LastIn(loads'[t], s, k) PROVE Loaded(t, k, s)'
    <3>1. CASE k = i
      BY <1>1, <3>1 DEF Loaded, Current, Agree
    <3>2. CASE k # i
      <4>1. Current(t, loads[t][k], s)
        BY <1>1, <2>2, <2>3, <2>4 DEF Shows
      <4> QED BY <1>1, <2>4, <3>2, <4>1 DEF Loaded, Current, Agree, Watches
    <3> QED BY <3>1, <3>2
  <2>5. (\A k \in DOMAIN loads'[t] : s \notin loads'[t][k].ids) => Agree(t, cards[t][s], rows[s])'
    BY <1>1, <1>2, <2>2 DEF Shows, Agree, Watches
  <2> QED BY <2>4, <2>5 DEF Shows, Loaded
<1> QED BY <1>1, <1>3, ShownTab

\* The places of a sequence before one of its elements is removed.
LEMMA RemovedPlaces ==
  ASSUME NEW T, NEW q \in Seq(T), NEW i \in DOMAIN q
  PROVE  LET r == RemoveAt(q, i) IN
         /\ r \in Seq(T)
         /\ \A k \in DOMAIN r : LET m == IF k < i THEN k ELSE k + 1
                                IN  m \in DOMAIN q /\ m # i /\ r[k] = q[m]
         /\ \A m \in DOMAIN q : m # i => LET k == IF m < i THEN m ELSE m - 1
                                         IN  k \in DOMAIN r /\ r[k] = q[m]
<1> DEFINE r == RemoveAt(q, i)
           n == Len(q)
<1>1. n \in Nat /\ DOMAIN q = 1 .. n /\ i \in 1 .. n
  OBVIOUS
<1>2. r \in Seq(T) /\ Len(r) = n - 1 /\ \A k \in 1 .. n - 1 : r[k] = q[IF k < i THEN k ELSE k + 1]
  BY RemoveAtIs
<1> HIDE DEF r
<1>3. DOMAIN r = 1 .. n - 1
  BY <1>1, <1>2
<1> HIDE DEF n
<1>4. ASSUME NEW k \in 1 .. n - 1
      PROVE  LET m == IF k < i THEN k ELSE k + 1 IN m \in 1 .. n /\ m # i
  BY <1>1
<1>5. ASSUME NEW m \in 1 .. n, m # i
      PROVE  LET k == IF m < i THEN m ELSE m - 1
             IN  k \in 1 .. n - 1 /\ m = IF k < i THEN k ELSE k + 1
  BY <1>1, <1>5
<1>6. \A k \in DOMAIN r : LET m == IF k < i THEN k ELSE k + 1
                          IN  m \in DOMAIN q /\ m # i /\ r[k] = q[m]
  BY <1>1, <1>2, <1>3, <1>4
<1>7. ASSUME NEW m \in DOMAIN q, m # i
      PROVE  LET k == IF m < i THEN m ELSE m - 1 IN k \in DOMAIN r /\ r[k] = q[m]
  <2> DEFINE k == IF m < i THEN m ELSE m - 1
  <2>1. k \in 1 .. n - 1 /\ m = IF k < i THEN k ELSE k + 1
    BY <1>1, <1>5, <1>7
  <2> HIDE DEF k
  <2>2. k \in DOMAIN r /\ r[k] = q[m]
    BY <1>2, <1>3, <2>1
  <2> QED BY <2>2 DEF k
<1> QED BY <1>2, <1>6, <1>7 DEF r

\* The other elements are still there.
LEMMA RemovedKeeps ==
  ASSUME NEW T, NEW q \in Seq(T), NEW i \in DOMAIN q, NEW m \in DOMAIN q, m # i
  PROVE  \E k \in DOMAIN RemoveAt(q, i) : RemoveAt(q, i)[k] = q[m]
<1> DEFINE k == IF m < i THEN m ELSE m - 1
<1>1. k \in DOMAIN RemoveAt(q, i) /\ RemoveAt(q, i)[k] = q[m]
  BY RemovedPlaces
<1> QED BY <1>1

\* The last load with a card stays the last when one without it, or the first with it, is gone.
LEMMA LastRemoved ==
  ASSUME NEW q \in Seq(Loads), NEW i \in DOMAIN q, NEW s,
         s \in q[i].ids => \A j \in 1 .. i - 1 : s \notin q[j].ids,
         NEW k, LastIn(RemoveAt(q, i), s, k)
  PROVE  \E m \in DOMAIN q : LastIn(q, s, m) /\ RemoveAt(q, i)[k] = q[m]
<1> DEFINE r == RemoveAt(q, i)
           m == IF k < i THEN k ELSE k + 1
<1>1. /\ \A x \in DOMAIN r : LET y == IF x < i THEN x ELSE x + 1
                             IN  y \in DOMAIN q /\ y # i /\ r[x] = q[y]
      /\ \A y \in DOMAIN q : y # i => LET x == IF y < i THEN y ELSE y - 1
                                      IN  x \in DOMAIN r /\ r[x] = q[y]
      /\ r \in Seq(Loads)
  BY RemovedPlaces
<1>2. k \in DOMAIN r /\ s \in r[k].ids /\ \A j \in DOMAIN r : s \in r[j].ids => j <= k
  BY DEF LastIn
<1>3. m \in DOMAIN q /\ m # i /\ r[k] = q[m]
  BY <1>1, <1>2
<1>4. k \in Nat /\ i \in Nat /\ m \in Nat /\ \A y \in DOMAIN q : y \in Nat /\ y >= 1
  <2>1. k \in Nat
    BY <1>1, <1>2
  <2> QED BY <2>1
<1> HIDE DEF r
<1>5. ASSUME NEW y \in DOMAIN q, s \in q[y].ids PROVE y <= m
  <2>1. CASE y = i
    <3>1. ~ (m < i)
      <4> SUFFICES ASSUME m < i PROVE FALSE
        OBVIOUS
      <4>1. m \in 1 .. i - 1
        BY <1>3, <1>4
      <4>2. s \in q[m].ids /\ s \in q[i].ids
        BY <1>2, <1>3, <1>5, <2>1
      <4> QED BY <4>1, <4>2
    <3> QED BY <1>4, <2>1, <3>1
  <2>2. CASE y # i
    <3> DEFINE x == IF y < i THEN y ELSE y - 1
    <3>1. x \in DOMAIN r /\ r[x] = q[y]
      BY <1>1, <2>2
    <3>2. x <= k
      BY <1>2, <1>5, <3>1
    <3> QED BY <1>4, <2>2, <3>2
  <2> QED BY <2>1, <2>2
<1>6. LastIn(q, s, m)
  BY <1>2, <1>3, <1>5 DEF LastIn
<1> QED BY <1>3, <1>6 DEF r

\* A load is gone: the shown card is now its own, or its card comes with the others.
LEMMA ShownGone ==
  ASSUME BoardTypes, NEW t \in Tabs, NEW i \in DOMAIN loads[t], NEW s \in Stories, Shows(t, s),
         UNCHANGED <<rows, requests>>, loads'[t] = RemoveAt(loads[t], i),
         \/ s \notin loads[t][i].ids /\ cards'[t][s] = cards[t][s]
         \/ /\ s \in loads[t][i].ids /\ cards'[t][s] = loads[t][i].rows[s]
            /\ loads[t][i].rows # NoRows /\ s \notin loads[t][i].own
            /\ \A j \in 1 .. i - 1 : s \notin loads[t][j].ids
  PROVE  Shows(t, s)'
<1> DEFINE q == loads[t]
           r == RemoveAt(q, i)
<1>0. q \in Seq(Loads)
  BY DEF BoardTypes
<1>1. \A m \in DOMAIN q : m # i => \E k \in DOMAIN r : r[k] = q[m]
  BY <1>0, RemovedKeeps
<1> HIDE DEF r
<1>2. loads'[t] = r
  BY DEF r
<1>3. ASSUME NEW k \in DOMAIN loads'[t], LastIn(loads'[t], s, k)
      PROVE  Loaded(t, k, s)'
  <2>1. LastIn(RemoveAt(q, i), s, k)
    BY <1>2, <1>3 DEF r
  <2>2. PICK m \in DOMAIN q : LastIn(q, s, m) /\ r[k] = q[m]
    BY <1>0, <2>1, LastRemoved DEF r
  <2>3. Current(t, loads[t][m], s)
    BY <2>2 DEF Shows
  <2> QED BY <1>2, <2>2, <2>3 DEF Loaded, Current, Agree, Watches
<1>4. ASSUME \A k \in DOMAIN loads'[t] : s \notin loads'[t][k].ids
      PROVE  Agree(t, cards[t][s], rows[s])'
  <2>1. \A m \in DOMAIN q : m # i => s \notin q[m].ids
    BY <1>1, <1>2, <1>4
  <2>2. CASE s \notin q[i].ids
    <3>1. Agree(t, cards[t][s], rows[s])
      BY <2>1, <2>2 DEF Shows
    <3> QED BY <2>2, <3>1 DEF Agree, Watches
  <2>3. CASE s \in q[i].ids
    <3>1. LastIn(q, s, i)
      <4>1. \A m \in DOMAIN q : s \in q[m].ids => m = i
        BY <2>1
      <4>2. i <= i
        BY <1>0
      <4> QED BY <2>3, <4>1, <4>2 DEF LastIn
    <3>2. Current(t, q[i], s)
      BY <3>1 DEF Shows
    <3>3. Agree(t, q[i].rows[s], rows[s])
      BY <2>3, <3>2 DEF Current
    <3> QED BY <2>3, <3>3 DEF Agree, Watches
  <2> QED BY <2>2, <2>3
<1> QED BY <1>3, <1>4 DEF Shows, Loaded

\* The first answer with the card is the one that counts, or an accident is noted.
LEMMA ShownAnswer ==
  ASSUME BoardTypes, ShownInv, NEW t \in Tabs, NEW i, Answer(t, i)
  PROVE  ShownInv'
<1>1. /\ UNCHANGED <<rows, requests, inbox, waiting>>
      /\ i \in DOMAIN loads[t] /\ loads[t][i].rows \in Rows
      /\ loads' = [loads EXCEPT ![t] = RemoveAt(loads[t], i)]
      /\ \A u \in Tabs \ {t} : cards'[u] = cards[u]
      /\ \A s \in Stories : cards'[t][s] = IF s \in loads[t][i].ids THEN loads[t][i].rows[s]
                                           ELSE cards[t][s]
      /\ suspect' = [suspect EXCEPT ![t] =
           @ \cup Overtaken(t, i) \cup (loads[t][i].own \cap loads[t][i].ids)]
  BY AnswerIs
<1>2. loads[t][i].rows # NoRows
  BY DEF Answer
<1>3. suspect \in [Tabs -> SUBSET Stories] /\ loads \in [Tabs -> Seq(Loads)]
  BY DEF BoardTypes
<1>4. /\ suspect'[t] = suspect[t] \cup Overtaken(t, i) \cup (loads[t][i].own \cap loads[t][i].ids)
      /\ loads'[t] = RemoveAt(loads[t], i)
      /\ \A u \in Tabs \ {t} : suspect'[u] = suspect[u] /\ loads'[u] = loads[u]
  BY <1>1, <1>3
<1>5. ASSUME NEW s \in Stories, Settled(t, s)' PROVE Shows(t, s)'
  <2>1. Settled(t, s)
    BY <1>1, <1>4, <1>5 DEF Settled, Announced, Unsaved
  <2>2. Shows(t, s)
    BY <2>1 DEF ShownInv
  <2>3. s \notin Overtaken(t, i) /\ s \notin loads[t][i].own \cap loads[t][i].ids
    BY <1>4, <1>5 DEF Settled
  <2>4. CASE s \notin loads[t][i].ids
    BY <1>1, <1>4, <2>2, <2>4, ShownGone
  <2>5. CASE s \in loads[t][i].ids
    <3>1. \A j \in 1 .. i - 1 : s \notin loads[t][j].ids
      BY <2>3, <2>5 DEF Overtaken
    <3> QED BY <1>1, <1>2, <1>4, <2>2, <2>3, <2>5, <3>1, ShownGone
  <2> QED BY <2>4, <2>5
<1> QED BY <1>1, <1>4, <1>5, ShownTab

\* The cards of a load that fails are suspect.
LEMMA ShownFails ==
  ASSUME BoardTypes, ShownInv, NEW t \in Tabs, NEW i, LoadFails(t, i)
  PROVE  ShownInv'
<1>1. /\ UNCHANGED <<rows, requests, inbox, waiting, cards, order, list>>
      /\ i \in DOMAIN loads[t]
      /\ loads' = [loads EXCEPT ![t] = RemoveAt(loads[t], i)]
      /\ suspect' = [suspect EXCEPT ![t] = @ \cup loads[t][i].ids]
  BY LoadFailsIs
<1>2. suspect \in [Tabs -> SUBSET Stories] /\ loads \in [Tabs -> Seq(Loads)]
  BY DEF BoardTypes
<1>3. /\ suspect'[t] = suspect[t] \cup loads[t][i].ids
      /\ loads'[t] = RemoveAt(loads[t], i)
      /\ \A u \in Tabs \ {t} : suspect'[u] = suspect[u] /\ loads'[u] = loads[u]
  BY <1>1, <1>2
<1>4. ASSUME NEW s \in Stories, Settled(t, s)' PROVE Shows(t, s)'
  <2>1. Settled(t, s) /\ s \notin loads[t][i].ids
    BY <1>1, <1>3, <1>4 DEF Settled, Announced, Unsaved
  <2>2. Shows(t, s)
    BY <2>1 DEF ShownInv
  <2> QED BY <1>1, <1>3, <2>1, <2>2, ShownGone
<1> QED BY <1>1, <1>3, <1>4, ShownTab

\* Every step keeps ShownInv.
LEMMA ShownKept ==
  ASSUME BoardTypes, OwnInv, IdsInv, ShownInv, [Next]_vars
  PROVE  ShownInv'
<1>1. ASSUME NEW t \in Tabs, NEW drag \in Drags, Send(t, drag) PROVE ShownInv'
  BY <1>1, ShownSend
<1>2. ASSUME NEW i \in DOMAIN requests,
             \/ Validate(i) \/ LoadAnchor(i) \/ ListCards(i) \/ Place(i) \/ ChangeStatus(i)
             \/ Emit(i) \/ LoseMessage(i)
      PROVE  ShownInv'
  BY <1>2, ShownServer
<1>3. ASSUME NEW t \in Tabs, Receive(t) \/ Load(t) PROVE ShownInv'
  BY <1>3, ShownReceive, ShownLoad
<1>4. ASSUME NEW t \in Tabs, NEW i, Query(t, i) \/ Answer(t, i) \/ LoadFails(t, i) PROVE ShownInv'
  BY <1>4, ShownQuery, ShownAnswer, ShownFails
<1>5. CASE UNCHANGED vars
  BY <1>5 DEF vars, ShownInv, Settled, Shows, Announced, Unsaved, Current, Agree, Watches
<1> QED BY <1>1, <1>2, <1>3, <1>4, <1>5, NextCases

-----------------------------------------------------------------------------
(* The order a tab shows.                                                  *)

\* Lists are sorted by the positions of the tab, those of its cards unless its user has dragged.
OrderInv ==
  \A t \in Tabs :
    /\ \A i, j \in 1 .. Len(list[t]) : i < j => order[t][list[t][i]] <= order[t][list[t][j]]
    /\ Watches(t) => \A s \in Stories : order[t][s] = cards[t][s].order

\* Every step keeps OrderInv.
LEMMA OrderKept ==
  ASSUME BoardTypes, OrderInv, [Next]_vars
  PROVE  OrderInv'
<1>1. ASSUME NEW t \in Tabs, NEW drag \in Drags, Send(t, drag) PROVE OrderInv'
  <2> DEFINE n == Len(requests)
  <2>1. /\ n \in Nat /\ DOMAIN requests = 1 .. n /\ DOMAIN requests' = 1 .. n + 1
        /\ \A j \in DOMAIN requests : requests'[j] = requests[j]
        /\ requests'[n + 1].tab = t
        /\ cards' = [cards EXCEPT ![t] = Moved(cards[t], drag)]
        /\ order' \in [Tabs -> [Stories -> Nat]] /\ \A u \in Tabs \ {t} : order'[u] = order[u]
        /\ list' = [list EXCEPT ![t] = Stable(list[t], order'[t])]
    BY <1>1, SendIs
  <2>2. n + 1 \in DOMAIN requests' /\ DOMAIN requests \subseteq DOMAIN requests'
    BY <2>1
  <2> HIDE DEF n
  <2>3. /\ ~ Watches(t)'
        /\ \A u \in Tabs : Watches(u)' => Watches(u)
    BY <2>1, <2>2 DEF Watches
  <2>4. \A i, j \in 1 .. Len(list'[t]) : i < j => order'[t][list'[t][i]] <= order'[t][list'[t][j]]
    BY <2>1, ListTypes
  <2>5. \A u \in Tabs \ {t} : cards'[u] = cards[u] /\ list'[u] = list[u]
    BY <2>1 DEF BoardTypes
  <2>6. ASSUME NEW u \in Tabs
        PROVE  /\ \A i, j \in 1 .. Len(list'[u]) : i < j => order'[u][list'[u][i]] <= order'[u][list'[u][j]]
               /\ Watches(u)' => \A s \in Stories : order'[u][s] = cards'[u][s].order
    <3>1. CASE u = t
      BY <2>3, <2>4, <3>1
    <3>2. CASE u # t
      <4>1. cards'[u] = cards[u] /\ list'[u] = list[u] /\ order'[u] = order[u]
        BY <2>1, <2>5, <3>2
      <4> QED BY <2>3, <4>1 DEF OrderInv
    <3> QED BY <3>1, <3>2
  <2> QED BY <2>6 DEF OrderInv
<1>2. ASSUME NEW i \in DOMAIN requests,
             \/ Validate(i) \/ LoadAnchor(i) \/ ListCards(i) \/ Place(i) \/ ChangeStatus(i)
             \/ Emit(i) \/ LoseMessage(i)
      PROVE  OrderInv'
  <2>1. /\ DOMAIN requests' = DOMAIN requests
        /\ \A j \in DOMAIN requests : requests'[j].tab = requests[j].tab
        /\ UNCHANGED <<waiting, loads, cards, order, list>>
    BY <1>2, ServerIs
  <2>2. \A t \in Tabs : Watches(t)' => Watches(t)
    BY <2>1, WatchesStays
  <2> QED BY <2>1, <2>2 DEF OrderInv
<1>3. CASE UNCHANGED <<requests, cards, order, list>>
  BY <1>3 DEF OrderInv, Watches
<1>4. ASSUME NEW t \in Tabs, Receive(t) \/ Load(t) PROVE OrderInv'
  BY <1>3, <1>4 DEF Receive, Load
<1>5. ASSUME NEW t \in Tabs, NEW i, Query(t, i) \/ LoadFails(t, i) PROVE OrderInv'
  BY <1>3, <1>5 DEF Query, LoadFails
<1>6. ASSUME NEW t \in Tabs, NEW i, Answer(t, i) PROVE OrderInv'
  <2>1. /\ requests' = requests
        /\ \A u \in Tabs \ {t} : cards'[u] = cards[u]
        /\ order' \in [Tabs -> [Stories -> Nat]] /\ \A u \in Tabs \ {t} : order'[u] = order[u]
        /\ \A s \in Stories : order'[t][s] = cards'[t][s].order
        /\ list' = [list EXCEPT ![t] = Stable(list[t], order'[t])]
    BY <1>6, AnswerIs
  <2>2. \A i1, j1 \in 1 .. Len(list'[t]) : i1 < j1 => order'[t][list'[t][i1]] <= order'[t][list'[t][j1]]
    BY <2>1, ListTypes
  <2>3. \A u \in Tabs \ {t} : list'[u] = list[u]
    BY <2>1 DEF BoardTypes
  <2>4. \A u \in Tabs : Watches(u)' => Watches(u)
    BY <2>1 DEF Watches
  <2>5. ASSUME NEW u \in Tabs
        PROVE  /\ \A k, j \in 1 .. Len(list'[u]) : k < j => order'[u][list'[u][k]] <= order'[u][list'[u][j]]
               /\ Watches(u)' => \A s \in Stories : order'[u][s] = cards'[u][s].order
    <3>1. CASE u = t
      BY <2>1, <2>2, <3>1
    <3>2. CASE u # t
      <4>1. cards'[u] = cards[u] /\ list'[u] = list[u] /\ order'[u] = order[u]
        BY <2>1, <2>3, <3>2
      <4> QED BY <2>4, <4>1 DEF OrderInv
    <3> QED BY <3>1, <3>2
  <2> QED BY <2>5 DEF OrderInv
<1>7. CASE UNCHANGED vars
  BY <1>3, <1>7 DEF vars
<1> QED BY <1>1, <1>2, <1>4, <1>5, <1>6, <1>7, NextCases

\* Initially all tabs show the database.
LEMMA InitBoard ==
  ASSUME Init
  PROVE  OwnInv /\ IdsInv /\ ShownInv /\ OrderInv
<1>1. BoardTypes
  BY InitTypes
<1>2. /\ requests = <<>> /\ loads = [t \in Tabs |-> <<>>] /\ cards = [t \in Tabs |-> rows]
      /\ order = [t \in Tabs |-> [s \in Stories |-> s]]
      /\ list = [t \in Tabs |-> Sorted(rows, Stories)]
      /\ \A s \in Stories : rows[s].order = s
  BY DEF Init
<1>3. OwnInv /\ IdsInv
  BY <1>2 DEF OwnInv, IdsInv
<1>4. ShownInv
  <2>1. \A t \in Tabs : DOMAIN loads[t] = {} /\ cards[t] = rows
    BY <1>2
  <2> QED BY <2>1 DEF ShownInv, Shows, Agree
<1>5. OrderInv
  <2>1. SortedList(Sorted(rows, Stories), Stories, RowOrder(rows))
    BY <1>1, SortedSorts DEF BoardTypes
  <2> DEFINE q == Sorted(rows, Stories)
  <2>2. q \in Seq(Stories) /\ \A i, j \in 1 .. Len(q) : i < j => <<q[i], q[j]>> \in RowOrder(rows)
    BY <2>1 DEF SortedList
  <2> HIDE DEF q
  <2>3. \A i, j \in 1 .. Len(q) : i < j => q[i] <= q[j]
    <3> TAKE i, j \in 1 .. Len(q)
    <3> HAVE i < j
    <3>1. q[i] \in Stories /\ q[j] \in Stories /\ Before(rows, q[i], q[j])
      BY <2>2 DEF RowOrder
    <3>2. q[i] \in Nat /\ q[j] \in Nat
      BY <3>1, StoriesAssumption
    <3> QED BY <1>2, <3>1, <3>2 DEF Before
  <2>4. \A i \in 1 .. Len(q) : q[i] \in Stories
    BY <2>2
  <2>5. \A t \in Tabs : /\ list[t] = q /\ \A s \in Stories : order[t][s] = s /\ cards[t][s].order = s
    BY <1>2 DEF q
  <2> QED BY <2>3, <2>4, <2>5 DEF OrderInv
<1> QED BY <1>3, <1>4, <1>5

\* Nothing is on its way: what the tab shows of a card without accidents agrees with its row.
LEMMA QuietAgrees ==
  ASSUME ShownInv, NEW t \in Tabs, Quiet(t), NEW s \in Stories \ suspect[t]
  PROVE  Agree(t, cards[t][s], rows[s])
<1>1. Calm /\ inbox[t] = <<>> /\ waiting[t] = {} /\ loads[t] = <<>>
  BY DEF Quiet
<1>2. s \notin Unsaved(t)
  BY <1>1, UnsavedIs DEF Calm, Unfinished
<1>3. ~ Announced(t, s)
  BY <1>1 DEF Announced, Calm
<1>4. Shows(t, s)
  BY <1>2, <1>3 DEF ShownInv, Settled
<1> QED BY <1>1, <1>4 DEF Shows

\* That is StaleOnlyAfterAccident.
LEMMA StaleMeansAccident ==
  ASSUME ShownInv
  PROVE  StaleOnlyAfterAccident
BY QuietAgrees DEF StaleOnlyAfterAccident, Agree

\* Lists sorted by the positions of the database have its order where there are no ties.
LEMMA WatcherSeesOrder ==
  ASSUME BoardTypes, ShownInv, OrderInv
  PROVE  WatcherShowsOrder
<1> SUFFICES ASSUME NEW t \in Tabs, Quiet(t), suspect[t] = {}, Ties(rows) = {}, Watches(t),
                    NEW status \in Statuses
             PROVE  Shown(t, status) = Column(rows, status)
  BY DEF WatcherShowsOrder, Watches
<1> DEFINE q == list[t]
           I == {i \in DOMAIN q : cards[t][q[i]].status = status}
           c == Shown(t, status)
           S == InStatus(rows, status)
<1>1. rows \in Rows /\ AllOnce(q) /\ q \in Seq(Stories) /\ Distinct(q)
  BY DEF BoardTypes, AllOnce
<1>2. \A s \in Stories : cards[t][s] = rows[s]
  BY QuietAgrees DEF Agree
<1>3. \A s \in Stories : order[t][s] = rows[s].order
  BY <1>2 DEF OrderInv
<1>4. \A i, j \in 1 .. Len(q) : i < j => rows[q[i]].order <= rows[q[j]].order
  <2>1. \A i \in 1 .. Len(q) : q[i] \in Stories
    BY <1>1
  <2> QED BY <1>3, <2>1 DEF OrderInv
<1>5. /\ c \in Seq(Stories) /\ Distinct(c) /\ ToSet(c) = S
  <2>1. {s \in Stories : cards[t][s].status = status} = S
    BY <1>2 DEF InStatus
  <2>2. Shown(t, status) \in Seq(Stories) /\ Distinct(Shown(t, status))
    BY <1>1, ShownAre
  <2>3. ToSet(Shown(t, status)) = {s \in Stories : cards[t][s].status = status}
    BY <1>1, ShownAre
  <2> QED BY <2>1, <2>2, <2>3
<1>6. I \in SUBSET (1 .. Len(q)) /\ c = Chosen(q, I)
  BY <1>1 DEF Shown
<1> HIDE DEF c, I, q, S
<1>7. PICK p : /\ SortedList(p, I, Less(I))
               /\ p \in [1 .. Len(p) -> I] /\ Len(p) \in Nat
               /\ \A k \in 1 .. Len(p) : p[k] \in 1 .. Len(q) /\ p[k] \in Int
               /\ Chosen(q, I) = [k \in 1 .. Len(p) |-> q[p[k]]]
               /\ Chosen(q, I) \in Seq(Stories)
  BY <1>1, <1>6, ChosenPlaces, Zenon
<1>8. Len(c) = Len(p) /\ \A k \in 1 .. Len(p) : c[k] = q[p[k]]
  BY <1>5, <1>6, <1>7
<1>9. \A k \in 1 .. Len(c) : c[k] \in S /\ c[k] \in Stories
  BY <1>5, ToSetIs
<1>10. c \in Seq(S) /\ \A s \in S : \E k \in 1 .. Len(c) : c[k] = s
  BY <1>5, <1>9, ToSetIs
<1>11. ASSUME NEW i \in 1 .. Len(c), NEW j \in 1 .. Len(c), i < j
       PROVE  <<c[i], c[j]>> \in RowOrder(rows)
  <2>1. p[i] < p[j] /\ p[i] \in 1 .. Len(q) /\ p[j] \in 1 .. Len(q)
    BY <1>7, <1>8, <1>11 DEF SortedList, Less
  <2>2. rows[c[i]].order <= rows[c[j]].order
    BY <1>4, <1>8, <2>1
  <2>3. c[i] # c[j]
    <3>1. i # j
      BY <1>11
    <3> QED BY <1>5, <3>1 DEF Distinct
  <2>4. c[i] \in Stories /\ c[j] \in Stories /\ rows[c[i]].status = rows[c[j]].status
    BY <1>9 DEF S, InStatus
  <2>5. rows[c[i]].order # rows[c[j]].order
    BY <2>3, <2>4, TiesAre
  <2>6. rows[c[i]].order \in Nat /\ rows[c[j]].order \in Nat
    BY <1>1, <2>4 DEF Rows
  <2>7. Before(rows, c[i], c[j])
    BY <2>2, <2>5, <2>6 DEF Before
  <2> QED BY <2>4, <2>7 DEF RowOrder
<1>12. SortedList(c, S, RowOrder(rows))
  BY <1>10, <1>11 DEF SortedList
<1>13. Column(rows, status) = c
  BY <1>1, <1>12, ColumnIs DEF S
<1> QED BY <1>13 DEF c

-----------------------------------------------------------------------------
(* The theorems.                                                           *)

BoardInv == BoardTypes /\ AloneInv /\ OwnInv /\ IdsInv /\ ShownInv /\ OrderInv

\* The inductive invariant: what the tabs, the messages, the loads and the requests have to do
\* with the rows of the database while drags overlap, messages are lost and loads fail.
THEOREM BoardStays == Spec => []BoardInv
<1>1. Init => BoardInv
  BY InitTypes, InitAlone, InitBoard DEF BoardInv
<1>2. BoardInv /\ [Next]_vars => BoardInv'
  BY TypesKept, AloneKept, OwnKept, IdsKept, ShownKept, OrderKept DEF BoardInv
<1> QED BY <1>1, <1>2, PTL DEF Spec

\* update_userstories_kanban_order_in_bulk puts the cards of a drag where the user put them and
\* leaves the order of all the others, in whatever columns, whatever drags shaped the board.
THEOREM DragsKeepTheOrder == Spec => []DragKeepsOrder
<1>1. BoardInv => DragKeepsOrder
  BY DragsKeepOrder DEF BoardInv, BoardTypes
<1> QED BY <1>1, BoardStays, PTL

\* Drags whose requests the server handles one after the other never leave two cards of a column
\* at one position.
THEOREM TiesNeedOverlap == Spec => []TiesOnlyFromOverlap
<1>1. BoardInv => TiesOnlyFromOverlap
  BY TiesMeanOverlap DEF BoardInv
<1> QED BY <1>1, BoardStays, PTL

\* When all messages and answers have come, a tab shows every card in its column, unless the
\* card had one of the accidents that the debounce of the events, failing or overtaking loads and
\* refused drags can cause.
THEOREM StaleNeedsAccident == Spec => []StaleOnlyAfterAccident
<1>1. BoardInv => StaleOnlyAfterAccident
  BY StaleMeansAccident DEF BoardInv
<1> QED BY <1>1, BoardStays, PTL

\* The tab of a user who drags nothing shows the columns in the order of the database then.
THEOREM WatchersShowOrder == Spec => []WatcherShowsOrder
<1>1. BoardInv => WatcherShowsOrder
  BY WatcherSeesOrder DEF BoardInv
<1> QED BY <1>1, BoardStays, PTL

=============================================================================
