---------------------------- MODULE TrackerProofs ----------------------------
(***************************************************************************)
(* Proofs about the computation of Leveling, about ObjectiveHistory and    *)
(* about Tracker, for any number of callers, profiles, objectives,         *)
(* attempts and dates, and for any engine constants unless a theorem says  *)
(* otherwise.  From the general to the particular: induction, ranks and    *)
(* sums; what the computation makes of a set of attempts; the history of   *)
(* one objective; record_attempt and the queries of the tracker.           *)
(***************************************************************************)
EXTENDS TrackerQueries, ObjectiveHistory, FiniteSetTheorems, FunctionTheorems,
        SequenceTheorems, WellFoundedInduction, TLAPS

-----------------------------------------------------------------------------
(* Induction, about a set instead of an operator. *)
LEMMA NatSetInduction ==
  ASSUME NEW S, 0 \in S, \A n \in S \cap Nat : n + 1 \in S
  PROVE  Nat \subseteq S
<1> SUFFICES ASSUME Nat \ S # {} PROVE FALSE
  OBVIOUS
<1>1. PICK n \in Nat \ S : \A m \in Nat \ S : ~ (<<m, n>> \in OpToRel(<, Nat))
  BY NatLessThanWellFounded, WFMin
<1>2. \A m \in Nat \ S : ~ (m < n)
  BY <1>1 DEF OpToRel
<1>3. n # 0 /\ n - 1 \in Nat /\ n - 1 < n /\ (n - 1) + 1 = n
  BY SMT
<1> QED BY <1>2, <1>3

LEMMA FiniteSetInduction ==
  ASSUME NEW S, IsFiniteSet(S), NEW F, {} \in F,
         \A T \in SUBSET S, x \in S : T \in F /\ x \notin T => T \cup {x} \in F
  PROVE  S \in F
<1> DEFINE N == {n \in Nat : \A T \in SUBSET S : Cardinality(T) = n => T \in F}
<1>1. 0 \in N
  BY FS_Subset, FS_EmptySet
<1>2. ASSUME NEW n \in N PROVE n + 1 \in N
  <2> SUFFICES ASSUME NEW T \in SUBSET S, Cardinality(T) = n + 1 PROVE T \in F
    BY <1>2
  <2>1. IsFiniteSet(T) /\ T # {}
    BY <1>2, FS_Subset, FS_EmptySet
  <2>2. PICK x \in T : TRUE
    BY <2>1
  <2>3. Cardinality(T \ {x}) = n
    <3>1. Cardinality(T \ {x}) = Cardinality(T) - 1
      BY <2>1, FS_RemoveElement
    <3> QED BY <1>2, <3>1
  <2>4. T \ {x} \in F
    BY <1>2, <2>3
  <2> QED BY <2>4
<1>3. Nat \subseteq N
  <2> HIDE DEF N
  <2> QED BY <1>1, <1>2, NatSetInduction
<1> QED BY <1>3, FS_CardinalityType

-----------------------------------------------------------------------------
(* The rank of an element is the number of those before it. *)
Rank(S, R, x) == Cardinality({y \in S : <<y, x>> \in R})

Orders(S, R) ==
  /\ \A x \in S : <<x, x>> \notin R
  /\ \A x, y, z \in S : <<x, y>> \in R /\ <<y, z>> \in R => <<x, z>> \in R
  /\ \A x, y \in S : x = y \/ <<x, y>> \in R \/ <<y, x>> \in R

LEMMA RanksFollowTheOrder ==
  ASSUME NEW S, IsFiniteSet(S), NEW R, Orders(S, R)
  PROVE  /\ \A x \in S : Rank(S, R, x) \in 0..(Cardinality(S) - 1)
         /\ \A x, y \in S : <<x, y>> \in R => Rank(S, R, x) < Rank(S, R, y)
<1> DEFINE Ahead(x) == {y \in S : <<y, x>> \in R}
<1>1. \A x \in S : IsFiniteSet(Ahead(x)) /\ Cardinality(Ahead(x)) \in Nat
  BY FS_Subset, FS_CardinalityType
<1>2. ASSUME NEW x \in S PROVE Rank(S, R, x) \in 0..(Cardinality(S) - 1)
  <2>1. Ahead(x) \in SUBSET (S \ {x})
    BY DEF Orders
  <2>2. IsFiniteSet(S \ {x}) /\ Cardinality(S \ {x}) = Cardinality(S) - 1 /\ Cardinality(S) \in Nat
    BY FS_RemoveElement, FS_CardinalityType
  <2>3. Cardinality(Ahead(x)) <= Cardinality(S) - 1
    <3> HIDE DEF Ahead
    <3>1. Cardinality(Ahead(x)) <= Cardinality(S \ {x})
      BY <2>1, <2>2, FS_Subset
    <3> QED BY <2>2, <3>1
  <2> QED BY <1>1, <2>2, <2>3 DEF Rank
<1>3. ASSUME NEW x \in S, NEW y \in S, <<x, y>> \in R PROVE Rank(S, R, x) < Rank(S, R, y)
  <2>1. Ahead(x) \in SUBSET Ahead(y) /\ x \in Ahead(y) \ Ahead(x)
    BY <1>3 DEF Orders
  <2>2. /\ Cardinality(Ahead(x)) <= Cardinality(Ahead(y))
        /\ Cardinality(Ahead(x)) # Cardinality(Ahead(y))
    BY <1>1, <2>1, FS_Subset
  <2> HIDE DEF Ahead
  <2>3. Cardinality(Ahead(x)) \in Nat /\ Cardinality(Ahead(y)) \in Nat
    BY <1>1
  <2>4. Cardinality(Ahead(x)) < Cardinality(Ahead(y))
    BY <2>2, <2>3
  <2> QED BY <2>4 DEF Rank, Ahead
<1> QED BY <1>2, <1>3

LEMMA EveryRankIsTaken ==
  ASSUME NEW S, IsFiniteSet(S), NEW R, Orders(S, R)
  PROVE  \A i \in 0..(Cardinality(S) - 1) : \E x \in S : Rank(S, R, x) = i
<1> DEFINE n == Cardinality(S)
           f == [x \in S |-> Rank(S, R, x)]
<1>1. n \in Nat
  BY FS_CardinalityType
<1>2. \A x \in S : f[x] \in 0..(n - 1)
  BY RanksFollowTheOrder
<1>3. \A x, y \in S : f[x] = f[y] => x = y
  <2> SUFFICES ASSUME NEW x \in S, NEW y \in S, Rank(S, R, x) = Rank(S, R, y), x # y PROVE FALSE
    OBVIOUS
  <2>1. Rank(S, R, x) \in 0..(n - 1) /\ Rank(S, R, y) \in 0..(n - 1)
    BY RanksFollowTheOrder
  <2>2. Rank(S, R, x) < Rank(S, R, y) \/ Rank(S, R, y) < Rank(S, R, x)
    BY RanksFollowTheOrder DEF Orders
  <2> QED BY <1>1, <2>1, <2>2
<1>4. f \in Injection(S, 0..(n - 1))
  BY <1>2, <1>3 DEF Injection, IsInjective
<1>5. IsFiniteSet(0..(n - 1)) /\ Cardinality(0..(n - 1)) = n
  BY <1>1, FS_Interval
<1>6. f \in Surjection(S, 0..(n - 1))
  BY <1>4, <1>5, FS_Injection
<1> QED BY <1>6 DEF Surjection

LEMMA Horizons == Horizon \in Nat /\ 0 \in Time
BY RetentionAssumption DEF Time

(* The sorted list of a set: every element once, in the order. *)
Listing(S, R) == [i \in 1..Cardinality(S) |-> CHOOSE x \in S : Rank(S, R, x) = i - 1]

LEMMA ListingIsSorted ==
  ASSUME NEW S, IsFiniteSet(S), NEW R, Orders(S, R)
  PROVE  LET ordered == Listing(S, R) IN
         /\ ordered \in Seq(S) /\ Len(ordered) = Cardinality(S)
         /\ \A i \in 1..Len(ordered) : Rank(S, R, ordered[i]) = i - 1
         /\ \A x \in S : /\ Rank(S, R, x) + 1 \in 1..Len(ordered)
                         /\ ordered[Rank(S, R, x) + 1] = x
         /\ \A i, j \in 1..Len(ordered) : i < j => <<ordered[i], ordered[j]>> \in R
<1> DEFINE ordered == Listing(S, R)
           n == Cardinality(S)
<1>1. n \in Nat
  BY FS_CardinalityType
<1>2. \A i \in 1..n : ordered[i] \in S /\ Rank(S, R, ordered[i]) = i - 1
  <2> SUFFICES ASSUME NEW i \in 1..n PROVE ordered[i] \in S /\ Rank(S, R, ordered[i]) = i - 1
    OBVIOUS
  <2>1. i - 1 \in 0..(n - 1)
    BY <1>1
  <2>2. \E x \in S : Rank(S, R, x) = i - 1
    BY <2>1, EveryRankIsTaken
  <2> QED BY <2>2 DEF Listing
<1>3. ordered \in [1..n -> S]
  BY <1>2 DEF Listing
<1>4. ordered \in Seq(S) /\ Len(ordered) = n
  <2> HIDE DEF ordered
  <2> QED BY <1>1, <1>3
<1>5. \A x, y \in S : Rank(S, R, x) = Rank(S, R, y) => x = y
  <2> SUFFICES ASSUME NEW x \in S, NEW y \in S, Rank(S, R, x) = Rank(S, R, y), x # y PROVE FALSE
    OBVIOUS
  <2>1. Rank(S, R, x) \in 0..(n - 1) /\ Rank(S, R, y) \in 0..(n - 1)
    BY RanksFollowTheOrder
  <2>2. Rank(S, R, x) < Rank(S, R, y) \/ Rank(S, R, y) < Rank(S, R, x)
    BY RanksFollowTheOrder DEF Orders
  <2> QED BY <1>1, <2>1, <2>2
<1> HIDE DEF ordered
<1>6. ASSUME NEW x \in S
      PROVE  Rank(S, R, x) + 1 \in 1..n /\ ordered[Rank(S, R, x) + 1] = x
  <2>1. Rank(S, R, x) \in 0..(n - 1)
    BY RanksFollowTheOrder
  <2>2. Rank(S, R, x) + 1 \in 1..n /\ (Rank(S, R, x) + 1) - 1 = Rank(S, R, x)
    BY <1>1, <2>1
  <2>3. /\ ordered[Rank(S, R, x) + 1] \in S
        /\ Rank(S, R, ordered[Rank(S, R, x) + 1]) = Rank(S, R, x)
    BY <1>2, <2>2
  <2> QED BY <1>5, <2>2, <2>3
<1>7. ASSUME NEW i \in 1..n, NEW j \in 1..n, i < j PROVE <<ordered[i], ordered[j]>> \in R
  <2>1. /\ ordered[i] \in S /\ ordered[j] \in S
        /\ Rank(S, R, ordered[i]) = i - 1 /\ Rank(S, R, ordered[j]) = j - 1
    BY <1>2
  <2>2. ~ (Rank(S, R, ordered[j]) < Rank(S, R, ordered[i])) /\ ordered[i] # ordered[j]
    BY <1>1, <1>7, <2>1
  <2>3. <<ordered[j], ordered[i]>> \notin R
    BY <2>1, <2>2, RanksFollowTheOrder
  <2> QED BY <2>1, <2>2, <2>3 DEF Orders
<1> QED BY <1>2, <1>4, <1>6, <1>7 DEF ordered

(* A list of the elements by rank is that list. *)
LEMMA ListingIsUnique ==
  ASSUME NEW S, IsFiniteSet(S), NEW R, Orders(S, R),
         NEW ordered \in Seq(S), Len(ordered) = Cardinality(S),
         \A i \in 1..Len(ordered) : Rank(S, R, ordered[i]) = i - 1
  PROVE  ordered = Listing(S, R)
<1> DEFINE other == Listing(S, R)
<1>1. /\ other \in Seq(S) /\ Len(other) = Cardinality(S)
      /\ \A x \in S : other[Rank(S, R, x) + 1] = x
  BY ListingIsSorted
<1>2. Cardinality(S) \in Nat
  BY FS_CardinalityType
<1> HIDE DEF other
<1>3. ASSUME NEW i \in 1..Len(ordered) PROVE ordered[i] = other[i]
  <2>1. ordered[i] \in S /\ Rank(S, R, ordered[i]) = i - 1
    OBVIOUS
  <2>2. (i - 1) + 1 = i
    BY <1>2
  <2> QED BY <1>1, <2>1, <2>2
<1>4. ordered = other
  BY <1>1, <1>3
<1> QED BY <1>4 DEF other

-----------------------------------------------------------------------------
(* A history: finitely many attempts, of which no two have the same id. *)
IsHistory(S) ==
  /\ IsFiniteSet(S)
  /\ \A a \in S : a.attempt_id \in Nat /\ a.at \in Time /\ a.correct \in BOOLEAN
  /\ \A a, b \in S : a.attempt_id = b.attempt_id => a = b

Earlier(S) == {p \in S \X S : Before(p[1], p[2])}

LEMMA BeforeOrders ==
  ASSUME NEW S, IsHistory(S)
  PROVE  Orders(S, Earlier(S))
<1>1. \A a \in S : a.at \in Int /\ a.attempt_id \in Int
  BY Horizons DEF IsHistory, Time
<1>2. \A x, y \in S : <<x, y>> \in Earlier(S) <=> Before(x, y)
  BY DEF Earlier
<1>3. \A x \in S : ~Before(x, x)
  BY <1>1 DEF Before
<1>4. \A x, y, z \in S : Before(x, y) /\ Before(y, z) => Before(x, z)
  BY <1>1 DEF Before
<1>5. \A x, y \in S : x = y \/ Before(x, y) \/ Before(y, x)
  <2> SUFFICES ASSUME NEW x \in S, NEW y \in S, x # y PROVE Before(x, y) \/ Before(y, x)
    OBVIOUS
  <2>1. x.attempt_id # y.attempt_id
    BY DEF IsHistory
  <2> QED BY <1>1, <2>1 DEF Before
<1> QED BY <1>2, <1>3, <1>4, <1>5 DEF Orders

LEMMA OrderIsListing ==
  ASSUME NEW S, IsHistory(S)
  PROVE  OrderAttempts(S) = Listing(S, Earlier(S))
<1> DEFINE n == Cardinality(S)
           F(i) == CHOOSE x \in S : Cardinality({y \in S : Before(y, x)}) = i - 1
           G(i) == CHOOSE x \in S : Rank(S, Earlier(S), x) = i - 1
           f == [i \in 1..n |-> F(i)]
<1>1. OrderAttempts(S) = SubSeq(f, 1, n)
  BY DEF OrderAttempts, ByRank
<1>2. \A x \in S : Cardinality({y \in S : Before(y, x)}) = Rank(S, Earlier(S), x)
  <2> SUFFICES ASSUME NEW x \in S
               PROVE  Cardinality({y \in S : Before(y, x)}) = Rank(S, Earlier(S), x)
    OBVIOUS
  <2>1. {y \in S : Before(y, x)} = {y \in S : <<y, x>> \in Earlier(S)}
    BY DEF Earlier
  <2> QED BY <2>1 DEF Rank
<1>3. \A i : F(i) = G(i)
  BY <1>2
<1>4. f = Listing(S, Earlier(S))
  <2>1. Listing(S, Earlier(S)) = [i \in 1..n |-> G(i)]
    BY DEF Listing
  <2> HIDE DEF F, G, n
  <2> QED BY <1>3, <2>1
<1>5. Listing(S, Earlier(S)) \in Seq(S) /\ Len(Listing(S, Earlier(S))) = n /\ IsFiniteSet(S)
  BY ListingIsSorted, BeforeOrders DEF IsHistory
<1> HIDE DEF f
<1>6. SubSeq(Listing(S, Earlier(S)), 1, n) = Listing(S, Earlier(S))
  BY <1>5
<1> QED BY <1>1, <1>4, <1>6

LEMMA Ordered ==
  ASSUME NEW S, IsHistory(S)
  PROVE  LET ordered == OrderAttempts(S) IN
         /\ Cardinality(S) \in Nat /\ Len(ordered) = Cardinality(S) /\ ordered \in Seq(S)
         /\ \A x \in S : \E i \in 1..Len(ordered) : ordered[i] = x
         /\ \A i, j \in 1..Len(ordered) : i < j => Before(ordered[i], ordered[j])
<1> DEFINE ordered == OrderAttempts(S)
<1>1. IsFiniteSet(S) /\ Orders(S, Earlier(S)) /\ Cardinality(S) \in Nat
  BY BeforeOrders, FS_CardinalityType DEF IsHistory
<1>2. ordered = Listing(S, Earlier(S))
  BY OrderIsListing
<1> HIDE DEF ordered
<1>3. /\ ordered \in Seq(S) /\ Len(ordered) = Cardinality(S)
      /\ \A x \in S : /\ Rank(S, Earlier(S), x) + 1 \in 1..Len(ordered)
                      /\ ordered[Rank(S, Earlier(S), x) + 1] = x
      /\ \A i, j \in 1..Len(ordered) : i < j => <<ordered[i], ordered[j]>> \in Earlier(S)
  BY <1>1, <1>2, ListingIsSorted
<1>4. \A i, j \in 1..Len(ordered) : i < j => Before(ordered[i], ordered[j])
  BY <1>3 DEF Earlier
<1>5. \A x \in S : \E i \in 1..Len(ordered) : ordered[i] = x
  BY <1>3
<1> QED BY <1>1, <1>3, <1>4, <1>5 DEF ordered

LEMMA InForceIsHistory ==
  ASSUME NEW S, IsHistory(S), NEW t
  PROVE  IsHistory(InForce(S, t))
<1>1. InForce(S, t) \in SUBSET S
  BY DEF InForce
<1> QED BY <1>1, FS_Subset DEF IsHistory

(* The latest attempt comes last. *)
LEMMA LatestIsLast ==
  ASSUME NEW S, NEW a, IsHistory(S \cup {a}), a \notin S, \A b \in S : Before(b, a)
  PROVE  OrderAttempts(S \cup {a}) = Append(OrderAttempts(S), a)
<1> DEFINE T == S \cup {a}
           ordered == OrderAttempts(S)
           longer == Append(ordered, a)
<1>1. IsHistory(S)
  <2>1. S \in SUBSET T
    OBVIOUS
  <2> QED BY <2>1, FS_Subset DEF IsHistory
<1>2. /\ IsFiniteSet(S) /\ IsFiniteSet(T) /\ Cardinality(S) \in Nat
      /\ Cardinality(T) = Cardinality(S) + 1
  BY <1>1, FS_AddElement, FS_CardinalityType DEF IsHistory
<1>3. ordered \in Seq(S) /\ Len(ordered) = Cardinality(S)
  BY <1>1, Ordered
<1>4. Orders(S, Earlier(S)) /\ Orders(T, Earlier(T))
  BY <1>1, BeforeOrders
<1>5. \A x \in S : Rank(T, Earlier(T), x) = Rank(S, Earlier(S), x)
  <2> SUFFICES ASSUME NEW x \in S PROVE Rank(T, Earlier(T), x) = Rank(S, Earlier(S), x)
    OBVIOUS
  <2>1. <<a, x>> \notin Earlier(T)
    <3>1. <<x, a>> \in Earlier(T)
      BY DEF Earlier
    <3> QED BY <1>4, <3>1 DEF Orders
  <2>2. {y \in T : <<y, x>> \in Earlier(T)} = {y \in S : <<y, x>> \in Earlier(S)}
    BY <2>1 DEF Earlier
  <2> QED BY <2>2 DEF Rank
<1>6. Rank(T, Earlier(T), a) = Cardinality(S)
  <2>1. {y \in T : <<y, a>> \in Earlier(T)} = S
    <3>1. <<a, a>> \notin Earlier(T)
      BY <1>4 DEF Orders
    <3> QED BY <3>1 DEF Earlier
  <2> QED BY <2>1 DEF Rank
<1>7. \A i \in 1..Len(ordered) : Rank(S, Earlier(S), ordered[i]) = i - 1
  <2> DEFINE L == Listing(S, Earlier(S))
  <2>1. ordered = L
    BY <1>1, OrderIsListing
  <2>2. \A i \in 1..Len(L) : Rank(S, Earlier(S), L[i]) = i - 1
    BY <1>2, <1>4, ListingIsSorted
  <2> HIDE DEF L, ordered
  <2> QED BY <2>1, <2>2
<1>8. OrderAttempts(T) = Listing(T, Earlier(T))
  BY OrderIsListing
<1> HIDE DEF T, ordered
<1>9. longer \in Seq(T) /\ Len(longer) = Cardinality(T)
  BY <1>2, <1>3 DEF T
<1>10. ASSUME NEW i \in 1..Len(longer) PROVE Rank(T, Earlier(T), longer[i]) = i - 1
  <2>1. CASE i \in 1..Len(ordered)
    <3>1. longer[i] = ordered[i] /\ ordered[i] \in S
      BY <1>3, <2>1
    <3> QED BY <1>5, <1>7, <2>1, <3>1
  <2>2. CASE i = Len(ordered) + 1
    <3>1. longer[i] = a
      BY <1>3, <2>2
    <3>2. i - 1 = Cardinality(S)
      BY <1>2, <1>3, <2>2
    <3> QED BY <1>6, <3>1, <3>2
  <2> QED BY <1>2, <1>3, <1>9, <2>1, <2>2
<1>11. longer = Listing(T, Earlier(T))
  <2> HIDE DEF longer
  <2> QED BY <1>2, <1>4, <1>9, <1>10, ListingIsUnique
<1> QED BY <1>8, <1>11 DEF T, ordered

-----------------------------------------------------------------------------
LEMMA MaxOfTwo ==
  ASSUME NEW a \in Int, NEW b \in Int
  PROVE  Max({a, b}) = IF a >= b THEN a ELSE b
<1>1. \E x \in {a, b} : \A y \in {a, b} : x >= y
  BY a <= b \/ b <= a
<1>2. /\ Max({a, b}) \in {a, b}
      /\ Max({a, b}) >= a /\ Max({a, b}) >= b
  BY <1>1 DEF Max
<1> QED BY <1>2

LEMMA MaxUpTo ==
  ASSUME NEW n \in Nat, NEW T \in SUBSET (0..n), T # {}
  PROVE  Max(T) \in T /\ \A x \in T : Max(T) >= x
<1> DEFINE U == {n - x : x \in T}
<1>1. U \subseteq Nat /\ U # {}
  <2>1. \A x \in T : n - x \in Nat
    OBVIOUS
  <2> QED BY <2>1
<1>2. PICK u \in U : \A v \in U : ~ (<<v, u>> \in OpToRel(<, Nat))
  BY <1>1, NatLessThanWellFounded, WFMin
<1>3. PICK x \in T : u = n - x
  BY <1>2
<1>4. ASSUME NEW y \in T PROVE x >= y
  <2>1. n - y \in U /\ n - y \in Nat /\ n - x \in Nat
    BY <1>1
  <2>2. ~ (n - y < n - x)
    BY <1>2, <1>3, <2>1 DEF OpToRel
  <2> QED BY <2>2
<1> QED BY <1>4 DEF Max

(* The window is the end of the list, and all of it while it fits. *)
LEMMA WindowIsTheEnd ==
  ASSUME NEW S, \A a \in S : a.correct \in BOOLEAN, NEW ordered \in Seq(S)
  PROVE  LET window == RecentWindow(ordered)
             n      == Len(ordered)
         IN  /\ window \in Seq(BOOLEAN)
             /\ Len(window) = IF n <= Window THEN n ELSE Window
             /\ \A i \in 1..Len(window) :
                  /\ (n - Len(window)) + i \in 1..n
                  /\ window[i] = ordered[(n - Len(window)) + i].correct
<1> DEFINE n == Len(ordered)
           results == [i \in DOMAIN ordered |-> ordered[i].correct]
           skipped == Max({0, n - Window})
<1>1. n \in Nat /\ Window \in Nat \ {0} /\ DOMAIN ordered = 1..n
  BY CountAssumption
<1>2. skipped = IF n <= Window THEN 0 ELSE n - Window
  <2>1. n - Window \in Int
    BY <1>1
  <2>2. skipped = IF 0 >= n - Window THEN 0 ELSE n - Window
    BY <2>1, MaxOfTwo
  <2> HIDE DEF skipped, n
  <2>3. 0 >= n - Window <=> n <= Window
    BY <1>1
  <2> QED BY <2>2, <2>3
<1>3. results \in Seq(BOOLEAN) /\ Len(results) = n
  BY <1>1
<1>4. RecentWindow(ordered) = SubSeq(results, skipped + 1, n)
  BY DEF RecentWindow
<1>5. \A i \in 1..n : results[i] = ordered[i].correct
  BY <1>1
<1> HIDE DEF results, skipped, n
<1>6. /\ SubSeq(results, skipped + 1, n) \in Seq(BOOLEAN)
      /\ Len(SubSeq(results, skipped + 1, n)) = n - skipped
      /\ \A i \in 1..(n - skipped) : SubSeq(results, skipped + 1, n)[i] = results[skipped + i]
  BY <1>1, <1>2, <1>3
<1>7. n - (n - skipped) = skipped /\ \A i \in 1..(n - skipped) : skipped + i \in 1..n
  BY <1>1, <1>2
<1>8. n - skipped = IF n <= Window THEN n ELSE Window
  BY <1>1, <1>2
<1> DEFINE window == RecentWindow(ordered)
<1>9. /\ window \in Seq(BOOLEAN) /\ Len(window) = n - skipped
      /\ \A i \in 1..(n - skipped) : window[i] = results[skipped + i]
  BY <1>4, <1>6
<1> HIDE DEF window
<1>10. ASSUME NEW i \in 1..Len(window)
       PROVE  /\ (n - Len(window)) + i \in 1..n
              /\ window[i] = ordered[(n - Len(window)) + i].correct
  <2>1. i \in 1..(n - skipped) /\ n - Len(window) = skipped
    BY <1>7, <1>9
  <2>2. skipped + i \in 1..n /\ window[i] = results[skipped + i]
    BY <1>7, <1>9, <2>1
  <2> QED BY <1>5, <2>1, <2>2
<1> QED BY <1>8, <1>9, <1>10 DEF n, window

-----------------------------------------------------------------------------
(* Sums over a set, as the folds of the library define them. *)
Adds(S, h, g) ==
  g = [T \in SUBSET S |->
         IF T = {} THEN 0 ELSE LET x == CHOOSE x \in T : TRUE IN h[x] + g[T \ {x}]]

(* How many of U have their key in T. *)
CountIn(U, key, T) == Cardinality({u \in U : key[u] \in T})

LEMMA CountAddsUp ==
  ASSUME NEW U, IsFiniteSet(U), NEW key, NEW T, NEW x, x \notin T
  PROVE  /\ CountIn(U, key, T) \in Nat
         /\ CountIn(U, key, T \cup {x}) = CountIn(U, key, {x}) + CountIn(U, key, T)
         /\ CountIn(U, key, {}) = 0
<1> DEFINE Of(V) == {u \in U : key[u] \in V}
<1>1. \A V : IsFiniteSet(Of(V)) /\ Cardinality(Of(V)) \in Nat
  <2> SUFFICES ASSUME NEW V PROVE IsFiniteSet(Of(V)) /\ Cardinality(Of(V)) \in Nat
    OBVIOUS
  <2>1. Of(V) \in SUBSET U
    OBVIOUS
  <2> QED BY <2>1, FS_Subset, FS_CardinalityType
<1>2. Of(T \cup {x}) = Of({x}) \cup Of(T) /\ Of({x}) \cap Of(T) = {} /\ Of({}) = {}
  OBVIOUS
<1> HIDE DEF Of
<1>3. Cardinality(Of({x}) \cup Of(T))
        = Cardinality(Of({x})) + Cardinality(Of(T)) - Cardinality(Of({x}) \cap Of(T))
  BY <1>1, FS_Union
<1>4. Cardinality(Of(T \cup {x})) = Cardinality(Of({x})) + Cardinality(Of(T))
  <2>1. Cardinality(Of({x}) \cap Of(T)) = 0
    BY <1>2, FS_EmptySet
  <2>2. Cardinality(Of({x})) \in Nat /\ Cardinality(Of(T)) \in Nat
    BY <1>1
  <2>3. Cardinality(Of({x}) \cup Of(T)) = Cardinality(Of({x})) + Cardinality(Of(T))
    BY <1>3, <2>1, <2>2
  <2> QED BY <1>2, <2>3
<1>5. Cardinality(Of({})) = 0
  BY <1>2, FS_EmptySet
<1> QED BY <1>1, <1>4, <1>5 DEF CountIn, Of

LEMMA CountIsASum ==
  ASSUME NEW S, NEW U, IsFiniteSet(U), NEW key, NEW h,
         \A x \in S : h[x] = CountIn(U, key, {x})
  PROVE  Adds(S, h, [T \in SUBSET S |-> CountIn(U, key, T)])
<1> DEFINE g == [T \in SUBSET S |-> CountIn(U, key, T)]
<1>1. ASSUME NEW T \in SUBSET S
      PROVE  g[T] = IF T = {} THEN 0
                    ELSE LET x == CHOOSE x \in T : TRUE IN h[x] + g[T \ {x}]
  <2>1. CASE T = {}
    <3>1. CountIn(U, key, {}) = 0
      <4>1. {u \in U : key[u] \in {}} = {}
        OBVIOUS
      <4> QED BY <4>1, FS_EmptySet DEF CountIn
    <3> QED BY <2>1, <3>1
  <2>2. CASE T # {}
    <3> DEFINE x == CHOOSE x \in T : TRUE
               V == T \ {x}
    <3>1. x \in T
      BY <2>2
    <3> HIDE DEF x
    <3>2. V \in SUBSET S /\ x \in S \ V /\ V \cup {x} = T
      BY <3>1
    <3> HIDE DEF V
    <3>3. CountIn(U, key, T) = CountIn(U, key, {x}) + CountIn(U, key, V)
      BY <3>2, CountAddsUp
    <3>4. g[T] = h[x] + g[V]
      BY <3>2, <3>3
    <3> QED BY <2>2, <3>4 DEF x, V
  <2> QED BY <2>1, <2>2
<1>2. g = [T \in SUBSET S |-> g[T]]
  OBVIOUS
<1> HIDE DEF g
<1>3. Adds(S, h, g)
  BY <1>1, <1>2 DEF Adds
<1> QED BY <1>3 DEF g

LEMMA SumsAreUnique ==
  ASSUME NEW S, IsFiniteSet(S), NEW h, NEW f, Adds(S, h, f), NEW g, Adds(S, h, g)
  PROVE  f[S] = g[S]
<1> DEFINE N == {n \in Nat : \A T \in SUBSET S : Cardinality(T) = n => f[T] = g[T]}
<1>1. 0 \in N
  <2>1. ASSUME NEW T \in SUBSET S, Cardinality(T) = 0 PROVE f[T] = g[T]
    <3>1. T = {}
      BY <2>1, FS_Subset, FS_EmptySet
    <3> QED BY <3>1 DEF Adds
  <2> QED BY <2>1
<1>2. ASSUME NEW n \in N PROVE n + 1 \in N
  <2> SUFFICES ASSUME NEW T \in SUBSET S, Cardinality(T) = n + 1 PROVE f[T] = g[T]
    BY <1>2
  <2> DEFINE x == CHOOSE x \in T : TRUE
  <2>1. IsFiniteSet(T) /\ T # {}
    BY <1>2, FS_Subset, FS_EmptySet
  <2>2. x \in T
    BY <2>1
  <2>3. f[T] = h[x] + f[T \ {x}] /\ g[T] = h[x] + g[T \ {x}]
    BY <2>1 DEF Adds
  <2> HIDE DEF x
  <2>4. Cardinality(T \ {x}) = n
    <3>1. Cardinality(T \ {x}) = Cardinality(T) - 1
      BY <2>1, <2>2, FS_RemoveElement
    <3> QED BY <1>2, <3>1
  <2>5. f[T \ {x}] = g[T \ {x}]
    BY <1>2, <2>4
  <2> QED BY <2>3, <2>5
<1>3. Nat \subseteq N
  <2> HIDE DEF N
  <2> QED BY <1>1, <1>2, NatSetInduction
<1> QED BY <1>3, FS_CardinalityType

(* What a fold adds up is a number of pairs. *)
LEMMA SumIsACount ==
  ASSUME NEW S, IsFiniteSet(S), NEW U, IsFiniteSet(U), NEW key, NEW h,
         \A x \in S : h[x] = CountIn(U, key, {x})
  PROVE  (CHOOSE g : Adds(S, h, g))[S] = CountIn(U, key, S)
<1> DEFINE f == [T \in SUBSET S |-> CountIn(U, key, T)]
<1>1. Adds(S, h, f)
  BY CountIsASum
<1>2. f[S] = CountIn(U, key, S)
  OBVIOUS
<1> HIDE DEF f
<1>3. Adds(S, h, CHOOSE g : Adds(S, h, g))
  BY <1>1, Zenon
<1> QED BY <1>1, <1>2, <1>3, SumsAreUnique

(* The sum of numbers up to n is the number of pairs under them. *)
PairsUpTo(n) == {p \in (1..n) \X (1..n) : p[2] <= p[1]}

First(n) == [p \in PairsUpTo(n) |-> p[1]]

LEMMA PairsUnderOne ==
  ASSUME NEW n \in Nat, NEW m \in 1..n
  PROVE  CountIn(PairsUpTo(n), First(n), {m}) = m
<1> DEFINE T == {p \in PairsUpTo(n) : First(n)[p] \in {m}}
           f == [j \in 1..m |-> <<m, j>>]
<1>1. \A p \in T : p[1] = m /\ p[2] \in 1..m /\ p = <<m, p[2]>>
  BY DEF PairsUpTo, First
<1>2. \A j \in 1..m : f[j] \in T
  BY DEF PairsUpTo, First
<1>3. f \in Bijection(1..m, T)
  <2>1. \A i, j \in 1..m : f[i] = f[j] => i = j
    OBVIOUS
  <2>2. \A p \in T : \E j \in 1..m : f[j] = p
    BY <1>1
  <2> HIDE DEF T
  <2>3. f \in [1..m -> T]
    BY <1>2
  <2> QED BY <2>1, <2>2, <2>3 DEF Bijection, Injection, Surjection, IsInjective
<1>4. IsFiniteSet(1..m) /\ Cardinality(1..m) = m
  BY FS_Interval
<1> HIDE DEF f, T
<1>5. ExistsBijection(1..m, T)
  BY <1>3 DEF ExistsBijection
<1>6. Cardinality(T) = m
  BY <1>4, <1>5, FS_Bijection
<1> QED BY <1>6 DEF T, CountIn

LEMMA PairsAreFinite ==
  ASSUME NEW n \in Nat
  PROVE  IsFiniteSet(PairsUpTo(n))
<1>1. IsFiniteSet(1..n)
  BY FS_Interval
<1>2. IsFiniteSet((1..n) \X (1..n))
  BY <1>1, FS_Product
<1>3. PairsUpTo(n) \in SUBSET ((1..n) \X (1..n))
  BY DEF PairsUpTo
<1> QED BY <1>2, <1>3, FS_Subset

LEMMA SumSetIsACount ==
  ASSUME NEW n \in Nat, NEW S \in SUBSET (1..n)
  PROVE  SumSet(S) = CountIn(PairsUpTo(n), First(n), S)
<1> DEFINE h == [x \in S |-> x]
           Sums(g) == g = [T \in SUBSET S |->
                             IF T = {} THEN 0
                             ELSE LET x == CHOOSE x \in T : TRUE IN x + g[T \ {x}]]
<1>1. SumSet(S) = (CHOOSE g : Sums(g))[S]
  BY DEF SumSet, FoldSet, MapThenFoldSet
<1>2. ASSUME NEW g PROVE Sums(g) <=> Adds(S, h, g)
  <2> DEFINE F(T) == IF T = {} THEN 0
                     ELSE LET x == CHOOSE x \in T : TRUE IN x + g[T \ {x}]
             G(T) == IF T = {} THEN 0
                     ELSE LET x == CHOOSE x \in T : TRUE IN h[x] + g[T \ {x}]
  <2>1. ASSUME NEW T \in SUBSET S PROVE F(T) = G(T)
    <3>1. T # {} => (CHOOSE x \in T : TRUE) \in S
      OBVIOUS
    <3> QED BY <3>1
  <2>2. Sums(g) <=> g = [T \in SUBSET S |-> F(T)]
    OBVIOUS
  <2>3. Adds(S, h, g) <=> g = [T \in SUBSET S |-> G(T)]
    BY DEF Adds
  <2> HIDE DEF F, G, Sums
  <2>4. [T \in SUBSET S |-> F(T)] = [T \in SUBSET S |-> G(T)]
    BY <2>1
  <2> QED BY <2>2, <2>3, <2>4
<1>3. (CHOOSE g : Sums(g)) = CHOOSE g : Adds(S, h, g)
  <2> HIDE DEF Sums, h
  <2> QED BY <1>2
<1>4. IsFiniteSet(S)
  <2>1. IsFiniteSet(1..n)
    BY FS_Interval
  <2> QED BY <2>1, FS_Subset
<1>5. IsFiniteSet(PairsUpTo(n))
  BY PairsAreFinite
<1>6. \A x \in S : h[x] = CountIn(PairsUpTo(n), First(n), {x})
  BY PairsUnderOne
<1> HIDE DEF h, Sums
<1>7. (CHOOSE g : Adds(S, h, g))[S] = CountIn(PairsUpTo(n), First(n), S)
  BY <1>4, <1>5, <1>6, SumIsACount
<1> QED BY <1>1, <1>3, <1>7

LEMMA SumSteps ==
  ASSUME NEW n \in Nat, NEW S \in SUBSET (1..n)
  PROVE  /\ SumSet({}) = 0 /\ SumSet(S) \in Nat
         /\ \A m \in (1..n) \ S : SumSet(S \cup {m}) = m + SumSet(S)
<1>1. IsFiniteSet(PairsUpTo(n))
  BY PairsAreFinite
<1>2. SumSet(S) = CountIn(PairsUpTo(n), First(n), S)
  BY SumSetIsACount
<1>3. n + 1 \notin S
  OBVIOUS
<1>4. CountIn(PairsUpTo(n), First(n), S) \in Nat /\ CountIn(PairsUpTo(n), First(n), {}) = 0
  BY <1>1, <1>3, CountAddsUp
<1>5. SumSet({}) = 0
  BY <1>4, SumSetIsACount
<1>6. ASSUME NEW m \in (1..n) \ S PROVE SumSet(S \cup {m}) = m + SumSet(S)
  <2>1. SumSet(S \cup {m}) = CountIn(PairsUpTo(n), First(n), S \cup {m})
    BY SumSetIsACount
  <2>2. CountIn(PairsUpTo(n), First(n), S \cup {m})
          = CountIn(PairsUpTo(n), First(n), {m}) + CountIn(PairsUpTo(n), First(n), S)
    BY <1>1, CountAddsUp
  <2>3. CountIn(PairsUpTo(n), First(n), {m}) = m
    BY PairsUnderOne
  <2> QED BY <1>2, <2>1, <2>2, <2>3
<1> QED BY <1>2, <1>4, <1>5, <1>6

-----------------------------------------------------------------------------
LEMMA DivMonotone ==
  ASSUME NEW a \in Int, NEW b \in Int, a <= b, NEW k \in Nat \ {0}
  PROVE  a \div k <= b \div k
<1> DEFINE p == a \div k
           q == b \div k
<1>1. p \in Int /\ q \in Int /\ k * p <= a /\ a < k * p + k /\ k * q <= b /\ b < k * q + k
  OBVIOUS
<1> HIDE DEF p, q
<1>2. k * p < k * q + k
  BY <1>1
<1>3. SUFFICES ASSUME q + 1 <= p PROVE FALSE
  BY <1>1 DEF p, q
<1>4. k * (q + 1) <= k * p
  BY <1>1, <1>3
<1>5. k * (q + 1) = k * q + k
  BY <1>1
<1> QED BY <1>1, <1>2, <1>4, <1>5

LEMMA RoundedMonotone ==
  ASSUME NEW hit \in Nat, NEW total \in Nat \ {0}, NEW r \in Int, NEW s \in Int, r <= s
  PROVE  /\ Rounded(hit, total, r) \in Int /\ Rounded(hit, total, s) \in Int
         /\ Rounded(hit, total, r) <= Rounded(hit, total, s)
<1>1. 2 * total \in Nat \ {0}
  OBVIOUS
<1>2. hit * r \in Int /\ hit * s \in Int /\ hit * r <= hit * s
  OBVIOUS
<1>3. 2 * hit * r = 2 * (hit * r) /\ 2 * hit * s = 2 * (hit * s)
  OBVIOUS
<1>4. 2 * hit * r + total \in Int /\ 2 * hit * s + total \in Int
  BY <1>2, <1>3
<1>5. 2 * hit * r + total <= 2 * hit * s + total
  BY <1>2, <1>3
<1> QED BY <1>1, <1>4, <1>5, DivMonotone DEF Rounded

(* The weights of a window. *)
LEMMA Weights ==
  ASSUME NEW window \in Seq(BOOLEAN)
  PROVE  /\ HitWeight(window) \in Nat /\ TotalWeight(window) \in Nat
         /\ 2 * TotalWeight(window) = Len(window) * (Len(window) + 1)
         /\ Len(window) > 0 => TotalWeight(window) > 0
<1> DEFINE n == Len(window)
<1>1. n \in Nat /\ {i \in DOMAIN window : window[i]} \in SUBSET (1..n)
  OBVIOUS
<1>2. HitWeight(window) \in Nat
  BY <1>1, SumSteps DEF HitWeight
<1> HIDE DEF n
<1>3. n * (n + 1) \in Nat /\ (n * (n + 1)) % 2 = 0
  <2> DEFINE E == {m \in Nat : \E k \in Nat : m * (m + 1) = 2 * k}
  <2>1. 0 \in E
    OBVIOUS
  <2>2. ASSUME NEW m \in E PROVE m + 1 \in E
    <3>1. PICK k \in Nat : m * (m + 1) = 2 * k
      OBVIOUS
    <3>2. (m + 1) * ((m + 1) + 1) = m * (m + 1) + 2 * (m + 1)
      OBVIOUS
    <3>3. (m + 1) * ((m + 1) + 1) = 2 * (k + (m + 1))
      BY <3>1, <3>2
    <3>4. m + 1 \in Nat /\ k + (m + 1) \in Nat
      OBVIOUS
    <3> QED BY <3>3, <3>4
  <2>3. Nat \subseteq E
    <3> HIDE DEF E
    <3> QED BY <2>1, <2>2, NatSetInduction
  <2>4. PICK k \in Nat : n * (n + 1) = 2 * k
    BY <1>1, <2>3
  <2> QED BY <2>4
<1>4. TotalWeight(window) = (n * (n + 1)) \div 2
  BY DEF TotalWeight, n
<1>5. n > 0 => n * (n + 1) >= 2
  BY <1>1
<1> QED BY <1>2, <1>3, <1>4, <1>5 DEF n

LEMMA MinOfTwo ==
  ASSUME NEW a \in Nat, NEW b \in Nat
  PROVE  Min({a, b}) \in {a, b} /\ Min({a, b}) <= a /\ Min({a, b}) <= b
<1>1. \E x \in {a, b} : \A y \in {a, b} : x <= y
  BY a <= b \/ b <= a
<1> QED BY <1>1 DEF Min

-----------------------------------------------------------------------------
(* Time passes, and the same attempts are in force. *)
LEMMA RetentionDecays ==
  ASSUME NEW at \in Time, NEW t \in Time, NEW u \in Time, at <= t, t <= u
  PROVE  /\ RetentionFactor(at, t) \in RetentionFloor..Scale
         /\ RetentionFactor(at, u) \in RetentionFloor..Scale
         /\ RetentionFactor(at, u) <= RetentionFactor(at, t)
<1>1. /\ Scale \in Nat /\ RetentionFloor \in 0..Scale /\ Horizon \in Nat
      /\ \A g \in 1..Horizon : Retention(g) \in RetentionFloor..Scale
      /\ \A g, h \in 1..Horizon : g <= h => Retention(h) <= Retention(g)
  BY CountAssumption, RetentionAssumption
<1>2. at \in Nat /\ t \in Nat /\ u \in Nat /\ u <= Horizon
  BY <1>1 DEF Time
<1>3. CASE u <= at
  <2>1. RetentionFactor(at, u) = Scale /\ RetentionFactor(at, t) = Scale
    BY <1>2, <1>3 DEF RetentionFactor
  <2> QED BY <1>1, <2>1
<1>4. CASE t <= at /\ ~ (u <= at)
  <2>1. RetentionFactor(at, t) = Scale /\ RetentionFactor(at, u) = Retention(u - at)
    BY <1>2, <1>4 DEF RetentionFactor
  <2>2. u - at \in 1..Horizon
    BY <1>1, <1>2, <1>4
  <2> QED BY <1>1, <2>1, <2>2
<1>5. CASE ~ (t <= at)
  <2>1. RetentionFactor(at, t) = Retention(t - at) /\ RetentionFactor(at, u) = Retention(u - at)
    BY <1>2, <1>5 DEF RetentionFactor
  <2>2. u - at \in 1..Horizon /\ t - at \in 1..Horizon /\ t - at <= u - at
    BY <1>1, <1>2, <1>5
  <2> QED BY <1>1, <2>1, <2>2
<1> QED BY <1>2, <1>3, <1>4, <1>5

LEMMA ScoreDecays ==
  ASSUME NEW S, IsHistory(S), NEW t \in Time, NEW u \in Time, t <= u, \A a \in S : a.at <= t
  PROVE  LET ordered == OrderAttempts(S)
             window  == RecentWindow(ordered)
         IN  /\ ScoreOf(ordered, t) \in Int /\ ScoreOf(ordered, u) \in Int
             /\ ScoreOf(ordered, u) <= ScoreOf(ordered, t)
             /\ Len(ordered) >= MinAttempts =>
                  ScoreOf(ordered, u)
                    >= Rounded(HitWeight(window), TotalWeight(window), RetentionFloor)
<1> DEFINE ordered == OrderAttempts(S)
           window == RecentWindow(ordered)
           n == Len(ordered)
<1>1. n \in Nat /\ ordered \in Seq(S) /\ MinAttempts \in Nat \ {0} /\ Window \in Nat \ {0}
  BY Ordered, CountAssumption
<1> HIDE DEF ordered
<1>2. CASE n < MinAttempts
  <2>1. ScoreOf(ordered, t) = 0 /\ ScoreOf(ordered, u) = 0
    BY <1>2 DEF ScoreOf
  <2> QED BY <1>1, <1>2, <2>1 DEF ordered
<1>3. CASE ~ (n < MinAttempts)
  <2>1. n \in 1..n
    BY <1>1, <1>3
  <2>2. ordered[n] \in S
    BY <1>1, <2>1
  <2>3. ordered[n].at \in Time /\ ordered[n].at <= t
    BY <2>2 DEF IsHistory
  <2>4. /\ window \in Seq(BOOLEAN)
        /\ Len(window) = IF n <= Window THEN n ELSE Window
    BY <1>1, WindowIsTheEnd DEF IsHistory
  <2>5. HitWeight(window) \in Nat /\ TotalWeight(window) \in Nat \ {0}
    <3> HIDE DEF window, n
    <3>1. Len(window) > 0
      BY <1>1, <2>1, <2>4
    <3> QED BY <2>4, <3>1, Weights
  <2> DEFINE r(v) == RetentionFactor(ordered[n].at, v)
  <2>6. /\ r(t) \in Int /\ r(u) \in Int /\ r(u) <= r(t)
        /\ RetentionFloor \in Int /\ RetentionFloor <= r(u)
    <3>1. RetentionFloor \in Int /\ Scale \in Int
      BY CountAssumption, RetentionAssumption
    <3>2. r(t) \in RetentionFloor..Scale /\ r(u) \in RetentionFloor..Scale /\ r(u) <= r(t)
      BY <2>3, RetentionDecays
    <3> HIDE DEF r
    <3> QED BY <3>1, <3>2
  <2>7. \A v : ScoreOf(ordered, v) = Rounded(HitWeight(window), TotalWeight(window), r(v))
    BY <1>3 DEF ScoreOf
  <2> HIDE DEF window, n, r
  <2>8. /\ Rounded(HitWeight(window), TotalWeight(window), r(t)) \in Int
        /\ Rounded(HitWeight(window), TotalWeight(window), r(u)) \in Int
        /\ Rounded(HitWeight(window), TotalWeight(window), r(u))
             <= Rounded(HitWeight(window), TotalWeight(window), r(t))
    BY <2>5, <2>6, RoundedMonotone
  <2>9. Rounded(HitWeight(window), TotalWeight(window), RetentionFloor)
          <= Rounded(HitWeight(window), TotalWeight(window), r(u))
    BY <2>5, <2>6, RoundedMonotone
  <2>10. Rounded(HitWeight(window), TotalWeight(window), RetentionFloor) \in Int
    BY <2>5, <2>6, RoundedMonotone
  <2> QED BY <2>7, <2>8, <2>9, <2>10 DEF ordered, window
<1> QED BY <1>1, <1>2, <1>3

LEMMA LevelFollowsScore ==
  ASSUME NEW ordered, Len(ordered) \in Nat, NEW s \in Int, NEW r \in Int, r <= s
  PROVE  /\ LevelOf(s, ordered) \in Level /\ LevelOf(r, ordered) \in Level
         /\ LevelOf(r, ordered) <= LevelOf(s, ordered)
         /\ (LevelOf(s, ordered) = UNASSESSED) <=> (Len(ordered) < MinAttempts)
<1> USE DEF UNASSESSED, WEAK, LEARNING, COMPETENT, MASTERED, Level
<1>1. Learning \in Int /\ Competent \in Int /\ Learning <= Competent /\ MinAttempts \in Nat
  BY ThresholdAssumption, CountAssumption
<1>2. \A v \in Int :
        /\ Len(ordered) < MinAttempts => LevelOf(v, ordered) = UNASSESSED
        /\ ~ (Len(ordered) < MinAttempts) =>
             /\ v < Learning => LevelOf(v, ordered) = WEAK
             /\ v >= Learning /\ v < Competent => LevelOf(v, ordered) = LEARNING
             /\ v >= Competent =>
                  LevelOf(v, ordered) = IF IsSustained(ordered) THEN MASTERED ELSE COMPETENT
  BY <1>1 DEF LevelOf
<1> QED BY <1>1, <1>2

(* The interval grows with the level, up to the ceiling. *)
LEMMA IntervalFollowsLevel ==
  ASSUME NEW run \in Nat, NEW k \in Level, NEW l \in Level, k <= l
  PROVE  /\ IntervalDays(run, k) \in Nat /\ IntervalDays(run, l) \in Nat
         /\ IntervalDays(run, k) <= IntervalDays(run, l)
         /\ IntervalDays(run, l) <= MaxInterval
<1> USE DEF UNASSESSED, MASTERED, Level
<1> DEFINE index == IF run = 0 THEN 1 ELSE Min({run, Len(Schedule)})
           days == Schedule[index]
<1>1. Len(Schedule) \in Nat \ {0} /\ Schedule \in Seq(Nat \ {0}) /\ MaxInterval \in Nat
      /\ Multiplier \in Nat \ {0} /\ \A i \in 1..Len(Schedule) : Schedule[i] <= MaxInterval
  BY ScheduleAssumption
<1>2. index \in 1..Len(Schedule)
  <2>1. run # 0 => /\ Min({run, Len(Schedule)}) \in {run, Len(Schedule)}
                   /\ Min({run, Len(Schedule)}) <= Len(Schedule)
    BY <1>1, MinOfTwo
  <2> QED BY <1>1, <2>1
<1> HIDE DEF index
<1>3. days \in Nat \ {0} /\ days <= MaxInterval
  BY <1>1, <1>2
<1>4. days * Multiplier \in Nat /\ days <= days * Multiplier
  BY <1>1, <1>3
<1> DEFINE longest == Min({days * Multiplier, MaxInterval})
<1>5. /\ longest \in {days * Multiplier, MaxInterval}
      /\ longest <= MaxInterval
  BY <1>1, <1>4, MinOfTwo
<1>6. \A m : IntervalDays(run, m) = IF m = MASTERED THEN longest ELSE days
  BY DEF IntervalDays, index
<1> HIDE DEF days, longest
<1>7. longest \in Nat /\ days \in Nat /\ days <= longest
  BY <1>1, <1>3, <1>4, <1>5
<1>8. k = MASTERED => l = MASTERED
  OBVIOUS
<1> QED BY <1>1, <1>3, <1>5, <1>6, <1>7, <1>8

LEMMA RunIsNatural ==
  ASSUME NEW S, NEW ordered \in Seq(S)
  PROVE  TrailingSuccessRun(ordered) \in Nat
<1> DEFINE n == Len(ordered)
           misses == {i \in DOMAIN ordered : ~ordered[i].correct}
<1>1. n \in Nat /\ {0} \cup misses \in SUBSET (0..n)
  OBVIOUS
<1>2. Max({0} \cup misses) \in {0} \cup misses
  BY <1>1, MaxUpTo
<1> QED BY <1>1, <1>2 DEF TrailingSuccessRun

(* What waiting does to a state: score and level only fall, and the next    *)
(* review only comes nearer.                                                *)
LEMMA WaitingOnlyLowers ==
  ASSUME NEW S, IsHistory(S), NEW t \in Time, NEW u \in Time, t <= u, \A a \in S : a.at <= t
  PROVE  LET before == StateOf(OrderAttempts(S), t)
             after  == StateOf(OrderAttempts(S), u)
         IN  /\ before.score \in Int /\ after.score \in Int /\ after.score <= before.score
             /\ after.level \in Level /\ before.level \in Level /\ after.level <= before.level
             /\ S # {} => /\ before.next_review_at \in Int /\ after.next_review_at \in Int
                          /\ after.next_review_at <= before.next_review_at
                          /\ after.next_review_at <= after.last_attempt_at + TicksPerDay * MaxInterval
                          /\ after.last_attempt_at \in Int
             /\ S = {} => before.next_review_at = None /\ after.next_review_at = None
<1> DEFINE ordered == OrderAttempts(S)
           n == Len(ordered)
           before == StateOf(ordered, t)
           after == StateOf(ordered, u)
           run == TrailingSuccessRun(ordered)
<1>1. n \in Nat /\ ordered \in Seq(S) /\ n = Cardinality(S) /\ IsFiniteSet(S)
  BY Ordered DEF IsHistory
<1>2. /\ ScoreOf(ordered, t) \in Int /\ ScoreOf(ordered, u) \in Int
      /\ ScoreOf(ordered, u) <= ScoreOf(ordered, t)
  BY ScoreDecays
<1> DEFINE k == LevelOf(ScoreOf(ordered, t), ordered)
           l == LevelOf(ScoreOf(ordered, u), ordered)
<1>3. k \in Level /\ l \in Level /\ l <= k
  BY <1>1, <1>2, LevelFollowsScore
<1>4. run \in Nat
  BY <1>1, RunIsNatural
<1>5. /\ IntervalDays(run, k) \in Nat /\ IntervalDays(run, l) \in Nat
      /\ IntervalDays(run, l) <= IntervalDays(run, k) /\ IntervalDays(run, k) <= MaxInterval
  BY <1>3, <1>4, IntervalFollowsLevel
<1>6. /\ before.score = ScoreOf(ordered, t) /\ after.score = ScoreOf(ordered, u)
      /\ before.level = k /\ after.level = l
      /\ before.next_review_at = ComputeNextReview(ordered, k)
      /\ after.next_review_at = ComputeNextReview(ordered, l)
      /\ after.last_attempt_at = IF n = 0 THEN None ELSE ordered[n].at
  BY DEF StateOf
<1>7. n = 0 <=> S = {}
  BY <1>1, FS_EmptySet
<1>8. ASSUME S # {}
      PROVE  /\ before.next_review_at \in Int /\ after.next_review_at \in Int
             /\ after.next_review_at <= before.next_review_at
             /\ after.next_review_at <= after.last_attempt_at + TicksPerDay * MaxInterval
             /\ after.last_attempt_at \in Int
  <2>1. n \in 1..n
    BY <1>1, <1>7, <1>8
  <2>2. ordered[n].at \in Int
    BY <1>1, <2>1, Horizons DEF IsHistory, Time
  <2>3. /\ before.next_review_at = ordered[n].at + TicksPerDay * IntervalDays(run, k)
        /\ after.next_review_at = ordered[n].at + TicksPerDay * IntervalDays(run, l)
        /\ after.last_attempt_at = ordered[n].at
    BY <1>6, <1>7, <1>8 DEF ComputeNextReview
  <2>4. TicksPerDay \in Nat /\ MaxInterval \in Nat
    BY CountAssumption, ScheduleAssumption
  <2> HIDE DEF ordered, n, run, k, l, before, after
  <2>5. \A i, j \in Nat : i <= j =>
          /\ TicksPerDay * i \in Int /\ TicksPerDay * j \in Int
          /\ TicksPerDay * i <= TicksPerDay * j
    BY <2>4
  <2>6. /\ TicksPerDay * IntervalDays(run, k) \in Int
        /\ TicksPerDay * IntervalDays(run, l) \in Int
        /\ TicksPerDay * MaxInterval \in Int
        /\ TicksPerDay * IntervalDays(run, l) <= TicksPerDay * IntervalDays(run, k)
        /\ TicksPerDay * IntervalDays(run, k) <= TicksPerDay * MaxInterval
    BY <1>5, <2>4, <2>5
  <2> QED BY <2>2, <2>3, <2>6
<1>9. S = {} => before.next_review_at = None /\ after.next_review_at = None
  BY <1>6, <1>7 DEF ComputeNextReview
<1> QED BY <1>2, <1>3, <1>6, <1>8, <1>9

-----------------------------------------------------------------------------
(* The history of one objective. *)
HistoryInv ==
  /\ now \in Time
  /\ IsHistory(attempts)
  /\ Cardinality(attempts) <= MaxAnswers
  /\ \A a \in attempts : a.attempt_id <= Cardinality(attempts)

LEMMA HistoryInvInitially == HistoryInit => HistoryInv
BY FS_EmptySet, Horizons, InputAssumption DEF HistoryInit, HistoryInv, IsHistory

LEMMA HistoryInvStep == HistoryInv /\ [HistoryNext]_historyVars => HistoryInv'
<1> SUFFICES ASSUME HistoryInv, [HistoryNext]_historyVars PROVE HistoryInv'
  OBVIOUS
<1>1. ASSUME NEW late \in Lateness, NEW correct \in BOOLEAN, now - late >= 0,
             Record(now - late, correct)
      PROVE  HistoryInv'
  <2> DEFINE n == Cardinality(attempts)
             a == [attempt_id |-> n + 1, at |-> now - late, correct |-> correct]
  <2>1. n \in Nat /\ n < MaxAnswers /\ MaxAnswers \in Nat /\ IsFiniteSet(attempts)
    BY <1>1, FS_CardinalityType, InputAssumption DEF HistoryInv, IsHistory, Record
  <2>2. attempts' = attempts \cup {a} /\ now' = now
    BY <1>1 DEF Record
  <2>3. now - late \in Time
    BY <1>1, InputAssumption, Horizons DEF HistoryInv, Time
  <2>4. \A b \in attempts : b.attempt_id \in Nat /\ b.attempt_id <= n
    BY DEF HistoryInv, IsHistory
  <2>5. a.attempt_id = n + 1 /\ a.at \in Time /\ a.correct \in BOOLEAN
    BY <2>3
  <2> HIDE DEF a, n
  <2>6. a \notin attempts
    BY <2>1, <2>4, <2>5
  <2>7. IsFiniteSet(attempts') /\ Cardinality(attempts') = n + 1
    BY <2>1, <2>2, <2>6, FS_AddElement DEF n
  <2>8. IsHistory(attempts)'
    <3>1. \A b \in attempts' : b.attempt_id \in Nat /\ b.at \in Time /\ b.correct \in BOOLEAN
      BY <2>1, <2>2, <2>5 DEF HistoryInv, IsHistory
    <3>2. \A b, c \in attempts' : b.attempt_id = c.attempt_id => b = c
      BY <2>1, <2>2, <2>4, <2>5 DEF HistoryInv, IsHistory
    <3> QED BY <2>7, <3>1, <3>2 DEF IsHistory
  <2>9. \A b \in attempts' : b.attempt_id <= n + 1
    BY <2>1, <2>2, <2>4, <2>5
  <2>10. now' \in Time
    BY <2>2 DEF HistoryInv
  <2> QED BY <2>1, <2>7, <2>8, <2>9, <2>10 DEF HistoryInv
<1>2. ASSUME NEW step \in Steps, Wait(step) PROVE HistoryInv'
  <2>1. now + step \in Nat
    BY StepAssumption, Horizons DEF HistoryInv, Time
  <2>2. now' \in Time
    BY <1>2, <2>1, Horizons, MinOfTwo DEF Wait, Advanced, Time
  <2> QED BY <1>2, <2>2 DEF Wait, HistoryInv, IsHistory
<1>3. CASE UNCHANGED historyVars
  BY <1>3 DEF historyVars, HistoryInv, IsHistory
<1> QED BY <1>1, <1>2, <1>3 DEF HistoryNext

LEMMA HistoryInvAlways == HistorySpec => []HistoryInv
BY HistoryInvInitially, HistoryInvStep, PTL DEF HistorySpec

(* While nothing comes into force, the state is of the same attempts. *)
LEMMA WaitingKeepsTheAttempts ==
  ASSUME HistoryInv, NEW t \in Waits
  PROVE  /\ IsHistory(InForce(attempts, t)) /\ t \in Time /\ t + 1 \in Time /\ t <= t + 1
         /\ \A a \in InForce(attempts, t) : a.at <= t
         /\ State(t) = StateOf(OrderAttempts(InForce(attempts, t)), t)
         /\ State(t + 1) = StateOf(OrderAttempts(InForce(attempts, t)), t + 1)
<1>1. t \in 0..(Horizon - 1) /\ InForce(attempts, t) = InForce(attempts, t + 1)
  BY DEF Waits
<1>2. t \in Time /\ t + 1 \in Time /\ t <= t + 1
  BY <1>1, Horizons DEF Time
<1>3. IsHistory(InForce(attempts, t))
  BY InForceIsHistory DEF HistoryInv
<1>4. \A a \in InForce(attempts, t) : a.at <= t
  BY DEF InForce
<1> QED BY <1>1, <1>2, <1>3, <1>4 DEF State, ComputeState, AttemptsUntil

(* SPEC 4, for any engine constants and any history: what is due stays due  *)
(* until another attempt counts.  The level that stretches the interval may *)
(* fall meanwhile, and then the review only comes nearer.                   *)
THEOREM DueStaysDue == HistorySpec => []DueUntilAnswered
<1>1. HistoryInv => DueUntilAnswered
  <2> SUFFICES ASSUME HistoryInv, NEW t \in Waits, State(t).is_due
               PROVE  State(t + 1).is_due
    BY DEF DueUntilAnswered
  <2> DEFINE S == InForce(attempts, t)
  <2>1. /\ IsHistory(S) /\ t \in Time /\ t + 1 \in Time /\ t <= t + 1 /\ \A a \in S : a.at <= t
        /\ State(t) = StateOf(OrderAttempts(S), t)
        /\ State(t + 1) = StateOf(OrderAttempts(S), t + 1)
    BY WaitingKeepsTheAttempts
  <2> HIDE DEF S
  <2>2. /\ S # {} => /\ State(t).next_review_at \in Int /\ State(t + 1).next_review_at \in Int
                     /\ State(t + 1).next_review_at <= State(t).next_review_at
        /\ S = {} => State(t).next_review_at = None
    BY <2>1, WaitingOnlyLowers
  <2>3. /\ State(t).is_due <=> IsDue(State(t).next_review_at, t)
        /\ State(t + 1).is_due <=> IsDue(State(t + 1).next_review_at, t + 1)
    BY <2>1 DEF StateOf
  <2>4. S # {} /\ State(t).next_review_at <= t
    BY <2>2, <2>3 DEF IsDue
  <2>5. IsDue(State(t + 1).next_review_at, t + 1)
    BY <2>1, <2>2, <2>4, NoneAssumption, Horizons DEF IsDue, Time
  <2> QED BY <2>3, <2>5
<1> QED BY <1>1, HistoryInvAlways, PTL

(* SPEC 3.2, for any retention that never grows: time without attempts only *)
(* lowers score and level, and the score stays above the floor.             *)
THEOREM TimeOnlyForgets == HistorySpec => []ForgettingOnlyLowers
<1>1. HistoryInv => ForgettingOnlyLowers
  <2> SUFFICES ASSUME HistoryInv, NEW t \in Waits
               PROVE  /\ State(t + 1).score <= State(t).score
                      /\ State(t + 1).level <= State(t).level
                      /\ State(t + 1).total_attempts >= MinAttempts =>
                           State(t + 1).score
                             >= Rounded(HitWeight(State(t + 1).recent_window),
                                        TotalWeight(State(t + 1).recent_window), RetentionFloor)
    BY DEF ForgettingOnlyLowers
  <2> DEFINE S == InForce(attempts, t)
             ordered == OrderAttempts(S)
  <2>1. /\ IsHistory(S) /\ t \in Time /\ t + 1 \in Time /\ t <= t + 1 /\ \A a \in S : a.at <= t
        /\ State(t) = StateOf(ordered, t) /\ State(t + 1) = StateOf(ordered, t + 1)
    BY WaitingKeepsTheAttempts
  <2> HIDE DEF S
  <2>2. State(t + 1).score <= State(t).score /\ State(t + 1).level <= State(t).level
    BY <2>1, WaitingOnlyLowers
  <2>3. Len(ordered) >= MinAttempts =>
          ScoreOf(ordered, t + 1) >= Rounded(HitWeight(RecentWindow(ordered)),
                                             TotalWeight(RecentWindow(ordered)), RetentionFloor)
    BY <2>1, ScoreDecays
  <2>4. /\ State(t + 1).score = ScoreOf(ordered, t + 1)
        /\ State(t + 1).recent_window = RecentWindow(ordered)
        /\ State(t + 1).total_attempts = Len(ordered)
    BY <2>1 DEF StateOf
  <2> QED BY <2>2, <2>3, <2>4
<1> QED BY <1>1, HistoryInvAlways, PTL

-----------------------------------------------------------------------------
(* More about sums of positions. *)
LEMMA SumGrows ==
  ASSUME NEW n \in Nat, NEW T \in SUBSET (1..n), NEW S \in SUBSET T
  PROVE  SumSet(S) <= SumSet(T)
<1> DEFINE Under(V) == {p \in PairsUpTo(n) : First(n)[p] \in V}
<1>1. IsFiniteSet(Under(T)) /\ Under(S) \in SUBSET Under(T)
  <2>1. Under(T) \in SUBSET PairsUpTo(n)
    OBVIOUS
  <2> QED BY <2>1, PairsAreFinite, FS_Subset
<1>2. Cardinality(Under(S)) <= Cardinality(Under(T))
  <2> HIDE DEF Under
  <2> QED BY <1>1, FS_Subset
<1>3. SumSet(S) = Cardinality(Under(S)) /\ SumSet(T) = Cardinality(Under(T))
  BY SumSetIsACount DEF CountIn
<1> QED BY <1>2, <1>3

LEMMA SumOfAll ==
  ASSUME NEW n \in Nat
  PROVE  2 * SumSet(1..n) = n * (n + 1)
<1> DEFINE E == {m \in Nat : 2 * SumSet(1..m) = m * (m + 1)}
<1>1. 0 \in E
  <2>1. 1..0 = {}
    OBVIOUS
  <2>2. SumSet({}) = 0
    BY SumSteps
  <2> QED BY <2>1, <2>2
<1>2. ASSUME NEW m \in E PROVE m + 1 \in E
  <2>1. 1..m \in SUBSET (1..(m + 1)) /\ m + 1 \in (1..(m + 1)) \ (1..m) /\ m + 1 \in Nat
    OBVIOUS
  <2>2. 1..(m + 1) = (1..m) \cup {m + 1}
    OBVIOUS
  <2>3. SumSet(1..m) \in Nat /\ SumSet(1..(m + 1)) = (m + 1) + SumSet(1..m)
    BY <2>1, <2>2, SumSteps
  <2>4. (m + 1) * ((m + 1) + 1) = m * (m + 1) + 2 * (m + 1)
    OBVIOUS
  <2> QED BY <2>1, <2>3, <2>4
<1>3. Nat \subseteq E
  <2> HIDE DEF E
  <2> QED BY <1>1, <1>2, NatSetInduction
<1> QED BY <1>3

(* When a window moves on, every position loses one, and the first is gone. *)
LEMMA SumOfShifted ==
  ASSUME NEW n \in Nat, NEW S \in SUBSET (1..n)
  PROVE  /\ IsFiniteSet(S) /\ Cardinality(S) <= n /\ Cardinality(S) \in Nat
         /\ SumSet({i - 1 : i \in S \ {1}}) = SumSet(S) - Cardinality(S)
<1> DEFINE Moved(U) == {i - 1 : i \in U \ {1}}
           F == {U \in SUBSET S : SumSet(Moved(U)) = SumSet(U) - Cardinality(U)}
<1>1. IsFiniteSet(1..n) /\ Cardinality(1..n) = n
  BY FS_Interval
<1>2. IsFiniteSet(S) /\ Cardinality(S) <= n /\ Cardinality(S) \in Nat
  BY <1>1, FS_Subset, FS_CardinalityType
<1>3. {} \in F
  <2>1. Moved({}) = {}
    OBVIOUS
  <2>2. SumSet({}) = 0 /\ Cardinality({}) = 0
    BY SumSteps, FS_EmptySet
  <2> QED BY <2>1, <2>2
<1>4. ASSUME NEW U \in SUBSET S, NEW x \in S, U \in F, x \notin U PROVE U \cup {x} \in F
  <2>1. IsFiniteSet(U) /\ Cardinality(U) \in Nat /\ Cardinality(U \cup {x}) = Cardinality(U) + 1
    BY <1>2, <1>4, FS_Subset, FS_AddElement, FS_CardinalityType
  <2>2. U \in SUBSET (1..n) /\ x \in (1..n) \ U /\ x \in Nat
    BY <1>4
  <2>3. SumSet(U) \in Nat /\ SumSet(U \cup {x}) = x + SumSet(U)
    BY <2>2, SumSteps
  <2>4. SumSet(Moved(U)) = SumSet(U) - Cardinality(U)
    BY <1>4
  <2>5. SumSet(Moved(U \cup {x})) = (x - 1) + SumSet(Moved(U))
    <3>1. CASE x = 1
      <4>1. Moved(U \cup {x}) = Moved(U)
        BY <3>1
      <4> HIDE DEF Moved
      <4> QED BY <2>1, <2>3, <2>4, <3>1, <4>1
    <3>2. CASE x # 1
      <4>1. Moved(U) \in SUBSET (1..n) /\ x - 1 \in (1..n) \ Moved(U)
        BY <2>2, <3>2
      <4>2. Moved(U \cup {x}) = Moved(U) \cup {x - 1}
        BY <2>2, <3>2
      <4> HIDE DEF Moved
      <4> QED BY <4>1, <4>2, SumSteps
    <3> QED BY <3>1, <3>2
  <2> HIDE DEF Moved
  <2>6. SumSet(Moved(U \cup {x})) = SumSet(U \cup {x}) - Cardinality(U \cup {x})
    BY <2>1, <2>2, <2>3, <2>4, <2>5
  <2> QED BY <1>4, <2>6
<1>5. S \in F
  <2> HIDE DEF F
  <2> QED BY <1>2, <1>3, <1>4, FiniteSetInduction
<1> QED BY <1>2, <1>5

LEMMA WeightsAreBounded ==
  ASSUME NEW window \in Seq(BOOLEAN)
  PROVE  /\ HitWeight(window) <= TotalWeight(window)
         /\ (\A i \in 1..Len(window) : window[i]) => HitWeight(window) = TotalWeight(window)
<1> DEFINE n == Len(window)
           hits == {i \in DOMAIN window : window[i]}
<1>1. n \in Nat /\ DOMAIN window = 1..n /\ hits \in SUBSET (1..n) /\ 1..n \in SUBSET (1..n)
  OBVIOUS
<1>2. HitWeight(window) = SumSet(hits)
  BY DEF HitWeight
<1>3. (\A i \in 1..Len(window) : window[i]) => hits = 1..n
  BY <1>1
<1>4. 2 * TotalWeight(window) = n * (n + 1) /\ TotalWeight(window) \in Nat
  BY Weights
<1> HIDE DEF n, hits
<1>5. SumSet(hits) <= SumSet(1..n) /\ SumSet(1..n) \in Nat /\ 2 * SumSet(1..n) = n * (n + 1)
  BY <1>1, SumGrows, SumOfAll, SumSteps
<1>6. SumSet(1..n) = TotalWeight(window)
  BY <1>4, <1>5
<1> QED BY <1>2, <1>3, <1>5, <1>6 DEF n

-----------------------------------------------------------------------------
(* One more answer: the window grows, or it moves on by one.                *)
LEMMA WindowMoves ==
  ASSUME NEW S, \A b \in S : b.correct \in BOOLEAN, NEW ordered \in Seq(S),
         NEW a, a.correct \in BOOLEAN
  PROVE  LET before == RecentWindow(ordered)
             after  == RecentWindow(Append(ordered, a))
             n      == Len(ordered)
         IN  /\ before \in Seq(BOOLEAN) /\ after \in Seq(BOOLEAN) /\ n \in Nat
             /\ n < Window => /\ Len(before) = n /\ Len(after) = n + 1
                              /\ \A i \in 1..n : after[i] = before[i]
             /\ n >= Window => /\ Len(before) = Window /\ Len(after) = Window
                               /\ \A i \in 1..(Window - 1) : after[i] = before[i + 1]
             /\ after[Len(after)] = a.correct
<1> DEFINE before == RecentWindow(ordered)
           longer == Append(ordered, a)
           after == RecentWindow(longer)
           n == Len(ordered)
           T == S \cup {a}
<1>1. n \in Nat /\ Window \in Nat \ {0} /\ \A b \in T : b.correct \in BOOLEAN
  BY CountAssumption
<1>2. /\ longer \in Seq(T) /\ Len(longer) = n + 1 /\ longer[n + 1] = a
      /\ \A i \in 1..n : longer[i] = ordered[i]
  OBVIOUS
<1>3. /\ before \in Seq(BOOLEAN)
      /\ Len(before) = IF n <= Window THEN n ELSE Window
      /\ \A i \in 1..Len(before) : /\ (n - Len(before)) + i \in 1..n
                                   /\ before[i] = ordered[(n - Len(before)) + i].correct
  BY WindowIsTheEnd
<1> HIDE DEF longer
<1>4. /\ after \in Seq(BOOLEAN)
      /\ Len(after) = IF n + 1 <= Window THEN n + 1 ELSE Window
      /\ \A i \in 1..Len(after) : /\ ((n + 1) - Len(after)) + i \in 1..(n + 1)
                                  /\ after[i] = longer[((n + 1) - Len(after)) + i].correct
  <2> HIDE DEF T
  <2>1. /\ after \in Seq(BOOLEAN)
        /\ Len(after) = IF Len(longer) <= Window THEN Len(longer) ELSE Window
        /\ \A i \in 1..Len(after) :
             /\ (Len(longer) - Len(after)) + i \in 1..Len(longer)
             /\ after[i] = longer[(Len(longer) - Len(after)) + i].correct
    BY <1>1, <1>2, WindowIsTheEnd
  <2> HIDE DEF after, n
  <2> QED BY <1>2, <2>1
<1> HIDE DEF before, after, n, T
<1>5. after[Len(after)] = a.correct
  <2>1. Len(after) \in 1..Len(after) /\ ((n + 1) - Len(after)) + Len(after) = n + 1
    BY <1>1, <1>4
  <2> QED BY <1>2, <1>4, <2>1
<1>6. ASSUME n < Window
      PROVE  Len(before) = n /\ Len(after) = n + 1 /\ \A i \in 1..n : after[i] = before[i]
  <2>1. Len(before) = n /\ Len(after) = n + 1
    <3>1. /\ Len(before) = IF n <= Window THEN n ELSE Window
          /\ Len(after) = IF n + 1 <= Window THEN n + 1 ELSE Window
      BY <1>3, <1>4
    <3> QED BY <1>1, <1>6, <3>1
  <2>2. ASSUME NEW i \in 1..n PROVE after[i] = before[i]
    <3>1. (n - n) + i = i /\ ((n + 1) - (n + 1)) + i = i /\ i \in 1..(n + 1)
      BY <1>1
    <3>2. before[i] = ordered[i].correct
      BY <1>3, <2>1, <3>1
    <3>3. after[i] = longer[i].correct
      <4>1. ((n + 1) - Len(after)) + i = i /\ i \in 1..Len(after)
        BY <1>1, <2>1, <3>1
      <4>2. after[i] = longer[((n + 1) - Len(after)) + i].correct
        BY <1>4, <4>1
      <4> QED BY <4>1, <4>2
    <3> QED BY <1>2, <3>2, <3>3
  <2> QED BY <2>1, <2>2
<1>7. ASSUME n >= Window
      PROVE  /\ Len(before) = Window /\ Len(after) = Window
             /\ \A i \in 1..(Window - 1) : after[i] = before[i + 1]
  <2>1. Len(before) = Window /\ Len(after) = Window
    <3>1. /\ Len(before) = IF n <= Window THEN n ELSE Window
          /\ Len(after) = IF n + 1 <= Window THEN n + 1 ELSE Window
      BY <1>3, <1>4
    <3> QED BY <1>1, <1>7, <3>1
  <2>2. ASSUME NEW i \in 1..(Window - 1) PROVE after[i] = before[i + 1]
    <3>1. /\ i \in 1..Window /\ i + 1 \in 1..Window
          /\ ((n + 1) - Window) + i = (n - Window) + (i + 1)
          /\ (n - Window) + (i + 1) \in 1..n
      BY <1>1, <1>7
    <3>2. after[i] = longer[(n - Window) + (i + 1)].correct
      BY <1>4, <2>1, <3>1
    <3>3. before[i + 1] = ordered[(n - Window) + (i + 1)].correct
      BY <1>3, <2>1, <3>1
    <3> QED BY <1>2, <3>1, <3>2, <3>3
  <2> QED BY <2>1, <2>2
<1> QED BY <1>1, <1>3, <1>4, <1>5, <1>6, <1>7 DEF before, after, n, longer

(* A hit at the end of a window that grows or moves on never lowers the raw *)
(* score, and a miss never raises it.                                       *)
LEMMA GrowingWindowGains ==
  ASSUME NEW before \in Seq(BOOLEAN), NEW after \in Seq(BOOLEAN), NEW c \in BOOLEAN,
         Len(after) = Len(before) + 1, after[Len(after)] = c,
         \A i \in 1..Len(before) : after[i] = before[i]
  PROVE  LET gained == HitWeight(after) * TotalWeight(before)
                         - HitWeight(before) * TotalWeight(after)
         IN  gained \in Int /\ IF c THEN gained >= 0 ELSE gained <= 0
<1> DEFINE n == Len(before)
           hits == {i \in DOMAIN before : before[i]}
           more == {i \in DOMAIN after : after[i]}
           b == HitWeight(before)
           d == HitWeight(after)
           t == TotalWeight(before)
           u == TotalWeight(after)
<1>1. n \in Nat /\ DOMAIN before = 1..n /\ DOMAIN after = 1..(n + 1)
  OBVIOUS
<1>2. hits \in SUBSET (1..(n + 1)) /\ n + 1 \in (1..(n + 1)) \ hits /\ n + 1 \in Nat
  BY <1>1
<1>3. more = IF c THEN hits \cup {n + 1} ELSE hits
  <2>1. \A i \in 1..(n + 1) : i \in 1..n \/ i = n + 1
    BY <1>1
  <2>2. n + 1 \in more <=> c
    BY <1>1, <1>2
  <2>3. \A i \in 1..n : i \in more <=> i \in hits
    BY <1>1
  <2>4. more \subseteq 1..(n + 1) /\ hits \subseteq 1..n
    BY <1>1
  <2> HIDE DEF more, hits
  <2>5. CASE c
    <3>1. more = hits \cup {n + 1}
      BY <1>2, <2>1, <2>2, <2>3, <2>4, <2>5
    <3> QED BY <2>5, <3>1
  <2>6. CASE ~c
    <3>1. n + 1 \notin more
      BY <2>2, <2>6
    <3>2. more = hits
      BY <1>2, <2>1, <2>3, <2>4, <3>1
    <3> QED BY <2>6, <3>2
  <2> QED BY <2>5, <2>6
<1>4. b = SumSet(hits) /\ d = SumSet(more)
  BY DEF HitWeight
<1>5. b \in Nat /\ t \in Nat /\ 2 * t = n * (n + 1) /\ b <= t
  BY Weights, WeightsAreBounded
<1>6. u \in Nat /\ 2 * u = (n + 1) * ((n + 1) + 1)
  BY Weights
<1> HIDE DEF n, hits, more, b, d, t, u
<1>7. d = IF c THEN (n + 1) + b ELSE b
  BY <1>2, <1>3, <1>4, SumSteps
<1>8. u = t + (n + 1)
  <2>1. (n + 1) * ((n + 1) + 1) = n * (n + 1) + 2 * (n + 1)
    BY <1>1
  <2> QED BY <1>1, <1>5, <1>6, <2>1
<1>9. b * u = b * t + b * (n + 1)
  BY <1>1, <1>5, <1>8
<1>10. b * (n + 1) \in Nat /\ t * (n + 1) \in Nat /\ b * (n + 1) <= t * (n + 1) /\ b * t \in Nat
  BY <1>1, <1>5
<1>11. c => d * t = t * (n + 1) + b * t
  BY <1>1, <1>5, <1>7
<1>12. ~c => d * t = b * t
  BY <1>7
<1>13. CASE c
  <2>1. d * t - b * u = t * (n + 1) - b * (n + 1)
    BY <1>9, <1>10, <1>11, <1>13
  <2>2. d * t - b * u \in Int /\ d * t - b * u >= 0
    BY <1>10, <2>1
  <2> QED BY <1>13, <2>2 DEF d, t, b, u
<1>14. CASE ~c
  <2>1. d * t - b * u = 0 - b * (n + 1)
    BY <1>9, <1>10, <1>12, <1>14
  <2>2. d * t - b * u \in Int /\ d * t - b * u <= 0
    BY <1>10, <2>1
  <2> QED BY <1>14, <2>2 DEF d, t, b, u
<1> QED BY <1>13, <1>14

LEMMA MovingWindowGains ==
  ASSUME NEW before \in Seq(BOOLEAN), NEW after \in Seq(BOOLEAN), NEW c \in BOOLEAN,
         Len(before) > 0, Len(after) = Len(before), after[Len(after)] = c,
         \A i \in 1..(Len(before) - 1) : after[i] = before[i + 1]
  PROVE  LET gained == HitWeight(after) * TotalWeight(before)
                         - HitWeight(before) * TotalWeight(after)
         IN  gained \in Int /\ IF c THEN gained >= 0 ELSE gained <= 0
<1> DEFINE n == Len(before)
           hits == {i \in DOMAIN before : before[i]}
           moved == {i - 1 : i \in hits \ {1}}
           more == {i \in DOMAIN after : after[i]}
           b == HitWeight(before)
           d == HitWeight(after)
           t == TotalWeight(before)
           k == Cardinality(hits)
<1>1. n \in Nat \ {0} /\ DOMAIN before = 1..n /\ DOMAIN after = 1..n
  OBVIOUS
<1>2. hits \in SUBSET (1..n)
  BY <1>1
<1>3. moved \in SUBSET (1..n) /\ n \in (1..n) \ moved
  BY <1>1, <1>2
<1>4. more = IF c THEN moved \cup {n} ELSE moved
  <2>1. \A i \in 1..n : i \in 1..(n - 1) \/ i = n
    <3> HIDE DEF n
    <3> QED BY <1>1
  <2>2. n \in more <=> c
    BY <1>1
  <2>3. ASSUME NEW i \in 1..(n - 1) PROVE i \in more <=> i \in moved
    <3>1. i \in 1..n /\ i + 1 \in 1..n /\ i + 1 # 1 /\ (i + 1) - 1 = i
      BY <1>1
    <3>2. i \in more <=> i + 1 \in hits
      BY <1>1, <3>1
    <3>3. i + 1 \in hits => i \in moved
      BY <3>1
    <3>4. ASSUME i \in moved PROVE i + 1 \in hits
      <4>1. PICK j \in hits \ {1} : i = j - 1
        BY <3>4
      <4>2. j = i + 1
        BY <1>2, <4>1
      <4> QED BY <4>1, <4>2
    <3> QED BY <3>2, <3>3, <3>4
  <2>4. more \subseteq 1..n
    BY <1>1
  <2> HIDE DEF more, hits, moved
  <2>5. CASE c
    <3>1. more = moved \cup {n}
      BY <1>3, <2>1, <2>2, <2>3, <2>4, <2>5
    <3> QED BY <2>5, <3>1
  <2>6. CASE ~c
    <3>1. n \notin more
      BY <2>2, <2>6
    <3>2. more = moved
      <4>1. \A i \in 1..n : i \in more <=> i \in moved
        BY <1>3, <2>1, <2>3, <3>1
      <4> QED BY <1>3, <2>4, <4>1
    <3> QED BY <2>6, <3>2
  <2> QED BY <2>5, <2>6
<1>5. b = SumSet(hits) /\ d = SumSet(more)
  BY DEF HitWeight
<1>6. b \in Nat /\ t \in Nat
  BY Weights
<1>7. TotalWeight(after) = t
  BY DEF TotalWeight
<1> HIDE DEF hits
<1>8. k \in Nat /\ k <= n /\ SumSet(moved) = b - k
  BY <1>1, <1>2, <1>5, SumOfShifted
<1> HIDE DEF n, moved, more, b, d, t, k
<1>9. d = IF c THEN n + (b - k) ELSE b - k
  BY <1>1, <1>3, <1>4, <1>5, <1>8, SumSteps
<1>10. d \in Int /\ d * t \in Int /\ b * t \in Int /\ d * t - b * t = (d - b) * t
  BY <1>1, <1>6, <1>8, <1>9
<1>11. IF c THEN d - b >= 0 ELSE d - b <= 0
  BY <1>1, <1>6, <1>8, <1>9
<1>12. d - b \in Int
  BY <1>6, <1>10
<1>13. d - b >= 0 => (d - b) * t >= 0
  BY <1>6, <1>12
<1>14. d - b <= 0 => (d - b) * t <= 0
  BY <1>6, <1>12
<1>15. d * t - b * t \in Int /\ IF c THEN d * t - b * t >= 0 ELSE d * t - b * t <= 0
  BY <1>10, <1>11, <1>13, <1>14
<1> QED BY <1>7, <1>15 DEF d, t, b

(* The attempts that are in force at the horizon are all. *)
LEMMA AllInForce ==
  ASSUME NEW S, IsHistory(S)
  PROVE  InForce(S, Horizon) = S
BY Horizons DEF IsHistory, InForce, Time

(* SPEC 2.2, steps 3 and 4, for any window: a hit that comes last never     *)
(* lowers the raw score, a miss never raises it.                            *)
THEOREM TheLatestAnswerCounts == HistorySpec => []LatestAnswerCounts
<1>1. HistoryInv => LatestAnswerCounts
  <2> DEFINE Old(a) == ComputeState(attempts \ {a}, Horizon).recent_window
             New == State(Horizon).recent_window
             Gained(a) == HitWeight(New) * TotalWeight(Old(a))
                            - HitWeight(Old(a)) * TotalWeight(New)
  <2> SUFFICES ASSUME HistoryInv, NEW a \in attempts, Old(a) # <<>>,
                      \A b \in attempts \ {a} : Before(b, a)
               PROVE  IF a.correct THEN Gained(a) >= 0 ELSE Gained(a) <= 0
    BY DEF LatestAnswerCounts
  <2> DEFINE S == attempts \ {a}
             ordered == OrderAttempts(S)
             before == RecentWindow(ordered)
             after == RecentWindow(Append(ordered, a))
             n == Len(ordered)
  <2>1. attempts = S \cup {a} /\ a \notin S /\ S \in SUBSET attempts
    OBVIOUS
  <2>2. IsHistory(attempts) /\ IsHistory(S) /\ a.correct \in BOOLEAN
    BY <2>1, FS_Subset DEF HistoryInv, IsHistory
  <2>3. OrderAttempts(attempts) = Append(ordered, a)
    <3>1. IsHistory(S \cup {a}) /\ \A b \in S : Before(b, a)
      BY <2>1, <2>2
    <3> HIDE DEF S
    <3>2. OrderAttempts(S \cup {a}) = Append(OrderAttempts(S), a)
      BY <2>1, <3>1, LatestIsLast
    <3> QED BY <2>1, <3>2
  <2>4. Old(a) = before
    BY <2>2, AllInForce DEF ComputeState, AttemptsUntil, StateOf
  <2>5. New = after
    BY <2>2, <2>3, AllInForce DEF State, ComputeState, AttemptsUntil, StateOf
  <2>6. ordered \in Seq(S) /\ \A b \in S : b.correct \in BOOLEAN
    BY <2>2, Ordered DEF IsHistory
  <2> HIDE DEF S, ordered
  <2>7. /\ before \in Seq(BOOLEAN) /\ after \in Seq(BOOLEAN) /\ n \in Nat
        /\ n < Window => /\ Len(before) = n /\ Len(after) = n + 1
                         /\ \A i \in 1..n : after[i] = before[i]
        /\ n >= Window => /\ Len(before) = Window /\ Len(after) = Window
                          /\ \A i \in 1..(Window - 1) : after[i] = before[i + 1]
        /\ after[Len(after)] = a.correct
    BY <2>2, <2>6, WindowMoves
  <2>8. before # <<>>
    BY <2>4
  <2> DEFINE gained == HitWeight(after) * TotalWeight(before)
                         - HitWeight(before) * TotalWeight(after)
  <2>9. gained = Gained(a)
    BY <2>4, <2>5
  <2> HIDE DEF before, after, n, Old, New
  <2>10. IF a.correct THEN gained >= 0 ELSE gained <= 0
    <3>1. CASE n < Window
      <4>1. Len(after) = Len(before) + 1 /\ \A i \in 1..Len(before) : after[i] = before[i]
        BY <2>7, <3>1
      <4> QED BY <2>2, <2>7, <4>1, GrowingWindowGains
    <3>2. CASE ~ (n < Window)
      <4>1. /\ Len(after) = Len(before) /\ Len(before) > 0
            /\ \A i \in 1..(Len(before) - 1) : after[i] = before[i + 1]
        BY <2>7, <3>2, CountAssumption
      <4> QED BY <2>2, <2>7, <4>1, MovingWindowGains
    <3> QED BY <3>1, <3>2
  <2> QED BY <2>9, <2>10
<1> QED BY <1>1, HistoryInvAlways, PTL

-----------------------------------------------------------------------------
(* Recovery: as many hits as the window holds, after any past. *)
LEMMA RoundedOfAll ==
  ASSUME NEW total \in Nat \ {0}
  PROVE  Rounded(total, total, Scale) = Scale
<1>1. Scale \in Nat
  BY CountAssumption
<1>2. 2 * total * Scale = Scale * (2 * total)
  BY <1>1
<1> DEFINE d == 2 * total
           q == (Scale * d + total) \div d
<1>3. d \in Nat \ {0} /\ total < d /\ Scale * d \in Int
  BY <1>1
<1>4. q \in Int /\ d * q <= Scale * d + total /\ Scale * d + total < d * q + d
  <2> HIDE DEF d
  <2> QED BY <1>3
<1>5. q = Scale
  <2> HIDE DEF q, d
  <2>1. ASSUME q + 1 <= Scale PROVE FALSE
    <3>1. d * (q + 1) <= d * Scale /\ d * (q + 1) = d * q + d /\ d * Scale = Scale * d
      BY <1>1, <1>3, <1>4, <2>1
    <3> QED BY <1>3, <1>4, <3>1
  <2>2. ASSUME Scale + 1 <= q PROVE FALSE
    <3>1. d * (Scale + 1) <= d * q /\ d * (Scale + 1) = d * Scale + d /\ d * Scale = Scale * d
      BY <1>1, <1>3, <1>4, <2>2
    <3> QED BY <1>3, <1>4, <3>1
  <2> QED BY <1>1, <1>4, <2>1, <2>2
<1> QED BY <1>2, <1>5 DEF Rounded

LEMMA TwoElements ==
  ASSUME NEW S, IsFiniteSet(S), NEW x \in S, NEW y \in S, x # y
  PROVE  Cardinality(S) >= 2
<1>1. /\ IsFiniteSet(S \ {x}) /\ Cardinality(S \ {x}) = Cardinality(S) - 1
      /\ Cardinality(S) \in Nat
  BY FS_RemoveElement, FS_CardinalityType
<1>2. Cardinality(S \ {x}) # 0 /\ Cardinality(S \ {x}) \in Nat
  <2>1. S \ {x} # {}
    OBVIOUS
  <2> QED BY <1>1, <2>1, FS_EmptySet, FS_CardinalityType
<1> QED BY <1>1, <1>2

LEMMA DaysDiffer ==
  ASSUME NEW at \in Nat, NEW later \in Nat, later - at >= TicksPerDay
  PROVE  Day(at) # Day(later)
<1> DEFINE p == at \div TicksPerDay
           q == later \div TicksPerDay
<1>1. TicksPerDay \in Nat \ {0}
  BY CountAssumption
<1>2. /\ p \in Int /\ at < TicksPerDay * p + TicksPerDay
      /\ q \in Int /\ later < TicksPerDay * q + TicksPerDay
      /\ TicksPerDay * p <= at
  BY <1>1
<1> HIDE DEF p, q
<1>3. p # q
  BY <1>1, <1>2
<1> QED BY <1>3 DEF p, q, Day

LEMMA DaysAreFinite ==
  ASSUME NEW n \in Nat, NEW ordered, DOMAIN ordered = 1..n
  PROVE  IsFiniteSet({Day(ordered[i].at) : i \in DOMAIN ordered})
<1> DEFINE days == {Day(ordered[i].at) : i \in DOMAIN ordered}
           f == [i \in 1..n |-> Day(ordered[i].at)]
<1>1. f \in Surjection(1..n, days)
  <2>1. \A d \in days : \E i \in 1..n : f[i] = d
    OBVIOUS
  <2>2. f \in [1..n -> days]
    OBVIOUS
  <2> HIDE DEF f, days
  <2> QED BY <2>1, <2>2 DEF Surjection
<1>2. IsFiniteSet(1..n)
  BY FS_Interval
<1> HIDE DEF f, days
<1>3. IsFiniteSet(days)
  BY <1>1, <1>2, FS_Surjection
<1> QED BY <1>3 DEF days

LEMMA FreshHitsAreHits ==
  ASSUME HistoryInv
  PROVE  /\ IsFiniteSet(FreshHits) /\ Cardinality(FreshHits) = Window
         /\ \A f \in FreshHits : f.at = Horizon /\ f.correct = TRUE
         /\ IsHistory(attempts \cup FreshHits)
         /\ attempts \cap FreshHits = {}
         /\ \A a \in attempts, f \in FreshHits : Before(a, f)
<1> DEFINE Fresh(i) == [attempt_id |-> MaxAnswers + i, at |-> Horizon, correct |-> TRUE]
           g == [i \in 1..Window |-> Fresh(i)]
<1>1. Window \in Nat \ {0} /\ MaxAnswers \in Nat /\ Horizon \in Nat /\ Horizon \in Time
  BY CountAssumption, InputAssumption, Horizons DEF Time
<1>2. FreshHits = {Fresh(i) : i \in 1..Window}
  BY DEF FreshHits
<1>3. \A i \in 1..Window : /\ Fresh(i).attempt_id = MaxAnswers + i /\ Fresh(i).at = Horizon
                           /\ Fresh(i).correct = TRUE
  OBVIOUS
<1> HIDE DEF Fresh
<1>4. g \in Bijection(1..Window, FreshHits)
  <2>1. \A i, j \in 1..Window : g[i] = g[j] => i = j
    BY <1>1, <1>3
  <2>2. \A f \in FreshHits : \E i \in 1..Window : g[i] = f
    BY <1>2
  <2>3. g \in [1..Window -> FreshHits]
    BY <1>2
  <2> HIDE DEF g
  <2> QED BY <2>1, <2>2, <2>3 DEF Bijection, Injection, Surjection, IsInjective
<1>5. IsFiniteSet(1..Window) /\ Cardinality(1..Window) = Window
  BY <1>1, FS_Interval
<1>6. ExistsBijection(1..Window, FreshHits)
  <2> HIDE DEF g
  <2> QED BY <1>4 DEF ExistsBijection
<1>7. IsFiniteSet(FreshHits) /\ Cardinality(FreshHits) = Window
  BY <1>5, <1>6, FS_Bijection
<1>8. \A f \in FreshHits : /\ f.at = Horizon /\ f.correct = TRUE
                           /\ f.attempt_id \in Nat /\ f.attempt_id > MaxAnswers
  BY <1>1, <1>2, <1>3
<1>9. \A f, h \in FreshHits : f.attempt_id = h.attempt_id => f = h
  <2> SUFFICES ASSUME NEW i \in 1..Window, NEW j \in 1..Window,
                      Fresh(i).attempt_id = Fresh(j).attempt_id
               PROVE  Fresh(i) = Fresh(j)
    BY <1>2
  <2>1. i = j
    BY <1>1, <1>3
  <2> QED BY <2>1
<1>10. /\ IsHistory(attempts) /\ Cardinality(attempts) \in Nat
       /\ Cardinality(attempts) <= MaxAnswers
       /\ \A a \in attempts : a.attempt_id <= Cardinality(attempts)
  BY FS_CardinalityType DEF HistoryInv, IsHistory
<1>11. \A a \in attempts : /\ a.attempt_id \in Nat /\ a.attempt_id <= MaxAnswers
                           /\ a.at \in Nat /\ a.at <= Horizon
  BY <1>1, <1>10 DEF IsHistory, Time
<1>12. \A a \in attempts, f \in FreshHits : Before(a, f)
  BY <1>1, <1>8, <1>11 DEF Before
<1>13. \A a \in attempts, f \in FreshHits : a.attempt_id # f.attempt_id
  BY <1>1, <1>8, <1>11
<1>14. attempts \cap FreshHits = {}
  BY <1>13
<1>15. IsHistory(attempts \cup FreshHits)
  <2>1. IsFiniteSet(attempts \cup FreshHits)
    BY <1>7, <1>10, FS_Union DEF IsHistory
  <2>2. \A a \in attempts \cup FreshHits :
          a.attempt_id \in Nat /\ a.at \in Time /\ a.correct \in BOOLEAN
    BY <1>1, <1>8, <1>10 DEF IsHistory
  <2>3. \A a, b \in attempts \cup FreshHits : a.attempt_id = b.attempt_id => a = b
    BY <1>9, <1>10, <1>13 DEF IsHistory
  <2> QED BY <2>1, <2>2, <2>3 DEF IsHistory
<1> QED BY <1>7, <1>8, <1>12, <1>14, <1>15

(* After the fresh hits the window is full of them. *)
LEMMA FreshHitsFillTheWindow ==
  ASSUME HistoryInv
  PROVE  LET ordered == OrderAttempts(attempts \cup FreshHits)
             n       == Len(ordered)
             window  == RecentWindow(ordered)
         IN  /\ ordered \in Seq(attempts \cup FreshHits) /\ n \in Nat /\ n >= Window
             /\ ordered[n].at = Horizon
             /\ window \in Seq(BOOLEAN) /\ Len(window) = Window
             /\ \A i \in 1..Window : window[i]
<1> DEFINE T == attempts \cup FreshHits
           ordered == OrderAttempts(T)
           n == Len(ordered)
           m == Cardinality(attempts)
           R == Earlier(T)
           window == RecentWindow(ordered)
<1>1. /\ IsHistory(T) /\ IsFiniteSet(T) /\ IsFiniteSet(attempts) /\ m \in Nat
      /\ Window \in Nat \ {0} /\ Cardinality(T) = m + Window
  <2>1. IsHistory(T) /\ IsFiniteSet(T) /\ IsFiniteSet(attempts) /\ m \in Nat
    BY FreshHitsAreHits, FS_CardinalityType DEF HistoryInv, IsHistory
  <2>2. Cardinality(T) = m + Cardinality(FreshHits) - Cardinality(attempts \cap FreshHits)
    BY <2>1, FreshHitsAreHits, FS_Union
  <2>3. Cardinality(attempts \cap FreshHits) = 0
    BY FreshHitsAreHits, FS_EmptySet
  <2>4. Cardinality(FreshHits) = Window /\ Window \in Nat \ {0}
    BY FreshHitsAreHits, CountAssumption
  <2> HIDE DEF m, T
  <2> QED BY <2>1, <2>2, <2>3, <2>4
<1>2. Orders(T, R) /\ ordered = Listing(T, R)
  BY <1>1, BeforeOrders, OrderIsListing
<1>3. ASSUME NEW a \in attempts PROVE Rank(T, R, a) < m
  <2> DEFINE ahead == {y \in T : <<y, a>> \in R}
  <2>1. ahead \in SUBSET (attempts \ {a})
    <3>1. ASSUME NEW y \in ahead PROVE y \in attempts \ {a}
      <4>1. y \in T /\ a \in T /\ <<y, a>> \in R
        OBVIOUS
      <4>2. y # a /\ <<a, y>> \notin R
        BY <1>2, <4>1 DEF Orders
      <4>3. y \notin FreshHits
        <5>1. y \in FreshHits => <<a, y>> \in R
          BY <4>1, FreshHitsAreHits DEF Earlier
        <5> QED BY <4>2, <5>1
      <4> QED BY <4>1, <4>2, <4>3
    <3> QED BY <3>1
  <2>2. IsFiniteSet(attempts \ {a}) /\ Cardinality(attempts \ {a}) = m - 1
    BY <1>1, FS_RemoveElement
  <2> HIDE DEF ahead, R, T, m
  <2>3. Cardinality(ahead) <= m - 1 /\ Cardinality(ahead) \in Nat
    BY <2>1, <2>2, FS_Subset, FS_CardinalityType
  <2> QED BY <1>1, <2>3 DEF Rank, ahead
<1>4. /\ ordered \in Seq(T) /\ n = m + Window
      /\ \A i \in 1..n : Rank(T, R, ordered[i]) = i - 1
  <2> HIDE DEF R, T, m
  <2> QED BY <1>1, <1>2, ListingIsSorted
<1>5. ASSUME NEW i \in 1..n, i > m PROVE ordered[i] \in FreshHits
  <2>1. ordered[i] \in T /\ Rank(T, R, ordered[i]) = i - 1
    <3> HIDE DEF T, R, ordered
    <3> QED BY <1>4
  <2>2. ~ (Rank(T, R, ordered[i]) < m)
    BY <1>1, <1>4, <1>5, <2>1
  <2> HIDE DEF R
  <2> QED BY <1>3, <2>1, <2>2
<1>6. \A b \in T : b.correct \in BOOLEAN
  BY <1>1 DEF IsHistory
<1> HIDE DEF T, ordered, n, m, R
<1>7. /\ window \in Seq(BOOLEAN)
      /\ Len(window) = IF n <= Window THEN n ELSE Window
      /\ \A i \in 1..Len(window) : /\ (n - Len(window)) + i \in 1..n
                                   /\ window[i] = ordered[(n - Len(window)) + i].correct
  BY <1>4, <1>6, WindowIsTheEnd DEF n
<1>8. Len(window) = Window
  BY <1>1, <1>4, <1>7
<1>9. ASSUME NEW i \in 1..Window PROVE window[i]
  <2>1. (n - Len(window)) + i \in 1..n /\ (n - Len(window)) + i > m
    BY <1>1, <1>4, <1>8
  <2>2. ordered[(n - Len(window)) + i] \in FreshHits
    BY <1>5, <2>1
  <2>3. window[i] = ordered[(n - Len(window)) + i].correct
    BY <1>7, <1>8
  <2> QED BY <2>2, <2>3, FreshHitsAreHits
<1>10. ordered[n].at = Horizon
  <2>1. n \in 1..n /\ n > m
    BY <1>1, <1>4
  <2> QED BY <1>5, <2>1, FreshHitsAreHits
<1>11. n \in Nat /\ n >= Window
  BY <1>1, <1>4
<1> QED BY <1>4, <1>7, <1>8, <1>9, <1>10, <1>11 DEF T, ordered, n

(* SPEC 3.2, "nothing is irreversible", for any past and any window: as     *)
(* many hits as the window holds bring a perfect score, and MASTERED if the *)
(* history is long enough.  The hypotheses are about core/constants.py: a   *)
(* full window is enough evidence, and two days apart are the days asked.   *)
THEOREM AnyPastIsRecovered ==
  ASSUME MinAttempts <= Window, MasteryMinDays <= 2, MasteryMinSpan >= 1
  PROVE  HistorySpec => []NothingIsIrreversible
<1>1. HistoryInv => NothingIsIrreversible
  <2> SUFFICES ASSUME HistoryInv PROVE NothingIsIrreversible
    OBVIOUS
  <2> DEFINE T == attempts \cup FreshHits
             ordered == OrderAttempts(T)
             n == Len(ordered)
             window == RecentWindow(ordered)
             after == ComputeState(T, Horizon)
             span == MasteryMinSpan * TicksPerDay
             total == TotalWeight(window)
  <2>1. /\ ordered \in Seq(T) /\ n \in Nat /\ n >= Window /\ ordered[n].at = Horizon
        /\ window \in Seq(BOOLEAN) /\ Len(window) = Window
        /\ \A i \in 1..Window : window[i]
    BY FreshHitsFillTheWindow
  <2>2. /\ Window \in Nat \ {0} /\ MinAttempts \in Nat /\ ~ (n < MinAttempts)
        /\ Horizon \in Nat /\ Scale \in Nat
    BY <2>1, CountAssumption, Horizons
  <2>3. IsHistory(T)
    BY FreshHitsAreHits
  <2>4. after = StateOf(ordered, Horizon)
    BY <2>3, AllInForce DEF ComputeState, AttemptsUntil
  <2> HIDE DEF T, ordered
  <2>5. HitWeight(window) = total /\ total \in Nat \ {0}
    <3> HIDE DEF window
    <3> QED BY <2>1, <2>2, Weights, WeightsAreBounded
  <2>6. ScoreOf(ordered, Horizon) = Scale
    <3>1. RetentionFactor(ordered[n].at, Horizon) = Scale
      BY <2>1, <2>2 DEF RetentionFactor
    <3>2. ScoreOf(ordered, Horizon) = Rounded(total, total, Scale)
      BY <2>2, <2>5, <3>1 DEF ScoreOf
    <3> HIDE DEF total
    <3> QED BY <2>5, <3>2, RoundedOfAll
  <2>7. after.score = Scale /\ after.level = LevelOf(Scale, ordered)
    BY <2>4, <2>6 DEF StateOf
  <2>8. ASSUME NEW a \in attempts, Horizon - a.at >= span PROVE after.level = MASTERED
    <3>1. /\ a \in T /\ a.at \in Nat /\ TicksPerDay \in Nat \ {0} /\ MasteryMinSpan \in Nat
          /\ MasteryMinDays \in Nat
      BY <2>3, CountAssumption, Horizons DEF T, IsHistory, Time
    <3>2. span \in Nat /\ span >= TicksPerDay
      BY <3>1
    <3>3. PICK j \in 1..n : ordered[j] = a
      BY <2>3, <3>1, Ordered DEF ordered
    <3>4. DistinctAttemptDays(ordered) >= MasteryMinDays
      <4> DEFINE days == {Day(ordered[i].at) : i \in DOMAIN ordered}
      <4>1. DOMAIN ordered = 1..n /\ n \in 1..n
        BY <2>1, <2>2
      <4>2. IsFiniteSet(days)
        <5> HIDE DEF n
        <5> QED BY <2>1, <4>1, DaysAreFinite
      <4>3. Day(a.at) \in days /\ Day(Horizon) \in days
        BY <2>1, <3>3, <4>1
      <4>4. Horizon - a.at >= TicksPerDay
        <5> HIDE DEF span
        <5> QED BY <2>2, <2>8, <3>1, <3>2
      <4>5. Day(a.at) # Day(Horizon)
        BY <2>2, <3>1, <4>4, DaysDiffer
      <4> HIDE DEF days
      <4>6. Cardinality(days) >= 2 /\ Cardinality(days) \in Nat
        BY <4>2, <4>3, <4>5, TwoElements, FS_CardinalityType
      <4>7. Cardinality(days) >= MasteryMinDays
        BY <3>1, <4>6
      <4> QED BY <4>7 DEF DistinctAttemptDays, days
    <3>5. ordered[n].at - ordered[1].at >= span
      <4>1. 1 \in 1..n /\ ordered[1] \in T
        BY <2>1, <2>2
      <4>2. ordered[1].at \in Nat
        BY <2>3, <4>1, Horizons DEF IsHistory, Time
      <4>3. ordered[1].at <= a.at
        <5>1. CASE j = 1
          BY <3>1, <3>3, <5>1
        <5>2. CASE j # 1
          <6>1. 1 < j
            BY <2>1, <5>2
          <6>2. Before(ordered[1], ordered[j])
            BY <2>3, <4>1, <6>1, Ordered DEF ordered
          <6> QED BY <3>1, <3>3, <4>2, <6>2 DEF Before
        <5> QED BY <5>1, <5>2
      <4> HIDE DEF span
      <4> QED BY <2>1, <2>2, <2>8, <3>1, <3>2, <4>2, <4>3
    <3>6. AtLeast(window, MasteryMinRaw)
      <4>1. MasteryMinRaw \in 0..Scale
        BY ThresholdAssumption
      <4>2. total * Scale >= MasteryMinRaw * total
        <5> HIDE DEF total
        <5>1. MasteryMinRaw \in Nat /\ MasteryMinRaw <= Scale
          BY <2>2, <4>1
        <5> QED BY <2>2, <2>5, <5>1
      <4> QED BY <2>1, <2>2, <2>5, <4>2 DEF AtLeast
    <3>7. IsSustained(ordered)
      BY <3>4, <3>5, <3>6 DEF IsSustained
    <3>8. LevelOf(Scale, ordered) = MASTERED
      <4>1. Learning \in Int /\ Competent \in Int /\ Learning <= Competent /\ Competent <= Scale
        BY <2>2, ThresholdAssumption
      <4>2. /\ ~ (Scale < Learning) /\ Scale \notin Learning..(Competent - 1)
            /\ Scale >= Competent /\ Len(ordered) >= MinAttempts
        BY <2>2, <2>1, <4>1
      <4> QED BY <2>2, <3>7, <4>2 DEF LevelOf
    <3> QED BY <2>7, <3>8
  <2> QED BY <2>7, <2>8 DEF NothingIsIrreversible, T
<1> QED BY <1>1, HistoryInvAlways, PTL

-----------------------------------------------------------------------------
(* Calls. *)
CheckCall ==
  [stage : {"check"}, profile_id : Profile, objective_id : Objective,
   attempt_id : AttemptId \cup {None}, items : Seq(Item) \ {<<>>}]

AppendCall == [stage : {"append"}, attempt : Attempt, items : Seq(Item)]

NextCall == [stage : {"next"}, profile_id : Profile, objective_id : Objective,
             items : Seq(Item) \ {<<>>}]

LEMMA CallCases ==
  ASSUME TypeOK, NEW c \in Caller
  PROVE  /\ call[c] \in CheckCall \cup AppendCall \cup NextCall \cup {Idle}
         /\ call[c].stage = "check" => call[c] \in CheckCall
         /\ call[c].stage = "append" => call[c] \in AppendCall
         /\ call[c].stage = "next" => call[c] \in NextCall
BY DEF TypeOK, Call, CheckCall, AppendCall, NextCall, Idle

-----------------------------------------------------------------------------
LEMMA TypeOKInitially == Init => TypeOK
<1> SUFFICES ASSUME Init PROVE TypeOK
  OBVIOUS
<1>1. call \in [Caller -> Call]
  BY DEF Init, Call
<1>2. objectives \in [Profile -> (SUBSET Objective) \cup {None}]
  BY DEF Init
<1> QED BY <1>1, <1>2, Horizons DEF Init, TypeOK

(* get_objective puts a well typed call under way. *)
LEMMA LookUpTyped ==
  ASSUME TypeOK, NEW c \in Caller, NEW p \in Profile, NEW o \in Objective,
         NEW id \in AttemptId \cup {None}, NEW items \in Seq(Item) \ {<<>>}, LookUp(c, p, o, id, items)
  PROVE  call' \in [Caller -> Call]
<1>1. [stage |-> "check", profile_id |-> p, objective_id |-> o, attempt_id |-> id,
       items |-> items] \in Call
  BY DEF Call
<1> QED BY <1>1 DEF TypeOK, LookUp

LEMMA TypeOKStep == TypeOK /\ [Next]_vars => TypeOK'
<1> SUFFICES ASSUME TypeOK, [Next]_vars PROVE TypeOK'
  OBVIOUS
<1>1. ASSUME NEW p \in Profile, NEW os \in SavedSet,
             SaveProfile(p, os) \/ UpsertObjectives(p, os)
      PROVE  TypeOK'
  <2>1. os \subseteq Objective
    BY ClockAssumption
  <2>2. CASE SaveProfile(p, os)
    BY <2>1, <2>2 DEF TypeOK, SaveProfile
  <2>3. CASE UpsertObjectives(p, os)
    BY <2>1, <2>3 DEF TypeOK, UpsertObjectives
  <2> QED BY <1>1, <2>2, <2>3
<1>2. ASSUME NEW c \in Caller, NEW p \in Profile, NEW o \in Objective,
             NEW id \in ExplicitId \cup {None}, NEW item \in Answers,
             RecordAttempt(c, p, o, id, item)
      PROVE  TypeOK'
  <2>1. <<item>> \in Seq(Item) \ {<<>>} /\ id \in AttemptId \cup {None}
    BY IdAssumption, ClockAssumption DEF Item
  <2>2. call' \in [Caller -> Call]
    BY <1>2, <2>1, LookUpTyped DEF RecordAttempt
  <2> QED BY <1>2, <2>2 DEF TypeOK, RecordAttempt
<1>3. ASSUME NEW c \in Caller, NEW p \in Profile, NEW o \in Objective,
             NEW results \in Series, NEW step \in Steps,
             RecordSeries(c, p, o, results, now, step)
      PROVE  TypeOK'
  <2> DEFINE n == Len(results)
  <2> DEFINE items == [i \in 1..Len(results) |->
                         [at |-> now + step * (i - 1), correct |-> results[i]]]
  <2>1. n \in Nat \ {0} /\ results \in Seq(BOOLEAN) /\ DOMAIN results = 1..n
    BY ClockAssumption
  <2>2. now + step * (n - 1) \in Time /\ now \in Time /\ step \in Nat
    BY <1>3, <2>1, StepAssumption DEF RecordSeries, TypeOK
  <2>3. ASSUME NEW i \in 1..n PROVE now + step * (i - 1) \in Time
    <3>1. step * (i - 1) <= step * (n - 1) /\ step * (i - 1) \in Nat
      BY <2>1, <2>2
    <3>2. step * (n - 1) \in Nat
      BY <2>1, <2>2
    <3> HIDE DEF items
    <3> QED BY <2>2, <3>1, <3>2, Horizons DEF Time
  <2>4. items \in Seq(Item) \ {<<>>}
    BY <2>1, <2>3 DEF Item
  <2>5. call' \in [Caller -> Call]
    BY <1>3, <2>4, LookUpTyped DEF RecordSeries
  <2> QED BY <1>3, <2>5 DEF TypeOK, RecordSeries
<1>4. ASSUME NEW c \in Caller, CheckId(c) PROVE TypeOK'
  <2>1. CASE call' = [call EXCEPT ![c] = Idle]
    BY <1>4, <2>1 DEF CheckId, TypeOK, Call
  <2>2. ASSUME NEW id \in AttemptId,
               call' = [call EXCEPT ![c] = [stage   |-> "append",
                                            attempt |-> Built(c, id),
                                            items   |-> Tail(call[c].items)]]
        PROVE  TypeOK'
    <3>1. call[c] \in CheckCall
      BY <1>4, CallCases DEF CheckId
    <3>2. Head(call[c].items) \in Item /\ Tail(call[c].items) \in Seq(Item)
      BY <3>1 DEF CheckCall
    <3>3. Built(c, id) \in Attempt
      BY <3>1, <3>2 DEF CheckCall, Item, Built, Attempt, TypeOK
    <3>4. [stage |-> "append", attempt |-> Built(c, id), items |-> Tail(call[c].items)] \in Call
      BY <3>2, <3>3 DEF Call
    <3> QED BY <1>4, <2>2, <3>4 DEF CheckId, TypeOK
  <2>3. call[c].attempt_id \in AttemptId \cup {None}
    BY <1>4, CallCases DEF CheckId, CheckCall
  <2> QED BY <1>4, <2>1, <2>2, <2>3 DEF CheckId
<1>5. ASSUME NEW c \in Caller, Append_(c) PROVE TypeOK'
  <2>1. call[c] \in AppendCall
    BY <1>5, CallCases DEF Append_
  <2>2. CASE call[c].items = <<>>
    BY <1>5, <2>1, <2>2 DEF Append_, TypeOK, Call, AppendCall
  <2>3. CASE call[c].items # <<>>
    <3> DEFINE next == [stage        |-> "next",
                        profile_id   |-> call[c].attempt.profile_id,
                        objective_id |-> call[c].attempt.objective_id,
                        items        |-> call[c].items]
    <3>1. next \in Call
      BY <2>1, <2>3 DEF AppendCall, Attempt, Call
    <3>2. call' = [call EXCEPT ![c] = next]
      BY <1>5, <2>3 DEF Append_
    <3> HIDE DEF next
    <3>3. call' \in [Caller -> Call]
      BY <3>1, <3>2 DEF TypeOK
    <3> QED BY <1>5, <2>1, <3>3 DEF Append_, TypeOK, AppendCall
  <2> QED BY <2>2, <2>3
<1>6. ASSUME NEW c \in Caller, AppendRaises(c) PROVE TypeOK'
  BY <1>6, CallCases DEF AppendRaises, TypeOK, Call, AppendCall
<1>9. ASSUME NEW c \in Caller, NextItem(c) PROVE TypeOK'
  <2>1. call[c] \in NextCall
    BY <1>9, CallCases DEF NextItem
  <2>2. call' \in [Caller -> Call]
    <3>1. CASE call' = [call EXCEPT ![c] = Idle]
      BY <3>1 DEF TypeOK, Call
    <3>2. CASE LookUp(c, call[c].profile_id, call[c].objective_id, None, call[c].items)
      BY <2>1, <3>2, LookUpTyped DEF NextCall
    <3> QED BY <1>9, <3>1, <3>2 DEF NextItem
  <2> QED BY <1>9, <2>2 DEF NextItem, TypeOK
<1>7. ASSUME NEW step \in Steps, Tick(step) PROVE TypeOK'
  <2>1. now + step \in Nat
    BY StepAssumption, Horizons DEF TypeOK, Time
  <2>2. now' \in Time
    BY <1>7, <2>1, Horizons, MinOfTwo DEF Tick, Advanced, Time
  <2> QED BY <1>7, <2>2 DEF Tick, TypeOK
<1>8. CASE UNCHANGED vars
  BY <1>8 DEF vars, TypeOK
<1> QED
  BY <1>1, <1>2, <1>3, <1>4, <1>5, <1>6, <1>7, <1>8, <1>9 DEF Next

(* Every state of the tracker is well typed. *)
THEOREM TrackerTypeCorrect == Spec => []TypeOK
BY TypeOKInitially, TypeOKStep, PTL DEF Spec

-----------------------------------------------------------------------------
(* The log only grows, by an attempt that a caller appends.                 *)
Stores(c) ==
  /\ call[c].stage = "append"
  /\ Accepts(call[c].attempt)
  /\ log' = log \cup {call[c].attempt}
  /\ \A d \in Caller \ {c} : returned'[d] = returned[d]
  /\ returned'[c] \subseteq returned[c] \cup {call[c].attempt}

LEMMA LogStep ==
  ASSUME TypeOK, [Next]_vars
  PROVE  \/ UNCHANGED <<log, returned>>
         \/ \E c \in Caller : Stores(c)
<1>1. ASSUME NEW c \in Caller, Append_(c) PROVE Stores(c)
  BY <1>1 DEF Append_, Stores, TypeOK
<1>2. ASSUME NEW c \in Caller, AppendRaises(c) PROVE UNCHANGED <<log, returned>> \/ Stores(c)
  BY <1>2 DEF AppendRaises, Stores, TypeOK
<1> QED
  BY <1>1, <1>2 DEF Next, SaveProfile, UpsertObjectives, RecordAttempt, RecordSeries, CheckId,
                    NextItem, Tick, vars

LEMMA EachIdOnceStep == TypeOK /\ EachIdOnce /\ [Next]_vars => EachIdOnce'
<1> SUFFICES ASSUME TypeOK, EachIdOnce, [Next]_vars PROVE EachIdOnce'
  OBVIOUS
<1>1. CASE UNCHANGED <<log, returned>>
  BY <1>1 DEF EachIdOnce
<1>2. ASSUME NEW c \in Caller, Stores(c) PROVE EachIdOnce'
  <2> DEFINE new == call[c].attempt
  <2>1. log' = log \cup {new} /\ \A a \in log : a.attempt_id # new.attempt_id
    BY <1>2 DEF Stores, Accepts
  <2>2. /\ returned'[c] \subseteq returned[c] \cup {new}
        /\ \A d \in Caller \ {c} : returned'[d] = returned[d]
    BY <1>2 DEF Stores
  <2>3. new \notin log
    BY <2>1
  <2> HIDE DEF new
  <2>4. \A a, b \in log' : a.attempt_id = b.attempt_id => a = b
    BY <2>1 DEF EachIdOnce
  <2>5. \A d \in Caller : returned'[d] \subseteq log'
    BY <2>1, <2>2 DEF EachIdOnce
  <2>6. \A d, e \in Caller : d # e => returned'[d] \cap returned'[e] = {}
    BY <2>2, <2>3 DEF EachIdOnce
  <2> QED BY <2>4, <2>5, <2>6 DEF EachIdOnce
<1> QED BY <1>1, <1>2, LogStep

(* C9, I1 and I8 for every number of racing callers: an attempt id is       *)
(* stored once, returned to one caller, and never lost.                     *)
THEOREM EveryIdIsOnce == Spec => []EachIdOnce
<1>1. Init => EachIdOnce
  BY DEF Init, EachIdOnce
<1> QED BY <1>1, EachIdOnceStep, TrackerTypeCorrect, PTL DEF Spec

-----------------------------------------------------------------------------
(* OrphansOnlyByRemoval needs the calls under way: what they look up was    *)
(* registered, and what is registered stays so.                             *)
Registered(a) == a.objective_id \in registered[a.profile_id]

OrphanInv ==
  /\ OrphansOnlyByRemoval
  /\ \A p \in Profile : objectives[p] # None => objectives[p] \subseteq registered[p]
  /\ \A c \in Caller : call[c].stage = "check" => Registered(call[c])
  /\ \A c \in Caller : call[c].stage = "append" => Registered(call[c].attempt)
  /\ \A c \in Caller : call[c].stage = "next" => Registered(call[c])

LEMMA LookUpRegistered ==
  ASSUME TypeOK, OrphanInv, NEW c \in Caller, NEW p \in Profile, NEW o, NEW id, NEW items,
         LookUp(c, p, o, id, items), registered' = registered
  PROVE  \A d \in Caller :
           /\ call'[d].stage = "check" => Registered(call'[d])
           /\ call'[d].stage = "append" => Registered(call'[d].attempt)
           /\ call'[d].stage = "next" => Registered(call'[d])
BY DEF TypeOK, OrphanInv, LookUp, Knows, Registered

LEMMA OrphanInvStep == TypeOK /\ OrphanInv /\ [Next]_vars => OrphanInv'
<1> SUFFICES ASSUME TypeOK, OrphanInv, [Next]_vars PROVE OrphanInv'
  OBVIOUS
<1> USE DEF OrphanInv, OrphansOnlyByRemoval, Registered
<1>1. ASSUME NEW p \in Profile, NEW os \in SavedSet,
             SaveProfile(p, os) \/ UpsertObjectives(p, os)
      PROVE  OrphanInv'
  <2>1. registered' = [registered EXCEPT ![p] = @ \cup os] /\ log' = log /\ call' = call
    BY <1>1 DEF SaveProfile, UpsertObjectives
  <2>2. \A q \in Profile : registered[q] \subseteq registered'[q]
    BY <2>1 DEF TypeOK
  <2>3. \A a \in log : a.profile_id \in Profile
    BY DEF TypeOK, Attempt
  <2>4. \A c \in Caller : /\ call[c].stage = "check" => call[c].profile_id \in Profile
                          /\ call[c].stage = "append" => call[c].attempt.profile_id \in Profile
                          /\ call[c].stage = "next" => call[c].profile_id \in Profile
    BY CallCases DEF CheckCall, AppendCall, NextCall, Attempt
  <2>5. \A q \in Profile : objectives'[q] # None => objectives'[q] \subseteq registered'[q]
    BY <1>1, <2>1 DEF TypeOK, SaveProfile, UpsertObjectives
  <2> QED BY <2>1, <2>2, <2>3, <2>4, <2>5
<1>2. ASSUME NEW c \in Caller, NEW p \in Profile, NEW o, NEW id, NEW items,
             LookUp(c, p, o, id, items), UNCHANGED <<objectives, log, registered>>
      PROVE  OrphanInv'
  BY <1>2, LookUpRegistered
<1>3. ASSUME NEW c \in Caller, CheckId(c) PROVE OrphanInv'
  <2>1. CASE call' = [call EXCEPT ![c] = Idle]
    BY <1>3, <2>1 DEF CheckId, TypeOK, Idle
  <2>2. ASSUME NEW id,
               call' = [call EXCEPT ![c] = [stage   |-> "append",
                                            attempt |-> Built(c, id),
                                            items   |-> Tail(call[c].items)]]
        PROVE  OrphanInv'
    BY <1>3, <2>2 DEF CheckId, TypeOK, Built
  <2> QED BY <1>3, <2>1, <2>2 DEF CheckId
<1>4. ASSUME NEW c \in Caller, Append_(c) PROVE OrphanInv'
  <2>1. log' = log \cup {call[c].attempt} /\ UNCHANGED <<objectives, registered>>
    BY <1>4 DEF Append_
  <2>2. OrphansOnlyByRemoval'
    BY <1>4, <2>1 DEF Append_
  <2>3. /\ \A d \in Caller \ {c} : call'[d] = call[d]
        /\ \/ call'[c] = Idle
           \/ /\ call'[c].stage = "next" /\ call'[c].profile_id = call[c].attempt.profile_id
              /\ call'[c].objective_id = call[c].attempt.objective_id
    BY <1>4 DEF Append_, TypeOK
  <2>4. \A d \in Caller :
          /\ call'[d].stage = "check" => Registered(call'[d])
          /\ call'[d].stage = "append" => Registered(call'[d].attempt)
          /\ call'[d].stage = "next" => Registered(call'[d])
    BY <1>4, <2>3 DEF Append_, Idle
  <2> QED BY <2>1, <2>2, <2>4
<1>7. ASSUME NEW c \in Caller, NextItem(c) PROVE OrphanInv'
  <2>1. UNCHANGED <<objectives, log, registered>>
    BY <1>7 DEF NextItem
  <2>2. CASE call' = [call EXCEPT ![c] = Idle]
    BY <2>1, <2>2 DEF TypeOK, Idle
  <2>3. CASE LookUp(c, call[c].profile_id, call[c].objective_id, None, call[c].items)
    <3>1. call[c].profile_id \in Profile
      BY <1>7, CallCases DEF NextItem, NextCall
    <3> QED BY <2>1, <2>3, <3>1, <1>2
  <2> QED BY <1>7, <2>2, <2>3 DEF NextItem
<1>5. ASSUME NEW c \in Caller, AppendRaises(c) PROVE OrphanInv'
  <2>1. \A d \in Caller : call'[d] = Idle \/ call'[d] = call[d]
    BY <1>5 DEF AppendRaises, TypeOK
  <2>2. OrphansOnlyByRemoval'
    BY <1>5 DEF AppendRaises
  <2> QED BY <1>5, <2>1, <2>2 DEF AppendRaises, Idle
<1>6. CASE (\E step \in Steps : Tick(step)) \/ UNCHANGED vars
  BY <1>6 DEF Tick, vars
<1> QED
  BY <1>1, <1>2, <1>3, <1>4, <1>5, <1>6, <1>7 DEF Next, RecordAttempt, RecordSeries

(* C8: whatever the interleaving with catalog changes, an attempt in the    *)
(* log is for an objective that its profile had.                            *)
THEOREM NoOrphanIsBorn == Spec => []OrphansOnlyByRemoval
<1>1. Init => OrphanInv
  BY DEF Init, OrphanInv, OrphansOnlyByRemoval, Idle
<1>2. OrphanInv => OrphansOnlyByRemoval
  BY DEF OrphanInv
<1> QED BY <1>1, <1>2, OrphanInvStep, TrackerTypeCorrect, PTL DEF Spec

-----------------------------------------------------------------------------
(* The state as of a date is a function of the attempts in force then.      *)
LEMMA StateFromInForce ==
  ASSUME NEW S, NEW T, NEW t, InForce(S, t) = InForce(T, t)
  PROVE  ComputeState(S, t) = ComputeState(T, t)
BY DEF ComputeState, AttemptsUntil

LEMMA PastStep ==
  ASSUME TypeOK, [Next]_vars, NEW p \in Profile, NEW o \in Objective, NEW t \in Time,
         \A a \in log' \ log : a.profile_id = p /\ a.objective_id = o => a.at > t
  PROVE  GetState(p, o, t)' = GetState(p, o, t)
<1>1. log \subseteq log' /\ log' \subseteq Attempt
  BY LogStep, TypeOKStep DEF Stores, TypeOK
<1>2. InForce(History(p, o)', t) = InForce(History(p, o), t)
  <2>1. \A a \in Attempt : a.at > t => ~(a.at <= t)
    BY Horizons DEF Attempt, Time
  <2> QED BY <1>1, <2>1 DEF InForce, History
<1> QED BY <1>2, StateFromInForce DEF GetState

(* I7: the state as of a date is the same for ever, unless an attempt of    *)
(* that objective is recorded that counts on that date.                     *)
THEOREM HistoryIsReproducible == Spec => PastIsNotRewritten
<1>1. TypeOK /\ [Next]_vars =>
        [log' # log => \A p \in Profile, o \in Objective, t \in Time :
           (\A a \in log' \ log : a.profile_id = p /\ a.objective_id = o => a.at > t)
             => GetState(p, o, t)' = GetState(p, o, t)]_vars
  BY PastStep
<1> QED BY <1>1, TrackerTypeCorrect, PTL DEF Spec, PastIsNotRewritten

-----------------------------------------------------------------------------
(* The queries.  There are finitely many attempts and objectives.           *)
Finite == IsFiniteSet(log) /\ \A p \in Profile : IsFiniteSet(Listed(p))

LEMMA FiniteStep ==
  ASSUME TypeOK, Finite, [Next]_vars
  PROVE  Finite'
<1>1. IsFiniteSet(log')
  BY LogStep, FS_AddElement DEF Stores, Finite
<1>2. ASSUME NEW q \in Profile, NEW os \in SavedSet, SaveProfile(q, os) \/ UpsertObjectives(q, os),
             NEW p \in Profile
      PROVE  IsFiniteSet(Listed(p)')
  <2>1. IsFiniteSet(os)
    BY ClockAssumption
  <2>2. CASE p # q
    BY <1>2, <2>2 DEF SaveProfile, UpsertObjectives, TypeOK, Listed, Finite
  <2>3. CASE p = q /\ SaveProfile(q, os)
    BY <2>1, <2>3, FS_EmptySet DEF SaveProfile, TypeOK, Listed
  <2>4. CASE p = q /\ UpsertObjectives(q, os)
    <3>1. IsFiniteSet(objectives[q] \cup os)
      BY <2>1, <2>4, FS_Union DEF UpsertObjectives, Listed, Finite
    <3> QED BY <2>4, <3>1, FS_EmptySet DEF UpsertObjectives, TypeOK, Listed
  <2> QED BY <1>2, <2>2, <2>3, <2>4
<1>3. ASSUME UNCHANGED objectives, NEW p \in Profile PROVE IsFiniteSet(Listed(p)')
  BY <1>3 DEF Listed, Finite
<1>4. \A p \in Profile : IsFiniteSet(Listed(p)')
  BY <1>2, <1>3 DEF Next, RecordAttempt, RecordSeries, CheckId, Append_, AppendRaises, NextItem,
                    Tick, vars
<1> QED BY <1>1, <1>4 DEF Finite

(* Every step of the queries is one of the tracker, or changes nothing of it. *)
LEMMA QueriesRefineTheTracker ==
  ASSUME [QueriesNext]_queriesVars
  PROVE  [Next]_vars
BY DEF QueriesNext, queriesVars, AskComparison, AskTimeline, AskSummary, AskNext, Asks,
       GetObjective, ListForObjective, ListAll, ListObjectives, Answered, Ends

-----------------------------------------------------------------------------
(* What is asked, and what the answers are of.                              *)
TimelineAsked(q) ==
  q.objective_id \in Objective /\
  \E start, end \in Time, step \in Steps :
    start <= end /\ q.reads = TimelineReads(start, end, step)

IsQuery(q) ==
  /\ q.profile_id \in Profile
  /\ \/ /\ q.name = "compare_states" /\ q.objective_id \in Objective
        /\ \E i, j \in Time : i <= j /\ q.reads = CompareReads(i, j)
     \/ q.name = "get_timeline" /\ TimelineAsked(q)
     \/ /\ q.name = "get_summary" /\ q.objective_id = None
        /\ \E t \in Time : q.reads = AllStatesReads(t)
     \/ /\ q.name = "next_question" /\ q.objective_id = None
        /\ \E t \in Time : q.reads = NextReads(t)

IsOf(answer, r, m, o) ==
  /\ r.read = "list_for_objective" =>
       answer = InForce({a \in m.attempts : a.objective_id = o}, r.until)
  /\ r.read = "list_all" => answer = InForce(m.attempts, r.until)
  /\ r.read = "list_objectives" => answer = m.catalog

AnswersAreOfTheTime(q, moments) ==
  /\ Len(q.got) <= Len(q.reads)
  /\ \A k \in 1..Len(q.got) : \E m \in moments : IsOf(q.got[k], q.reads[k], m, q.objective_id)

(* A list that is read again has what it had. *)
ListsGrow(q) ==
  \A k, l \in 1..Len(q.got) :
    k < l /\ q.reads[k].read = "list_all" /\ q.reads[l] = q.reads[k] => q.got[k] \subseteq q.got[l]

Answer == (SUBSET Attempt) \cup (SUBSET Objective)

IsUnderWay(q, moments) ==
  /\ q = [name |-> q.name, profile_id |-> q.profile_id, objective_id |-> q.objective_id,
          reads |-> q.reads, got |-> q.got]
  /\ IsQuery(q) /\ q.reads \in Seq(Reading) /\ q.got \in Seq(Answer)
  /\ AnswersAreOfTheTime(q, moments) /\ ListsGrow(q)

IsMoment(m, p, stored) ==
  /\ m \in [attempts : SUBSET Attempt, catalog : SUBSET Objective]
  /\ m.attempts \subseteq {a \in stored : a.profile_id = p}
  /\ IsFiniteSet(m.catalog)

QueryInv ==
  /\ TypeOK /\ EachIdOnce /\ Finite
  /\ query = None => since = {}
  /\ query # None =>
       /\ IsUnderWay(query, since)
       /\ Moment[query.profile_id] \in since
       /\ \A m \in since : IsMoment(m, query.profile_id, log)

LEMMA MomentTyped ==
  ASSUME TypeOK, Finite, NEW p \in Profile
  PROVE  /\ Moment[p] = [attempts |-> {a \in log : a.profile_id = p}, catalog |-> Listed(p)]
         /\ IsMoment(Moment[p], p, log)
BY DEF TypeOK, Finite, Moment, Listed, IsMoment

(* The store calls of each query. *)
LEMMA ReadsTyped ==
  ASSUME NEW t \in Time, NEW u \in Time
  PROVE  /\ CompareReads(t, u) \in Seq(Reading) /\ Len(CompareReads(t, u)) = 4
         /\ AllStatesReads(t) \in Seq(Reading) /\ Len(AllStatesReads(t)) = 2
         /\ NextReads(t) \in Seq(Reading) /\ Len(NextReads(t)) = 4
         /\ NextReads(t)[1] = Until("list_all", t) /\ NextReads(t)[2] = Plain("list_objectives")
         /\ NextReads(t)[3] = Until("list_all", t) /\ NextReads(t)[4] = Plain("list_objectives")
<1>1. Plain("get_objective") \in Reading /\ Plain("list_objectives") \in Reading
  BY DEF Plain, Reading
<1>2. \A v \in Time : Until("list_all", v) \in Reading /\ Until("list_for_objective", v) \in Reading
  BY DEF Until, Reading
<1> DEFINE reads == AllStatesReads(t)
<1>3. reads \in Seq(Reading) /\ Len(reads) = 2
  BY <1>1, <1>2 DEF AllStatesReads
<1>4. reads[1] = Until("list_all", t) /\ reads[2] = Plain("list_objectives")
  BY DEF AllStatesReads
<1>5. NextReads(t) = reads \o reads
  BY DEF NextReads
<1>6. CompareReads(t, u) \in Seq(Reading) /\ Len(CompareReads(t, u)) = 4
  BY <1>1, <1>2 DEF CompareReads
<1> HIDE DEF reads
<1>7. /\ reads \o reads \in Seq(Reading)
      /\ Len(reads \o reads) = Len(reads) + Len(reads)
      /\ \A k \in 1..Len(reads) + Len(reads) :
           (reads \o reads)[k] = IF k <= Len(reads) THEN reads[k] ELSE reads[k - Len(reads)]
  BY <1>3, ConcatProperties, Zenon
<1> DEFINE twice == reads \o reads
<1> HIDE DEF twice
<1>8. /\ Len(twice) = 4 /\ twice[1] = reads[1] /\ twice[2] = reads[2]
      /\ twice[3] = reads[1] /\ twice[4] = reads[2]
  BY <1>3, <1>7 DEF twice
<1> QED BY <1>3, <1>4, <1>5, <1>6, <1>7, <1>8 DEF reads, twice

LEMMA TimelineTyped ==
  ASSUME NEW start \in Time, NEW end \in Time, start <= end, NEW step \in Steps
  PROVE  LET reads == TimelineReads(start, end, step)
             n     == (end - start) \div step
         IN  /\ n \in Nat /\ reads \in Seq(Reading) /\ Len(reads) = n + 2
             /\ \A k \in 1..(n + 1) :
                  reads[k + 1] = Until("list_for_objective", start + step * (k - 1))
             /\ \A k \in 1..(n + 1) : start + step * (k - 1) \in Time
             /\ \A k, l \in 1..(n + 1) : k < l => start + step * (k - 1) <= start + step * (l - 1)
<1> DEFINE n == (end - start) \div step
           dates(k) == start + step * (k - 1)
           reads == TimelineReads(start, end, step)
<1>1. start \in Nat /\ end \in Nat /\ step \in Nat \ {0} /\ end - start \in Nat /\ end <= Horizon
      /\ Horizon \in Nat
  BY StepAssumption, Horizons DEF Time
<1>2. n \in Nat /\ step * n <= end - start
  BY <1>1
<1>3. \A k, l \in 1..(n + 1) : k < l => step * (k - 1) <= step * (l - 1)
  BY <1>1, <1>2
<1>4. ASSUME NEW k \in 1..(n + 1) PROVE dates(k) \in Time
  <2>1. step * (k - 1) \in Nat /\ step * (k - 1) <= step * n
    BY <1>1, <1>2
  <2>2. step * n \in Nat
    BY <1>1, <1>2
  <2> HIDE DEF n
  <2> QED BY <1>1, <1>2, <2>1, <2>2 DEF Time
<1>5. \A k \in 1..(n + 1) : step * (k - 1) \in Nat
  BY <1>1, <1>2
<1>6. \A k, l \in 1..(n + 1) : k < l => dates(k) <= dates(l)
  <2> TAKE k, l \in 1..(n + 1)
  <2> HAVE k < l
  <2>1. step * (k - 1) <= step * (l - 1) /\ step * (k - 1) \in Nat /\ step * (l - 1) \in Nat
    BY <1>3, <1>5
  <2> DEFINE x == step * (k - 1)
             y == step * (l - 1)
  <2>2. x <= y /\ x \in Nat /\ y \in Nat
    BY <2>1
  <2> HIDE DEF x, y, n
  <2>3. start + x <= start + y
    BY <1>1, <2>2
  <2> QED BY <2>3 DEF x, y
<1> DEFINE tail == [i \in 1..(n + 1) |-> Until("list_for_objective", dates(i))]
<1>7. tail \in Seq(Reading) /\ Len(tail) = n + 1
  <2>1. \A i \in 1..(n + 1) : Until("list_for_objective", dates(i)) \in Reading
    BY <1>4 DEF Until, Reading
  <2>2. tail \in [1..(n + 1) -> Reading]
    BY <2>1
  <2> HIDE DEF tail, n
  <2> QED BY <1>2, <2>2
<1>8. reads = <<Plain("get_objective")>> \o tail /\ Plain("get_objective") \in Reading
  BY DEF TimelineReads, Plain, Reading
<1>9. \A k \in 1..(n + 1) : tail[k] = Until("list_for_objective", dates(k))
  OBVIOUS
<1> HIDE DEF tail, reads, n, dates
<1>10. /\ reads \in Seq(Reading) /\ Len(reads) = n + 2
       /\ \A k \in 1..(n + 1) : reads[k + 1] = tail[k]
  <2>1. <<Plain("get_objective")>> \in Seq(Reading)
    BY <1>8
  <2> QED BY <1>2, <1>7, <1>8, <2>1
<1> QED BY <1>2, <1>4, <1>6, <1>9, <1>10 DEF reads, n, dates

LEMMA AnswerKeeps ==
  ASSUME NEW q, NEW moments, NEW answer \in Answer, NEW m \in moments,
         IsUnderWay(q, moments), Len(q.got) < Len(q.reads),
         IsOf(answer, q.reads[Len(q.got) + 1], m, q.objective_id),
         \A k \in 1..Len(q.got) :
           q.reads[k].read = "list_all" /\ q.reads[Len(q.got) + 1] = q.reads[k]
             => q.got[k] \subseteq answer
  PROVE  IsUnderWay([q EXCEPT !.got = Append(@, answer)], moments)
<1> DEFINE n == Len(q.got)
           got == Append(q.got, answer)
           r == [q EXCEPT !.got = got]
<1>1. q.got \in Seq(Answer) /\ n \in Nat /\ Len(q.reads) \in Nat
  BY DEF IsUnderWay
<1>2. /\ got \in Seq(Answer) /\ Len(got) = n + 1 /\ got[n + 1] = answer
      /\ \A k \in 1..n : got[k] = q.got[k]
  BY <1>1
<1> HIDE DEF got
<1>3. /\ r = [name |-> q.name, profile_id |-> q.profile_id, objective_id |-> q.objective_id,
              reads |-> q.reads, got |-> got]
  BY DEF IsUnderWay
<1>4. /\ r.name = q.name /\ r.profile_id = q.profile_id /\ r.objective_id = q.objective_id
      /\ r.reads = q.reads /\ r.got = got
  BY <1>3
<1> HIDE DEF r
<1>5. IsQuery(r)
  BY <1>4 DEF IsUnderWay, IsQuery, TimelineAsked
<1>6. AnswersAreOfTheTime(r, moments)
  <2>1. n + 1 <= Len(q.reads)
    BY <1>1
  <2>2. \A k \in 1..n : \E v \in moments : IsOf(q.got[k], q.reads[k], v, q.objective_id)
    BY DEF IsUnderWay, AnswersAreOfTheTime
  <2>3. ASSUME NEW k \in 1..(n + 1)
        PROVE  \E v \in moments : IsOf(got[k], q.reads[k], v, q.objective_id)
    <3>1. k \in 1..n \/ k = n + 1
      BY <1>1
    <3> QED BY <1>2, <2>2, <3>1
  <2> QED BY <1>2, <1>4, <2>1, <2>3 DEF AnswersAreOfTheTime
<1>7. ListsGrow(r)
  <2> SUFFICES ASSUME NEW k \in 1..(n + 1), NEW l \in 1..(n + 1), k < l,
                      q.reads[k].read = "list_all", q.reads[l] = q.reads[k]
               PROVE  got[k] \subseteq got[l]
    BY <1>2, <1>4 DEF ListsGrow
  <2>1. k \in 1..n /\ (l \in 1..n \/ l = n + 1)
    BY <1>1
  <2>2. CASE l \in 1..n
    BY <1>2, <2>1, <2>2 DEF IsUnderWay, ListsGrow
  <2>3. CASE l = n + 1
    BY <1>2, <2>1, <2>3
  <2> QED BY <2>1, <2>2, <2>3
<1>8. r.reads \in Seq(Reading)
  BY <1>4 DEF IsUnderWay
<1> QED BY <1>2, <1>3, <1>4, <1>5, <1>6, <1>7, <1>8 DEF IsUnderWay, r, got

(* Another store call of the query is answered, of the present moment. *)
LEMMA AnsweredKeeps ==
  ASSUME QueryInv, Remember, NEW read, NEW answer \in Answer, Answered(read, answer),
         \A r : r.read = read /\ r = query.reads[Len(query.got) + 1] =>
           /\ IsOf(answer, r, Moment[query.profile_id], query.objective_id)
           /\ r.read = "list_all" =>
                answer = InForce(Moment[query.profile_id].attempts, r.until)
  PROVE  QueryInv'
<1> DEFINE n == Len(query.got)
           r == query.reads[n + 1]
<1>1. query # None /\ n < Len(query.reads) /\ r.read = read /\ UNCHANGED vars
      /\ query' = [query EXCEPT !.got = Append(@, answer)]
  BY DEF Answered
<1>2. PICK p \in Profile : p = query.profile_id
  BY <1>1 DEF QueryInv, IsUnderWay, IsQuery
<1>3. PICK m : m = Moment[p]
  OBVIOUS
<1>4. /\ IsUnderWay(query, since) /\ m \in since /\ \A v \in since : IsMoment(v, p, log)
      /\ TypeOK /\ EachIdOnce /\ Finite
  BY <1>1, <1>2, <1>3 DEF QueryInv
<1>5. m.attempts = {a \in log : a.profile_id = p}
  <2>1. m = [attempts |-> {a \in log : a.profile_id = p}, catalog |-> Listed(p)]
    BY <1>3, <1>4, MomentTyped
  <2> QED BY <2>1
<1>6. IsOf(answer, r, m, query.objective_id)
  BY <1>1, <1>2, <1>3
<1>7. ASSUME NEW k \in 1..n, query.reads[k].read = "list_all", r = query.reads[k]
      PROVE  query.got[k] \subseteq answer
  <2>1. PICK v \in since : IsOf(query.got[k], query.reads[k], v, query.objective_id)
    BY <1>4 DEF IsUnderWay, AnswersAreOfTheTime
  <2>2. query.got[k] = InForce(v.attempts, r.until)
    BY <1>7, <2>1 DEF IsOf
  <2>3. answer = InForce(m.attempts, r.until)
    BY <1>1, <1>2, <1>3, <1>7
  <2>4. v.attempts \subseteq m.attempts
    BY <1>4, <1>5 DEF IsMoment
  <2> QED BY <2>2, <2>3, <2>4 DEF InForce
<1>8. IsUnderWay([query EXCEPT !.got = Append(@, answer)], since)
  BY <1>1, <1>4, <1>6, <1>7, AnswerKeeps
<1>9. PICK q : q = query'
  OBVIOUS
<1>10. IsUnderWay(q, since)
  BY <1>1, <1>8, <1>9
<1>11. q.profile_id = p
  <2>1. query = [name |-> query.name, profile_id |-> query.profile_id,
                 objective_id |-> query.objective_id, reads |-> query.reads, got |-> query.got]
    BY <1>4 DEF IsUnderWay
  <2> QED BY <1>1, <1>2, <1>9, <2>1
<1>12. Moment' = Moment /\ TypeOK' /\ EachIdOnce' /\ Finite' /\ log' = log
  BY <1>1, <1>4 DEF vars, Moment, Listed, TypeOK, EachIdOnce, Finite
<1>13. Moment'[q.profile_id] = m
  BY <1>3, <1>11, <1>12
<1>14. since' = IF q = None THEN {} ELSE since
  <2>1. since' = IF q = None THEN {} ELSE since \cup {Moment'[q.profile_id]}
    BY <1>9 DEF Remember
  <2> QED BY <1>4, <1>13, <2>1
<1>15. q # None =>
         /\ IsUnderWay(q, since')
         /\ Moment'[q.profile_id] \in since'
         /\ \A v \in since' : IsMoment(v, q.profile_id, log')
  BY <1>4, <1>10, <1>11, <1>12, <1>13, <1>14
<1> HIDE DEF n, r
<1> QED BY <1>9, <1>12, <1>14, <1>15 DEF QueryInv

(* The stores are written to while the query reads. *)
LEMMA WritingKeeps ==
  ASSUME QueryInv, [Next]_vars, UNCHANGED query, Remember
  PROVE  QueryInv'
<1>1. TypeOK' /\ EachIdOnce' /\ Finite' /\ log \subseteq log'
  BY TypeOKStep, EachIdOnceStep, FiniteStep, LogStep DEF QueryInv, Stores
<1>2. CASE query = None
  BY <1>1, <1>2 DEF QueryInv, Remember
<1>3. CASE query # None
  <2>1. PICK p \in Profile : p = query.profile_id
    BY <1>3 DEF QueryInv, IsUnderWay, IsQuery
  <2>2. PICK m : m = Moment'[p]
    OBVIOUS
  <2>3. /\ IsUnderWay(query, since) /\ \A v \in since : IsMoment(v, p, log)
        /\ since' = since \cup {m}
    BY <1>3, <2>1, <2>2 DEF QueryInv, Remember
  <2>4. IsMoment(m, p, log')
    <3>1. ASSUME NEW x \in Profile PROVE IsMoment(Moment[x], x, log)'
      BY <1>1 DEF TypeOK, Finite, Moment, Listed, IsMoment
    <3>2. \A x \in Profile : IsMoment(Moment'[x], x, log')
      BY <3>1
    <3> QED BY <2>2, <3>2
  <2>5. \A v \in since' : IsMoment(v, p, log')
    BY <1>1, <2>3, <2>4 DEF IsMoment
  <2>6. IsUnderWay(query, since')
    <3>1. since \subseteq since'
      BY <2>3
    <3>2. AnswersAreOfTheTime(query, since')
      BY <2>3, <3>1 DEF IsUnderWay, AnswersAreOfTheTime
    <3> QED BY <2>3, <3>2 DEF IsUnderWay
  <2> QED BY <1>1, <1>3, <2>1, <2>2, <2>3, <2>5, <2>6 DEF QueryInv
<1> QED BY <1>2, <1>3

(* A query begins, at this moment. *)
LEMMA AskingKeeps ==
  ASSUME QueryInv, Remember, NEW q, query' = q, query = None, UNCHANGED vars,
         q = [name |-> q.name, profile_id |-> q.profile_id, objective_id |-> q.objective_id,
              reads |-> q.reads, got |-> <<>>],
         IsQuery(q), q.reads \in Seq(Reading)
  PROVE  QueryInv'
<1>1. PICK p \in Profile : p = q.profile_id
  BY DEF IsQuery
<1>2. PICK m : m = Moment[p]
  OBVIOUS
<1>3. Moment' = Moment /\ TypeOK' /\ EachIdOnce' /\ Finite' /\ log' = log
  BY DEF QueryInv, vars, Moment, Listed, TypeOK, EachIdOnce, Finite
<1>4. since' = IF q = None THEN {} ELSE {m}
  <2>1. since = {} /\ since' = IF q = None THEN {} ELSE since \cup {Moment'[q.profile_id]}
    BY DEF QueryInv, Remember
  <2> QED BY <1>1, <1>2, <1>3, <2>1
<1>5. IsMoment(m, p, log)
  BY <1>2, MomentTyped DEF QueryInv
<1>6. IsUnderWay(q, {m})
  <2>1. PICK reads, got : reads = q.reads /\ got = q.got
    OBVIOUS
  <2>4. got = <<>>
    BY <2>1
  <2>3. got \in Seq(Answer) /\ Len(got) = 0 /\ Len(reads) \in Nat
    BY <2>1, <2>4
  <2>2. AnswersAreOfTheTime(q, {m}) /\ ListsGrow(q)
    BY <2>1, <2>3 DEF AnswersAreOfTheTime, ListsGrow
  <2> QED BY <2>1, <2>2, <2>3, <2>4 DEF IsUnderWay
<1>7. q = None => since' = {}
  BY <1>4
<1>8. q # None =>
        /\ IsUnderWay(q, since')
        /\ Moment'[q.profile_id] \in since'
        /\ \A v \in since' : IsMoment(v, q.profile_id, log')
  BY <1>1, <1>2, <1>3, <1>4, <1>5, <1>6
<1> QED BY <1>3, <1>7, <1>8 DEF QueryInv

LEMMA EndingKeeps ==
  ASSUME QueryInv, UNCHANGED vars, query' = None, Remember
  PROVE  QueryInv'
BY DEF QueryInv, vars, Moment, Listed, TypeOK, EachIdOnce, Finite, Remember

LEMMA StandingKeeps ==
  ASSUME QueryInv, UNCHANGED queriesVars
  PROVE  QueryInv'
<1>1. UNCHANGED vars /\ query' = query /\ since' = since
  BY DEF queriesVars
<1>2. Moment' = Moment /\ TypeOK' /\ EachIdOnce' /\ Finite' /\ log' = log
  BY <1>1 DEF QueryInv, vars, Moment, Listed, TypeOK, EachIdOnce, Finite
<1>3. (query = None => since = {}) /\ (query # None =>
         /\ IsUnderWay(query, since)
         /\ Moment'[query.profile_id] \in since
         /\ \A m \in since : IsMoment(m, query.profile_id, log'))
  BY <1>2 DEF QueryInv
<1> QED BY <1>1, <1>2, <1>3 DEF QueryInv

(* The answers of a query are those of moments since it began. *)
LEMMA AnswersAreOfMoments == QueriesSpec => []QueryInv
<1>1. QueriesInit => QueryInv
  <2> SUFFICES ASSUME QueriesInit PROVE QueryInv
    OBVIOUS
  <2>1. TypeOK /\ EachIdOnce
    BY TypeOKInitially DEF QueriesInit, Init, EachIdOnce
  <2>2. Finite
    BY FS_EmptySet, ClockAssumption DEF QueriesInit, Init, Finite, Listed
  <2> QED BY <2>1, <2>2 DEF QueryInv, QueriesInit
<1>2. QueryInv /\ [QueriesNext]_queriesVars => QueryInv'
  <2> SUFFICES ASSUME QueryInv, [QueriesNext]_queriesVars PROVE QueryInv'
    OBVIOUS
  <2>1. CASE UNCHANGED queriesVars
    BY <2>1, StandingKeeps
  <2>2. CASE Next /\ UNCHANGED query /\ Remember
    BY <2>2, WritingKeeps
  <2>3. ASSUME Remember, NEW p \in Profile, NEW o \in Objective, NEW i \in Time, NEW j \in Time,
               AskComparison(p, o, i, j)
        PROVE  QueryInv'
    <3> DEFINE q == [name |-> "compare_states", profile_id |-> p, objective_id |-> o,
                     reads |-> CompareReads(i, j), got |-> <<>>]
    <3>1. query = None /\ query' = q /\ UNCHANGED vars /\ i <= j
      BY <2>3 DEF AskComparison, Asks
    <3>2. IsQuery(q) /\ q.reads \in Seq(Reading)
      BY <3>1, ReadsTyped DEF IsQuery
    <3> QED BY <2>3, <3>1, <3>2, AskingKeeps
  <2>4. ASSUME Remember, NEW p \in Profile, NEW o \in Objective, NEW i \in Time, NEW j \in Time,
               NEW step \in Steps, AskTimeline(p, o, i, j, step)
        PROVE  QueryInv'
    <3> DEFINE q == [name |-> "get_timeline", profile_id |-> p, objective_id |-> o,
                     reads |-> TimelineReads(i, j, step), got |-> <<>>]
    <3>1. query = None /\ query' = q /\ UNCHANGED vars /\ i <= j
      BY <2>4 DEF AskTimeline, Asks
    <3>2. IsQuery(q)
      BY <3>1 DEF IsQuery, TimelineAsked
    <3>3. q.reads \in Seq(Reading)
      BY <3>1, TimelineTyped
    <3> QED BY <2>4, <3>1, <3>2, <3>3, AskingKeeps
  <2>5. ASSUME Remember, NEW p \in Profile, NEW t \in Time, AskSummary(p, t)
        PROVE  QueryInv'
    <3> DEFINE q == [name |-> "get_summary", profile_id |-> p, objective_id |-> None,
                     reads |-> AllStatesReads(t), got |-> <<>>]
    <3>1. query = None /\ query' = q /\ UNCHANGED vars
      BY <2>5 DEF AskSummary, Asks
    <3>2. IsQuery(q) /\ q.reads \in Seq(Reading)
      BY ReadsTyped DEF IsQuery
    <3> QED BY <2>5, <3>1, <3>2, AskingKeeps
  <2>6. ASSUME Remember, NEW p \in Profile, AskNext(p)
        PROVE  QueryInv'
    <3> DEFINE q == [name |-> "next_question", profile_id |-> p, objective_id |-> None,
                     reads |-> NextReads(now), got |-> <<>>]
    <3>1. query = None /\ query' = q /\ UNCHANGED vars /\ now \in Time
      BY <2>6 DEF AskNext, Asks, QueryInv, TypeOK
    <3>2. IsQuery(q) /\ q.reads \in Seq(Reading)
      BY <3>1, ReadsTyped DEF IsQuery
    <3> QED BY <2>6, <3>1, <3>2, AskingKeeps
  <2>7. ASSUME Remember, GetObjective
        PROVE  QueryInv'
    <3>1. {} \in Answer /\ Answered("get_objective", {})
      BY <2>7 DEF Answer, GetObjective
    <3>2. \A r, m, o : r.read = "get_objective" => IsOf({}, r, m, o) /\ r.read # "list_all"
      BY DEF IsOf
    <3> QED BY <2>7, <3>1, <3>2, AnsweredKeeps
  <2>8. ASSUME Remember, query # None PROVE
          /\ ListForObjective => QueryInv'
          /\ ListAll => QueryInv'
          /\ ListObjectives => QueryInv'
    <3>1. PICK p \in Profile : p = query.profile_id
      BY <2>8 DEF QueryInv, IsUnderWay, IsQuery
    <3>2. PICK m : m = Moment[p]
      OBVIOUS
    <3>3. m = [attempts |-> {a \in log : a.profile_id = p}, catalog |-> Listed(p)]
      BY <3>2, MomentTyped DEF QueryInv
    <3>4. m.attempts = {a \in log : a.profile_id = p} /\ m.catalog = Listed(p)
      BY <3>3
    <3>5. m.attempts \subseteq Attempt /\ m.catalog \subseteq Objective
      BY <3>4 DEF QueryInv, TypeOK, Listed
    <3>6. PICK o, u : o = query.objective_id /\ u = query.reads[Len(query.got) + 1].until
      OBVIOUS
    <3>7. History(p, o) = {a \in m.attempts : a.objective_id = o}
      BY <3>4 DEF History
    <3>8. ASSUME ListForObjective PROVE QueryInv'
      <4> DEFINE answer == InForce({a \in m.attempts : a.objective_id = o}, u)
      <4>1. Answered("list_for_objective", answer)
        BY <3>1, <3>6, <3>7, <3>8 DEF ListForObjective
      <4>2. answer \in Answer
        BY <3>5 DEF InForce, Answer
      <4>3. \A r : r.read = "list_for_objective" /\ r = query.reads[Len(query.got) + 1] =>
              IsOf(answer, r, m, o) /\ r.read # "list_all"
        BY <3>6 DEF IsOf
      <4> HIDE DEF answer
      <4> QED BY <2>8, <3>1, <3>2, <3>6, <4>1, <4>2, <4>3, AnsweredKeeps
    <3>9. ASSUME ListAll PROVE QueryInv'
      <4> DEFINE answer == InForce(m.attempts, u)
      <4>1. Answered("list_all", answer)
        BY <3>1, <3>2, <3>6, <3>9 DEF ListAll
      <4>2. answer \in Answer
        BY <3>5 DEF InForce, Answer
      <4>3. \A r : r.read = "list_all" /\ r = query.reads[Len(query.got) + 1] =>
              IsOf(answer, r, m, o) /\ answer = InForce(m.attempts, r.until)
        BY <3>6 DEF IsOf
      <4> HIDE DEF answer
      <4> QED BY <2>8, <3>1, <3>2, <3>6, <4>1, <4>2, <4>3, AnsweredKeeps
    <3>10. ASSUME ListObjectives PROVE QueryInv'
      <4>1. Answered("list_objectives", m.catalog)
        BY <3>1, <3>4, <3>10 DEF ListObjectives
      <4>2. m.catalog \in Answer
        BY <3>5 DEF Answer
      <4>3. \A r : r.read = "list_objectives" => IsOf(m.catalog, r, m, o) /\ r.read # "list_all"
        BY DEF IsOf
      <4> QED BY <2>8, <3>1, <3>2, <3>6, <4>1, <4>2, <4>3, AnsweredKeeps
    <3> QED BY <3>8, <3>9, <3>10
  <2>9. CASE Ends /\ Remember
    BY <2>9, EndingKeeps DEF Ends
  <2>10. ListForObjective \/ ListAll \/ ListObjectives => query # None
    BY DEF ListForObjective, ListAll, ListObjectives, Answered
  <2> QED BY <2>1, <2>2, <2>3, <2>4, <2>5, <2>6, <2>7, <2>8, <2>9, <2>10 DEF QueriesNext
<1> QED BY <1>1, <1>2, PTL DEF QueriesSpec

-----------------------------------------------------------------------------
(* What the queries make of a list of attempts.                             *)
LEMMA SomeAreAHistory ==
  ASSUME NEW S, IsHistory(S), NEW T \in SUBSET S
  PROVE  IsHistory(T)
BY FS_Subset DEF IsHistory

LEMMA LogIsAHistory ==
  ASSUME TypeOK, EachIdOnce, Finite
  PROVE  IsHistory(log)
<1>1. \A a \in log : a.attempt_id \in Nat /\ a.at \in Time /\ a.correct \in BOOLEAN
  BY IdAssumption DEF TypeOK, Attempt
<1>2. \A a, b \in log : a.attempt_id = b.attempt_id => a = b
  BY DEF EachIdOnce
<1> QED BY <1>1, <1>2 DEF IsHistory, Finite

LEMMA SameSize ==
  ASSUME NEW S, IsFiniteSet(S), NEW T, NEW f \in [S -> T],
         \A x, y \in S : f[x] = f[y] => x = y, \A y \in T : \E x \in S : f[x] = y
  PROVE  IsFiniteSet(T) /\ Cardinality(T) = Cardinality(S)
<1>1. f \in Bijection(S, T)
  BY DEF Bijection, Injection, Surjection, IsInjective
<1>2. ExistsBijection(S, T)
  BY <1>1 DEF ExistsBijection
<1> QED BY <1>2, FS_Bijection

(* The state of an objective: reviews are planned for what was answered.    *)
LEMMA StateFacts ==
  ASSUME NEW H, IsHistory(H), NEW t \in Time
  PROVE  LET s == ComputeState(H, t)
             S == InForce(H, t)
         IN
         /\ s.as_of = t /\ s.score \in Int
         /\ s.total_attempts = Cardinality(S) /\ s.total_attempts \in Nat
         /\ S = {} <=> s.total_attempts = 0
         /\ S = {} => s.next_review_at = None
         /\ S # {} => /\ s.next_review_at \in Int
                      /\ \E a \in S : s.next_review_at <= a.at + TicksPerDay * MaxInterval
         /\ s.is_due <=> s.next_review_at # None /\ s.next_review_at <= t
         /\ s.level = UNASSESSED <=> s.total_attempts < MinAttempts
<1> DEFINE S == InForce(H, t)
           ordered == OrderAttempts(S)
           s == StateOf(ordered, t)
<1>1. ComputeState(H, t) = s
  BY DEF ComputeState, AttemptsUntil
<1>2. IsHistory(S)
  BY InForceIsHistory
<1>3. \A a \in S : a.at <= t
  BY DEF InForce
<1>4. S \subseteq H
  BY DEF InForce
<1> HIDE DEF S
<1>5. t <= t
  BY Horizons DEF Time
<1>6. /\ s.score \in Int
      /\ S # {} => /\ s.next_review_at \in Int /\ s.last_attempt_at \in Int
                   /\ s.next_review_at <= s.last_attempt_at + TicksPerDay * MaxInterval
      /\ S = {} => s.next_review_at = None
  BY <1>2, <1>3, <1>5, WaitingOnlyLowers
<1>7. S = {} <=> Cardinality(S) = 0
  BY <1>2, FS_EmptySet DEF IsHistory
<1>8. s.is_due <=> s.next_review_at # None /\ s.next_review_at <= t
  BY DEF StateOf, IsDue
<1>9. Len(ordered) = Cardinality(S) /\ ordered \in Seq(S) /\ Cardinality(S) \in Nat
  BY <1>2, Ordered
<1>10. /\ s.total_attempts = Len(ordered) /\ s.as_of = t
       /\ Len(ordered) # 0 => s.last_attempt_at = ordered[Len(ordered)].at
       /\ s.level = LevelOf(s.score, ordered)
  BY DEF StateOf
<1> HIDE DEF s, ordered
<1>11. s.level = UNASSESSED <=> s.total_attempts < MinAttempts
  <2>1. s.score <= s.score /\ Len(ordered) \in Nat
    BY <1>6, <1>9
  <2>2. (LevelOf(s.score, ordered) = UNASSESSED) <=> (Len(ordered) < MinAttempts)
    BY <1>6, <2>1, LevelFollowsScore
  <2> QED BY <1>10, <2>2
<1>12. S # {} => \E a \in S : s.next_review_at <= a.at + TicksPerDay * MaxInterval
  <2> HAVE S # {}
  <2>1. ordered[Len(ordered)] \in S
    BY <1>7, <1>9
  <2>2. s.last_attempt_at = ordered[Len(ordered)].at
    BY <1>7, <1>9, <1>10
  <2> QED BY <1>6, <2>1, <2>2
<1> QED BY <1>1, <1>6, <1>7, <1>8, <1>9, <1>10, <1>11, <1>12 DEF S

(* No answer between two dates, and the later score is no higher. *)
LEMMA NoAnswerNoGain ==
  ASSUME NEW H, IsHistory(H), NEW G, IsHistory(G), NEW i \in Time, NEW j \in Time, i <= j,
         InForce(H, i) = InForce(G, j)
  PROVE  /\ ComputeState(H, i).score \in Int /\ ComputeState(G, j).score \in Int
         /\ ComputeState(G, j).score <= ComputeState(H, i).score
<1> DEFINE S == InForce(H, i)
<1>1. IsHistory(S) /\ \A a \in S : a.at <= i
  BY InForceIsHistory DEF InForce
<1>2. /\ ComputeState(H, i) = StateOf(OrderAttempts(S), i)
      /\ ComputeState(G, j) = StateOf(OrderAttempts(S), j)
  BY DEF ComputeState, AttemptsUntil
<1> HIDE DEF S
<1> QED BY <1>1, <1>2, WaitingOnlyLowers

(* The ranking of the due objectives. *)
Urgency(S) == {r \in S \X S : MoreUrgent(r[1], r[2])}

DueRecord(L, o, t) ==
  [next_review_at |-> StateIn(L, o, t).next_review_at, score |-> StateIn(L, o, t).score,
   objective_id |-> o]

LEMMA UrgencyOrders ==
  ASSUME NEW S,
         \A r \in S : r.next_review_at \in Int /\ r.score \in Int /\ r.objective_id \in Int,
         \A r, s \in S : r.objective_id = s.objective_id => r = s
  PROVE  Orders(S, Urgency(S))
<1>1. \A x, y \in S : <<x, y>> \in Urgency(S) <=> MoreUrgent(x, y)
  BY DEF Urgency
<1>2. \A x \in S : ~MoreUrgent(x, x)
  BY DEF MoreUrgent
<1>3. \A x, y, z \in S : MoreUrgent(x, y) /\ MoreUrgent(y, z) => MoreUrgent(x, z)
  BY DEF MoreUrgent
<1>4. \A x, y \in S : x = y \/ MoreUrgent(x, y) \/ MoreUrgent(y, x)
  <2> SUFFICES ASSUME NEW x \in S, NEW y \in S, x # y
               PROVE  MoreUrgent(x, y) \/ MoreUrgent(y, x)
    OBVIOUS
  <2>1. x.objective_id # y.objective_id
    OBVIOUS
  <2> QED BY <2>1 DEF MoreUrgent
<1> QED BY <1>1, <1>2, <1>3, <1>4 DEF Orders

LEMMA RankingIsListing ==
  ASSUME NEW S, IsFiniteSet(S), Orders(S, Urgency(S))
  PROVE  ByRank(S, MoreUrgent) = Listing(S, Urgency(S))
<1> DEFINE n == Cardinality(S)
           F(i) == CHOOSE x \in S : Cardinality({y \in S : MoreUrgent(y, x)}) = i - 1
           G(i) == CHOOSE x \in S : Rank(S, Urgency(S), x) = i - 1
           f == [i \in 1..n |-> F(i)]
<1>1. ByRank(S, MoreUrgent) = SubSeq(f, 1, n)
  BY DEF ByRank
<1>2. \A x \in S : Cardinality({y \in S : MoreUrgent(y, x)}) = Rank(S, Urgency(S), x)
  <2> SUFFICES ASSUME NEW x \in S
               PROVE  Cardinality({y \in S : MoreUrgent(y, x)}) = Rank(S, Urgency(S), x)
    OBVIOUS
  <2>1. {y \in S : MoreUrgent(y, x)} = {y \in S : <<y, x>> \in Urgency(S)}
    BY DEF Urgency
  <2> QED BY <2>1 DEF Rank
<1>3. \A i : F(i) = G(i)
  BY <1>2
<1>4. f = Listing(S, Urgency(S))
  <2>1. Listing(S, Urgency(S)) = [i \in 1..n |-> G(i)]
    BY DEF Listing
  <2> HIDE DEF F, G, n
  <2> QED BY <1>3, <2>1
<1>5. Listing(S, Urgency(S)) \in Seq(S) /\ Len(Listing(S, Urgency(S))) = n
  BY ListingIsSorted
<1> HIDE DEF f
<1>6. SubSeq(Listing(S, Urgency(S)), 1, n) = Listing(S, Urgency(S))
  BY <1>5
<1> QED BY <1>1, <1>4, <1>6

(* Every due objective is ranked. *)
LEMMA DueAreRanked ==
  ASSUME NEW L, IsHistory(L), NEW C, IsFiniteSet(C), C \subseteq Objective, NEW t \in Time
  PROVE  {GetDue(L, C, t)[i].objective_id : i \in DOMAIN GetDue(L, C, t)}
           = {o \in C : StateIn(L, o, t).is_due}
<1> DEFINE D == {o \in C : StateIn(L, o, t).is_due}
           S == {DueRecord(L, o, t) : o \in D}
           ranked == Listing(S, Urgency(S))
<1>1. IsFiniteSet(D) /\ D \subseteq Objective /\ Objective \subseteq Nat
  <2>1. D \in SUBSET C
    OBVIOUS
  <2> QED BY <2>1, FS_Subset, IdAssumption
<1>2. \A o \in D : /\ DueRecord(L, o, t).objective_id = o
                   /\ DueRecord(L, o, t).next_review_at \in Int
                   /\ DueRecord(L, o, t).score \in Int
  <2> SUFFICES ASSUME NEW o \in D
               PROVE  StateIn(L, o, t).next_review_at \in Int /\ StateIn(L, o, t).score \in Int
    BY DEF DueRecord
  <2> DEFINE H == {a \in L : a.objective_id = o}
             s == ComputeState(H, t)
  <2>1. StateIn(L, o, t) = s /\ s.is_due
    BY DEF StateIn
  <2>2. IsHistory(H)
    BY SomeAreAHistory
  <2> HIDE DEF H, D
  <2>3. /\ s.score \in Int
        /\ InForce(H, t) = {} => s.next_review_at = None
        /\ InForce(H, t) # {} => s.next_review_at \in Int
        /\ s.is_due <=> s.next_review_at # None /\ s.next_review_at <= t
    BY <2>2, StateFacts
  <2> HIDE DEF s
  <2>4. s.next_review_at # None
    BY <2>1, <2>3
  <2>5. s.next_review_at \in Int /\ s.score \in Int
    BY <2>3, <2>4
  <2> QED BY <2>1, <2>5
<1>3. IsFiniteSet(S) /\ Cardinality(S) = Cardinality(D)
  <2> DEFINE f == [o \in D |-> DueRecord(L, o, t)]
  <2>1. \A x, y \in D : f[x] = f[y] => x = y
    BY <1>2
  <2>3. IsFiniteSet(D)
    BY <1>1
  <2>2. (\A o \in D : f[o] \in S) /\ \A r \in S : \E o \in D : f[o] = r
    OBVIOUS
  <2>4. f \in [D -> S]
    BY <2>2
  <2> HIDE DEF f, S, D
  <2> QED BY <2>1, <2>2, <2>3, <2>4, SameSize
<1>4. Orders(S, Urgency(S))
  <2>1. \A r \in S : /\ r.next_review_at \in Int /\ r.score \in Int /\ r.objective_id \in Int
                     /\ r = DueRecord(L, r.objective_id, t)
    BY <1>1, <1>2 
  <2>2. \A r, s \in S : r.objective_id = s.objective_id => r = s
    BY <2>1
  <2> HIDE DEF S
  <2> QED BY <2>1, <2>2, UrgencyOrders
<1>5. GetDue(L, C, t) = ranked
  <2> DEFINE due == {[next_review_at |-> r.state.next_review_at, score |-> r.state.score,
                      objective_id |-> r.objective_id] :
                        r \in {q \in AllStates(L, C, t) : q.state.is_due}}
  <2>1. due = S
    <3> DEFINE A == {q \in AllStates(L, C, t) : q.state.is_due}
               W(o) == [state |-> StateIn(L, o, t), objective_id |-> o]
               V(q) == [next_review_at |-> q.state.next_review_at, score |-> q.state.score,
                        objective_id |-> q.objective_id]
    <3>1. \A o : V(W(o)) = DueRecord(L, o, t) /\ W(o).state = StateIn(L, o, t)
      BY DEF DueRecord
    <3>2. AllStates(L, C, t) = {W(o) : o \in C}
      BY DEF AllStates
    <3>3. due = {V(q) : q \in A}
      OBVIOUS
    <3> HIDE DEF V, W, due
    <3>4. (\A o \in D : W(o) \in A) /\ \A q \in A : \E o \in D : q = W(o)
      BY <3>1, <3>2
    <3> HIDE DEF A, D
    <3>5. S = {DueRecord(L, o, t) : o \in D}
      BY DEF D, S
    <3> HIDE DEF S
    <3> QED BY <3>1, <3>3, <3>4, <3>5
  <2>2. GetDue(L, C, t) = ByRank(due, MoreUrgent)
    BY DEF GetDue
  <2> QED BY <1>3, <1>4, <2>1, <2>2, RankingIsListing
<1>6. /\ ranked \in Seq(S) /\ Len(ranked) = Cardinality(S)
      /\ \A x \in S : /\ Rank(S, Urgency(S), x) + 1 \in 1..Len(ranked)
                      /\ ranked[Rank(S, Urgency(S), x) + 1] = x
  BY <1>3, <1>4, ListingIsSorted
<1>7. {ranked[i].objective_id : i \in DOMAIN ranked} = D
  <2> HIDE DEF ranked
  <2>1. \A i \in DOMAIN ranked : ranked[i].objective_id \in D
    <3>1. \A i \in DOMAIN ranked : ranked[i] \in S
      BY <1>6
    <3>2. \A x \in S : x.objective_id \in D
      BY <1>2
    <3> QED BY <3>1, <3>2
  <2>2. \A o \in D : \E i \in DOMAIN ranked : ranked[i].objective_id = o
    <3> TAKE o \in D
    <3> DEFINE x == DueRecord(L, o, t)
    <3>1. x \in S /\ x.objective_id = o
      BY <1>2
    <3> HIDE DEF x
    <3>2. DOMAIN ranked = 1..Len(ranked)
      BY <1>6
    <3>3. /\ Rank(S, Urgency(S), x) + 1 \in DOMAIN ranked
          /\ ranked[Rank(S, Urgency(S), x) + 1] = x
      BY <1>6, <3>1, <3>2
    <3> QED BY <3>1, <3>3
  <2> QED BY <2>1, <2>2
<1> QED BY <1>3, <1>5, <1>6, <1>7

(* What is unstarted is what has no attempt. *)
LEMMA UnstartedHaveNone ==
  ASSUME NEW L, NEW C, NEW t
  PROVE  GetUnstarted(L, C, t) = {o \in C : StateIn(L, o, t).total_attempts = 0}
<1> DEFINE W(o) == [state |-> StateIn(L, o, t), objective_id |-> o]
           A == {q \in AllStates(L, C, t) : q.state.total_attempts = 0}
<1>1. A = {q \in {W(o) : o \in C} : q.state.total_attempts = 0}
  BY DEF AllStates
<1>2. \A o : W(o).state = StateIn(L, o, t) /\ W(o).objective_id = o
  OBVIOUS
<1>3. GetUnstarted(L, C, t) = {q.objective_id : q \in A}
  BY DEF GetUnstarted
<1> HIDE DEF W, A
<1> QED BY <1>1, <1>2, <1>3

(* The states, one for each objective. *)
LEMMA StatesAreCounted ==
  ASSUME NEW L, NEW C, IsFiniteSet(C), NEW t, NEW D \in SUBSET C,
         NEW A, A \subseteq AllStates(L, C, t),
         \A q \in AllStates(L, C, t) : q \in A <=> q.objective_id \in D
  PROVE  /\ IsFiniteSet(A) /\ Cardinality(A) = Cardinality(D)
         /\ IsFiniteSet(D) /\ Cardinality(D) \in Nat
<1> DEFINE W(o) == [state |-> StateIn(L, o, t), objective_id |-> o]
           f == [o \in D |-> W(o)]
<1>1. IsFiniteSet(D) /\ Cardinality(D) \in Nat
  BY FS_Subset, FS_CardinalityType
<1>2. AllStates(L, C, t) = {W(o) : o \in C} /\ \A o : W(o).objective_id = o
  BY DEF AllStates
<1> HIDE DEF W
<1>3. \A o \in D : f[o] \in A
  BY <1>2
<1>4. \A q \in A : q.objective_id \in D /\ f[q.objective_id] = q
  BY <1>2
<1>5. \A x, y \in D : f[x] = f[y] => x = y
  BY <1>2
<1>6. f \in [D -> A]
  BY <1>3
<1>7. \A q \in A : \E o \in D : f[o] = q
  BY <1>4
<1> HIDE DEF f
<1>8. IsFiniteSet(A) /\ Cardinality(A) = Cardinality(D)
  BY <1>1, <1>5, <1>6, <1>7, SameSize
<1> QED BY <1>1, <1>8

(* What the states count, and the orphans, are the attempts of the list. *)
AnswersUntil(given, C, t) ==
  MapThenSumSet(LAMBDA o : ComputeState({a \in {b \in given : b.at <= t} : a.objective_id = o}, t)
                             .total_attempts, C)

LEMMA TotalsAddUp ==
  ASSUME NEW given, NEW S, IsFiniteSet(S), NEW t \in Time,
         IsHistory({b \in given : b.at <= t})
  PROVE  LET U == {b \in given : b.at <= t}
         IN  Cardinality(U) = Cardinality({a \in U : a.objective_id \notin S})
                                + AnswersUntil(given, S, t)
<1> DEFINE U == {b \in given : b.at <= t}
           orphans == {a \in U : a.objective_id \notin S}
           key == [a \in U |-> a.objective_id]
           total(o) == ComputeState({a \in U : a.objective_id = o}, t).total_attempts
           h == [o \in S |-> total(o)]
           Sums(g) == g = [T \in SUBSET S |->
                             IF T = {} THEN 0
                             ELSE LET x == CHOOSE x \in T : TRUE IN total(x) + g[T \ {x}]]
           counted == AnswersUntil(given, S, t)
<1>1. IsFiniteSet(U) /\ IsFiniteSet(orphans)
  <2>1. orphans \in SUBSET U
    OBVIOUS
  <2> QED BY <2>1, FS_Subset DEF IsHistory
<1>2. counted = (CHOOSE g : Sums(g))[S]
  BY DEF AnswersUntil, MapThenSumSet, MapThenFoldSet
<1>3. ASSUME NEW g PROVE Sums(g) <=> Adds(S, h, g)
  <2> DEFINE F(T) == IF T = {} THEN 0
                     ELSE LET x == CHOOSE x \in T : TRUE IN total(x) + g[T \ {x}]
             G(T) == IF T = {} THEN 0
                     ELSE LET x == CHOOSE x \in T : TRUE IN h[x] + g[T \ {x}]
  <2>1. ASSUME NEW T \in SUBSET S PROVE F(T) = G(T)
    <3>1. T # {} => (CHOOSE x \in T : TRUE) \in S
      OBVIOUS
    <3> HIDE DEF total
    <3> QED BY <3>1
  <2>2. Sums(g) <=> g = [T \in SUBSET S |-> F(T)]
    OBVIOUS
  <2>3. Adds(S, h, g) <=> g = [T \in SUBSET S |-> G(T)]
    BY DEF Adds
  <2> HIDE DEF F, G, Sums, h
  <2>4. [T \in SUBSET S |-> F(T)] = [T \in SUBSET S |-> G(T)]
    BY <2>1
  <2> QED BY <2>2, <2>3, <2>4
<1>4. (CHOOSE g : Sums(g)) = CHOOSE g : Adds(S, h, g)
  <2> HIDE DEF Sums, h
  <2> QED BY <1>3
<1>5. \A o \in S : h[o] = CountIn(U, key, {o})
  <2> SUFFICES ASSUME NEW o \in S PROVE total(o) = CountIn(U, key, {o})
    OBVIOUS
  <2> DEFINE H == {a \in U : a.objective_id = o}
  <2>1. IsHistory(H) /\ InForce(H, t) = H /\ total(o) = ComputeState(H, t).total_attempts
    BY SomeAreAHistory DEF InForce
  <2>2. {u \in U : key[u] \in {o}} = H
    OBVIOUS
  <2> HIDE DEF H
  <2>3. total(o) = Cardinality(H)
    BY <2>1, StateFacts
  <2> QED BY <2>2, <2>3 DEF CountIn
<1>6. counted = CountIn(U, key, S)
  <2> HIDE DEF Sums, h, key, counted
  <2>1. (CHOOSE g : Adds(S, h, g))[S] = CountIn(U, key, S)
    BY <1>1, <1>5, SumIsACount
  <2> QED BY <1>2, <1>4, <2>1
<1>7. Cardinality(U) = CountIn(U, key, S) + Cardinality(orphans)
  <2> DEFINE V == {u \in U : key[u] \in S}
  <2>1. U = V \cup orphans /\ V \cap orphans = {} /\ V \in SUBSET U
    OBVIOUS
  <2>2. CountIn(U, key, S) = Cardinality(V)
    BY DEF CountIn
  <2> HIDE DEF V, U, orphans
  <2>3. IsFiniteSet(V)
    BY <1>1, <2>1, FS_Subset
  <2>4. Cardinality(V \cup orphans)
          = Cardinality(V) + Cardinality(orphans) - Cardinality(V \cap orphans)
    BY <1>1, <2>3, FS_Union
  <2>5. Cardinality(V \cap orphans) = 0
    BY <2>1, FS_EmptySet
  <2>6. Cardinality(V) \in Nat /\ Cardinality(orphans) \in Nat
    BY <1>1, <2>3, FS_CardinalityType
  <2> QED BY <2>1, <2>2, <2>4, <2>5, <2>6
<1>9. CountIn(U, key, S) \in Nat
  <2>1. {u \in U : key[u] \in S} \in SUBSET U
    OBVIOUS
  <2> HIDE DEF key
  <2> QED BY <1>1, <2>1, FS_Subset, FS_CardinalityType DEF CountIn
<1> HIDE DEF counted, orphans, key
<1>8. Cardinality(U) = Cardinality(orphans) + counted
  BY <1>1, <1>6, <1>7, <1>9, FS_CardinalityType
<1> QED BY <1>8 DEF counted, orphans

(* A query is one of the four, with the answers of its store calls so far.  *)
THEOREM QueriesTypeCorrect == QueriesSpec => []QueriesTypeOK
<1>1. QueryInv => QueriesTypeOK
  <2> SUFFICES ASSUME QueryInv PROVE QueriesTypeOK
    OBVIOUS
  <2>1. TypeOK
    BY DEF QueryInv
  <2>2. since \subseteq [attempts : SUBSET Attempt, catalog : SUBSET Objective]
    <3>1. \A p : \A m \in since : IsMoment(m, p, log) =>
            m \in [attempts : SUBSET Attempt, catalog : SUBSET Objective]
      BY DEF IsMoment
    <3> QED BY <3>1 DEF QueryInv
  <2>3. ASSUME query # None
        PROVE  query \in [name : {"compare_states", "get_timeline", "get_summary", "next_question"},
                          profile_id : Profile, objective_id : Objective \cup {None},
                          reads : Seq(Reading), got : Seq((SUBSET Attempt) \cup (SUBSET Objective))]
    <3>1. IsUnderWay(query, since)
      BY <2>3 DEF QueryInv
    <3>2. /\ query.name \in {"compare_states", "get_timeline", "get_summary", "next_question"}
          /\ query.profile_id \in Profile /\ query.objective_id \in Objective \cup {None}
      BY <3>1 DEF IsUnderWay, IsQuery, TimelineAsked
    <3> QED BY <3>1, <3>2 DEF IsUnderWay, Answer
  <2> QED BY <2>1, <2>2, <2>3 DEF QueriesTypeOK
<1> QED BY <1>1, AnswersAreOfMoments, PTL

(* A score that two reads of a query show to rise was earned. *)
LEMMA GainIsEarned ==
  ASSUME QueryInv, query # None, NEW k \in 1..Len(query.got), NEW l \in 1..Len(query.got),
         NEW i \in Time, NEW j \in Time, i <= j,
         query.reads[k] = Until("list_for_objective", i),
         query.reads[l] = Until("list_for_objective", j),
         ~EarnedBetween(i, j)
  PROVE  /\ StateRead(k).score \in Int /\ StateRead(l).score \in Int
         /\ StateRead(l).score <= StateRead(k).score
<1>1. PICK p, o : p = query.profile_id /\ o = query.objective_id
  OBVIOUS
<1>2. PICK r, s : r = query.reads[k] /\ s = query.reads[l]
  OBVIOUS
<1>3. /\ r.read = "list_for_objective" /\ r.until = i
      /\ s.read = "list_for_objective" /\ s.until = j
  BY <1>2 DEF Until
<1>4. IsUnderWay(query, since) /\ \A m \in since : IsMoment(m, p, log)
  BY <1>1 DEF QueryInv
<1>5. PICK m \in since : query.got[k] = InForce({a \in m.attempts : a.objective_id = o}, i)
  BY <1>1, <1>2, <1>3, <1>4 DEF IsUnderWay, AnswersAreOfTheTime, IsOf
<1>6. PICK n \in since : query.got[l] = InForce({a \in n.attempts : a.objective_id = o}, j)
  BY <1>1, <1>2, <1>3, <1>4 DEF IsUnderWay, AnswersAreOfTheTime, IsOf
<1>7. PICK H, G : H = query.got[k] /\ G = query.got[l]
  OBVIOUS
<1>8. /\ m.attempts \subseteq {a \in log : a.profile_id = p}
      /\ n.attempts \subseteq {a \in log : a.profile_id = p}
  BY <1>4 DEF IsMoment
<1>9. \A a \in log : a.at \in Int
  BY Horizons DEF QueryInv, TypeOK, Attempt, Time
<1>10. i \in Int /\ j \in Int
  BY Horizons DEF Time
<1>11. \A a \in log : a.profile_id = p /\ a.objective_id = o /\ a.at <= j =>
         ~(i < a.at) /\ \A v \in since : a \in v.attempts
  BY <1>1 DEF EarnedBetween, Meanwhile, History
<1>12. H = G
  <2>1. ASSUME NEW a \in H PROVE a \in G
    <3>1. a \in m.attempts /\ a.objective_id = o /\ a.at <= i
      BY <1>5, <1>7, <2>1 DEF InForce
    <3>2. a \in log /\ a.profile_id = p
      BY <1>8, <3>1
    <3>3. a.at <= j
      BY <1>9, <1>10, <3>1, <3>2
    <3> QED BY <1>6, <1>7, <1>11, <3>1, <3>2, <3>3 DEF InForce
  <2>2. ASSUME NEW a \in G PROVE a \in H
    <3>1. a \in n.attempts /\ a.objective_id = o /\ a.at <= j
      BY <1>6, <1>7, <2>2 DEF InForce
    <3>2. a \in log /\ a.profile_id = p
      BY <1>8, <3>1
    <3>3. a.at <= i /\ a \in m.attempts
      BY <1>9, <1>10, <1>11, <3>1, <3>2
    <3> QED BY <1>5, <1>7, <3>1, <3>3 DEF InForce
  <2> QED BY <2>1, <2>2
<1>13. IsHistory(H)
  <2>1. IsHistory(log) /\ H \in SUBSET log
    BY <1>5, <1>7, <1>8, LogIsAHistory DEF QueryInv, InForce
  <2> QED BY <2>1, SomeAreAHistory
<1>14. InForce(H, i) = H /\ InForce(H, j) = H
  <2>1. (\A a \in H : a.at <= i) /\ \A a \in H : a.at <= j
    BY <1>5, <1>6, <1>7, <1>12 DEF InForce
  <2> QED BY <2>1 DEF InForce
<1>15. StateRead(k) = ComputeState(H, i) /\ StateRead(l) = ComputeState(H, j)
  BY <1>2, <1>3, <1>7, <1>12 DEF StateRead
<1> QED BY <1>13, <1>14, <1>15, NoAnswerNoGain

(* What a line of states is made of. *)
LEMMA StateReadFacts ==
  ASSUME QueryInv, query # None, NEW k \in 1..Len(query.got), NEW i \in Time,
         query.reads[k] = Until("list_for_objective", i)
  PROVE  StateRead(k).as_of = i /\ StateRead(k).score \in Int
<1>1. PICK p, r, H : p = query.profile_id /\ r = query.reads[k] /\ H = query.got[k]
  OBVIOUS
<1>2. r.read = "list_for_objective" /\ r.until = i
  BY <1>1 DEF Until
<1>3. PICK m \in since : H = InForce({a \in m.attempts : a.objective_id = query.objective_id}, i)
  BY <1>1, <1>2 DEF QueryInv, IsUnderWay, AnswersAreOfTheTime, IsOf
<1>4. IsMoment(m, p, log)
  BY <1>1 DEF QueryInv
<1>5. IsHistory(log) /\ H \in SUBSET log
  BY <1>3, <1>4, LogIsAHistory DEF QueryInv, InForce, IsMoment
<1>6. IsHistory(H)
  BY <1>5, SomeAreAHistory
<1>7. StateRead(k) = ComputeState(H, i)
  BY <1>1, <1>2 DEF StateRead
<1> QED BY <1>6, <1>7, StateFacts

(* SPEC 5.1 and 5.3: whatever is written while compare_states and           *)
(* get_timeline read the one date and the next, an objective is shown to    *)
(* be better at a later date only if it has an answer of a date in between, *)
(* or one up to the later date that was stored while they were reading.     *)
THEOREM EveryImprovementIsEarned == QueriesSpec => []ImprovementIsEarned
<1>1. QueryInv => ImprovementIsEarned
  <2> SUFFICES ASSUME QueryInv, query # None, Len(query.got) = Len(query.reads)
               PROVE  /\ query.name = "compare_states" /\ CompareStates.improved =>
                           EarnedBetween(query.reads[2].until, query.reads[4].until)
                      /\ query.name = "get_timeline" =>
                           \A i, j \in DOMAIN GetTimeline :
                             i < j /\ GetTimeline[j].score > GetTimeline[i].score =>
                               EarnedBetween(GetTimeline[i].as_of, GetTimeline[j].as_of)
    BY DEF ImprovementIsEarned, Has
  <2>1. IsQuery(query)
    BY DEF QueryInv, IsUnderWay
  <2>2. ASSUME query.name = "compare_states",
               ~EarnedBetween(query.reads[2].until, query.reads[4].until)
        PROVE  ~CompareStates.improved
    <3>1. PICK i \in Time, j \in Time : i <= j /\ query.reads = CompareReads(i, j)
      BY <2>1, <2>2 DEF IsQuery
    <3>2. /\ query.reads[2] = Until("list_for_objective", i)
          /\ query.reads[4] = Until("list_for_objective", j)
          /\ 2 \in 1..Len(query.reads) /\ 4 \in 1..Len(query.reads)
      BY <3>1 DEF CompareReads
    <3>3. query.reads[2].until = i /\ query.reads[4].until = j
      BY <3>2 DEF Until
    <3>4. PICK x, y : x = StateRead(2).score /\ y = StateRead(4).score
      OBVIOUS
    <3>5. ~EarnedBetween(i, j)
      BY <2>2, <3>3
    <3>6. x \in Int /\ y \in Int /\ y <= x
      BY <3>1, <3>2, <3>4, <3>5, GainIsEarned
    <3>7. ~(y - x > 0)
      BY <3>6
    <3>8. CompareStates.improved = (y - x > 0)
      BY <3>4, Zenon DEF CompareStates
    <3> QED BY <3>7, <3>8, Zenon
  <2>3. ASSUME query.name = "get_timeline", NEW i \in DOMAIN GetTimeline, NEW j \in DOMAIN GetTimeline,
               i < j, GetTimeline[j].score > GetTimeline[i].score
        PROVE  EarnedBetween(GetTimeline[i].as_of, GetTimeline[j].as_of)
    <3>1. PICK start \in Time, end \in Time, step \in Steps :
            start <= end /\ query.reads = TimelineReads(start, end, step)
      BY <2>1, <2>3 DEF IsQuery, TimelineAsked
    <3>2. PICK n : n = (end - start) \div step
      OBVIOUS
    <3> DEFINE date(k) == start + step * (k - 1)
    <3>3. /\ n \in Nat /\ Len(query.reads) = n + 2
          /\ \A k \in 1..(n + 1) : query.reads[k + 1] = Until("list_for_objective", date(k))
          /\ \A k \in 1..(n + 1) : date(k) \in Time
          /\ \A k, l \in 1..(n + 1) : k < l => date(k) <= date(l)
      BY <3>1, <3>2, TimelineTyped
    <3>4. GetTimeline = [x \in 1..(n + 1) |-> StateRead(x + 1)]
      <4>1. Len(query.reads) - 1 = n + 1
        BY <3>3
      <4> QED BY <4>1, Zenon DEF GetTimeline
    <3> HIDE DEF date
    <3>5. /\ i \in 1..(n + 1) /\ GetTimeline[i] = StateRead(i + 1)
          /\ j \in 1..(n + 1) /\ GetTimeline[j] = StateRead(j + 1)
      BY <2>3, <3>4
    <3>6. i + 1 \in 1..Len(query.got) /\ j + 1 \in 1..Len(query.got)
      BY <3>3, <3>5
    <3>7. PICK d \in Time, e \in Time : d = date(i) /\ e = date(j)
      BY <3>3, <3>5
    <3>8. /\ query.reads[i + 1] = Until("list_for_objective", d)
          /\ query.reads[j + 1] = Until("list_for_objective", e) /\ d <= e
      BY <2>3, <3>3, <3>5, <3>7
    <3>9. /\ StateRead(i + 1).as_of = d /\ StateRead(i + 1).score \in Int
          /\ StateRead(j + 1).as_of = e /\ StateRead(j + 1).score \in Int
      BY <3>6, <3>8, StateReadFacts
    <3>10. SUFFICES ASSUME ~EarnedBetween(d, e) PROVE FALSE
      BY <3>5, <3>9
    <3>11. StateRead(j + 1).score <= StateRead(i + 1).score
      BY <3>6, <3>8, <3>10, GainIsEarned
    <3>12. PICK x, y : x = StateRead(i + 1).score /\ y = StateRead(j + 1).score
      OBVIOUS
    <3>13. y > x /\ y <= x /\ x \in Int /\ y \in Int
      BY <2>3, <3>5, <3>9, <3>11, <3>12
    <3> QED BY <3>13
  <2> QED BY <2>2, <2>3
<1> QED BY <1>1, AnswersAreOfMoments, PTL

(* SPEC 5.2 and C5: an objective that is listed while next_question makes   *)
(* its two queries is offered as due or as unstarted, and never as both; or *)
(* it has an answer more recent than the longest interval and its review    *)
(* ahead; or its first answer was stored between the two queries.           *)
THEOREM EveryObjectiveIsSomewhere == QueriesSpec => []NothingDropsOut
<1>1. QueryInv => NothingDropsOut
  <2> DEFINE Claim(moment, due, unstarted) ==
               /\ due \cap unstarted = {}
               /\ \A o \in Objective :
                    (\A m \in since : o \in m.catalog) =>
                      \/ o \in due \cup unstarted
                      \/ \E m \in since :
                           /\ \E a \in {a \in m.attempts : a.objective_id = o /\ a.at <= moment} :
                                a.at + TicksPerDay * MaxInterval > moment
                           /\ ComputeState({a \in m.attempts :
                                             a.objective_id = o /\ a.at <= moment}, moment)
                                .next_review_at > moment
                      \/ \E m, n \in since :
                           /\ {a \in m.attempts : a.objective_id = o /\ a.at <= moment} = {}
                           /\ {a \in n.attempts : a.objective_id = o /\ a.at <= moment} # {}
  <2> SUFFICES ASSUME QueryInv, query # None, query.name = "next_question",
                      Len(query.got) = Len(query.reads)
               PROVE  Claim(query.reads[1].until,
                            {NextQuestion.due[i].objective_id : i \in DOMAIN NextQuestion.due},
                            NextQuestion.unstarted)
    BY DEF NothingDropsOut, Has
  <2>1. PICK t \in Time : query.reads = NextReads(t)
    BY DEF QueryInv, IsUnderWay, IsQuery
  <2>2. PICK got, reads : got = query.got /\ reads = query.reads
    OBVIOUS
  <2>3. /\ reads[1] = Until("list_all", t) /\ reads[2] = Plain("list_objectives")
        /\ reads[3] = reads[1] /\ reads[4] = reads[2]
        /\ 1 \in 1..Len(got) /\ 2 \in 1..Len(got) /\ 3 \in 1..Len(got) /\ 4 \in 1..Len(got)
    BY <2>1, <2>2, ReadsTyped
  <2>4. /\ reads[1].read = "list_all" /\ reads[1].until = t /\ reads[2].read = "list_objectives"
    BY <2>3 DEF Until, Plain
  <2>5. /\ \A k \in 1..Len(got) : \E m \in since : IsOf(got[k], reads[k], m, query.objective_id)
        /\ \A k, l \in 1..Len(got) :
             k < l /\ reads[k].read = "list_all" /\ reads[l] = reads[k] => got[k] \subseteq got[l]
    BY <2>2 DEF QueryInv, IsUnderWay, AnswersAreOfTheTime, ListsGrow
  <2>6. PICK m \in since : got[1] = InForce(m.attempts, t)
    BY <2>3, <2>4, <2>5 DEF IsOf
  <2>7. PICK c \in since : got[2] = c.catalog
    BY <2>3, <2>4, <2>5 DEF IsOf
  <2>8. PICK n \in since : got[3] = InForce(n.attempts, t)
    BY <2>3, <2>4, <2>5 DEF IsOf
  <2>9. PICK d \in since : got[4] = d.catalog
    BY <2>3, <2>4, <2>5 DEF IsOf
  <2>10. got[1] \subseteq got[3]
    <3>1. 1 < 3
      OBVIOUS
    <3> QED BY <2>3, <2>4, <2>5, <3>1
  <2>11. PICK L, K, C, D : L = got[1] /\ K = got[3] /\ C = got[2] /\ D = got[4]
    OBVIOUS
  <2>12. /\ IsHistory(L) /\ IsHistory(K)
         /\ C \subseteq Objective /\ IsFiniteSet(C) /\ D \subseteq Objective
    <3>1. PICK p : \A v \in since : IsMoment(v, p, log)
      BY DEF QueryInv
    <3>2. L \in SUBSET log /\ K \in SUBSET log
      BY <2>6, <2>8, <2>11, <3>1 DEF IsMoment, InForce
    <3>3. IsHistory(log)
      BY LogIsAHistory DEF QueryInv
    <3>4. IsHistory(L) /\ IsHistory(K)
      BY <3>2, <3>3, SomeAreAHistory
    <3>5. C \subseteq Objective /\ IsFiniteSet(C) /\ D \subseteq Objective
      BY <2>7, <2>9, <2>11, <3>1 DEF IsMoment
    <3> QED BY <3>4, <3>5
  <2> DEFINE H(o) == {a \in L : a.objective_id = o}
             G(o) == {a \in K : a.objective_id = o}
             due == {o \in C : StateIn(L, o, t).is_due}
             unstarted == {o \in D : StateIn(K, o, t).total_attempts = 0}
             about(v, o) == {a \in v.attempts : a.objective_id = o /\ a.at <= t}
  <2>13. /\ {NextQuestion.due[i].objective_id : i \in DOMAIN NextQuestion.due} = due
         /\ NextQuestion.unstarted = unstarted /\ query.reads[1].until = t
    <3>1. query.reads[1].until = t
      BY <2>2, <2>4
    <3>2. NextQuestion.due = GetDue(L, C, t) /\ NextQuestion.unstarted = GetUnstarted(K, D, t)
      BY <2>2, <2>11, <3>1 DEF NextQuestion
    <3> QED BY <2>12, <3>1, <3>2, DueAreRanked, UnstartedHaveNone
  <2>14. \A o : /\ about(m, o) = H(o) /\ about(n, o) = G(o) /\ H(o) \subseteq G(o)
                /\ InForce(H(o), t) = H(o) /\ InForce(G(o), t) = G(o)
    BY <2>6, <2>8, <2>10, <2>11 DEF InForce
  <2>15. \A o : /\ StateIn(L, o, t) = ComputeState(H(o), t) /\ IsHistory(H(o))
                /\ StateIn(K, o, t) = ComputeState(G(o), t) /\ IsHistory(G(o))
    BY <2>12, SomeAreAHistory DEF StateIn
  <2>16. \A o \in due : H(o) # {}
    <3> SUFFICES ASSUME NEW o \in due, H(o) = {} PROVE FALSE
      OBVIOUS
    <3> DEFINE s == ComputeState(H(o), t)
    <3>1. s.is_due
      BY <2>15
    <3>2. /\ IsHistory(H(o)) /\ InForce(H(o), t) = {}
      BY <2>14, <2>15
    <3> HIDE DEF H, due
    <3>3. /\ s.next_review_at = None
          /\ s.is_due <=> s.next_review_at # None /\ s.next_review_at <= t
      BY <3>2, StateFacts
    <3> HIDE DEF s
    <3> QED BY <3>1, <3>3
  <2>17. \A o \in D : o \in unstarted <=> G(o) = {}
    <3> TAKE o \in D
    <3>1. IsHistory(G(o)) /\ InForce(G(o), t) = G(o) /\ StateIn(K, o, t) = ComputeState(G(o), t)
      BY <2>14, <2>15
    <3>2. o \in unstarted <=> StateIn(K, o, t).total_attempts = 0
      OBVIOUS
    <3> HIDE DEF G, unstarted
    <3>3. G(o) = {} <=> ComputeState(G(o), t).total_attempts = 0
      BY <3>1, StateFacts
    <3> QED BY <3>1, <3>2, <3>3
  <2>18. due \cap unstarted = {}
    <3>1. unstarted \subseteq D
      OBVIOUS
    <3> HIDE DEF H, G, due, unstarted
    <3> QED BY <2>14, <2>16, <2>17, <3>1
  <2>19. ASSUME NEW o \in Objective, \A v \in since : o \in v.catalog, o \notin due,
                o \notin unstarted, H(o) # {}
         PROVE  /\ \E a \in about(m, o) : a.at + TicksPerDay * MaxInterval > t
                /\ ComputeState(about(m, o), t).next_review_at > t
    <3> DEFINE s == ComputeState(H(o), t)
    <3>0. o \in C
      BY <2>7, <2>11, <2>19
    <3>1. o \in C /\ about(m, o) = H(o) /\ IsHistory(H(o)) /\ InForce(H(o), t) = H(o)
      BY <2>14, <2>15, <3>0, Zenon
    <3>2. ~s.is_due
      BY <2>15, <2>19, <3>1
    <3>3. PICK S : S = H(o)
      OBVIOUS
    <3> HIDE DEF H, due, unstarted, about
    <3>4. /\ s.next_review_at \in Int
          /\ s.is_due <=> s.next_review_at # None /\ s.next_review_at <= t
          /\ \E a \in S : s.next_review_at <= a.at + TicksPerDay * MaxInterval
      BY <2>19, <3>1, <3>3, StateFacts
    <3> HIDE DEF s
    <3>5. s.next_review_at # None /\ t \in Int
      BY <3>4, NoneAssumption, Horizons DEF Time
    <3>6. s.next_review_at > t
      BY <3>2, <3>4, <3>5
    <3>7. PICK a \in S : s.next_review_at <= a.at + TicksPerDay * MaxInterval
      BY <3>4
    <3>8. a.at \in Int
      BY <3>1, <3>3, Horizons DEF IsHistory, Time
    <3>9. a.at + TicksPerDay * MaxInterval > t
      <4> DEFINE e == TicksPerDay * MaxInterval
      <4>1. e \in Int
        BY CountAssumption, ScheduleAssumption
      <4>2. s.next_review_at <= a.at + e
        BY <3>7
      <4> HIDE DEF e
      <4>3. a.at + e > t
        BY <3>4, <3>5, <3>6, <3>8, <4>1, <4>2
      <4> QED BY <4>3 DEF e
    <3>10. ComputeState(about(m, o), t).next_review_at > t
      BY <3>1, <3>6 DEF s
    <3> QED BY <3>1, <3>3, <3>9, <3>10
  <2>20. ASSUME NEW o \in Objective, \A v \in since : o \in v.catalog, o \notin due,
                o \notin unstarted, H(o) = {}
         PROVE  about(m, o) = {} /\ about(n, o) # {}
    <3>1. o \in D
      BY <2>9, <2>11, <2>20
    <3>2. about(m, o) = H(o) /\ about(n, o) = G(o)
      BY <2>14
    <3> HIDE DEF H, G, due, unstarted, about
    <3> QED BY <2>17, <2>20, <3>1, <3>2
  <2>21. \A o \in Objective : (\A v \in since : o \in v.catalog) =>
           \/ o \in due \cup unstarted
           \/ \E v \in since :
                /\ \E a \in about(v, o) : a.at + TicksPerDay * MaxInterval > t
                /\ ComputeState(about(v, o), t).next_review_at > t
           \/ \E v, w \in since : about(v, o) = {} /\ about(w, o) # {}
    <3> HIDE DEF H, G, due, unstarted, about
    <3> QED BY <2>19, <2>20
  <2>22. Claim(t, due, unstarted)
    <3> HIDE DEF due, unstarted
    <3> QED BY <2>18, <2>21
  <2> HIDE DEF due, unstarted, Claim
  <2> QED BY <2>13, <2>22
<1> QED BY <1>1, AnswersAreOfMoments, PTL

LEMMA TheRest ==
  ASSUME NEW S, IsFiniteSet(S), NEW D \in SUBSET S
  PROVE  Cardinality(S) - Cardinality(D) = Cardinality(S \ D)
<1>1. D \cup (S \ D) = S /\ D \cap (S \ D) = {} /\ S \ D \in SUBSET S
  OBVIOUS
<1>2. IsFiniteSet(D) /\ IsFiniteSet(S \ D)
  BY <1>1, FS_Subset
<1>3. Cardinality(D \cup (S \ D))
        = Cardinality(D) + Cardinality(S \ D) - Cardinality(D \cap (S \ D))
  BY <1>2, FS_Union
<1>4. Cardinality(D \cap (S \ D)) = 0
  BY <1>1, FS_EmptySet
<1>5. Cardinality(S) = Cardinality(D) + Cardinality(S \ D)
  <2>1. Cardinality(D) \in Nat /\ Cardinality(S \ D) \in Nat
    BY <1>2, FS_CardinalityType
  <2> QED BY <1>1, <1>3, <1>4, <2>1
<1>6. Cardinality(D) \in Nat /\ Cardinality(S \ D) \in Nat
  BY <1>2, FS_CardinalityType
<1> QED BY <1>5, <1>6

(* SPEC 9.4 and I5: whatever is written while get_summary reads, its counts *)
(* are those of the attempts of one moment over the catalog of one moment,  *)
(* both of them since it began.                                             *)
THEOREM TheSummaryAddsUp == QueriesSpec => []SummaryAddsUp
<1>1. QueryInv => SummaryAddsUp
  <2> DEFINE Claim(counted, catalog, as_of, sum) ==
               LET state(o) == ComputeState({a \in counted : a.objective_id = o}, as_of)
                   orphans  == {a \in counted : a.objective_id \notin catalog}
                   summary  == GetSummary
               IN  /\ summary.total_attempts = Cardinality(counted)
                   /\ Cardinality(counted) = Cardinality(orphans) + sum
                   /\ summary.total_objectives = Cardinality(catalog)
                   /\ summary.due_objectives = Cardinality({o \in catalog : state(o).is_due})
                   /\ summary.unstarted_objectives =
                        Cardinality({o \in catalog : \A a \in counted : a.objective_id # o})
                   /\ summary.assessed_objectives =
                        Cardinality({o \in catalog : state(o).total_attempts >= MinAttempts})
             AsClaimed(m, n, as_of) ==
               Claim({a \in m.attempts : a.at <= as_of}, n.catalog, as_of,
                     AnswersUntil(m.attempts, n.catalog, as_of))
  <2> SUFFICES ASSUME QueryInv, Has("get_summary")
               PROVE  \E m, n \in since : AsClaimed(m, n, query.reads[1].until)
    BY DEF SummaryAddsUp, AnswersUntil
  <2>1. query # None /\ query.name = "get_summary" /\ Len(query.got) = Len(query.reads)
    BY DEF Has
  <2>2. PICK t \in Time : query.reads = AllStatesReads(t)
    BY <2>1 DEF QueryInv, IsUnderWay, IsQuery
  <2>3. PICK got, reads : got = query.got /\ reads = query.reads
    OBVIOUS
  <2>4. /\ reads[1].read = "list_all" /\ reads[1].until = t /\ reads[2].read = "list_objectives"
        /\ Len(got) = 2 /\ 1 \in 1..Len(got) /\ 2 \in 1..Len(got)
    <3>1. reads = <<Until("list_all", t), Plain("list_objectives")>>
      BY <2>2, <2>3 DEF AllStatesReads
    <3>2. reads[1] = Until("list_all", t) /\ reads[2] = Plain("list_objectives") /\ Len(reads) = 2
      BY <3>1
    <3>3. Len(got) = 2 /\ 1 \in 1..Len(got) /\ 2 \in 1..Len(got)
      BY <2>1, <2>3, <3>2
    <3> QED BY <3>2, <3>3 DEF Until, Plain
  <2>5. \A k \in 1..Len(got) : \E v \in since : IsOf(got[k], reads[k], v, query.objective_id)
    BY <2>1, <2>3 DEF QueryInv, IsUnderWay, AnswersAreOfTheTime
  <2>6. PICK m \in since : got[1] = InForce(m.attempts, t)
    BY <2>4, <2>5 DEF IsOf
  <2>7. PICK n \in since : got[2] = n.catalog
    BY <2>4, <2>5 DEF IsOf
  <2>8. PICK L, C : L = got[1] /\ C = got[2]
    OBVIOUS
  <2>9. IsHistory(L) /\ C \subseteq Objective /\ IsFiniteSet(C) /\ \A a \in L : a.at <= t
    <3>1. PICK p : \A v \in since : IsMoment(v, p, log)
      BY <2>1 DEF QueryInv
    <3>2. L \in SUBSET log /\ \A a \in L : a.at <= t
      BY <2>6, <2>8, <3>1 DEF IsMoment, InForce
    <3>3. IsHistory(log)
      BY LogIsAHistory DEF QueryInv
    <3>4. IsHistory(L)
      BY <3>2, <3>3, SomeAreAHistory
    <3>5. C \subseteq Objective /\ IsFiniteSet(C)
      BY <2>7, <2>8, <3>1 DEF IsMoment
    <3> QED BY <3>2, <3>4, <3>5
  <2> DEFINE states == AllStates(L, C, t)
             A == {s \in states : s.state.is_due}
             B == {s \in states : s.state.total_attempts = 0}
             E == {s \in states : s.state.level = UNASSESSED}
             state(o) == StateIn(L, o, t)
             due == {o \in C : state(o).is_due}
             unstarted == {o \in C : state(o).total_attempts = 0}
             unassessed == {o \in C : state(o).level = UNASSESSED}
  <2>10. GetSummary = [total_objectives     |-> Cardinality(states),
                       assessed_objectives  |-> Cardinality(states) - Cardinality(E),
                       unstarted_objectives |-> Cardinality(B),
                       due_objectives       |-> Cardinality(A),
                       total_attempts       |-> Cardinality(L)]
    <3>1. PICK N : N = Len(query.got)
      OBVIOUS
    <3>2. N = 2 /\ N - 1 = 1 /\ query.reads[1].until = t /\ query.got[1] = L /\ query.got[2] = C
      BY <2>3, <2>4, <2>8, <3>1
    <3>3. /\ query.got[N - 1] = L /\ query.got[N] = C /\ query.reads[N - 1].until = t
      BY <3>2
    <3> QED BY <3>1, <3>2, <3>3, Zenon DEF GetSummary
  <2>11. \A s \in states : s.objective_id \in C /\ s.state = state(s.objective_id)
    BY DEF AllStates
  <2>12. /\ Cardinality(states) = Cardinality(C)
         /\ Cardinality(A) = Cardinality(due)
         /\ Cardinality(B) = Cardinality(unstarted)
         /\ Cardinality(E) = Cardinality(unassessed)
    <3>1. Cardinality(states) = Cardinality(C)
      <4>1. C \in SUBSET C /\ states \subseteq states
        OBVIOUS
      <4>2. \A s \in states : s \in states <=> s.objective_id \in C
        <5> HIDE DEF states, state
        <5> QED BY <2>11
      <4> HIDE DEF state
      <4> QED BY <2>9, <4>1, <4>2, StatesAreCounted
    <3>2. Cardinality(A) = Cardinality(due)
      <4>1. due \in SUBSET C /\ A \subseteq states
        OBVIOUS
      <4>2. \A s \in states : s \in A <=> s.objective_id \in due
        <5> HIDE DEF states, state
        <5> QED BY <2>11
      <4> HIDE DEF state, A, due
      <4> QED BY <2>9, <4>1, <4>2, StatesAreCounted
    <3>3. Cardinality(B) = Cardinality(unstarted)
      <4>1. unstarted \in SUBSET C /\ B \subseteq states
        OBVIOUS
      <4>2. \A s \in states : s \in B <=> s.objective_id \in unstarted
        <5> HIDE DEF states, state
        <5> QED BY <2>11
      <4> HIDE DEF state, B, unstarted
      <4> QED BY <2>9, <4>1, <4>2, StatesAreCounted
    <3>4. Cardinality(E) = Cardinality(unassessed)
      <4>1. unassessed \in SUBSET C /\ E \subseteq states
        OBVIOUS
      <4>2. \A s \in states : s \in E <=> s.objective_id \in unassessed
        <5> HIDE DEF states, state
        <5> QED BY <2>11
      <4> HIDE DEF state, E, unassessed
      <4> QED BY <2>9, <4>1, <4>2, StatesAreCounted
    <3> HIDE DEF states, A, B, E, due, unstarted, unassessed
    <3> QED BY <3>1, <3>2, <3>3, <3>4
  <2>13. \A o \in C : /\ state(o).total_attempts = 0 <=> \A a \in L : a.objective_id # o
                      /\ state(o).total_attempts \in Nat
                      /\ state(o).level = UNASSESSED <=> state(o).total_attempts < MinAttempts
    <3> TAKE o \in C
    <3> DEFINE H == {a \in L : a.objective_id = o}
    <3>1. IsHistory(H) /\ InForce(H, t) = H /\ StateIn(L, o, t) = ComputeState(H, t)
      BY <2>9, SomeAreAHistory DEF InForce, StateIn
    <3>2. H = {} <=> \A a \in L : a.objective_id # o
      OBVIOUS
    <3> HIDE DEF H
    <3>3. /\ H = {} <=> ComputeState(H, t).total_attempts = 0
          /\ ComputeState(H, t).total_attempts \in Nat
          /\ ComputeState(H, t).level = UNASSESSED <=> ComputeState(H, t).total_attempts < MinAttempts
      BY <3>1, StateFacts
    <3> QED BY <3>1, <3>2, <3>3
  <2>14. unstarted = {o \in C : \A a \in L : a.objective_id # o}
    <3> HIDE DEF state
    <3> QED BY <2>13
  <2>15. Cardinality(C) - Cardinality(unassessed)
           = Cardinality({o \in C : state(o).total_attempts >= MinAttempts})
    <3>1. C \ unassessed = {o \in C : state(o).total_attempts >= MinAttempts}
      <4> HIDE DEF state
      <4> QED BY <2>13, CountAssumption
    <3>2. unassessed \in SUBSET C
      OBVIOUS
    <3> HIDE DEF unassessed, state
    <3> QED BY <2>9, <3>1, <3>2, TheRest
  <2>16. L = {a \in m.attempts : a.at <= t} /\ C = n.catalog /\ query.reads[1].until = t
    BY <2>3, <2>4, <2>6, <2>7, <2>8 DEF InForce
  <2>17. Cardinality(L) = Cardinality({a \in L : a.objective_id \notin C})
           + AnswersUntil(m.attempts, C, t)
    BY <2>9, <2>16, TotalsAddUp
  <2>18. \A o : state(o) = ComputeState({a \in L : a.objective_id = o}, t)
    BY DEF StateIn
  <2> DEFINE summary == GetSummary
  <2>19. /\ summary.total_attempts = Cardinality(L)
         /\ summary.total_objectives = Cardinality(C)
         /\ summary.due_objectives = Cardinality(due)
         /\ summary.unstarted_objectives = Cardinality(unstarted)
         /\ summary.assessed_objectives = Cardinality(C) - Cardinality(unassessed)
    <3> HIDE DEF states, A, B, E, due, unstarted, unassessed
    <3> QED BY <2>10, <2>12
  <2> HIDE DEF summary, states, A, B, E, unstarted, unassessed
  <2>20. Claim(L, C, t, AnswersUntil(m.attempts, C, t))
    BY <2>14, <2>15, <2>17, <2>18, <2>19 DEF summary, StateIn
  <2> HIDE DEF Claim
  <2>21. AsClaimed(m, n, query.reads[1].until)
    BY <2>16, <2>20
  <2> HIDE DEF AsClaimed
  <2> QED BY <2>21
<1> QED BY <1>1, AnswersAreOfMoments, PTL
=============================================================================
