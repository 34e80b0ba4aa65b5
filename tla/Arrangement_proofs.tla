------------------------- MODULE Arrangement_proofs -------------------------
(***************************************************************************)
(* A strict order arranges a finite set: every element has a place of its  *)
(* own, and who is ahead comes first.                                      *)
(***************************************************************************)
EXTENDS Arrangement, Sequences, FiniteSetsExt, FiniteSetTheorems, WellFoundedInduction, TLAPS

TotallyOrders(S, less) ==
  /\ \A x \in S : <<x, x>> \notin less
  /\ \A x, y \in S : x # y => <<x, y>> \in less \/ <<y, x>> \in less
  /\ \A x, y, z \in S : <<x, y>> \in less /\ <<y, z>> \in less => <<x, z>> \in less

LEMMA AheadIs ==
  ASSUME NEW S, IsFiniteSet(S), NEW less, TotallyOrders(S, less), NEW x \in S
  PROVE  Ahead(S, less, x) \in Nat /\ Ahead(S, less, x) < Cardinality(S) /\ Cardinality(S) \in Nat
<1> DEFINE A == {y \in S : <<y, x>> \in less}
<1>1. A \subseteq S /\ x \notin A
  BY DEF TotallyOrders
<1>2. IsFiniteSet(A)
  BY <1>1, FS_Subset
<1>3. Cardinality(A) <= Cardinality(S) /\ Cardinality(A) # Cardinality(S)
  BY <1>1, <1>2, FS_Subset
<1>4. Cardinality(A) \in Nat /\ Cardinality(S) \in Nat
  BY <1>2, FS_CardinalityType
<1>5. Ahead(S, less, x) = Cardinality(A)
  BY DEF Ahead
<1> HIDE DEF A
<1> QED BY <1>3, <1>4, <1>5

LEMMA AheadFollows ==
  ASSUME NEW S, IsFiniteSet(S), NEW less, TotallyOrders(S, less),
         NEW x \in S, NEW y \in S, <<x, y>> \in less
  PROVE  Ahead(S, less, x) < Ahead(S, less, y)
<1> DEFINE A == {z \in S : <<z, x>> \in less}
           B == {z \in S : <<z, y>> \in less}
<1>1. A \subseteq B /\ x \in B /\ x \notin A
  BY DEF TotallyOrders
<1>2. IsFiniteSet(B) /\ IsFiniteSet(A)
  BY FS_Subset
<1>3. Cardinality(A) <= Cardinality(B) /\ Cardinality(A) # Cardinality(B)
  BY <1>1, <1>2, FS_Subset
<1>4. Cardinality(A) \in Nat /\ Cardinality(B) \in Nat
  BY <1>2, FS_CardinalityType
<1>5. Ahead(S, less, x) = Cardinality(A) /\ Ahead(S, less, y) = Cardinality(B)
  BY DEF Ahead
<1> HIDE DEF A, B
<1> QED BY <1>3, <1>4, <1>5

(* Every place is taken by one element, and every element takes one.       *)
LEMMA ArrangedIs ==
  ASSUME NEW S, IsFiniteSet(S), NEW less, TotallyOrders(S, less)
  PROVE  /\ Cardinality(S) \in Nat /\ DOMAIN Arranged(S, less) = 1..Cardinality(S)
         /\ \A n \in 1..Cardinality(S) : Arranged(S, less)[n] \in S /\ Ahead(S, less, Arranged(S, less)[n]) = n - 1
         /\ \A x \in S : /\ Ahead(S, less, x) + 1 \in 1..Cardinality(S)
                         /\ Arranged(S, less)[Ahead(S, less, x) + 1] = x
         /\ \A n, m \in 1..Cardinality(S) : n < m <=> <<Arranged(S, less)[n], Arranged(S, less)[m]>> \in less
<1> DEFINE N == Cardinality(S)
           f == [x \in S |-> Ahead(S, less, x) + 1]
           a == Arranged(S, less)
<1>1. N \in Nat /\ IsFiniteSet(1..N) /\ Cardinality(1..N) = N
  BY FS_CardinalityType, FS_Interval
<1>2. \A x \in S : Ahead(S, less, x) \in Nat /\ Ahead(S, less, x) < N
  BY AheadIs
<1>3. \A x, y \in S : <<x, y>> \in less => Ahead(S, less, x) < Ahead(S, less, y)
  BY AheadFollows
<1>4. \A x, y \in S : Ahead(S, less, x) = Ahead(S, less, y) => x = y
  <2> SUFFICES ASSUME NEW x \in S, NEW y \in S, Ahead(S, less, x) = Ahead(S, less, y), x # y PROVE FALSE
    OBVIOUS
  <2>1. <<x, y>> \in less \/ <<y, x>> \in less
    BY DEF TotallyOrders
  <2>2. Ahead(S, less, x) \in Nat /\ Ahead(S, less, y) \in Nat
    BY <1>2
  <2> QED BY <1>3, <2>1, <2>2
<1>5. \A n \in 1..N : \E x \in S : Ahead(S, less, x) = n - 1
  <2>1. f \in [S -> 1..N]
    BY <1>1, <1>2
  <2>2. \A x, y \in S : f[x] = f[y] => x = y
    BY <1>2, <1>4
  <2>3. f \in Injection(S, 1..N)
    BY <2>1, <2>2 DEF Injection, IsInjective
  <2>4. f \in Surjection(S, 1..N)
    BY <1>1, <2>3, FS_Injection
  <2>5. \A n \in 1..N : \E x \in S : f[x] = n
    BY <2>4 DEF Surjection
  <2> QED BY <1>1, <1>2, <2>5
<1>6. DOMAIN a = 1..N /\ \A n \in 1..N : a[n] \in S /\ Ahead(S, less, a[n]) = n - 1
  <2>1. DOMAIN a = 1..N /\ \A n \in 1..N : a[n] = CHOOSE x \in S : Ahead(S, less, x) = n - 1
    BY DEF Arranged
  <2> QED BY <1>5, <2>1
<1> HIDE DEF N, a, f
<1>7. ASSUME NEW x \in S PROVE Ahead(S, less, x) + 1 \in 1..N /\ a[Ahead(S, less, x) + 1] = x
  <2>1. Ahead(S, less, x) + 1 \in 1..N
    BY <1>1, <1>2
  <2>2. Ahead(S, less, a[Ahead(S, less, x) + 1]) = Ahead(S, less, x) /\ a[Ahead(S, less, x) + 1] \in S
    BY <1>2, <1>6, <2>1
  <2> QED BY <1>4, <2>1, <2>2
<1>8. ASSUME NEW n \in 1..N, NEW m \in 1..N PROVE n < m <=> <<a[n], a[m]>> \in less
  <2>1. a[n] \in S /\ a[m] \in S /\ Ahead(S, less, a[n]) = n - 1 /\ Ahead(S, less, a[m]) = m - 1
    BY <1>6
  <2>2. <<a[n], a[m]>> \in less => n < m
    BY <1>1, <1>3, <2>1
  <2>3. <<a[m], a[n]>> \in less => m < n
    BY <1>1, <1>3, <2>1
  <2>4. n < m => a[n] # a[m]
    BY <1>1, <2>1
  <2>5. a[n] # a[m] => <<a[n], a[m]>> \in less \/ <<a[m], a[n]>> \in less
    BY <2>1 DEF TotallyOrders
  <2> QED BY <1>1, <2>2, <2>3, <2>4, <2>5
<1> QED BY <1>1, <1>6, <1>7, <1>8 DEF N, a

LEMMA AscendingOrders ==
  ASSUME NEW I, I \subseteq Int
  PROVE  TotallyOrders(I, Ascending(I))
BY DEF TotallyOrders, Ascending

(* A sublist has the elements at its places and no others, in their order. *)
LEMMA SublistIs ==
  ASSUME NEW s, NEW I, IsFiniteSet(I), I \subseteq Int
  PROVE  /\ Cardinality(I) \in Nat /\ DOMAIN Sublist(s, I) = 1..Cardinality(I)
         /\ \A n \in 1..Cardinality(I) : \E i \in I : Sublist(s, I)[n] = s[i]
         /\ \A i \in I : \E n \in 1..Cardinality(I) : Sublist(s, I)[n] = s[i]
<1> DEFINE a == Arranged(I, Ascending(I))
           N == Cardinality(I)
<1>1. /\ N \in Nat /\ DOMAIN a = 1..N /\ \A n \in 1..N : a[n] \in I
      /\ \A i \in I : Ahead(I, Ascending(I), i) + 1 \in 1..N /\ a[Ahead(I, Ascending(I), i) + 1] = i
  BY ArrangedIs, AscendingOrders
<1>2. DOMAIN Sublist(s, I) = 1..N /\ \A n \in 1..N : Sublist(s, I)[n] = s[a[n]]
  BY DEF Sublist
<1> HIDE DEF a, N
<1>3. \A n \in 1..N : \E i \in I : Sublist(s, I)[n] = s[i]
  BY <1>1, <1>2
<1>4. ASSUME NEW i \in I PROVE \E n \in 1..N : Sublist(s, I)[n] = s[i]
  <2>1. Ahead(I, Ascending(I), i) + 1 \in 1..N /\ a[Ahead(I, Ascending(I), i) + 1] = i
    BY <1>1
  <2> QED BY <1>2, <2>1
<1> QED BY <1>1, <1>2, <1>3, <1>4 DEF N

(* A set of numbers has a least one.                                      *)
LEMMA LeastIn ==
  ASSUME NEW S \in SUBSET Nat, S # {}
  PROVE  Min(S) \in S /\ \A y \in S : Min(S) <= y
<1> DEFINE less == {ss \in Nat \X Nat : ss[1] < ss[2]}
<1>1. IsWellFoundedOn(less, Nat)
  BY NatLessThanWellFounded DEF OpToRel
<1> HIDE DEF less
<1>2. PICK x \in S : \A y \in S : <<y, x>> \notin less
  BY <1>1, WFMin
<1>3. \A y \in S : ~(y < x)
  BY <1>2 DEF less
<1>4. \A y \in S : x <= y
  BY <1>3
<1> QED BY <1>4 DEF Min

LEMMA SublistIsList ==
  ASSUME NEW s, NEW I, IsFiniteSet(I), I \subseteq Int, NEW T, \A i \in I : s[i] \in T
  PROVE  Sublist(s, I) \in Seq(T) /\ Len(Sublist(s, I)) = Cardinality(I)
<1> DEFINE N == Cardinality(I)
<1>1. N \in Nat /\ \A n \in 1..N : Sublist(s, I)[n] \in T
  BY SublistIs
<1>2. Sublist(s, I) = [n \in 1..N |-> Sublist(s, I)[n]]
  BY DEF Sublist
<1> HIDE DEF N
<1>3. Sublist(s, I) \in [1..N -> T]
  BY <1>1, <1>2
<1> QED BY <1>1, <1>3 DEF N

LEMMA SublistHas == \A s, I : IsFiniteSet(I) /\ I \subseteq Int =>
  /\ \A n \in 1..Cardinality(I) : \E i \in I : Sublist(s, I)[n] = s[i]
  /\ \A i \in I : \E n \in 1..Cardinality(I) : Sublist(s, I)[n] = s[i]
<1> TAKE s, I
<1> HAVE IsFiniteSet(I) /\ I \subseteq Int
<1> DEFINE a == Arranged(I, Ascending(I))
           N == Cardinality(I)
<1>1. TotallyOrders(I, Ascending(I))
  BY AscendingOrders
<1>2. /\ \A n \in 1..N : a[n] \in I
      /\ \A i \in I : Ahead(I, Ascending(I), i) + 1 \in 1..N /\ a[Ahead(I, Ascending(I), i) + 1] = i
  BY <1>1, ArrangedIs
<1>3. \A n \in 1..N : Sublist(s, I)[n] = s[a[n]]
  BY DEF Sublist
<1> HIDE DEF a, N
<1>4. \A n \in 1..N : \E i \in I : Sublist(s, I)[n] = s[i]
  BY <1>2, <1>3
<1>5. \A i \in I : \E n \in 1..N : Sublist(s, I)[n] = s[i]
  BY <1>2, <1>3
<1> QED BY <1>4, <1>5 DEF N

(* What stands behind a place of a sublist stands behind it in the list.   *)
InOrder(t, s, I) ==
  \A n \in 1..Cardinality(I) :
    \E i \in I : /\ t[n] = s[i]
                 /\ \A j \in I : i < j => \E m \in 1..Cardinality(I) : n < m /\ t[m] = s[j]

LEMMA SublistOrdered == \A s, I : IsFiniteSet(I) /\ I \subseteq Int => InOrder(Sublist(s, I), s, I)
<1> TAKE s, I
<1> HAVE IsFiniteSet(I) /\ I \subseteq Int
<1> SUFFICES ASSUME NEW n \in 1..Cardinality(I)
             PROVE  \E i \in I : /\ Sublist(s, I)[n] = s[i]
                                 /\ \A j \in I : i < j => \E m \in 1..Cardinality(I) : n < m /\ Sublist(s, I)[m] = s[j]
  BY DEF InOrder
<1> DEFINE a == Arranged(I, Ascending(I))
           N == Cardinality(I)
<1>1. TotallyOrders(I, Ascending(I))
  BY AscendingOrders
<1>2. /\ \A m \in 1..N : a[m] \in I
      /\ \A i \in I : Ahead(I, Ascending(I), i) + 1 \in 1..N /\ a[Ahead(I, Ascending(I), i) + 1] = i
      /\ \A k, m \in 1..N : k < m <=> <<a[k], a[m]>> \in Ascending(I)
  BY <1>1, ArrangedIs
<1>3. \A m \in 1..N : Sublist(s, I)[m] = s[a[m]]
  BY DEF Sublist
<1> HIDE DEF a, N
<1>n. n \in 1..N
  BY DEF N
<1>4. ASSUME NEW j \in I, a[n] < j PROVE \E m \in 1..N : n < m /\ Sublist(s, I)[m] = s[j]
  <2>1. PICK m \in 1..N : a[m] = j
    BY <1>2
  <2>2. <<a[n], a[m]>> \in Ascending(I)
    BY <1>2, <1>4, <1>n, <2>1 DEF Ascending
  <2> QED BY <1>2, <1>3, <1>n, <2>1, <2>2
<1> QED BY <1>2, <1>3, <1>4, <1>n DEF N
=============================================================================
