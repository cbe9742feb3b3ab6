--------------------------- MODULE SequenceLemmas ---------------------------
(***************************************************************************)
(* Facts about sequences that the proofs of several components use.  Those *)
(* about Sublists say that the elements that are kept go to different      *)
(* places in their order, and that what is left of what is left is what    *)
(* both keep.                                                              *)
(***************************************************************************)
EXTENDS Sublists, FiniteSetTheorems, FunctionTheorems, WellFoundedInduction, TLAPS

\* Induction, by way of a set of numbers: for what recursive functions compute.
LEMMA NaturalsFromZero ==
  ASSUME NEW S \in SUBSET Nat, 0 \in S, \A n \in S : n + 1 \in S
  PROVE  S = Nat
<1> DEFINE T == Nat \ S
           R == OpToRel(<, Nat)
<1>1. IsWellFoundedOn(R, Nat)
  BY NatLessThanWellFounded
<1>2. ASSUME T # {}  PROVE FALSE
  <2>1. PICK x \in T : \A y \in T : ~ (<<y, x>> \in R)
    <3> HIDE DEF R
    <3> QED BY <1>1, <1>2, WFMin
  <2>2. x \in Nat /\ x # 0
    OBVIOUS
  <2>3. x - 1 \in Nat /\ x - 1 < x
    BY <2>2, SMT
  <2>4. <<x - 1, x>> \in R
    BY <2>2, <2>3 DEF OpToRel
  <2>5. x - 1 \in S
    BY <2>1, <2>3, <2>4
  <2> QED
    BY <2>5, <2>2, <2>3
<1> QED BY <1>2

-----------------------------------------------------------------------------

\* Positions in a sequence are finitely many.
LEMMA PositionsAreFinite ==
  ASSUME NEW m \in Nat, NEW K \in SUBSET (1 .. m)
  PROVE  IsFiniteSet(K) /\ Cardinality(K) \in 0 .. m
<1>1. IsFiniteSet(1 .. m) /\ Cardinality(1 .. m) = m
  BY FS_Interval
<1>2. IsFiniteSet(K) /\ Cardinality(K) <= m
  BY <1>1, FS_Subset
<1> QED BY <1>2, FS_CardinalityType

\* A place is a number, and no greater than that of a later position.
LEMMA PlacesGrow ==
  ASSUME NEW m \in Nat, NEW K \in SUBSET (1 .. m), NEW i \in Nat, NEW j \in Nat, i <= j
  PROVE  Place(K, i) \in Nat /\ Place(K, j) \in Nat /\ Place(K, i) <= Place(K, j)
<1>1. IsFiniteSet(K)
  BY PositionsAreFinite
<1>2. IsFiniteSet(K \cap (1 .. i)) /\ IsFiniteSet(K \cap (1 .. j))
  BY <1>1, FS_Intersection
<1>3. K \cap (1 .. i) \in SUBSET (K \cap (1 .. j))
  OBVIOUS
<1>4. Cardinality(K \cap (1 .. i)) <= Cardinality(K \cap (1 .. j))
  BY <1>2, <1>3, FS_Subset
<1> QED BY <1>2, <1>4, FS_CardinalityType DEF Place

\* The next position is one further if it is kept, and as far if it is not.
LEMMA PlaceOfNext ==
  ASSUME NEW m \in Nat, NEW K \in SUBSET (1 .. m), NEW i \in Nat
  PROVE  Place(K, i + 1) = IF i + 1 \in K THEN Place(K, i) + 1 ELSE Place(K, i)
<1>1. IsFiniteSet(K \cap (1 .. i))
  BY PositionsAreFinite, FS_Intersection
<1>2. i + 1 \notin K \cap (1 .. i)
  OBVIOUS
<1>3. CASE i + 1 \in K
  <2>1. K \cap (1 .. i + 1) = (K \cap (1 .. i)) \cup {i + 1}
    BY <1>3
  <2>2. Cardinality((K \cap (1 .. i)) \cup {i + 1}) = Cardinality(K \cap (1 .. i)) + 1
    BY <1>1, <1>2, FS_AddElement
  <2> QED BY <1>3, <2>1, <2>2 DEF Place
<1>4. CASE i + 1 \notin K
  <2>1. K \cap (1 .. i + 1) = K \cap (1 .. i)
    BY <1>4
  <2> QED BY <1>4, <2>1 DEF Place
<1> QED BY <1>3, <1>4

\* A position that is kept comes after all before it.
LEMMA PlacesAreOrdered ==
  ASSUME NEW m \in Nat, NEW K \in SUBSET (1 .. m), NEW i \in Nat, NEW j \in K, i < j
  PROVE  Place(K, i) < Place(K, j)
<1>1. PICK h \in Nat : h + 1 = j /\ i <= h
  <2>1. j - 1 \in Nat /\ (j - 1) + 1 = j /\ i <= j - 1
    OBVIOUS
  <2> QED BY <2>1
<1>2. Place(K, h + 1) = Place(K, h) + 1
  BY <1>1, PlaceOfNext
<1>3. Place(K, i) \in Nat /\ Place(K, h) \in Nat /\ Place(K, i) <= Place(K, h)
  BY <1>1, PlacesGrow
<1> QED BY <1>1, <1>2, <1>3

\* No place is beyond the number of the elements that are kept.
LEMMA PlacesAreBounded ==
  ASSUME NEW m \in Nat, NEW K \in SUBSET (1 .. m), NEW i \in Nat
  PROVE  /\ Place(K, i) \in 0 .. Cardinality(K)
         /\ i \in K => Place(K, i) >= 1
<1>1. IsFiniteSet(K) /\ K \cap (1 .. i) \in SUBSET K
  BY PositionsAreFinite
<1>2. Cardinality(K \cap (1 .. i)) <= Cardinality(K) /\ Cardinality(K) \in Nat
  BY <1>1, FS_Subset, FS_CardinalityType
<1>3. Place(K, i) \in Nat /\ Place(K, 0) \in Nat
  BY PlacesGrow
<1>4. i \in K => Place(K, 0) < Place(K, i)
  <2>1. i \in K => 0 < i
    OBVIOUS
  <2> QED BY <2>1, PlacesAreOrdered
<1> QED BY <1>2, <1>3, <1>4 DEF Place

\* Two elements do not go to one place.
LEMMA PlacesDiffer ==
  ASSUME NEW m \in Nat, NEW K \in SUBSET (1 .. m), NEW i \in K, NEW j \in K,
         Place(K, i) = Place(K, j)
  PROVE  i = j
<1>1. i \in Nat /\ j \in Nat /\ i <= i /\ j <= j
  OBVIOUS
<1>2. Place(K, i) \in Nat /\ Place(K, j) \in Nat
  BY <1>1, PlacesGrow
<1>3. ~(i < j)
  <2>1. i < j => Place(K, i) < Place(K, j)
    BY <1>1, PlacesAreOrdered
  <2> QED BY <1>2, <2>1
<1>4. ~(j < i)
  <2>1. j < i => Place(K, j) < Place(K, i)
    BY <1>1, PlacesAreOrdered
  <2> QED BY <1>2, <2>1
<1> QED BY <1>1, <1>3, <1>4

\* Each place is taken.
LEMMA PlacesAreTaken ==
  ASSUME NEW m \in Nat, NEW K \in SUBSET (1 .. m), NEW n \in 1 .. Cardinality(K)
  PROVE  \E i \in K : Place(K, i) = n
<1> DEFINE f == [i \in K |-> Place(K, i)]
           T == 1 .. Cardinality(K)
<1>1. Cardinality(K) \in Nat
  BY PositionsAreFinite
<1>2. IsFiniteSet(T) /\ Cardinality(T) = Cardinality(K)
  BY <1>1, FS_Interval
<1>3. f \in [K -> T]
  <2>1. ASSUME NEW i \in K PROVE Place(K, i) \in T
    <3>1. i \in Nat
      OBVIOUS
    <3>2. Place(K, i) \in 0 .. Cardinality(K) /\ Place(K, i) >= 1
      BY <3>1, PlacesAreBounded
    <3> QED BY <1>1, <3>2
  <2> QED BY <2>1
<1>4. \A i, j \in K : f[i] = f[j] => i = j
  BY PlacesDiffer
<1>5. f \in Injection(K, T)
  <2> HIDE DEF f, T
  <2> QED BY <1>3, <1>4, Fun_IsInj
<1>6. f \in Surjection(K, T)
  <2> HIDE DEF f, T
  <2> QED BY <1>2, <1>5, FS_Injection
<1>7. \A t \in T : \E i \in K : f[i] = t
  <2> HIDE DEF f, T
  <2> QED BY <1>6, Fun_SurjectionProperties
<1> QED BY <1>7

\* An element that is kept is found at its place.
LEMMA SublistAt ==
  ASSUME NEW m \in Nat, NEW K \in SUBSET (1 .. m), NEW s, NEW i \in K
  PROVE  Place(K, i) \in 1 .. Cardinality(K) /\ Sublist(s, K)[Place(K, i)] = s[i]
<1>1. i \in Nat /\ Cardinality(K) \in Nat
  BY PositionsAreFinite
<1>2. Place(K, i) \in 1 .. Cardinality(K)
  <2>1. Place(K, i) \in 0 .. Cardinality(K) /\ Place(K, i) >= 1
    BY <1>1, PlacesAreBounded
  <2> QED BY <1>1, <2>1
<1>3. \A j \in K : Place(K, j) = Place(K, i) => j = i
  BY PlacesDiffer
<1>4. (CHOOSE j \in K : Place(K, j) = Place(K, i)) = i
  BY <1>3
<1> QED BY <1>2, <1>4 DEF Sublist

\* What is left is a sequence, of as many elements as are kept.
LEMMA SublistIsTyped ==
  ASSUME NEW S, NEW s \in Seq(S), NEW K \in SUBSET (DOMAIN s)
  PROVE  /\ Sublist(s, K) \in Seq(S)
         /\ Len(Sublist(s, K)) = Cardinality(K)
         /\ DOMAIN Sublist(s, K) = 1 .. Cardinality(K)
         /\ Cardinality(K) \in 0 .. Len(s)
<1>1. Len(s) \in Nat /\ DOMAIN s = 1 .. Len(s) /\ K \in SUBSET (1 .. Len(s))
  OBVIOUS
<1>2. Cardinality(K) \in 0 .. Len(s)
  BY <1>1, PositionsAreFinite
<1>3. DOMAIN Sublist(s, K) = 1 .. Cardinality(K)
  BY DEF Sublist
<1>4. ASSUME NEW n \in 1 .. Cardinality(K) PROVE Sublist(s, K)[n] \in S
  <2>1. PICK i \in K : Place(K, i) = n
    BY <1>1, PlacesAreTaken
  <2>2. Sublist(s, K)[n] = s[i]
    BY <1>1, <2>1, SublistAt
  <2> QED BY <2>2
<1>5. Sublist(s, K) = [n \in 1 .. Cardinality(K) |-> Sublist(s, K)[n]]
  BY DEF Sublist
<1>6. Sublist(s, K) \in [1 .. Cardinality(K) -> S]
  BY <1>4, <1>5
<1>7. Sublist(s, K) \in Seq(S)
  BY <1>2, <1>6
<1>8. Len(Sublist(s, K)) = Cardinality(K)
  BY <1>2, <1>3, <1>7
<1> QED BY <1>2, <1>3, <1>7, <1>8

\* A sequence of that length, with each element at its place, is what is left.
LEMMA IsSublist ==
  ASSUME NEW m \in Nat, NEW K \in SUBSET (1 .. m), NEW s, NEW S, NEW t \in Seq(S),
         Len(t) = Cardinality(K),
         \A i \in K : t[Place(K, i)] = s[i]
  PROVE  t = Sublist(s, K)
<1>1. DOMAIN t = 1 .. Cardinality(K) /\ t = [n \in 1 .. Cardinality(K) |-> t[n]]
  OBVIOUS
<1>2. ASSUME NEW n \in 1 .. Cardinality(K) PROVE t[n] = Sublist(s, K)[n]
  <2>1. PICK i \in K : Place(K, i) = n
    BY PlacesAreTaken
  <2>2. Sublist(s, K)[Place(K, i)] = s[i]
    BY SublistAt
  <2> QED BY <2>1, <2>2
<1>3. Sublist(s, K) = [n \in 1 .. Cardinality(K) |-> Sublist(s, K)[n]]
  BY DEF Sublist
<1> QED BY <1>1, <1>2, <1>3

\* What is left of what is left, is left.
LEMMA SublistOfSublist ==
  ASSUME NEW S, NEW s \in Seq(S), NEW K \in SUBSET (DOMAIN s),
         NEW M \in SUBSET (1 .. Cardinality(K)), NEW N,
         N = {i \in K : Place(K, i) \in M}
  PROVE  /\ Sublist(Sublist(s, K), M) = Sublist(s, N)
         /\ Cardinality(N) = Cardinality(M)
         /\ \A i \in K : Place(M, Place(K, i)) = Place(N, i)
<1>1. Len(s) \in Nat /\ K \in SUBSET (1 .. Len(s)) /\ N \in SUBSET (1 .. Len(s))
      /\ N \in SUBSET (DOMAIN s)
  OBVIOUS
<1>2. Cardinality(K) \in Nat
  BY <1>1, PositionsAreFinite
<1>3. IsFiniteSet(N)
  BY <1>1, PositionsAreFinite
\* The elements kept by both up to i, and those kept of the first ones.
<1>4. ASSUME NEW A \in SUBSET N, NEW B \in SUBSET M,
             \A i \in A : Place(K, i) \in B,
             \A n \in B : \A i \in K : Place(K, i) = n => i \in A
      PROVE  Cardinality(A) = Cardinality(B)
  <2> DEFINE f == [i \in A |-> Place(K, i)]
  <2>1. f \in [A -> B]
    BY <1>4
  <2>2. \A i, j \in A : f[i] = f[j] => i = j
    <3>1. ASSUME NEW i \in A, NEW j \in A, Place(K, i) = Place(K, j) PROVE i = j
      <4>1. i \in K /\ j \in K
        OBVIOUS
      <4> QED BY <1>1, <3>1, <4>1, PlacesDiffer
    <3> QED BY <3>1
  <2>3. \A n \in B : \E i \in A : f[i] = n
    <3>1. ASSUME NEW n \in B PROVE \E i \in A : Place(K, i) = n
      <4>1. n \in 1 .. Cardinality(K)
        OBVIOUS
      <4>2. PICK i \in K : Place(K, i) = n
        BY <1>1, <4>1, PlacesAreTaken
      <4> QED BY <1>4, <4>2
    <3> QED BY <3>1
  <2>4. f \in Bijection(A, B)
    <3> HIDE DEF f
    <3> QED BY <2>1, <2>2, <2>3, Fun_IsBij
  <2>5. IsFiniteSet(A)
    BY <1>3, FS_Subset
  <2>6. ExistsBijection(A, B)
    BY <2>4, Fun_ExistsBij
  <2> QED BY <2>5, <2>6, FS_Bijection
<1>5. Cardinality(N) = Cardinality(M)
  <2>1. /\ N \in SUBSET N /\ M \in SUBSET M
        /\ \A i \in N : Place(K, i) \in M
        /\ \A n \in M : \A i \in K : Place(K, i) = n => i \in N
    OBVIOUS
  <2> QED BY <1>4, <2>1
<1>6. ASSUME NEW i \in K PROVE Place(M, Place(K, i)) = Place(N, i)
  <2> DEFINE A == N \cap (1 .. i)
             B == M \cap (1 .. Place(K, i))
  <2>1. i \in Nat /\ \A j \in K : j \in Nat /\ Place(K, j) \in Nat
    <3>1. i \in Nat /\ \A j \in K : j \in Nat /\ j <= j
      OBVIOUS
    <3> QED BY <1>1, <3>1, PlacesGrow
  <2>2. \A j \in A : Place(K, j) \in B
    <3>1. ASSUME NEW j \in A PROVE Place(K, j) \in B
      <4>1. j \in K /\ j \in Nat /\ j <= i /\ Place(K, j) \in M
        OBVIOUS
      <4>2. Place(K, j) <= Place(K, i)
        BY <1>1, <2>1, <4>1, PlacesGrow
      <4>3. Place(K, j) \in 1 .. Cardinality(K)
        BY <4>1
      <4> QED BY <2>1, <4>1, <4>2, <4>3
    <3> QED BY <3>1
  <2>3. \A n \in B : \A j \in K : Place(K, j) = n => j \in A
    <3>1. ASSUME NEW j \in K, Place(K, j) \in B PROVE j \in A
      <4>1. Place(K, j) <= Place(K, i) /\ j \in N
        BY <2>1, <3>1
      <4>2. i < j => Place(K, i) < Place(K, j)
        BY <1>1, <2>1, PlacesAreOrdered
      <4>3. j <= i
        BY <2>1, <4>1, <4>2
      <4> QED BY <1>1, <4>1, <4>3
    <3> QED BY <3>1
  <2>4. A \in SUBSET N /\ B \in SUBSET M
    OBVIOUS
  <2>5. Cardinality(A) = Cardinality(B)
    <3> HIDE DEF A, B
    <3> QED BY <1>4, <2>2, <2>3, <2>4
  <2> QED BY <2>5 DEF Place
<1>7. Sublist(s, K) \in Seq(S) /\ DOMAIN Sublist(s, K) = 1 .. Cardinality(K)
  BY SublistIsTyped
<1>8. Sublist(Sublist(s, K), M) \in Seq(S) /\ Len(Sublist(Sublist(s, K), M)) = Cardinality(M)
  BY <1>7, SublistIsTyped
<1>9. ASSUME NEW i \in N PROVE Sublist(Sublist(s, K), M)[Place(N, i)] = s[i]
  <2>1. i \in K /\ Place(K, i) \in M
    OBVIOUS
  <2>2. Sublist(Sublist(s, K), M)[Place(M, Place(K, i))] = Sublist(s, K)[Place(K, i)]
    BY <1>2, <2>1, SublistAt
  <2>3. Sublist(s, K)[Place(K, i)] = s[i]
    BY <1>1, <2>1, SublistAt
  <2> QED BY <1>6, <2>1, <2>2, <2>3
<1>10. Sublist(Sublist(s, K), M) = Sublist(s, N)
  <2>1. PICK t \in Seq(S) : t = Sublist(Sublist(s, K), M)
    BY <1>8
  <2>2. Len(t) = Cardinality(N) /\ \A i \in N : t[Place(N, i)] = s[i]
    BY <1>5, <1>8, <1>9, <2>1
  <2>3. t = Sublist(s, N)
    <3>1. PICK m \in Nat : N \in SUBSET (1 .. m)
      BY <1>1
    <3>2. Len(t) = Cardinality(N)
      BY <2>2
    <3>3. \A i \in N : t[Place(N, i)] = s[i]
      BY <2>2
    <3> QED BY ONLY <2>1, <3>1, <3>2, <3>3, IsSublist
  <2> QED BY <2>1, <2>3
<1> QED BY <1>5, <1>6, <1>10

\* All of it.
LEMMA SublistOfAll ==
  ASSUME NEW S, NEW s \in Seq(S)
  PROVE  Sublist(s, DOMAIN s) = s /\ \A i \in DOMAIN s : Place(DOMAIN s, i) = i
<1>1. Len(s) \in Nat /\ DOMAIN s = 1 .. Len(s)
  OBVIOUS
<1>2. Cardinality(1 .. Len(s)) = Len(s)
  BY <1>1, FS_Interval
<1>3. ASSUME NEW i \in DOMAIN s PROVE Place(DOMAIN s, i) = i
  <2>1. (DOMAIN s) \cap (1 .. i) = 1 .. i /\ i \in Nat \ {0}
    BY <1>1
  <2>2. Cardinality(1 .. i) = i
    BY <2>1, FS_Interval
  <2> QED BY <2>1, <2>2 DEF Place
<1>4. s = Sublist(s, DOMAIN s)
  BY <1>1, <1>2, <1>3, IsSublist
<1> QED BY <1>3, <1>4

\* An element added at the end is kept, or is not, whatever comes before it.
LEMMA SublistOfAppended ==
  ASSUME NEW S, NEW s \in Seq(S), NEW x \in S, NEW K \in SUBSET (DOMAIN s)
  PROVE  /\ Sublist(Append(s, x), K \cup {Len(s) + 1}) = Append(Sublist(s, K), x)
         /\ Sublist(Append(s, x), K) = Sublist(s, K)
<1> DEFINE t == Append(s, x)
           L == K \cup {Len(s) + 1}
<1>1. /\ Len(s) \in Nat /\ DOMAIN s = 1 .. Len(s)
      /\ K \in SUBSET (1 .. Len(s)) /\ K \in SUBSET (1 .. Len(s) + 1)
      /\ L \in SUBSET (1 .. Len(s) + 1)
  OBVIOUS
<1>2. t \in Seq(S) /\ t[Len(s) + 1] = x /\ \A i \in K : t[i] = s[i]
  OBVIOUS
<1>3. IsFiniteSet(K) /\ Cardinality(K) \in Nat /\ Len(s) + 1 \notin K
  BY <1>1, PositionsAreFinite
<1>4. Cardinality(L) = Cardinality(K) + 1
  BY <1>3, FS_AddElement
<1>5. Sublist(s, K) \in Seq(S) /\ Len(Sublist(s, K)) = Cardinality(K)
  BY SublistIsTyped
<1>6. ASSUME NEW i \in K
      PROVE  Place(L, i) = Place(K, i) /\ Place(K, i) \in 1 .. Cardinality(K)
             /\ Sublist(s, K)[Place(K, i)] = s[i]
  <2>1. L \cap (1 .. i) = K \cap (1 .. i)
    BY <1>1
  <2>2. Place(K, i) \in 1 .. Cardinality(K) /\ Sublist(s, K)[Place(K, i)] = s[i]
    BY <1>1, SublistAt
  <2> QED BY <2>1, <2>2 DEF Place
<1>7. Place(L, Len(s) + 1) = Cardinality(L)
  <2>1. L \cap (1 .. Len(s) + 1) = L
    BY <1>1
  <2> QED BY <2>1 DEF Place
<1>8. Append(Sublist(s, K), x) = Sublist(t, L)
  <2> DEFINE u == Append(Sublist(s, K), x)
  <2>1. u \in Seq(S) /\ Len(u) = Cardinality(L)
    BY <1>4, <1>5
  <2>2. ASSUME NEW i \in L PROVE u[Place(L, i)] = t[i]
    <3>1. CASE i \in K
      <4>1. u[Place(K, i)] = Sublist(s, K)[Place(K, i)]
        BY <1>5, <1>6, <3>1
      <4> QED BY <1>2, <1>6, <3>1, <4>1
    <3>2. CASE i = Len(s) + 1
      BY <1>2, <1>3, <1>4, <1>5, <1>7, <3>2
    <3> QED BY <3>1, <3>2
  <2>3. u = Sublist(t, L)
    <3> HIDE DEF u, t, L
    <3>1. PICK m \in Nat : L \in SUBSET (1 .. m)
      <4>1. Len(s) + 1 \in Nat /\ L \in SUBSET (1 .. (Len(s) + 1))
        BY <1>1
      <4> QED BY <4>1
    <3> QED BY ONLY <3>1, <2>1, <2>2, IsSublist
  <2> QED BY <2>3
<1>9. Sublist(s, K) = Sublist(t, K)
  <2> HIDE DEF t, L
  <2>1. \A i \in K : Sublist(s, K)[Place(K, i)] = t[i]
    BY <1>2, <1>6
  <2> QED BY <1>1, <1>5, <2>1, IsSublist
<1> QED BY <1>8, <1>9
=============================================================================
