---------------------------- MODULE MergeProofs ----------------------------
(***************************************************************************)
(* What the merge does to any lists, for any alphabet and any order in     *)
(* which Go walks a map.                                                   *)
(*                                                                         *)
(* Everything rests on one fact: in a finite set with a total order, the   *)
(* number of elements up to one is its place, and each place is taken by   *)
(* exactly one element.  So a list that is selected or sorted by counting  *)
(* is a rearrangement, there is only one in a given order, and what was    *)
(* walked in any order is the same once it is sorted by distinct names.    *)
(***************************************************************************)
EXTENDS Merge, FunctionTheorems, FiniteSetTheorems, SequenceTheorems, TLAPS

-----------------------------------------------------------------------------
(***************************************************************************)
(* Total orders on finite sets.                                            *)
(***************************************************************************)

IsTotalOrder(S, order) ==
    /\ \A x \in S : <<x, x>> \in order
    /\ \A x, y \in S : <<x, y>> \in order \/ <<y, x>> \in order
    /\ \A x, y \in S : <<x, y>> \in order /\ <<y, x>> \in order => x = y
    /\ \A x, y, z \in S : <<x, y>> \in order /\ <<y, z>> \in order => <<x, z>> \in order

UpTo(S, order, x) == {y \in S : <<y, x>> \in order}
Place(S, order, x) == Cardinality(UpTo(S, order, x))
Ordering(S, order) ==
    [k \in 1..Cardinality(S) |-> CHOOSE x \in S : Place(S, order, x) = k]

\* A place is a position.
LEMMA PlaceIsPosition ==
    ASSUME NEW S, IsFiniteSet(S), NEW order, IsTotalOrder(S, order), NEW x \in S
    PROVE  Place(S, order, x) \in 1..Cardinality(S)
<1> DEFINE U == UpTo(S, order, x)
<1>1. U \in SUBSET S /\ x \in U
  BY DEF UpTo, IsTotalOrder
<1>2. IsFiniteSet(U) /\ Cardinality(U) <= Cardinality(S)
  BY <1>1, FS_Subset
<1>3. Cardinality(U) \in Nat /\ Cardinality(S) \in Nat /\ Cardinality(U) # 0
  BY <1>1, <1>2, FS_CardinalityType, FS_EmptySet
<1> QED
  BY <1>2, <1>3 DEF Place

\* What comes later has a higher place.
LEMMA PlacesGrow ==
    ASSUME NEW S, IsFiniteSet(S), NEW order, IsTotalOrder(S, order),
           NEW x \in S, NEW y \in S, <<x, y>> \in order, x # y
    PROVE  Place(S, order, x) < Place(S, order, y)
<1> DEFINE U == UpTo(S, order, x)
           V == UpTo(S, order, y)
<1>1. U \in SUBSET V /\ V \in SUBSET S
  BY DEF UpTo, IsTotalOrder
<1>2. y \in V /\ y \notin U
  BY DEF UpTo, IsTotalOrder
<1>3. IsFiniteSet(V)
  BY <1>1, FS_Subset
<1>4. Cardinality(U) <= Cardinality(V) /\ Cardinality(U) # Cardinality(V)
  BY <1>1, <1>2, <1>3, FS_Subset
<1> QED
  BY <1>4, PlaceIsPosition DEF Place

LEMMA PlacesDiffer ==
    ASSUME NEW S, IsFiniteSet(S), NEW order, IsTotalOrder(S, order),
           NEW x \in S, NEW y \in S, Place(S, order, x) = Place(S, order, y)
    PROVE  x = y
<1> SUFFICES ASSUME x # y PROVE FALSE
  OBVIOUS
<1>1. <<x, y>> \in order \/ <<y, x>> \in order
  BY DEF IsTotalOrder
<1> QED
  BY <1>1, PlacesGrow, PlaceIsPosition

\* Each position is the place of one element: the ordering lists them all.
LEMMA OrderingLists ==
    ASSUME NEW S, IsFiniteSet(S), NEW order, IsTotalOrder(S, order)
    PROVE  /\ Ordering(S, order) \in Bijection(1..Cardinality(S), S)
           /\ \A k \in 1..Cardinality(S) : Place(S, order, Ordering(S, order)[k]) = k
           /\ \A k, l \in 1..Cardinality(S) :
                 k <= l <=> <<Ordering(S, order)[k], Ordering(S, order)[l]>> \in order
<1> DEFINE n == Cardinality(S)
           p == [x \in S |-> Place(S, order, x)]
           O == Ordering(S, order)
<1>1. n \in Nat /\ IsFiniteSet(1..n) /\ Cardinality(1..n) = n
  BY FS_CardinalityType, FS_Interval
<1>2. p \in Injection(S, 1..n)
  <2>1. p \in [S -> 1..n]
    BY PlaceIsPosition
  <2>2. IsInjective(p)
    BY PlacesDiffer DEF IsInjective
  <2> QED
    BY <2>1, <2>2 DEF Injection
<1>3. p \in Surjection(S, 1..n)
  BY <1>1, <1>2, FS_Injection
<1>4. \A k \in 1..n : O[k] \in S /\ Place(S, order, O[k]) = k
  BY <1>3 DEF Surjection, Ordering
<1>5. O \in [1..n -> S]
  BY <1>4 DEF Ordering
<1>6. \A k, l \in 1..n : O[k] = O[l] => k = l
  BY <1>4
<1>7. \A x \in S : \E k \in 1..n : O[k] = x
  BY <1>4, PlaceIsPosition, PlacesDiffer
<1>8. O \in Bijection(1..n, S)
  BY <1>5, <1>6, <1>7 DEF Bijection, Injection, Surjection, IsInjective
<1>9. ASSUME NEW k \in 1..n, NEW l \in 1..n
      PROVE  k <= l <=> <<O[k], O[l]>> \in order
  <2>1. CASE k = l
    BY <1>4, <2>1 DEF IsTotalOrder
  <2>2. CASE k # l
    <3>1. O[k] # O[l]
      BY <1>6, <2>2
    <3>2. <<O[k], O[l]>> \in order => k < l
      BY <1>4, <3>1, PlacesGrow
    <3>3. <<O[l], O[k]>> \in order => l < k
      BY <1>4, <3>1, PlacesGrow
    <3>4. <<O[k], O[l]>> \in order \/ <<O[l], O[k]>> \in order
      BY <1>4 DEF IsTotalOrder
    <3> QED
      BY <3>2, <3>3, <3>4
  <2> QED
    BY <2>1, <2>2
<1> QED
  BY <1>4, <1>8, <1>9

\* There is only one way to list a set in order.
LEMMA OrderingUnique ==
    ASSUME NEW S, IsFiniteSet(S), NEW order, IsTotalOrder(S, order),
           NEW n \in Nat, NEW f \in Bijection(1..n, S),
           \A k, l \in 1..n : k <= l => <<f[k], f[l]>> \in order
    PROVE  n = Cardinality(S) /\ f = Ordering(S, order)
<1>1. Cardinality(S) = n
  BY FS_CountingElements DEF ExistsBijection
<1>2. /\ f \in [1..n -> S]
      /\ \A k, l \in 1..n : f[k] = f[l] => k = l
      /\ \A x \in S : \E k \in 1..n : f[k] = x
  BY DEF Bijection, Injection, Surjection, IsInjective
<1>3. ASSUME NEW k \in 1..n PROVE Place(S, order, f[k]) = k
  <2> DEFINE U == UpTo(S, order, f[k])
             g == [i \in 1..k |-> f[i]]
  <2>1. \A i \in 1..k : i \in 1..n /\ i <= k
    OBVIOUS
  <2>2. g \in [1..k -> U]
    BY <1>2, <2>1 DEF UpTo
  <2>3. \A i, j \in 1..k : g[i] = g[j] => i = j
    BY <1>2, <2>1
  <2>4. ASSUME NEW x \in U PROVE \E i \in 1..k : g[i] = x
    <3>1. PICK i \in 1..n : f[i] = x
      BY <1>2 DEF UpTo
    <3>2. i <= k
      <4> SUFFICES ASSUME ~(i <= k) PROVE FALSE
        OBVIOUS
      <4>1. <<f[k], f[i]>> \in order /\ <<f[i], f[k]>> \in order
        BY <3>1 DEF UpTo
      <4>2. f[i] = f[k]
        BY <1>2, <4>1 DEF IsTotalOrder
      <4> QED
        BY <1>2, <4>2
    <3> QED
      BY <3>1, <3>2
  <2>5. g \in Bijection(1..k, U)
    BY <2>2, <2>3, <2>4 DEF Bijection, Injection, Surjection, IsInjective
  <2> QED
    BY <2>5, FS_CountingElements DEF ExistsBijection, Place
<1>4. ASSUME NEW k \in 1..n PROVE f[k] = Ordering(S, order)[k]
  <2>1. Ordering(S, order)[k] \in S /\ Place(S, order, Ordering(S, order)[k]) = k
    BY <1>1, OrderingLists DEF Bijection, Injection
  <2> QED
    BY <1>2, <1>3, <2>1, PlacesDiffer
<1>5. Ordering(S, order) \in [1..n -> S]
  BY <1>1, OrderingLists DEF Bijection, Injection
<1> QED
  BY <1>1, <1>2, <1>4, <1>5

-----------------------------------------------------------------------------
(***************************************************************************)
(* Lists.                                                                  *)
(***************************************************************************)

LEMMA ListFacts ==
    ASSUME NEW s, IsList(s)
    PROVE  /\ Len(s) \in Nat /\ DOMAIN s = 1..Len(s) /\ IsFiniteSet(DOMAIN s)
           /\ s \in [1..Len(s) -> ToSet(s)]
           /\ \A i \in DOMAIN s : s[i] \in ToSet(s)
<1>1. Len(s) \in Nat /\ DOMAIN s = 1..Len(s) /\ s \in [1..Len(s) -> ToSet(s)]
  BY LenProperties DEF IsList
<1>2. IsFiniteSet(1..Len(s))
  BY <1>1, FS_Interval
<1> QED
  BY <1>1, <1>2

LEMMA ListMade ==
    ASSUME NEW n \in Nat, NEW T, NEW s \in [1..n -> T]
    PROVE  IsList(s) /\ Len(s) = n /\ DOMAIN s = 1..n
<1>1. s \in [1..n -> ToSet(s)]
  BY DEF ToSet
<1>2. s \in Seq(ToSet(s))
  BY <1>1, SeqDef
<1> QED
  BY <1>1, <1>2, LenProperties DEF IsList

\* The list r has the entries of s at the positions at, in the order of p.
Rearranges(r, s, at, p) ==
    /\ IsList(r)
    /\ Cardinality(at) \in Nat /\ DOMAIN r = 1..Cardinality(at)
    /\ p \in Bijection(1..Cardinality(at), at)
    /\ \A k \in DOMAIN r : r[k] = s[p[k]]

LEMMA Rearranged ==
    ASSUME NEW r, NEW s, NEW at, NEW p, Rearranges(r, s, at, p)
    PROVE  /\ \A k \in DOMAIN r : p[k] \in at
           /\ \A i \in at : \E k \in DOMAIN r : p[k] = i
           /\ \A k, l \in DOMAIN r : p[k] = p[l] => k = l
           /\ \A x : x \in ToSet(r) <=> \E i \in at : x = s[i]
<1>1. /\ \A k \in DOMAIN r : p[k] \in at
      /\ \A i \in at : \E k \in DOMAIN r : p[k] = i
      /\ \A k, l \in DOMAIN r : p[k] = p[l] => k = l
  BY DEF Rearranges, Bijection, Injection, Surjection, IsInjective
<1>2. ToSet(r) = {r[k] : k \in DOMAIN r}
  BY DEF ToSet
<1>3. \A k \in DOMAIN r : r[k] = s[p[k]]
  BY DEF Rearranges
<1> QED
  BY <1>1, <1>2, <1>3

LEMMA ArrangedByOrder ==
    ASSUME NEW s, NEW at, IsFiniteSet(at), NEW order, IsTotalOrder(at, order)
    PROVE  Rearranges(Arranged(s, at, order), s, at, Ordering(at, order))
<1> DEFINE r == Arranged(s, at, order)
           n == Cardinality(at)
           O == Ordering(at, order)
<1>1. r = [k \in 1..n |-> s[O[k]]]
  BY DEF Arranged, Ordering, Place, UpTo
<1>2. n \in Nat /\ O \in Bijection(1..n, at)
  BY OrderingLists, FS_CardinalityType
<1> HIDE DEF O
<1>3. r \in [1..n -> {s[O[k]] : k \in 1..n}]
  BY <1>1
<1>4. IsList(r) /\ DOMAIN r = 1..n
  BY <1>2, <1>3, ListMade
<1>5. \A k \in DOMAIN r : r[k] = s[O[k]]
  BY <1>1
<1> QED
  BY <1>2, <1>4, <1>5 DEF Rearranges, O

\* Picked is the entries at the positions, in their order.
Positions(at) == {p \in at \X at : p[1] <= p[2]}

LEMMA PickedLists ==
    ASSUME NEW s, IsList(s), NEW at \in SUBSET DOMAIN s
    PROVE  Rearranges(Picked(s, at), s, at, Ordering(at, Positions(at)))
<1>1. IsFiniteSet(at) /\ at \in SUBSET Int
  BY ListFacts, FS_Subset
<1>2. IsTotalOrder(at, Positions(at))
  BY <1>1 DEF IsTotalOrder, Positions
<1>3. Picked(s, at) = Arranged(s, at, Positions(at))
  BY DEF Picked, Positions
<1> QED
  BY <1>1, <1>2, <1>3, ArrangedByOrder

LEMMA ConcatLists ==
    ASSUME NEW s, IsList(s), NEW t, IsList(t)
    PROVE  /\ IsList(s \o t)
           /\ ToSet(s \o t) = ToSet(s) \cup ToSet(t)
           /\ DOMAIN (s \o t) = 1..(Len(s) + Len(t))
           /\ \A i \in 1..(Len(s) + Len(t)) :
                 (s \o t)[i] = IF i <= Len(s) THEN s[i] ELSE t[i - Len(s)]
<1> DEFINE U == ToSet(s) \cup ToSet(t)
           c == s \o t
<1>1. s \in Seq(U) /\ t \in Seq(U)
  BY SeqMonotonic DEF IsList
<1>2. /\ c \in Seq(U)
      /\ Len(c) = Len(s) + Len(t)
      /\ \A i \in 1..Len(s) + Len(t) : c[i] = IF i <= Len(s) THEN s[i] ELSE t[i - Len(s)]
  BY <1>1, ConcatProperties
<1>3. Len(s) \in Nat /\ Len(t) \in Nat /\ DOMAIN s = 1..Len(s) /\ DOMAIN t = 1..Len(t)
  BY ListFacts
<1>4. DOMAIN c = 1..(Len(s) + Len(t)) /\ c \in [1..(Len(s) + Len(t)) -> U]
  BY <1>2, LenProperties
<1> HIDE DEF c
<1>5. IsList(c)
  <2>1. Len(s) + Len(t) \in Nat
    BY <1>3
  <2> QED
    BY <1>4, <2>1, ListMade
<1>6. ToSet(c) = U
  <2>1. \A x \in ToSet(c) : x \in U
    BY <1>4 DEF ToSet
  <2>2. ASSUME NEW i \in DOMAIN s PROVE s[i] \in ToSet(c)
    <3>1. i \in DOMAIN c /\ c[i] = s[i]
      BY <1>2, <1>3, <1>4
    <3> QED
      BY <3>1 DEF ToSet
  <2>3. ASSUME NEW i \in DOMAIN t PROVE t[i] \in ToSet(c)
    <3>1. Len(s) + i \in DOMAIN c /\ c[Len(s) + i] = t[i]
      BY <1>2, <1>3, <1>4
    <3> QED
      BY <3>1 DEF ToSet
  <2> QED
    BY <2>1, <2>2, <2>3 DEF ToSet
<1> QED
  BY <1>2, <1>4, <1>5, <1>6 DEF c

-----------------------------------------------------------------------------
(***************************************************************************)
(* Lists of named items.                                                   *)
(***************************************************************************)

NamesKnown(s) == IsList(s) /\ NamesOf(s) \subseteq Names
DistinctNames(s) == \A i, j \in DOMAIN s : s[i].name = s[j].name => i = j
Alphabetic(S) == {p \in S \X S : Rank(p[1]) <= Rank(p[2])}

LEMMA RanksDiffer ==
    /\ \A n \in Names : Rank(n) \in Nat
    /\ \A n, m \in Names : Rank(n) = Rank(m) => n = m
    /\ IsFiniteSet(Names)
<1>1. IsList(Alphabet) /\ ToSet(Alphabet) = Names /\ IsInjective(Alphabet)
  BY AlphabetAssumption DEF IsWalk
<1>2. DOMAIN Alphabet = 1..Len(Alphabet) /\ Len(Alphabet) \in Nat
  BY <1>1, ListFacts
<1>3. \A n \in Names : \E i \in DOMAIN Alphabet : Alphabet[i] = n
  BY <1>1 DEF ToSet
<1>4. \A n \in Names : Rank(n) \in DOMAIN Alphabet /\ Alphabet[Rank(n)] = n
  BY <1>3 DEF Rank
<1>5. Alphabet \in Surjection(DOMAIN Alphabet, Names)
  <2>1. Alphabet \in [DOMAIN Alphabet -> Names]
    BY <1>1, <1>2, ListFacts
  <2> QED
    BY <1>3, <2>1 DEF Surjection
<1>6. IsFiniteSet(Names)
  BY <1>1, <1>5, ListFacts, FS_Surjection
<1> QED
  BY <1>2, <1>4, <1>6

LEMMA AlphabeticOrdered == ASSUME NEW S \in SUBSET Names PROVE IsTotalOrder(S, Alphabetic(S))
<1>1. \A n \in S : Rank(n) \in Nat
  BY RanksDiffer
<1>2. \A n, m \in S : Rank(n) = Rank(m) => n = m
  BY RanksDiffer
<1> QED
  BY <1>1, <1>2 DEF IsTotalOrder, Alphabetic

\* Sorting by name arranges all entries: none is lost, none is repeated.
ByNameOrder(s) == {p \in (DOMAIN s) \X (DOMAIN s) : NotAfter(s, p[1], p[2])}

LEMMA ByNameOrdered ==
    ASSUME NEW s, NamesKnown(s)
    PROVE  IsTotalOrder(DOMAIN s, ByNameOrder(s))
<1>1. /\ \A i \in DOMAIN s : i \in Nat /\ Rank(s[i].name) \in Nat
      /\ \A i, j \in DOMAIN s : Rank(s[i].name) = Rank(s[j].name) => s[i].name = s[j].name
  BY ListFacts, RanksDiffer DEF NamesKnown, NamesOf
<1> DEFINE R(i) == Rank(s[i].name)
           N(i) == s[i].name
<1>2. \A i, j \in DOMAIN s : <<i, j>> \in ByNameOrder(s) <=> R(i) < R(j) \/ (N(i) = N(j) /\ i <= j)
  BY DEF ByNameOrder, NotAfter
<1>3. \A i, j \in DOMAIN s : N(i) = N(j) => R(i) = R(j)
  OBVIOUS
<1> HIDE DEF R, N
<1>4. /\ \A i \in DOMAIN s : i \in Nat /\ R(i) \in Nat
      /\ \A i, j \in DOMAIN s : R(i) = R(j) => N(i) = N(j)
  BY <1>1 DEF R, N
<1> QED
  BY <1>2, <1>3, <1>4 DEF IsTotalOrder

LEMMA ByNameLists ==
    ASSUME NEW s, NamesKnown(s)
    PROVE  LET p == Ordering(DOMAIN s, ByNameOrder(s))
           IN  /\ Rearranges(ByName(s), s, DOMAIN s, p)
               /\ \A k, l \in DOMAIN ByName(s) : k <= l => NotAfter(s, p[k], p[l])
<1> DEFINE p == Ordering(DOMAIN s, ByNameOrder(s))
<1>1. IsFiniteSet(DOMAIN s) /\ IsTotalOrder(DOMAIN s, ByNameOrder(s))
  BY ListFacts, ByNameOrdered DEF NamesKnown
<1>2. ByName(s) = Arranged(s, DOMAIN s, ByNameOrder(s))
  BY DEF ByName, ByNameOrder
<1>3. Rearranges(ByName(s), s, DOMAIN s, p)
  BY <1>1, <1>2, ArrangedByOrder
<1>4. \A k, l \in DOMAIN ByName(s) : k <= l => <<p[k], p[l]>> \in ByNameOrder(s)
  BY <1>1, <1>3, OrderingLists DEF Rearranges
<1>5. \A i, j : <<i, j>> \in ByNameOrder(s) => NotAfter(s, i, j)
  BY DEF ByNameOrder
<1> QED
  BY <1>3, <1>4, <1>5

\* A list is determined by what it rearranges, and how.
LEMMA SameRearrangement ==
    ASSUME NEW q, NEW r, NEW s, NEW at, NEW p, Rearranges(q, s, at, p), Rearranges(r, s, at, p)
    PROVE  q = r
<1>1. /\ IsList(q) /\ IsList(r) /\ DOMAIN q = DOMAIN r
      /\ \A k \in DOMAIN q : q[k] = r[k]
  BY DEF Rearranges
<1>2. q = [k \in DOMAIN q |-> q[k]] /\ r = [k \in DOMAIN r |-> r[k]]
  BY <1>1, ListFacts
<1> QED
  BY <1>1, <1>2

\* Some positions have a first and a last one.
LEMMA EndsExist ==
    ASSUME NEW s, IsList(s), NEW at \in SUBSET DOMAIN s, at # {}
    PROVE  (\E i \in at : \A j \in at : i <= j) /\ (\E i \in at : \A j \in at : j <= i)
<1> DEFINE n == Cardinality(at)
           O == Ordering(at, Positions(at))
<1>1. IsFiniteSet(at) /\ at \in SUBSET Int
  BY ListFacts, FS_Subset
<1>2. IsTotalOrder(at, Positions(at))
  BY <1>1 DEF IsTotalOrder, Positions
<1>3. n \in Nat /\ n # 0
  BY <1>1, FS_CardinalityType, FS_EmptySet
<1>4. /\ O \in Bijection(1..n, at)
      /\ \A k, l \in 1..n : k <= l => <<O[k], O[l]>> \in Positions(at)
  BY <1>1, <1>2, OrderingLists
<1>5. \A i, j : <<i, j>> \in Positions(at) => i <= j
  BY DEF Positions
<1> HIDE DEF n, O
<1>6. /\ \A k \in 1..n : O[k] \in at
      /\ \A i \in at : \E k \in 1..n : O[k] = i
  BY <1>4 DEF Bijection, Injection, Surjection
<1>7. 1 \in 1..n /\ n \in 1..n /\ \A k \in 1..n : 1 <= k /\ k <= n
  BY <1>3
<1>8. \A j \in at : O[1] <= j /\ j <= O[n]
  BY <1>4, <1>5, <1>6, <1>7
<1> QED
  BY <1>6, <1>7, <1>8

\* Of the items of a name the last one stays.
IsLast(s, i) == \A j \in DOMAIN s : s[j].name = s[i].name => j <= i

LEMMA NamedLast ==
    ASSUME NEW s, IsList(s)
    PROVE  /\ DOMAIN Named(s) = NamesOf(s)
           /\ \A n \in NamesOf(s) : Named(s)[n].name = n /\ Named(s)[n] \in ToSet(s)
           /\ \A i \in DOMAIN s : IsLast(s, i) => Named(s)[s[i].name] = s[i]
           /\ \A n \in NamesOf(s) : \E i \in DOMAIN s : s[i].name = n /\ IsLast(s, i)
<1>1. DOMAIN Named(s) = NamesOf(s)
  BY DEF Named
<1>2. DOMAIN s \in SUBSET Int
  BY ListFacts
<1>3. ASSUME NEW n \in NamesOf(s)
      PROVE  \E i \in DOMAIN s : s[i].name = n /\ IsLast(s, i)
  <2> DEFINE at == {i \in DOMAIN s : s[i].name = n}
  <2>1. at # {} /\ at \in SUBSET DOMAIN s
    BY DEF NamesOf
  <2>2. PICK i \in at : \A j \in at : j <= i
    BY <2>1, EndsExist
  <2> QED
    BY <2>2 DEF IsLast
<1>4. ASSUME NEW i \in DOMAIN s, IsLast(s, i) PROVE Named(s)[s[i].name] = s[i]
  <2> DEFINE n == s[i].name
             last == CHOOSE k \in DOMAIN s :
                        s[k].name = n /\ \A j \in DOMAIN s : s[j].name = n => j <= k
  <2>1. n \in NamesOf(s)
    BY DEF NamesOf
  <2>2. Named(s)[n] = s[last]
    BY <2>1 DEF Named
  <2>3. /\ last \in DOMAIN s /\ s[last].name = n
        /\ \A j \in DOMAIN s : s[j].name = n => j <= last
    <3>1. \E k \in DOMAIN s : s[k].name = n /\ \A j \in DOMAIN s : s[j].name = n => j <= k
      BY <1>4 DEF IsLast
    <3> QED
      BY <3>1, Zenon
  <2>4. last <= i /\ i <= last /\ last \in Int /\ i \in Int
    BY <1>2, <1>4, <2>3 DEF IsLast
  <2> QED
    BY <2>2, <2>4
<1>5. ASSUME NEW n \in NamesOf(s) PROVE Named(s)[n].name = n /\ Named(s)[n] \in ToSet(s)
  BY <1>3, <1>4 DEF ToSet
<1> QED
  BY <1>1, <1>3, <1>4, <1>5

\* A map walked in any order is the list of its values.
LEMMA WalkedLists ==
    ASSUME NEW m, DOMAIN m \subseteq Names, NEW walk, IsWalk(walk)
    PROVE  \E p : Rearranges(Walked(m, walk), m, DOMAIN m, p)
<1> DEFINE at == {i \in DOMAIN walk : walk[i] \in DOMAIN m}
           O == Ordering(at, Positions(at))
           names == Picked(walk, at)
<1>1. IsList(walk) /\ ToSet(walk) = Names /\ IsInjective(walk)
  BY DEF IsWalk
<1>2. Rearranges(names, walk, at, O)
  BY <1>1, PickedLists
<1>0. \A k : k \in at <=> k \in DOMAIN walk /\ walk[k] \in DOMAIN m
  OBVIOUS
<1>7. Walked(m, walk) = [i \in DOMAIN names |-> m[names[i]]]
  BY DEF Walked
<1> HIDE DEF at, O, names
<1>3. /\ \A i \in DOMAIN names : names[i] \in DOMAIN m
      /\ \A n \in DOMAIN m : \E i \in DOMAIN names : names[i] = n
      /\ \A i, j \in DOMAIN names : names[i] = names[j] => i = j
  <2>1. /\ \A i \in DOMAIN names : O[i] \in at /\ names[i] = walk[O[i]]
        /\ \A k \in at : \E i \in DOMAIN names : O[i] = k
        /\ \A i, j \in DOMAIN names : O[i] = O[j] => i = j
    <3>1. \A i \in DOMAIN names : names[i] = walk[O[i]]
      BY <1>2 DEF Rearranges
    <3> QED
      BY <1>2, <3>1, Rearranged
  <2>2. \A n \in DOMAIN m : \E k \in at : walk[k] = n
    BY <1>0, <1>1 DEF ToSet
  <2>3. \A k, l \in at : walk[k] = walk[l] => k = l
    BY <1>0, <1>1 DEF IsInjective
  <2>4. \A k \in at : walk[k] \in DOMAIN m
    BY <1>0
  <2> QED
    BY <2>1, <2>2, <2>3, <2>4
<1>4. Cardinality(at) \in Nat /\ DOMAIN names = 1..Cardinality(at) /\ IsList(names)
  BY <1>2 DEF Rearranges
<1>5. names \in Bijection(1..Cardinality(at), DOMAIN m)
  <2>1. names = [i \in DOMAIN names |-> names[i]]
    BY <1>4, ListFacts
  <2>2. names \in [1..Cardinality(at) -> DOMAIN m]
    BY <1>3, <1>4, <2>1
  <2> QED
    BY <1>3, <1>4, <2>2 DEF Bijection, Injection, Surjection, IsInjective
<1>6. Cardinality(DOMAIN m) = Cardinality(at)
  BY <1>4, <1>5, FS_CountingElements DEF ExistsBijection
<1>8. /\ IsList(Walked(m, walk)) /\ DOMAIN Walked(m, walk) = 1..Cardinality(at)
      /\ \A k \in 1..Cardinality(at) : Walked(m, walk)[k] = m[names[k]]
  <2>1. Walked(m, walk) \in [1..Cardinality(at) -> {m[names[i]] : i \in 1..Cardinality(at)}]
    BY <1>4, <1>7
  <2> QED
    BY <1>4, <1>7, <2>1, ListMade
<1> QED
  BY <1>4, <1>5, <1>6, <1>8 DEF Rearranges

\* A map from names to the items of these names.
IsNamed(m) == DOMAIN m \subseteq Names /\ \A n \in DOMAIN m : m[n].name = n

LEMMA ListOfMap ==
    ASSUME NEW m, IsNamed(m), NEW r, NEW p, Rearranges(r, m, DOMAIN m, p)
    PROVE  /\ NamesKnown(r) /\ NamesOf(r) = DOMAIN m /\ DistinctNames(r)
           /\ \A k \in DOMAIN r : r[k].name = p[k] /\ r[k] = m[r[k].name]
<1>1. /\ \A k \in DOMAIN r : p[k] \in DOMAIN m
      /\ \A n \in DOMAIN m : \E k \in DOMAIN r : p[k] = n
      /\ \A k, l \in DOMAIN r : p[k] = p[l] => k = l
  BY Rearranged
<1>2. IsList(r) /\ \A k \in DOMAIN r : r[k] = m[p[k]]
  BY DEF Rearranges
<1>3. \A k \in DOMAIN r : r[k].name = p[k] /\ r[k] = m[r[k].name]
  BY <1>1, <1>2 DEF IsNamed
<1>4. NamesOf(r) = DOMAIN m
  BY <1>1, <1>3 DEF NamesOf
<1> QED
  BY <1>1, <1>2, <1>3, <1>4 DEF NamesKnown, DistinctNames, IsNamed

\* Sorted by name, the list of a map does not depend on the walk.
LEMMA SortedWalk ==
    ASSUME NEW m, IsNamed(m), NEW walk, IsWalk(walk)
    PROVE  Rearranges(ByName(Walked(m, walk)), m, DOMAIN m,
                      Ordering(DOMAIN m, Alphabetic(DOMAIN m)))
<1> DEFINE S == DOMAIN m
           n == Cardinality(S)
           w == Walked(m, walk)
           b == ByName(w)
           q == Ordering(DOMAIN w, ByNameOrder(w))
<1>1. PICK p : Rearranges(w, m, S, p)
  BY WalkedLists DEF IsNamed
<1>2. n \in Nat /\ DOMAIN w = 1..n /\ p \in Bijection(1..n, S)
  BY <1>1 DEF Rearranges
<1>3. NamesKnown(w) /\ \A i \in 1..n : w[i].name = p[i] /\ w[i] = m[p[i]]
  BY <1>1, <1>2, ListOfMap
<1>4. /\ Rearranges(b, w, DOMAIN w, q)
      /\ \A k, l \in DOMAIN b : k <= l => NotAfter(w, q[k], q[l])
  BY <1>3, ByNameLists
<1>5. DOMAIN b = 1..n /\ q \in Bijection(1..n, 1..n) /\ \A k \in 1..n : b[k] = w[q[k]]
  <2>1. Cardinality(1..n) = n
    BY <1>2, FS_Interval
  <2> QED
    BY <1>2, <1>4, <2>1 DEF Rearranges
<1>6. IsFiniteSet(S) /\ S \in SUBSET Names /\ IsTotalOrder(S, Alphabetic(S))
  BY RanksDiffer, AlphabeticOrdered, FS_Subset DEF IsNamed
<1> HIDE DEF S, n, w, b, q
<1> DEFINE f == [k \in 1..n |-> p[q[k]]]
<1>7. f \in Bijection(1..n, S)
  BY <1>2, <1>5, Fun_BijTransitive
<1>8. ASSUME NEW k \in 1..n, NEW l \in 1..n, k <= l PROVE <<f[k], f[l]>> \in Alphabetic(S)
  <2>1. q[k] \in 1..n /\ q[l] \in 1..n /\ f[k] \in S /\ f[l] \in S
    BY <1>5, <1>7 DEF Bijection, Injection
  <2>2. w[q[k]].name = f[k] /\ w[q[l]].name = f[l]
    BY <1>3, <2>1
  <2>3. Rank(f[k]) < Rank(f[l]) \/ f[k] = f[l]
    BY <1>4, <1>5, <1>8, <2>2 DEF NotAfter
  <2>4. Rank(f[k]) \in Nat /\ Rank(f[l]) \in Nat
    BY <1>6, <2>1, RanksDiffer
  <2> QED
    BY <2>1, <2>3, <2>4 DEF Alphabetic
<1>9. f = Ordering(S, Alphabetic(S))
  BY <1>2, <1>6, <1>7, <1>8, OrderingUnique
<1>10. \A k \in 1..n : b[k] = m[f[k]]
  <2>1. \A k \in 1..n : q[k] \in 1..n
    BY <1>5 DEF Bijection, Injection
  <2> QED
    BY <1>3, <1>5, <2>1
<1>11. n = Cardinality(S) /\ IsList(b)
  BY <1>4 DEF Rearranges, n
<1> HIDE DEF f
<1>12. Rearranges(b, m, S, Ordering(S, Alphabetic(S)))
  BY <1>2, <1>5, <1>7, <1>9, <1>10, <1>11 DEF Rearranges
<1> QED
  BY <1>12 DEF S, b, w

-----------------------------------------------------------------------------
(***************************************************************************)
(* Two lists merged by name.                                               *)
(***************************************************************************)

\* What the merge of two items of a name makes of them keeps the name.
KeepsNames(both) == \A n \in DOMAIN both : both[n].name = n

LEMMA OverlayNamed ==
    ASSUME NEW d, NamesKnown(d), NEW o, NamesKnown(o), NEW both, KeepsNames(both)
    PROVE  /\ IsNamed(Overlay(d, o, both))
           /\ DOMAIN Overlay(d, o, both) = NamesOf(d) \cup NamesOf(o)
<1>1. /\ DOMAIN Named(d) = NamesOf(d) /\ DOMAIN Named(o) = NamesOf(o)
      /\ \A n \in NamesOf(d) : Named(d)[n].name = n
      /\ \A n \in NamesOf(o) : Named(o)[n].name = n
  BY NamedLast DEF NamesKnown
<1> QED
  BY <1>1 DEF Overlay, IsNamed, KeepsNames, NamesKnown

\* Both lists by name, sorted: everything named is there, once.
LEMMA MergeNamedLists ==
    ASSUME NEW d, NamesKnown(d), NEW o, NamesKnown(o), NEW both, KeepsNames(both),
           NEW walk, IsWalk(walk), NEW r, r = MergeNamed(d, o, both, walk)
    PROVE  /\ NamesKnown(r) /\ NamesOf(r) = NamesOf(d) \cup NamesOf(o) /\ DistinctNames(r)
           /\ \A k \in DOMAIN r : r[k] = Overlay(d, o, both)[r[k].name]
<1> DEFINE m == Overlay(d, o, both)
<1>1. IsNamed(m) /\ DOMAIN m = NamesOf(d) \cup NamesOf(o)
  BY OverlayNamed
<1>2. Rearranges(r, m, DOMAIN m, Ordering(DOMAIN m, Alphabetic(DOMAIN m)))
  BY <1>1, SortedWalk DEF MergeNamed
<1> QED
  BY <1>1, <1>2, ListOfMap

\* The first item is the one whose name sorts first.
LEMMA FirstOfNames ==
    ASSUME NEW d, NamesKnown(d), NEW o, NamesKnown(o), NEW both, KeepsNames(both),
           NEW walk, IsWalk(walk), NEW r, r = MergeNamed(d, o, both, walk), 1 \in DOMAIN r
    PROVE  \A n \in NamesOf(r) : Rank(r[1].name) <= Rank(n)
<1> DEFINE m == Overlay(d, o, both)
           S == DOMAIN m
           p == Ordering(S, Alphabetic(S))
<1>1. IsNamed(m)
  BY OverlayNamed
<1>2. Rearranges(r, m, S, p)
  BY <1>1, SortedWalk DEF MergeNamed
<1>3. \A k \in DOMAIN r : r[k].name = p[k]
  BY <1>1, <1>2, ListOfMap
<1>4. IsFiniteSet(S) /\ IsTotalOrder(S, Alphabetic(S))
  BY <1>1, RanksDiffer, AlphabeticOrdered, FS_Subset DEF IsNamed
<1>5. \A k, l \in 1..Cardinality(S) : k <= l <=> <<p[k], p[l]>> \in Alphabetic(S)
  BY <1>4, OrderingLists
<1>6. DOMAIN r = 1..Cardinality(S) /\ Cardinality(S) \in Nat
  BY <1>2 DEF Rearranges
<1> HIDE DEF p, S
<1>7. \A k \in DOMAIN r : Rank(p[1]) <= Rank(p[k])
  <2>1. \A x, y : <<x, y>> \in Alphabetic(S) => Rank(x) <= Rank(y)
    BY DEF Alphabetic
  <2>2. \A k \in DOMAIN r : 1 \in DOMAIN r /\ 1 <= k
    BY <1>6
  <2> QED
    BY <1>5, <1>6, <2>1, <2>2
<1> QED
  BY <1>3, <1>7 DEF NamesOf

\* Go's order in a map does not show in a list that is sorted by name.
THEOREM MergeNamedSettles ==
    ASSUME NEW d, NamesKnown(d), NEW o, NamesKnown(o), NEW both, KeepsNames(both),
           NEW walk1, IsWalk(walk1), NEW walk2, IsWalk(walk2)
    PROVE  MergeNamed(d, o, both, walk1) = MergeNamed(d, o, both, walk2)
<1> DEFINE m == Overlay(d, o, both)
<1>1. IsNamed(m)
  BY OverlayNamed
<1> QED
  BY <1>1, SortedWalk, SameRearrangement DEF MergeNamed

\* Two lists left in the order of the walk: the same, in some order.
LEMMA MergeWalkedLists ==
    ASSUME NEW d, NamesKnown(d), NEW o, NamesKnown(o), NEW both, KeepsNames(both),
           NEW walk, IsWalk(walk), NEW r, r = MergeWalked(d, o, both, walk)
    PROVE  /\ NamesKnown(r) /\ NamesOf(r) = NamesOf(d) \cup NamesOf(o) /\ DistinctNames(r)
           /\ \A k \in DOMAIN r : r[k] = Overlay(d, o, both)[r[k].name]
<1> DEFINE m == Overlay(d, o, both)
<1>1. IsNamed(m) /\ DOMAIN m = NamesOf(d) \cup NamesOf(o)
  BY OverlayNamed
<1>2. PICK p : Rearranges(r, m, DOMAIN m, p)
  BY <1>1, WalkedLists DEF MergeWalked, IsNamed
<1> QED
  BY <1>1, <1>2, ListOfMap

-----------------------------------------------------------------------------
(***************************************************************************)
(* Containers.                                                             *)
(***************************************************************************)

\* The names of a merge, each once.
Merges(r, d, o) ==
    NamesKnown(r) /\ NamesOf(r) = NamesOf(d) \cup NamesOf(o) /\ DistinctNames(r)

LEMMA ItemsKnown == ASSUME NEW s, NEW fields, Items(s, fields) PROVE NamesKnown(s)
BY DEF Items, NamesKnown

LEMMA CommonNames ==
    ASSUME NEW d, NamesKnown(d), NEW o, NamesKnown(o), NEW n \in Common(d, o)
    PROVE  /\ n \in NamesOf(d) /\ n \in NamesOf(o)
           /\ Named(d)[n].name = n /\ Named(d)[n] \in ToSet(d)
           /\ Named(o)[n].name = n /\ Named(o)[n] \in ToSet(o)
BY NamedLast DEF Common, NamesKnown

LEMMA FieldsKeepNames ==
    ASSUME NEW d, NEW o, NEW fields, "name" \in fields, Items(d, fields), Items(o, fields)
    PROVE  KeepsNames(FieldsOf(d, o))
<1> SUFFICES ASSUME NEW n \in Common(d, o) PROVE Fields(Named(d)[n], Named(o)[n]).name = n
  BY DEF KeepsNames, FieldsOf
<1>1. /\ Named(d)[n].name = n /\ Named(d)[n] \in ToSet(d)
      /\ Named(o)[n].name = n
  BY ItemsKnown, CommonNames
<1>2. DOMAIN Named(d)[n] = fields
  BY <1>1 DEF Items, ToSet
<1> QED
  BY <1>1, <1>2 DEF Fields, Scalar

EnvFields == {"name", "value", "from"}

LEMMA SingleEnvKeepsName ==
    ASSUME NEW d, DOMAIN d = EnvFields, NEW o
    PROVE  SingleEnv(d, o).name = d.name
BY DEF SingleEnv, EnvFields

LEMMA SingleEnvKeepsNames ==
    ASSUME NEW d, NEW o, Items(d, EnvFields), Items(o, EnvFields)
    PROVE  KeepsNames([n \in Common(d, o) |-> SingleEnv(Named(d)[n], Named(o)[n])])
<1> SUFFICES ASSUME NEW n \in Common(d, o) PROVE SingleEnv(Named(d)[n], Named(o)[n]).name = n
  BY DEF KeepsNames
<1>1. Named(d)[n].name = n /\ Named(d)[n] \in ToSet(d)
  BY ItemsKnown, CommonNames
<1>2. DOMAIN Named(d)[n] = EnvFields
  BY <1>1 DEF Items, ToSet
<1> QED
  BY <1>1, <1>2, SingleEnvKeepsName

\* The lists inside two containers that are merged.
LEMMA ListsSettle ==
    ASSUME NEW d, IsContainer(d), NEW o, IsContainer(o),
           NEW walk1, IsWalk(walk1), NEW walk2, IsWalk(walk2)
    PROVE  /\ Envs(d.env, o.env, walk1) = Envs(d.env, o.env, walk2)
           /\ Ports(d.ports, o.ports, walk1) = Ports(d.ports, o.ports, walk2)
           /\ VolumeMounts(d.mounts, o.mounts, walk1) = VolumeMounts(d.mounts, o.mounts, walk2)
           /\ VolumeDevices(d.devices, o.devices, walk1) = VolumeDevices(d.devices, o.devices, walk2)
<1> DEFINE settles(e, f) ==
              \A both : KeepsNames(both) =>
                  MergeNamed(e, f, both, walk1) = MergeNamed(e, f, both, walk2)
<1>1. \A e, f, fields : Items(e, fields) /\ Items(f, fields) => settles(e, f)
  BY ItemsKnown, MergeNamedSettles
<1>2. /\ Items(d.env, EnvFields) /\ Items(o.env, EnvFields)
      /\ \E fields : "name" \in fields /\ Items(d.ports, fields) /\ Items(o.ports, fields)
      /\ \E fields : "name" \in fields /\ Items(d.mounts, fields) /\ Items(o.mounts, fields)
      /\ \E fields : "name" \in fields /\ Items(d.devices, fields) /\ Items(o.devices, fields)
  BY DEF IsContainer, EnvFields
<1>3. Envs(d.env, o.env, walk1) = Envs(d.env, o.env, walk2)
  BY <1>1, <1>2, SingleEnvKeepsNames DEF Envs
<1>4. Ports(d.ports, o.ports, walk1) = Ports(d.ports, o.ports, walk2)
  BY <1>1, <1>2, FieldsKeepNames DEF Ports
<1>5. VolumeMounts(d.mounts, o.mounts, walk1) = VolumeMounts(d.mounts, o.mounts, walk2)
  BY <1>1, <1>2, FieldsKeepNames DEF VolumeMounts
<1>6. VolumeDevices(d.devices, o.devices, walk1) = VolumeDevices(d.devices, o.devices, walk2)
  BY <1>1, <1>2, FieldsKeepNames DEF VolumeDevices
<1> QED
  BY <1>3, <1>4, <1>5, <1>6

LEMMA ContainersKnown == ASSUME NEW s, IsContainers(s) PROVE NamesKnown(s)
BY DEF IsContainers, NamesKnown

LEMMA CommonContainers ==
    ASSUME NEW d, IsContainers(d), NEW o, IsContainers(o), NEW n \in Common(d, o)
    PROVE  /\ IsContainer(Named(d)[n]) /\ IsContainer(Named(o)[n])
           /\ Named(d)[n].name = n /\ Named(o)[n].name = n
<1>1. /\ Named(d)[n].name = n /\ Named(d)[n] \in ToSet(d)
      /\ Named(o)[n].name = n /\ Named(o)[n] \in ToSet(o)
  BY ContainersKnown, CommonNames
<1> QED
  BY <1>1 DEF IsContainers, ToSet

Merged(d, o, walk) == [n \in Common(d, o) |-> Container(Named(d)[n], Named(o)[n], walk)]

LEMMA MergedKeepsNames ==
    ASSUME NEW d, IsContainers(d), NEW o, IsContainers(o), NEW walk
    PROVE  KeepsNames(Merged(d, o, walk))
<1> SUFFICES ASSUME NEW n \in Common(d, o)
             PROVE  Container(Named(d)[n], Named(o)[n], walk).name = n
  BY DEF KeepsNames, Merged
<1> QED
  BY CommonContainers DEF Container, Scalar

\* The same containers, with the same contents, whatever the walk.
THEOREM ContainersSettle ==
    ASSUME NEW d, IsContainers(d), NEW o, IsContainers(o),
           NEW walk1, IsWalk(walk1), NEW walk2, IsWalk(walk2)
    PROVE  Containers(d, o, walk1) = Containers(d, o, walk2)
<1>1. ASSUME NEW n \in Common(d, o)
      PROVE  Container(Named(d)[n], Named(o)[n], walk1) = Container(Named(d)[n], Named(o)[n], walk2)
  BY CommonContainers, ListsSettle DEF Container
<1>2. Merged(d, o, walk1) = Merged(d, o, walk2)
  BY <1>1 DEF Merged
<1>3. \A walk : Containers(d, o, walk) = MergeNamed(d, o, Merged(d, o, walk), walk)
  BY DEF Containers, Merged
<1> QED
  BY <1>2, <1>3, ContainersKnown, MergedKeepsNames, MergeNamedSettles

-----------------------------------------------------------------------------
(***************************************************************************)
(* Lists written out, and put together.                                    *)
(***************************************************************************)

LEMMA NoEntries == IsList(<<>>) /\ DOMAIN <<>> = {} /\ ToSet(<<>>) = {} /\ NamesOf(<<>>) = {}
BY DEF IsList, ToSet, NamesOf

LEMMA OneEntry ==
    ASSUME NEW x
    PROVE  IsList(<<x>>) /\ DOMAIN <<x>> = {1} /\ ToSet(<<x>>) = {x} /\ <<x>>[1] = x
<1>1. DOMAIN <<x>> = {1} /\ <<x>>[1] = x
  OBVIOUS
<1>2. ToSet(<<x>>) = {x}
  BY <1>1 DEF ToSet
<1> QED
  BY <1>1, <1>2 DEF IsList

LEMMA TwoEntries ==
    ASSUME NEW x, NEW y
    PROVE  IsList(<<x, y>>) /\ ToSet(<<x, y>>) = {x, y}
<1>1. DOMAIN <<x, y>> = {1, 2} /\ <<x, y>>[1] = x /\ <<x, y>>[2] = y
  OBVIOUS
<1>2. ToSet(<<x, y>>) = {x, y}
  BY <1>1 DEF ToSet
<1> QED
  BY <1>2 DEF IsList

LEMMA ThreeEntries ==
    ASSUME NEW x, NEW y, NEW z
    PROVE  IsList(<<x, y, z>>) /\ ToSet(<<x, y, z>>) = {x, y, z}
<1>1. /\ DOMAIN <<x, y, z>> = {1, 2, 3}
      /\ <<x, y, z>>[1] = x /\ <<x, y, z>>[2] = y /\ <<x, y, z>>[3] = z
  OBVIOUS
<1>2. ToSet(<<x, y, z>>) = {x, y, z}
  BY <1>1 DEF ToSet
<1> QED
  BY <1>2 DEF IsList

\* A list has the shape its entries have.
LEMMA ItemsAre ==
    ASSUME NEW s, NEW fields
    PROVE  Items(s, fields) <=>
              IsList(s) /\ \A x \in ToSet(s) : x.name \in Names /\ DOMAIN x = fields
BY DEF Items, ToSet, NamesOf

LEMMA ItemsConcat ==
    ASSUME NEW fields, NEW s, Items(s, fields), NEW t, Items(t, fields)
    PROVE  Items(s \o t, fields) /\ NamesOf(s \o t) = NamesOf(s) \cup NamesOf(t)
<1>1. /\ IsList(s \o t) /\ ToSet(s \o t) = ToSet(s) \cup ToSet(t)
  BY ConcatLists DEF Items
<1>2. \A q : NamesOf(q) = {x.name : x \in ToSet(q)}
  BY DEF NamesOf, ToSet
<1> QED
  BY <1>1, <1>2, ItemsAre

LEMMA ItemsListed ==
    ASSUME NEW fields
    PROVE  /\ Items(<<>>, fields)
           /\ \A x : x.name \in Names /\ DOMAIN x = fields => Items(<<x>>, fields)
           /\ \A x, y : x.name \in Names /\ y.name \in Names /\ DOMAIN x = fields /\ DOMAIN y = fields
                => Items(<<x, y>>, fields)
           /\ \A x, y, z : /\ x.name \in Names /\ y.name \in Names /\ z.name \in Names
                           /\ DOMAIN x = fields /\ DOMAIN y = fields /\ DOMAIN z = fields
                => Items(<<x, y, z>>, fields)
BY ItemsAre, NoEntries, OneEntry, TwoEntries, ThreeEntries

-----------------------------------------------------------------------------
(***************************************************************************)
(* What is in a merged list.                                               *)
(***************************************************************************)

\* An item is merged of both of its name, or the only one of its name.
LEMMA OverlayItems ==
    ASSUME NEW d, NamesKnown(d), NEW o, NamesKnown(o), NEW both, DOMAIN both = Common(d, o),
           NEW n \in NamesOf(d) \cup NamesOf(o)
    PROVE  LET x == Overlay(d, o, both)[n]
           IN  \/ n \in Common(d, o) /\ x = both[n]
               \/ n \notin NamesOf(o) /\ x = Named(d)[n] /\ x \in ToSet(d)
               \/ n \notin NamesOf(d) /\ x = Named(o)[n] /\ x \in ToSet(o)
<1>1. /\ DOMAIN Named(d) = NamesOf(d) /\ DOMAIN Named(o) = NamesOf(o)
      /\ \A m \in NamesOf(d) : Named(d)[m] \in ToSet(d)
      /\ \A m \in NamesOf(o) : Named(o)[m] \in ToSet(o)
  BY NamedLast DEF NamesKnown
<1> QED
  BY <1>1 DEF Overlay, Common

LEMMA NamesInSet == ASSUME NEW s PROVE \A n : n \in NamesOf(s) <=> \E x \in ToSet(s) : x.name = n
BY DEF NamesOf, ToSet

LEMMA MergedContainers ==
    ASSUME NEW d, IsContainers(d), NEW o, IsContainers(o), NEW walk, IsWalk(walk),
           NEW r, r = Containers(d, o, walk)
    PROVE  /\ Merges(r, d, o)
           /\ 1 \in DOMAIN r => \A n \in NamesOf(r) : Rank(r[1].name) <= Rank(n)
           /\ \A c \in ToSet(r) :
                 \/ c.name \in Common(d, o) /\ c = Container(Named(d)[c.name], Named(o)[c.name], walk)
                 \/ c.name \notin NamesOf(o) /\ c \in ToSet(d)
                 \/ c.name \notin NamesOf(d) /\ c \in ToSet(o)
<1> DEFINE both == Merged(d, o, walk)
<1>1. r = MergeNamed(d, o, both, walk)
  BY DEF Containers, Merged
<1>2. DOMAIN both = Common(d, o) /\ \A n \in Common(d, o) : both[n] = Container(Named(d)[n], Named(o)[n], walk)
  BY DEF Merged
<1>3. NamesKnown(d) /\ NamesKnown(o) /\ KeepsNames(both)
  BY ContainersKnown, MergedKeepsNames
<1> HIDE DEF both
<1>4. Merges(r, d, o) /\ \A k \in DOMAIN r : r[k] = Overlay(d, o, both)[r[k].name]
  BY <1>1, <1>3, MergeNamedLists DEF Merges
<1>5. ASSUME NEW c \in ToSet(r)
      PROVE  c.name \in NamesOf(d) \cup NamesOf(o) /\ c = Overlay(d, o, both)[c.name]
  BY <1>4, NamesInSet DEF Merges, ToSet
<1>6. 1 \in DOMAIN r => \A n \in NamesOf(r) : Rank(r[1].name) <= Rank(n)
  BY <1>1, <1>3, FirstOfNames
<1> QED
  BY <1>2, <1>3, <1>4, <1>5, <1>6, OverlayItems

LEMMA MergedEphemerals ==
    ASSUME NEW d, IsContainers(d), NEW o, IsContainers(o), NEW walk, IsWalk(walk)
    PROVE  Merges(EphemeralContainers(d, o, walk), d, o)
<1>1. EphemeralContainers(d, o, walk) = MergeWalked(d, o, Merged(d, o, walk), walk)
  BY DEF EphemeralContainers, Merged
<1> QED
  BY <1>1, ContainersKnown, MergedKeepsNames, MergeWalkedLists DEF Merges

\* Ports, mounts and devices, whose common items are merged field by field.
LEMMA MergedFields ==
    ASSUME NEW fields, "name" \in fields, NEW d, Items(d, fields), NEW o, Items(o, fields),
           NEW walk, IsWalk(walk), NEW r, r = MergeNamed(d, o, FieldsOf(d, o), walk)
    PROVE  /\ Merges(r, d, o)
           /\ \A x \in ToSet(r), f \in fields :
                 \/ \E y \in ToSet(d) : y.name = x.name /\ y[f] = x[f]
                 \/ \E y \in ToSet(o) : y.name = x.name /\ y[f] = x[f]
<1> DEFINE both == FieldsOf(d, o)
<1>1. /\ DOMAIN both = Common(d, o)
      /\ \A n \in Common(d, o) : both[n] = Fields(Named(d)[n], Named(o)[n])
  BY DEF FieldsOf
<1>2. NamesKnown(d) /\ NamesKnown(o) /\ KeepsNames(both)
  BY ItemsKnown, FieldsKeepNames
<1> HIDE DEF both
<1>3. Merges(r, d, o) /\ \A k \in DOMAIN r : r[k] = Overlay(d, o, both)[r[k].name]
  BY <1>2, MergeNamedLists DEF Merges, both
<1>4. ASSUME NEW x \in ToSet(r), NEW f \in fields
      PROVE  \/ \E y \in ToSet(d) : y.name = x.name /\ y[f] = x[f]
             \/ \E y \in ToSet(o) : y.name = x.name /\ y[f] = x[f]
  <2>1. x.name \in NamesOf(d) \cup NamesOf(o) /\ x = Overlay(d, o, both)[x.name]
    BY <1>3, NamesInSet DEF Merges, ToSet
  <2>2. CASE x.name \in Common(d, o) /\ x = both[x.name]
    <3> DEFINE y == Named(d)[x.name]
               z == Named(o)[x.name]
    <3>1. y \in ToSet(d) /\ y.name = x.name /\ z \in ToSet(o) /\ z.name = x.name
      BY <1>2, <2>2, CommonNames
    <3>2. x = Fields(y, z)
      BY <1>1, <2>2
    <3> HIDE DEF y, z
    <3>3. DOMAIN y = fields
      BY <3>1 DEF Items, ToSet
    <3>4. x[f] = y[f] \/ x[f] = z[f]
      BY <3>2, <3>3 DEF Fields, Scalar
    <3> QED
      BY <3>1, <3>4
  <2> QED
    BY <1>1, <1>2, <2>1, <2>2, OverlayItems
<1> QED
  BY <1>3, <1>4

\* The strings of both, and no others.
LEMMA StringSlicesHave ==
    ASSUME NEW d, IsList(d), NEW o, IsList(o)
    PROVE  IsList(StringSlices(d, o)) /\ ToSet(StringSlices(d, o)) = ToSet(d) \cup ToSet(o)
<1> DEFINE at == {i \in DOMAIN o : o[i] \notin ToSet(d) /\ \A j \in 1..i-1 : o[j] # o[i]}
           new == Picked(o, at)
<1>1. PICK p : Rearranges(new, o, at, p)
  BY PickedLists
<1>3. StringSlices(d, o) = d \o new
  BY DEF StringSlices
<1> HIDE DEF new
<1>2. IsList(new) /\ \A x : x \in ToSet(new) <=> \E i \in at : x = o[i]
  <2> HIDE DEF at
  <2> QED
    BY <1>1, Rearranged DEF Rearranges
<1>4. IsList(d \o new) /\ ToSet(d \o new) = ToSet(d) \cup ToSet(new)
  BY <1>2, ConcatLists
<1>5. ASSUME NEW x \in ToSet(o), x \notin ToSet(d) PROVE x \in ToSet(new)
  <2> DEFINE same == {i \in DOMAIN o : o[i] = x}
  <2>1. same # {} /\ same \in SUBSET DOMAIN o
    BY DEF ToSet
  <2>2. PICK i \in same : \A j \in same : i <= j
    BY <2>1, EndsExist
  <2>3. DOMAIN o = 1..Len(o) /\ Len(o) \in Nat
    BY ListFacts
  <2>4. ASSUME NEW j \in 1..i-1 PROVE o[j] # x
    BY <2>2, <2>3
  <2>5. i \in at
    BY <1>5, <2>2, <2>4
  <2> QED
    BY <1>2, <2>2, <2>5
<1>6. \A x \in ToSet(new) : x \in ToSet(o)
  BY <1>2 DEF ToSet
<1> QED
  BY <1>3, <1>4, <1>5, <1>6

\* Sorting keeps what is there.
LEMMA ByNameKeeps ==
    ASSUME NEW s, NamesKnown(s)
    PROVE  /\ NamesKnown(ByName(s)) /\ NamesOf(ByName(s)) = NamesOf(s)
           /\ \A x \in ToSet(ByName(s)) : x \in ToSet(s)
           /\ DistinctNames(s) => DistinctNames(ByName(s))
<1> DEFINE r == ByName(s)
<1>1. PICK p : Rearranges(r, s, DOMAIN s, p)
  BY ByNameLists
<1> HIDE DEF r
<1>2. IsList(r) /\ \A k \in DOMAIN r : r[k] = s[p[k]]
  BY <1>1 DEF Rearranges
<1>3. /\ \A k \in DOMAIN r : p[k] \in DOMAIN s
      /\ \A i \in DOMAIN s : \E k \in DOMAIN r : p[k] = i
      /\ \A k, l \in DOMAIN r : p[k] = p[l] => k = l
  BY <1>1, Rearranged
<1>4. NamesOf(r) = NamesOf(s)
  BY <1>2, <1>3 DEF NamesOf
<1>5. DistinctNames(s) => DistinctNames(r)
  BY <1>2, <1>3 DEF DistinctNames
<1>6. \A x \in ToSet(r) : x \in ToSet(s)
  BY <1>2, <1>3 DEF ToSet
<1> QED
  BY <1>2, <1>4, <1>5, <1>6 DEF NamesKnown, r

\* A list taken apart and put together again, some entries first.
LEMMA SplitKeeps ==
    ASSUME NEW s, NamesKnown(s), DistinctNames(s), NEW at \in SUBSET DOMAIN s
    PROVE  LET r == Picked(s, at) \o Picked(s, DOMAIN s \ at)
           IN  NamesKnown(r) /\ NamesOf(r) = NamesOf(s) /\ DistinctNames(r)
<1> DEFINE rest == DOMAIN s \ at
           a == Picked(s, at)
           b == Picked(s, rest)
           r == a \o b
<1>1. IsList(s) /\ rest \in SUBSET DOMAIN s
  BY DEF NamesKnown
<1>2. PICK p : Rearranges(a, s, at, p)
  BY <1>1, PickedLists
<1>3. PICK q : Rearranges(b, s, rest, q)
  BY <1>1, PickedLists
<1>4. /\ \A i \in at : i \in DOMAIN s /\ i \notin rest
      /\ \A i \in rest : i \in DOMAIN s /\ i \notin at
      /\ \A i \in DOMAIN s : i \in at \/ i \in rest
  OBVIOUS
<1> HIDE DEF a, b, rest, r
<1>5. /\ IsList(a)
      /\ \A k \in DOMAIN a : p[k] \in at /\ a[k] = s[p[k]]
      /\ \A i \in at : \E k \in DOMAIN a : p[k] = i
      /\ \A k, l \in DOMAIN a : p[k] = p[l] => k = l
  BY <1>2, Rearranged DEF Rearranges
<1>6. /\ IsList(b)
      /\ \A k \in DOMAIN b : q[k] \in rest /\ b[k] = s[q[k]]
      /\ \A i \in rest : \E k \in DOMAIN b : q[k] = i
      /\ \A k, l \in DOMAIN b : q[k] = q[l] => k = l
  BY <1>3, Rearranged DEF Rearranges
<1>7. /\ IsList(r) /\ ToSet(r) = ToSet(a) \cup ToSet(b)
      /\ DOMAIN r = 1..(Len(a) + Len(b))
      /\ \A i \in 1..(Len(a) + Len(b)) : r[i] = IF i <= Len(a) THEN a[i] ELSE b[i - Len(a)]
  BY <1>5, <1>6, ConcatLists DEF r
<1>8. /\ Len(a) \in Nat /\ DOMAIN a = 1..Len(a)
      /\ Len(b) \in Nat /\ DOMAIN b = 1..Len(b)
  BY <1>5, <1>6, ListFacts
<1>9. \A x : x \in ToSet(r) <=> x \in ToSet(s)
  <2>1. \A x : x \in ToSet(a) <=> \E i \in at : x = s[i]
    BY <1>5 DEF ToSet
  <2>2. \A x : x \in ToSet(b) <=> \E i \in rest : x = s[i]
    BY <1>6 DEF ToSet
  <2>3. \A x : x \in ToSet(s) <=> \E i \in DOMAIN s : x = s[i]
    BY DEF ToSet
  <2> QED
    BY <1>4, <1>7, <2>1, <2>2, <2>3
<1>10. NamesOf(r) = NamesOf(s)
  <2>1. \A n : n \in NamesOf(r) <=> n \in NamesOf(s)
    BY <1>9, NamesInSet
  <2> QED
    BY <2>1
<1>11. DistinctNames(r)
  <2> SUFFICES ASSUME NEW i \in DOMAIN r, NEW j \in DOMAIN r, r[i].name = r[j].name
               PROVE  i = j
    BY DEF DistinctNames
  <2>1. \A k \in DOMAIN r :
           \/ k \in DOMAIN a /\ r[k] = a[k]
           \/ k - Len(a) \in DOMAIN b /\ r[k] = b[k - Len(a)]
    BY <1>7, <1>8
  <2>2. CASE i \in DOMAIN a /\ r[i] = a[i] /\ j \in DOMAIN a /\ r[j] = a[j]
    BY <1>4, <1>5, <2>2 DEF DistinctNames
  <2>3. CASE /\ i - Len(a) \in DOMAIN b /\ r[i] = b[i - Len(a)]
             /\ j - Len(a) \in DOMAIN b /\ r[j] = b[j - Len(a)]
    <3>1. i - Len(a) = j - Len(a)
      BY <1>4, <1>6, <2>3 DEF DistinctNames
    <3> QED
      BY <1>7, <1>8, <3>1
  <2>4. ASSUME NEW k \in DOMAIN a, NEW l \in DOMAIN b PROVE a[k].name # b[l].name
    BY <1>4, <1>5, <1>6 DEF DistinctNames
  <2> QED
    BY <2>1, <2>2, <2>3, <2>4
<1> QED
  BY <1>7, <1>10, <1>11 DEF NamesKnown, r, a, b, rest

\* The files of a volume of both.
LEMMA MergedItems ==
    ASSUME NEW fields, "name" \in fields, NEW d, Items(d, fields), NEW o, Items(o, fields),
           NEW walk, IsWalk(walk)
    PROVE  Merges(MergeItems(d, o, walk), d, o)
<1> DEFINE all == Walked(Overlay(d, o, FieldsOf(d, o)), walk)
           old == {i \in DOMAIN all : all[i].name \in DOMAIN Named(d)}
<1>1. all = MergeWalked(d, o, FieldsOf(d, o), walk)
  BY DEF MergeWalked
<1>2. MergeItems(d, o, walk) = Picked(all, old) \o Picked(all, DOMAIN all \ old)
  BY DEF MergeItems
<1>3. old \in SUBSET DOMAIN all
  OBVIOUS
<1> HIDE DEF all, old
<1>4. Merges(all, d, o)
  BY <1>1, ItemsKnown, FieldsKeepNames, MergeWalkedLists DEF Merges
<1> QED
  BY <1>2, <1>3, <1>4, SplitKeeps DEF Merges

\* A volume of both keeps the files of both, or is the override's.
LEMMA VolumeSource ==
    ASSUME NEW d, DOMAIN d = {"name", "source"}, NEW o, NEW walk, IsWalk(walk),
           NEW r, r = Volume(d, o, walk),
           d.source.kind \in KnownKinds => Items(d.source.items, {"name", "path"}),
           o.source.kind \in KnownKinds => Items(o.source.items, {"name", "path"})
    PROVE  IF d.source.kind = o.source.kind /\ d.source.kind \in KnownKinds
             THEN Merges(r.source.items, d.source.items, o.source.items)
             ELSE r.source = o.source
<1> DEFINE items == MergeItems(d.source.items, o.source.items, walk)
           merged == [kind  |-> d.source.kind,
                      ref   |-> Scalar(d.source.ref, o.source.ref),
                      items |-> items]
<1>1. r = [d EXCEPT !.source =
             IF d.source.kind = o.source.kind /\ d.source.kind \in KnownKinds
               THEN merged ELSE o.source]
  BY DEF Volume
<1>2. merged.items = items
  OBVIOUS
<1> HIDE DEF merged, items
<1>3. r.source = IF d.source.kind = o.source.kind /\ d.source.kind \in KnownKinds
                   THEN merged ELSE o.source
  BY <1>1
<1>4. ASSUME d.source.kind = o.source.kind, d.source.kind \in KnownKinds
      PROVE  Merges(items, d.source.items, o.source.items)
  <2>1. "name" \in {"name", "path"}
    OBVIOUS
  <2> QED
    BY <1>4, <2>1, MergedItems DEF items
<1> QED
  BY <1>2, <1>3, <1>4

LEMMA VolumeKeepsName ==
    ASSUME NEW d, DOMAIN d = {"name", "source"}, NEW o, NEW walk
    PROVE  Volume(d, o, walk).name = d.name
<1>1. \A x : [d EXCEPT !.source = x].name = d.name
  OBVIOUS
<1> QED
  BY <1>1, Zenon DEF Volume

\* Volumes that are each named once on both sides are named once in the pod.
LEMMA MergedVolumes ==
    ASSUME NEW d, Items(d, {"name", "source"}), DistinctNames(d),
           NEW o, NamesKnown(o), DistinctNames(o), NEW walk
    PROVE  /\ Merges(Volumes(d, o, walk), d, o)
           /\ \A v \in ToSet(d), r \in ToSet(Volumes(d, o, walk)) :
                 v.name \in NamesOf(o) /\ r.name = v.name =>
                    r = Volume(v, Named(o)[v.name], walk)
<1> DEFINE q == [i \in DOMAIN d |-> IF d[i].name \in DOMAIN Named(o)
                                      THEN Volume(d[i], Named(o)[d[i].name], walk)
                                      ELSE d[i]]
           at == {i \in DOMAIN o : o[i].name \notin DOMAIN Named(d)}
           new == Picked(o, at)
           l == q \o new
<1>1. Volumes(d, o, walk) = ByName(l)
  BY DEF Volumes
<1>2. PICK p : Rearranges(new, o, at, p)
  BY PickedLists DEF NamesKnown
<1>3. NamesKnown(d)
  BY ItemsKnown
<1>4. DOMAIN q = DOMAIN d /\ \A i \in DOMAIN d : q[i].name = d[i].name
  BY VolumeKeepsName DEF Items
<1>5. DOMAIN d = 1..Len(d) /\ Len(d) \in Nat
  BY <1>3, ListFacts DEF NamesKnown
<1>6. IsList(q) /\ Len(q) = Len(d)
  <2>1. q \in [1..Len(d) -> ToSet(q)]
    BY <1>5 DEF ToSet
  <2> HIDE DEF q
  <2> QED
    BY <1>5, <2>1, ListMade
<1>7. \A i : i \in at <=> i \in DOMAIN o /\ o[i].name \notin NamesOf(d)
  BY <1>3, NamedLast DEF NamesKnown
<1> HIDE DEF q, at, new, l
<1>8. /\ IsList(new)
      /\ \A k \in DOMAIN new : p[k] \in at /\ new[k] = o[p[k]]
      /\ \A i \in at : \E k \in DOMAIN new : p[k] = i
      /\ \A j, k \in DOMAIN new : p[j] = p[k] => j = k
  BY <1>2, Rearranged DEF Rearranges
<1>9. /\ IsList(l) /\ DOMAIN l = 1..(Len(d) + Len(new))
      /\ \A i \in 1..(Len(d) + Len(new)) : l[i] = IF i <= Len(d) THEN q[i] ELSE new[i - Len(d)]
  BY <1>6, <1>8, ConcatLists DEF l
<1>10. DOMAIN new = 1..Len(new) /\ Len(new) \in Nat
  BY <1>8, ListFacts
<1>11. \A i \in DOMAIN l :
          \/ i \in DOMAIN d /\ l[i].name = d[i].name
          \/ i - Len(d) \in DOMAIN new /\ i > Len(d) /\ l[i] = new[i - Len(d)]
  BY <1>4, <1>5, <1>9, <1>10
<1>12. \A k \in DOMAIN new : k + Len(d) \in DOMAIN l /\ l[k + Len(d)] = new[k]
  BY <1>5, <1>9, <1>10
<1>13. \A i \in DOMAIN d : i \in DOMAIN l /\ l[i].name = d[i].name
  BY <1>4, <1>5, <1>9, <1>10
<1>14. \A k \in DOMAIN new : new[k].name \notin NamesOf(d) /\ new[k].name \in NamesOf(o)
  BY <1>7, <1>8 DEF NamesOf
<1>15. \A n \in NamesOf(o) \ NamesOf(d) : \E k \in DOMAIN new : new[k].name = n
  BY <1>7, <1>8 DEF NamesOf
<1>16. \A j, k \in DOMAIN new : new[j].name = new[k].name => j = k
  BY <1>7, <1>8 DEF DistinctNames
<1>17. NamesOf(l) = NamesOf(d) \cup NamesOf(o)
  <2>1. \A n \in NamesOf(l) : n \in NamesOf(d) \cup NamesOf(o)
    BY <1>11, <1>14 DEF NamesOf
  <2>2. \A n \in NamesOf(d) : n \in NamesOf(l)
    BY <1>13 DEF NamesOf
  <2>3. \A n \in NamesOf(o) \ NamesOf(d) : n \in NamesOf(l)
    BY <1>12, <1>15 DEF NamesOf
  <2> QED
    BY <2>1, <2>2, <2>3
<1>18. DistinctNames(l)
  <2> SUFFICES ASSUME NEW i \in DOMAIN l, NEW j \in DOMAIN l, l[i].name = l[j].name
               PROVE  i = j
    BY DEF DistinctNames
  <2>1. \A k \in DOMAIN d : d[k].name \in NamesOf(d)
    BY DEF NamesOf
  <2>2. CASE i \in DOMAIN d /\ j \in DOMAIN d
    BY <1>13, <2>2 DEF DistinctNames
  <2>3. CASE i \notin DOMAIN d /\ j \notin DOMAIN d
    <3>1. i - Len(d) = j - Len(d)
      BY <1>11, <1>16, <2>3
    <3> QED
      BY <1>5, <1>9, <1>10, <3>1
  <2>4. CASE (i \in DOMAIN d) # (j \in DOMAIN d)
    BY <1>11, <1>13, <1>14, <2>1, <2>4
  <2> QED
    BY <2>2, <2>3, <2>4
<1>19. NamesKnown(l)
  BY <1>3, <1>9, <1>17 DEF NamesKnown
<1>20. ASSUME NEW v \in ToSet(d), NEW r \in ToSet(Volumes(d, o, walk)),
              v.name \in NamesOf(o), r.name = v.name
       PROVE  r = Volume(v, Named(o)[v.name], walk)
  <2>1. PICK i \in DOMAIN d : d[i] = v
    BY DEF ToSet
  <2>2. r \in ToSet(l)
    BY <1>1, <1>19, <1>20, ByNameKeeps
  <2>3. PICK j \in DOMAIN l : l[j] = r
    BY <2>2 DEF ToSet
  <2>4. j = i
    BY <1>13, <1>18, <1>20, <2>1, <2>3 DEF DistinctNames
  <2>5. i <= Len(d) /\ l[i] = q[i]
    BY <1>5, <1>9, <1>10, <2>1
  <2>6. DOMAIN Named(o) = NamesOf(o)
    BY NamedLast DEF NamesKnown
  <2>7. q[i] = Volume(d[i], Named(o)[d[i].name], walk)
    BY <1>20, <2>1, <2>6 DEF q
  <2> QED
    BY <2>1, <2>3, <2>4, <2>5, <2>7
<1> QED
  BY <1>1, <1>17, <1>18, <1>19, <1>20, ByNameKeeps DEF Merges

LEMMA MergedTolerations ==
    ASSUME NEW d, NamesKnown(d), NEW o, NamesKnown(o), NEW walk, IsWalk(walk)
    PROVE  Merges(Tolerations(d, o, walk), d, o)
<1> DEFINE both == [n \in Common(d, o) |-> Named(o)[n]]
<1>1. KeepsNames(both)
  BY CommonNames DEF KeepsNames
<1>2. Tolerations(d, o, walk) = MergeNamed(d, o, both, walk)
  BY DEF Tolerations
<1> QED
  BY <1>1, <1>2, MergeNamedLists DEF Merges

LEMMA MergedSpread ==
    ASSUME NEW fields, "name" \in fields, NEW d, Items(d, fields), NEW o, Items(o, fields),
           NEW walk, IsWalk(walk)
    PROVE  Merges(TopologySpreadConstraints(d, o, walk), d, o)
BY ItemsKnown, FieldsKeepNames, MergeWalkedLists DEF TopologySpreadConstraints, Merges

LEMMA MergedAliases ==
    ASSUME NEW d, NamesKnown(d), NEW o, NamesKnown(o), NEW walk, IsWalk(walk)
    PROVE  Merges(HostAliases(d, o, walk), d, o)
<1> DEFINE all(n) == (IF n \in DOMAIN Named(d) THEN <<Named(d)[n]>> ELSE <<>>)
                     \o Picked(o, {i \in DOMAIN o : o[i].name = n})
           hosts(n) == FoldLeft(LAMBDA h, a : StringSlices(h, a.hosts),
                                Head(all(n)).hosts, Tail(all(n)))
           m == [n \in DOMAIN Named(d) \cup DOMAIN Named(o) |-> [name |-> n, hosts |-> hosts(n)]]
<1>1. HostAliases(d, o, walk) = ByName(Walked(m, walk))
  BY DEF HostAliases
<1> HIDE DEF hosts
<1>2. DOMAIN m = NamesOf(d) \cup NamesOf(o) /\ \A n \in DOMAIN m : m[n].name = n
  BY NamedLast DEF NamesKnown
<1>3. IsNamed(m)
  BY <1>2 DEF IsNamed, NamesKnown
<1> HIDE DEF m
<1> QED
  BY <1>1, <1>2, <1>3, SortedWalk, ListOfMap DEF Merges
=============================================================================
