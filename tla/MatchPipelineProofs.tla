------------------------- MODULE MatchPipelineProofs -------------------------
(***************************************************************************)
(* What holds of every match, for any atoms, requirements, requests and    *)
(* bounds.                                                                 *)
(***************************************************************************)
EXTENDS MatchPipeline, FiniteSetTheorems, FunctionTheorems, SequenceTheorems,
        WellFoundedInduction, TLAPS

LEMMA NatHasLeast ==
  ASSUME NEW T, T \subseteq Nat, T # {}
  PROVE  \E x \in T : \A y \in T : x <= y
<1>1. PICK x \in T : \A y \in T : ~(<<y, x>> \in OpToRel(<, Nat))
  BY NatLessThanWellFounded, WFMin, Zenon
<1>2. ASSUME NEW y \in T PROVE x <= y
  <2>1. ~(y < x)
    BY <1>1 DEF OpToRel
  <2> QED BY <2>1
<1> QED BY <1>2

-----------------------------------------------------------------------------
(***************************************************************************)
(* Sorting.  before orders the entries of s at places weakly: who is in    *)
(* front of whom is decided by the place only between equals.              *)
(***************************************************************************)
Orders(before, s, places) ==
  /\ \A i \in places : <<s[i], s[i]>> \notin before
  /\ \A i, j, k \in places :
       /\ <<s[i], s[j]>> \in before /\ <<s[j], s[k]>> \in before => <<s[i], s[k]>> \in before
       /\ <<s[i], s[k]>> \in before => <<s[i], s[j]>> \in before \/ <<s[j], s[k]>> \in before

\* Of two places one is ahead of the other, and then so is all that is ahead of it.
LEMMA AheadOrders ==
  ASSUME NEW s, NEW places, places \subseteq Nat, NEW before, Orders(before, s, places)
  PROVE  /\ \A i \in places : i \notin Ahead(s, places, before, i)
         /\ \A i, j \in places :
              i # j => i \in Ahead(s, places, before, j) \/ j \in Ahead(s, places, before, i)
         /\ \A i, j \in places : i \in Ahead(s, places, before, j) =>
              Ahead(s, places, before, i) \subseteq Ahead(s, places, before, j)
<1> DEFINE b(i, j) == <<s[i], s[j]>> \in before
<1>1. /\ \A i \in places : ~b(i, i)
      /\ \A i, j, k \in places : b(i, j) /\ b(j, k) => b(i, k)
      /\ \A i, j, k \in places : b(i, k) => b(i, j) \/ b(j, k)
  BY DEF Orders
<1>2. \A i \in places : \A j : j \in Ahead(s, places, before, i) <=>
        j \in places /\ (b(j, i) \/ (~b(i, j) /\ j < i))
  BY DEF Ahead
<1> HIDE DEF b
<1>3. \A i \in places : i \in Nat
  OBVIOUS
<1>4. \A i \in places : i \notin Ahead(s, places, before, i)
  BY <1>1, <1>2, <1>3
<1>5. ASSUME NEW i \in places, NEW j \in places, i # j
      PROVE  i \in Ahead(s, places, before, j) \/ j \in Ahead(s, places, before, i)
  <2>1. i < j \/ j < i
    BY <1>3, <1>5
  <2> QED BY <1>2, <2>1
<1>6. ASSUME NEW i \in places, NEW j \in places, i \in Ahead(s, places, before, j),
             NEW k \in Ahead(s, places, before, i)
      PROVE  k \in Ahead(s, places, before, j)
  <2>1. k \in places /\ (b(k, i) \/ (~b(i, k) /\ k < i)) /\ (b(i, j) \/ (~b(j, i) /\ i < j))
    BY <1>2, <1>6
  <2>2. CASE b(k, i)
    <3>1. CASE b(i, j)
      <4>1. \A x, y, z \in places : b(x, y) /\ b(y, z) => b(x, z)
        BY <1>1
      <4>2. b(k, j)
        BY <2>1, <2>2, <3>1, <4>1, Zenon
      <4> QED BY <1>2, <2>1, <4>2
    <3>2. CASE ~b(i, j)
      <4>1. ~b(j, i)
        BY <2>1, <3>2
      <4>2. b(k, j)
        BY <1>1, <2>1, <2>2, <4>1
      <4> QED BY <1>2, <2>1, <4>2
    <3> QED BY <3>1, <3>2
  <2>3. CASE ~b(k, i) /\ b(i, j)
    <3>1. ~b(i, k) /\ k \in places
      BY <2>1, <2>3
    <3>2. b(k, j)
      BY <1>1, <2>3, <3>1
    <3> QED BY <1>2, <3>1, <3>2
  <2>4. CASE ~b(k, i) /\ ~b(i, j)
    <3>1. k \in places /\ ~b(i, k) /\ ~b(j, i) /\ k < i /\ i < j
      BY <2>1, <2>4
    <3>2. ~b(j, k)
      BY <1>1, <3>1
    <3>3. k < j
      BY <1>3, <3>1
    <3> QED BY <1>2, <3>1, <3>2, <3>3
  <2> QED BY <2>2, <2>3, <2>4
<1> QED BY <1>4, <1>5, <1>6

\* The place of each entry: an order of all of them.
LEMMA ArrangedIs ==
  ASSUME NEW s, NEW places, places \subseteq Nat, IsFiniteSet(places), NEW before,
         Orders(before, s, places)
  PROVE  \E p \in Bijection(1 .. Cardinality(places), places) :
           /\ Arranged(s, places, before) = [n \in 1 .. Cardinality(places) |-> s[p[n]]]
           /\ \A n \in 1 .. Cardinality(places) :
                Cardinality(Ahead(s, places, before, p[n])) = n - 1
<1> DEFINE N == Cardinality(places)
           A(i) == Ahead(s, places, before, i)
           place == [i \in places |-> Cardinality(A(i)) + 1]
           p == [n \in 1 .. N |-> CHOOSE i \in places : Cardinality(A(i)) = n - 1]
<1>1. N \in Nat
  BY FS_CardinalityType
<1>2. ASSUME NEW i \in places
      PROVE  A(i) \subseteq places \ {i} /\ IsFiniteSet(A(i)) /\ Cardinality(A(i)) \in 0 .. N - 1
  <2>1. A(i) \subseteq places \ {i}
    <3>1. i \notin A(i)
      BY AheadOrders
    <3>2. A(i) \subseteq places
      BY DEF Ahead
    <3> QED BY <3>1, <3>2
  <2>2. IsFiniteSet(places \ {i}) /\ Cardinality(places \ {i}) = N - 1
    BY FS_RemoveElement
  <2>3. IsFiniteSet(A(i)) /\ Cardinality(A(i)) <= N - 1
    BY <2>1, <2>2, FS_Subset
  <2>4. Cardinality(A(i)) \in Nat
    BY <2>3, FS_CardinalityType
  <2> QED BY <1>1, <2>1, <2>3, <2>4
<1>3. ASSUME NEW i \in places, NEW j \in places, i \in A(j)
      PROVE  Cardinality(A(i)) < Cardinality(A(j))
  <2>1. A(i) \subseteq A(j) /\ i \notin A(i)
    BY <1>3, AheadOrders
  <2>2. Cardinality(A(i)) <= Cardinality(A(j)) /\ Cardinality(A(i)) # Cardinality(A(j))
    BY <1>2, <1>3, <2>1, FS_Subset
  <2> QED BY <1>1, <1>2, <2>2
<1>4. \A i, j \in places : i # j => i \in A(j) \/ j \in A(i)
  BY AheadOrders
<1> HIDE DEF A
<1>5. place \in Bijection(places, 1 .. N)
  <2>1. place \in [places -> 1 .. N]
    BY <1>1, <1>2
  <2>2. ASSUME NEW i \in places, NEW j \in places, place[i] = place[j] PROVE i = j
    <3>1. Cardinality(A(i)) = Cardinality(A(j))
      BY <1>1, <1>2, <2>2
    <3> QED BY <1>1, <1>2, <1>3, <1>4, <3>1
  <2>3. place \in Injection(places, 1 .. N)
    BY <2>1, <2>2 DEF Injection, IsInjective
  <2>4. IsFiniteSet(1 .. N) /\ Cardinality(1 .. N) = N
    BY <1>1, FS_Interval
  <2>5. place \in Surjection(places, 1 .. N)
    BY <2>3, <2>4, FS_Injection
  <2> QED BY <2>3, <2>5 DEF Bijection
<1>6. ASSUME NEW n \in 1 .. N
      PROVE  p[n] \in places /\ place[p[n]] = n
  <2>1. PICK i \in places : place[i] = n
    BY <1>5 DEF Bijection, Surjection
  <2>2. Cardinality(A(i)) = n - 1
    BY <1>1, <1>2, <2>1
  <2>3. p[n] \in places /\ Cardinality(A(p[n])) = n - 1
    BY <2>2
  <2> QED BY <1>1, <2>3
<1>7. \A i \in places : place[i] \in 1 .. N /\ p[place[i]] = i
  <2> SUFFICES ASSUME NEW i \in places PROVE place[i] \in 1 .. N /\ p[place[i]] = i
    OBVIOUS
  <2>1. place[i] \in 1 .. N
    BY <1>1, <1>2
  <2>2. p[place[i]] \in places /\ place[p[place[i]]] = place[i]
    BY <1>6, <2>1
  <2> QED BY <1>5, <2>1, <2>2 DEF Bijection, Injection, IsInjective
<1>8. Arranged(s, places, before) = [n \in 1 .. N |-> s[p[n]]]
  BY DEF Arranged, A
<1>9. p = [n \in 1 .. N |-> p[n]]
  OBVIOUS
<1>10. \A i \in places : place[i] = Cardinality(A(i)) + 1
  OBVIOUS
<1> HIDE DEF p, place, N
<1>11. p \in Bijection(1 .. N, places)
  <2>1. p \in [1 .. N -> places]
    BY <1>6, <1>9
  <2>2. p \in Injection(1 .. N, places)
    BY <1>6, <2>1 DEF Injection, IsInjective
  <2>3. p \in Surjection(1 .. N, places)
    BY <1>7, <2>1 DEF Surjection
  <2> QED BY <2>2, <2>3 DEF Bijection
<1>12. \A n \in 1 .. N : Cardinality(A(p[n])) = n - 1
  <2> SUFFICES ASSUME NEW n \in 1 .. N PROVE Cardinality(A(p[n])) = n - 1
    OBVIOUS
  <2>1. p[n] \in places /\ place[p[n]] = n
    BY <1>6
  <2>2. n = Cardinality(A(p[n])) + 1
    BY <1>10, <2>1
  <2>3. IsFiniteSet(A(p[n]))
    BY <1>2, <2>1
  <2>4. Cardinality(A(p[n])) \in Nat
    BY <2>3, FS_CardinalityType
  <2> QED BY <2>2, <2>4
<1> QED BY <1>8, <1>11, <1>12 DEF A, N

\* A sorted list holds what was at these places.
LEMMA ArrangedHas ==
  ASSUME NEW s, NEW places, places \subseteq DOMAIN s, places \subseteq Nat,
         IsFiniteSet(places), NEW before, Orders(before, s, places)
  PROVE  /\ Arranged(s, places, before) \in Seq({s[i] : i \in places})
         /\ Len(Arranged(s, places, before)) = Cardinality(places)
         /\ ToSet(Arranged(s, places, before)) = {s[i] : i \in places}
<1> DEFINE N == Cardinality(places)
<1>1. N \in Nat
  BY FS_CardinalityType
<1>2. PICK p \in Bijection(1 .. N, places) : Arranged(s, places, before) = [n \in 1 .. N |-> s[p[n]]]
  BY ArrangedIs
<1> HIDE DEF N
<1>3. p \in [1 .. N -> places] /\ \A i \in places : \E n \in 1 .. N : p[n] = i
  BY DEF Bijection, Surjection
<1>4. [n \in 1 .. N |-> s[p[n]]] \in Seq({s[i] : i \in places})
  <2>1. \A n \in 1 .. N : s[p[n]] \in {s[i] : i \in places}
    BY <1>3
  <2> QED BY <1>1, <2>1, IsASeq
<1>5. DOMAIN [n \in 1 .. N |-> s[p[n]]] = 1 .. N
  OBVIOUS
<1>6. Len([n \in 1 .. N |-> s[p[n]]]) = N
  BY <1>1, <1>4, <1>5, LenProperties
<1>7. ToSet([n \in 1 .. N |-> s[p[n]]]) = {s[i] : i \in places}
  BY <1>3, <1>5 DEF ToSet
<1> QED BY <1>2, <1>4, <1>6, <1>7 DEF N

\* A set of numbers in ascending order.
LEMMA AscendingHas ==
  ASSUME NEW S, S \subseteq Nat, IsFiniteSet(S)
  PROVE  Ascending(S) \in Seq(S) /\ ToSet(Ascending(S)) = S
<1> DEFINE s == SetToSeq(S)
           N == Cardinality(S)
           B == {pair \in S \X S : pair[1] < pair[2]}
<1>1. N \in Nat
  BY FS_CardinalityType
<1>2. \E f \in [1 .. N -> S] : IsInjective(f)
  <2>1. \E f : f \in Bijection(1 .. N, S)
    BY FS_CardinalityType, Zenon DEF ExistsBijection
  <2> QED BY <2>1 DEF Bijection, Injection
<1>3. s \in [1 .. N -> S] /\ IsInjective(s)
  BY <1>2 DEF SetToSeq
<1> HIDE DEF s, N
<1>4. DOMAIN s = 1 .. N /\ IsFiniteSet(1 .. N) /\ Cardinality(1 .. N) = N
  BY <1>1, <1>3, FS_Interval
<1>5. {s[i] : i \in DOMAIN s} = S
  <2>1. s \in Injection(1 .. N, S)
    BY <1>3 DEF Injection
  <2>2. s \in Surjection(1 .. N, S)
    BY <1>4, <2>1, FS_Injection DEF N
  <2> QED BY <1>4, <2>2 DEF Surjection
<1>6. Orders(B, s, DOMAIN s)
  <2>1. \A i \in DOMAIN s : s[i] \in S /\ s[i] \in Nat
    BY <1>3
  <2>2. \A i, j \in DOMAIN s : <<s[i], s[j]>> \in B <=> s[i] < s[j]
    BY <2>1
  <2> HIDE DEF B
  <2> QED BY <2>1, <2>2 DEF Orders
<1>7. DOMAIN s \subseteq Nat
  BY <1>4
<1>8. Ascending(S) = Arranged(s, DOMAIN s, B)
  BY DEF Ascending, s
<1> HIDE DEF B
<1> DEFINE D == DOMAIN s
<1>9. D \subseteq DOMAIN s /\ D \subseteq Nat /\ IsFiniteSet(D) /\ Orders(B, s, D)
  BY <1>4, <1>6, <1>7
<1>10. {s[i] : i \in D} = S /\ Ascending(S) = Arranged(s, D, B)
  BY <1>5, <1>8
<1> HIDE DEF D
<1>11. /\ Arranged(s, D, B) \in Seq({s[i] : i \in D})
       /\ ToSet(Arranged(s, D, B)) = {s[i] : i \in D}
  BY <1>9, ArrangedHas, Zenon
<1> QED BY ONLY <1>10, <1>11

-----------------------------------------------------------------------------
(***************************************************************************)
(* Candidates.                                                             *)
(***************************************************************************)
Given == Seq([id : Atoms, verified : BOOLEAN])

LEMMA OverlapType == \A tokens : \A a \in Atoms : Overlap(tokens, a) \in Nat
<1> SUFFICES ASSUME NEW tokens, NEW a \in Atoms PROVE Overlap(tokens, a) \in Nat
  OBVIOUS
<1>1. IsFiniteSet(tokens \cap AtomTokens[a])
  <2>1. IsFiniteSet(AtomTokens[a])
    BY MatcherAssumption
  <2> QED BY <2>1, FS_Subset
<1> QED BY <1>1, FS_CardinalityType DEF Overlap

LEMMA PlacesAre ==
  ASSUME NEW given \in Given
  PROVE  /\ DOMAIN given = 1 .. Len(given) /\ Len(given) \in Nat
         /\ \A i \in 1 .. Len(given) : given[i] \in [id : Atoms, verified : BOOLEAN]
         /\ DOMAIN Ids(given) = 1 .. Len(given)
         /\ \A i \in 1 .. Len(given) : Ids(given)[i] = given[i].id /\ Ids(given)[i] \in Atoms
         /\ VerifiedPlaces(given) \subseteq 1 .. Len(given)
         /\ VerifiedPlaces(given) \subseteq Nat
         /\ IsFiniteSet(VerifiedPlaces(given))
<1>1. DOMAIN given = 1 .. Len(given) /\ Len(given) \in Nat
  BY DEF Given
<1>2. \A i \in 1 .. Len(given) : given[i] \in [id : Atoms, verified : BOOLEAN]
  BY ElementOfSeq DEF Given
<1>3. DOMAIN Ids(given) = 1 .. Len(given)
  BY <1>1 DEF Ids
<1>4. \A i \in 1 .. Len(given) : Ids(given)[i] = given[i].id /\ Ids(given)[i] \in Atoms
  BY <1>1, <1>2 DEF Ids
<1>5. VerifiedPlaces(given) \subseteq 1 .. Len(given)
  BY <1>1 DEF VerifiedPlaces
<1>6. IsFiniteSet(VerifiedPlaces(given))
  <2>1. IsFiniteSet(1 .. Len(given))
    BY <1>1, FS_Interval
  <2> QED BY <1>5, <2>1, FS_Subset
<1> QED BY <1>1, <1>2, <1>3, <1>4, <1>5, <1>6

LEMMA BetterIs ==
  ASSUME NEW query, NEW a \in Atoms, NEW b \in Atoms
  PROVE  <<a, b>> \in Better(query) <=>
           \/ Overlap(query, a) > Overlap(query, b)
           \/ Overlap(query, a) = Overlap(query, b) /\ a < b
BY DEF Better

LEMMA BetterOrders ==
  ASSUME NEW query, NEW given \in Given
  PROVE  /\ Orders(Better(query), Ids(given), VerifiedPlaces(given))
         /\ Orders({}, Ids(given), VerifiedPlaces(given))
<1> DEFINE P == VerifiedPlaces(given)
           s == Ids(given)
           o(i) == Overlap(query, s[i])
<1>1. \A i \in P : s[i] \in Atoms /\ s[i] \in Nat /\ o(i) \in Nat
  BY PlacesAre, OverlapType, MatcherAssumption
<1>2. \A i, j \in P : <<s[i], s[j]>> \in Better(query) <=> o(i) > o(j) \/ (o(i) = o(j) /\ s[i] < s[j])
  BY <1>1, BetterIs
<1> HIDE DEF o, s, P
<1>3. Orders(Better(query), s, P)
  BY <1>1, <1>2 DEF Orders
<1>4. Orders({}, s, P)
  BY DEF Orders
<1> QED BY <1>3, <1>4 DEF s, P

LEMMA VerifiedIdsAre ==
  ASSUME NEW given \in Given
  PROVE  /\ VerifiedIds(given) \in Seq(Atoms)
         /\ ToSet(VerifiedIds(given)) = {Ids(given)[i] : i \in VerifiedPlaces(given)}
         /\ ToSet(VerifiedIds(given)) = {a \in Atoms : [id |-> a, verified |-> TRUE] \in ToSet(given)}
<1> DEFINE P == VerifiedPlaces(given)
           V == {Ids(given)[i] : i \in P}
<1>1. VerifiedIds(given) \in Seq(V) /\ ToSet(VerifiedIds(given)) = V
  BY PlacesAre, BetterOrders, ArrangedHas DEF VerifiedIds
<1>2. V \subseteq Atoms
  BY PlacesAre
<1>3. ASSUME NEW a \in Atoms
      PROVE  a \in V <=> [id |-> a, verified |-> TRUE] \in ToSet(given)
  <2>1. ASSUME NEW i \in P, a = Ids(given)[i] PROVE [id |-> a, verified |-> TRUE] \in ToSet(given)
    <3>1. i \in DOMAIN given /\ given[i] \in [id : Atoms, verified : BOOLEAN]
          /\ given[i].id = a /\ given[i].verified = TRUE
      BY <2>1, PlacesAre DEF VerifiedPlaces
    <3>2. given[i] = [id |-> a, verified |-> TRUE]
      BY <3>1
    <3> QED BY <3>1, <3>2 DEF ToSet
  <2>2. ASSUME NEW i \in DOMAIN given, given[i] = [id |-> a, verified |-> TRUE] PROVE a \in V
    <3>1. given[i].verified /\ given[i].id = a
      BY <2>2
    <3>2. i \in P
      BY <3>1, Zenon DEF VerifiedPlaces
    <3>3. Ids(given)[i] = a
      BY <3>1 DEF Ids
    <3> QED BY <3>2, <3>3
  <2> QED BY <2>1, <2>2 DEF ToSet
<1>4. VerifiedIds(given) \in Seq(Atoms)
  BY <1>1, <1>2, SeqMonotonic
<1> QED BY <1>1, <1>2, <1>3, <1>4

\* The first KLexical of the ranking are the atoms that rank high.
LEMMA TopLexicalIs ==
  ASSUME NEW given \in Given, NEW query
  PROVE  TopLexical(given, query) = {a \in Atoms : RanksHigh(given, query, a)}
<1> DEFINE P == VerifiedPlaces(given)
           s == Ids(given)
           N == Cardinality(P)
           B == Better(query)
           ranked == Arranged(s, P, B)
           A(i) == Ahead(s, P, B, i)
           W(a) == {i \in VerifiedPlaces(given) :
                      \/ Overlap(query, given[i].id) > Overlap(query, a)
                      \/ Overlap(query, given[i].id) = Overlap(query, a) /\ given[i].id < a}
<1>1. N \in Nat
  BY PlacesAre, FS_CardinalityType
<1>2. PICK p \in Bijection(1 .. N, P) :
        ranked = [n \in 1 .. N |-> s[p[n]]] /\ \A n \in 1 .. N : Cardinality(A(p[n])) = n - 1
  BY PlacesAre, BetterOrders, ArrangedIs
<1>3. /\ \A n \in 1 .. N : p[n] \in P
      /\ \A i \in P : \E n \in 1 .. N : p[n] = i
  BY DEF Bijection, Surjection
<1>4. \A i \in P : s[i] \in Atoms /\ i \in Nat
  BY PlacesAre
<1>5. \A i \in P : \A j : j \in A(i) <=>
        j \in P /\ (<<s[j], s[i]>> \in B \/ (<<s[i], s[j]>> \notin B /\ j < i))
  BY DEF Ahead
<1>6. TopLexical(given, query) = {s[p[n]] : n \in {n \in 1 .. N : n <= KLexical}}
  BY <1>2 DEF TopLexical
<1>7. ASSUME NEW a \in Atoms
      PROVE  RanksHigh(given, query, a) <=>
               (\E i \in P : s[i] = a) /\ Cardinality(W(a)) < KLexical
  <2>1. ToSet(VerifiedIds(given)) = {s[i] : i \in P}
    BY VerifiedIdsAre
  <2>2. [id |-> a, verified |-> TRUE] \in ToSet(given) <=> \E i \in P : s[i] = a
    BY <2>1, VerifiedIdsAre
  <2> HIDE DEF s, P
  <2> QED BY <2>2, Zenon DEF RanksHigh
<1>12. \A a \in Atoms : \A i : i \in W(a) <=> i \in P /\ <<s[i], a>> \in B
  <2> SUFFICES ASSUME NEW a \in Atoms, NEW i \in P
               PROVE  i \in W(a) <=> <<s[i], a>> \in B
    BY DEF P
  <2>1. s[i] \in Atoms /\ s[i] = given[i].id
    BY PlacesAre
  <2>2. <<s[i], a>> \in B <=>
          \/ Overlap(query, s[i]) > Overlap(query, a)
          \/ Overlap(query, s[i]) = Overlap(query, a) /\ s[i] < a
    BY <2>1, BetterIs
  <2> QED BY <2>1, <2>2
<1> HIDE DEF W
<1>8. ASSUME NEW i \in P
      PROVE  /\ W(s[i]) \subseteq A(i) /\ IsFiniteSet(A(i)) /\ Cardinality(A(i)) \in Nat
             /\ Cardinality(W(s[i])) \in Nat /\ Cardinality(W(s[i])) <= Cardinality(A(i))
  <2>1. W(s[i]) \subseteq A(i)
    BY <1>4, <1>5, <1>12
  <2>2. A(i) \subseteq P
    BY <1>5
  <2>3. IsFiniteSet(A(i))
    BY <2>2, PlacesAre, FS_Subset
  <2> QED BY <2>1, <2>3, FS_Subset, FS_CardinalityType
<1>9. ASSUME NEW a \in Atoms, NEW k \in P, s[k] = a
      PROVE  \E i \in P : s[i] = a /\ A(i) = W(a)
  <2> DEFINE T == {i \in P : s[i] = a}
  <2>1. PICK i \in T : \A j \in T : i <= j
    BY <1>4, <1>9, NatHasLeast
  <2>2. ASSUME NEW j \in P, <<s[j], a>> \notin B, <<a, s[j]>> \notin B PROVE s[j] = a
    <3>1. a \in Nat /\ s[j] \in Nat /\ s[j] \in Atoms
      BY <1>4, MatcherAssumption
    <3>2. Overlap(query, a) \in Nat /\ Overlap(query, s[j]) \in Nat
      BY <3>1, OverlapType
    <3> QED BY <2>2, <3>1, <3>2, BetterIs
  <2>3. ASSUME NEW j \in A(i) PROVE j \in W(a)
    <3>1. j \in P /\ (<<s[j], a>> \in B \/ (<<a, s[j]>> \notin B /\ j < i))
      BY <1>5
    <3>2. CASE <<s[j], a>> \notin B
      <4>1. j \in T /\ j < i
        BY <2>2, <3>1, <3>2
      <4> QED BY <1>4, <2>1, <4>1
    <3> QED BY <1>12, <3>1, <3>2
  <2>4. W(a) \subseteq A(i)
    BY <1>8, <2>1
  <2>5. A(i) = W(a)
    <3> HIDE DEF A
    <3> QED BY <2>3, <2>4
  <2> QED BY <2>1, <2>5
<1> HIDE DEF P, s, N, B, ranked, A, W
<1>10. ASSUME NEW a \in Atoms, RanksHigh(given, query, a) PROVE a \in TopLexical(given, query)
  <2>1. PICK i \in P : s[i] = a /\ A(i) = W(a)
    BY <1>7, <1>9, <1>10
  <2>2. PICK n \in 1 .. N : p[n] = i
    BY <1>3
  <2>3. Cardinality(W(a)) = n - 1 /\ Cardinality(W(a)) < KLexical
    BY <1>2, <1>7, <1>10, <2>1, <2>2
  <2>4. n <= KLexical
    BY <1>1, <2>3, MatcherAssumption
  <2> QED BY <1>6, <2>1, <2>2, <2>4
<1>11. ASSUME NEW a \in TopLexical(given, query) PROVE a \in Atoms /\ RanksHigh(given, query, a)
  <2>1. PICK n \in 1 .. N : n <= KLexical /\ a = s[p[n]]
    BY <1>6
  <2>2. p[n] \in P /\ a \in Atoms
    BY <1>3, <1>4, <2>1
  <2>3. Cardinality(A(p[n])) = n - 1
    BY <1>2
  <2>4. Cardinality(W(a)) \in Nat /\ Cardinality(W(a)) <= n - 1
    BY <1>8, <2>1, <2>2, <2>3
  <2>5. Cardinality(W(a)) < KLexical
    BY <1>1, <2>1, <2>4, MatcherAssumption
  <2> QED BY <1>7, <2>1, <2>2, <2>5
<1> QED BY <1>10, <1>11

LEMMA CandidatesAre ==
  ASSUME NEW given \in Given, NEW strategy, NEW requirements, NEW hits
  PROVE  /\ Candidates(strategy, requirements, given, hits) \in Seq(Atoms)
         /\ ToSet(Candidates(strategy, requirements, given, hits)) =
              {a \in Atoms : Eligible(strategy, requirements, given, hits, a)}
<1> DEFINE query == Query(requirements)
           ids == ToSet(Ids(given))
           S == ids \cap Merged(given, query, hits)
<1>1. ids \subseteq Atoms /\ \A a : a \in ids <=> \E b \in ToSet(given) : b.id = a
  BY PlacesAre DEF ToSet
<1>2. CASE IsHybrid(strategy, requirements)
  <2>1. S \subseteq Nat /\ IsFiniteSet(S)
    BY <1>1, MatcherAssumption, FS_Subset
  <2>2. Ascending(S) \in Seq(S) /\ ToSet(Ascending(S)) = S
    BY <2>1, AscendingHas
  <2>3. Candidates(strategy, requirements, given, hits) = Ascending(S)
    BY <1>2 DEF Candidates
  <2>4. ASSUME NEW a \in Atoms
        PROVE  a \in S <=> Eligible(strategy, requirements, given, hits, a)
    <3>1. a \in TopLexical(given, query) <=> RanksHigh(given, query, a)
      BY TopLexicalIs
    <3> QED BY <1>1, <1>2, <3>1 DEF Merged, Eligible
  <2>5. S \subseteq Atoms
    BY <1>1
  <2> HIDE DEF S
  <2> QED BY <2>2, <2>3, <2>4, <2>5, SeqMonotonic
<1>3. CASE ~IsHybrid(strategy, requirements)
  <2>1. Candidates(strategy, requirements, given, hits) = VerifiedIds(given)
    BY <1>3 DEF Candidates
  <2>2. ASSUME NEW a \in Atoms
        PROVE  [id |-> a, verified |-> TRUE] \in ToSet(given) <=>
                 Eligible(strategy, requirements, given, hits, a)
    <3>1. [id |-> a, verified |-> TRUE] \in ToSet(given) => \E b \in ToSet(given) : b.id = a
      OBVIOUS
    <3> QED BY <1>3, <3>1 DEF Eligible
  <2> QED BY <2>1, <2>2, VerifiedIdsAre
<1> QED BY <1>2, <1>3

-----------------------------------------------------------------------------
(***************************************************************************)
(* Evidence: going through the candidates in order finds the one that no   *)
(* other is preferred to.                                                  *)
(***************************************************************************)
Beats(tokens, a, b) ==
  \/ Overlap(tokens, b) < Overlap(tokens, a)
  \/ Overlap(tokens, b) = Overlap(tokens, a) /\ a < b

IsFirst(tokens, S, a) == a \in S /\ \A b \in S \ {a} : Beats(tokens, a, b)

Firsts(best, tokens, candidates, N) ==
  best = [n \in 0 .. N |->
            IF n = 0 THEN NoAtom
            ELSE IF Prefers(tokens, candidates[n], best[n - 1]) THEN candidates[n] ELSE best[n - 1]]

LEMMA FirstsExist ==
  ASSUME NEW tokens, NEW candidates, NEW N \in Nat
  PROVE  \E best : Firsts(best, tokens, candidates, N)
<1> DEFINE Bad == {k \in Nat : ~ \E best : Firsts(best, tokens, candidates, k)}
<1>1. SUFFICES ASSUME Bad # {} PROVE FALSE
  OBVIOUS
<1>2. PICK k \in Bad : \A j \in Bad : k <= j
  BY <1>1, NatHasLeast
<1>3. k # 0
  <2>1. Firsts([n \in 0 .. 0 |-> NoAtom], tokens, candidates, 0)
    BY DEF Firsts
  <2> QED BY <2>1
<1>4. PICK best : Firsts(best, tokens, candidates, k - 1)
  <2>1. k - 1 \in Nat /\ ~(k <= k - 1)
    BY <1>3
  <2>2. k - 1 \notin Bad
    BY <1>2, <2>1
  <2> QED BY <2>1, <2>2
<1> DEFINE next(f, n) ==
             IF n = 0 THEN NoAtom
             ELSE IF Prefers(tokens, candidates[n], f[n - 1]) THEN candidates[n] ELSE f[n - 1]
           more == [n \in 0 .. k |-> next(best, n)]
<1>5. ASSUME NEW n \in 0 .. k - 1 PROVE more[n] = best[n]
  <2>1. n \in 0 .. k
    BY <1>3
  <2>2. more[n] = next(best, n)
    BY <2>1
  <2>3. best[n] = next(best, n)
    BY <1>4 DEF Firsts
  <2> QED BY <2>2, <2>3
<1>6. Firsts(more, tokens, candidates, k)
  <2>1. ASSUME NEW n \in 0 .. k PROVE next(best, n) = next(more, n)
    <3>1. CASE n = 0
      BY <3>1
    <3>2. CASE n # 0
      <4>1. n - 1 \in 0 .. k - 1
        BY <3>2
      <4>2. more[n - 1] = best[n - 1]
        BY <4>1, <1>5
      <4> HIDE DEF more
      <4> QED BY <4>2
    <3> QED BY <3>1, <3>2
  <2>2. more = [n \in 0 .. k |-> next(best, n)]
    OBVIOUS
  <2> HIDE DEF more
  <2>3. more = [n \in 0 .. k |-> next(more, n)]
    BY <2>1, <2>2
  <2> QED BY <2>3 DEF Firsts
<1> QED BY <1>2, <1>6

LEMMA BestAtomIs ==
  ASSUME NEW tokens, NEW candidates \in Seq(Atoms)
  PROVE  /\ candidates = <<>> => BestAtom(tokens, candidates) = NoAtom
         /\ candidates # <<>> => IsFirst(tokens, ToSet(candidates), BestAtom(tokens, candidates))
<1> DEFINE N == Len(candidates)
           best[n \in 0 .. N] ==
             IF n = 0 THEN NoAtom
             ELSE IF Prefers(tokens, candidates[n], best[n - 1]) THEN candidates[n] ELSE best[n - 1]
           seen(n) == {candidates[i] : i \in 1 .. n}
           Bad == {n \in Nat : n \in 1 .. N /\ ~IsFirst(tokens, seen(n), best[n])}
<1>1. N \in Nat /\ DOMAIN candidates = 1 .. N /\ \A i \in 1 .. N : candidates[i] \in Atoms
  OBVIOUS
<1>2. BestAtom(tokens, candidates) = best[N]
  BY Zenon DEF BestAtom
<1>3. Firsts(best, tokens, candidates, N)
  <2>1. \E f : f = [n \in 0 .. N |->
            IF n = 0 THEN NoAtom
            ELSE IF Prefers(tokens, candidates[n], f[n - 1]) THEN candidates[n] ELSE f[n - 1]]
    <3>1. \E f : Firsts(f, tokens, candidates, N)
      BY <1>1, FirstsExist
    <3> QED BY <3>1, Zenon DEF Firsts
  <2>2. best = [n \in 0 .. N |->
            IF n = 0 THEN NoAtom
            ELSE IF Prefers(tokens, candidates[n], best[n - 1]) THEN candidates[n] ELSE best[n - 1]]
    BY <2>1, Zenon
  <2> HIDE DEF best
  <2> QED BY <2>2 DEF Firsts
<1> HIDE DEF best, N
<1>4. /\ best[0] = NoAtom
      /\ \A n \in 1 .. N : best[n] = IF Prefers(tokens, candidates[n], best[n - 1])
                                     THEN candidates[n] ELSE best[n - 1]
  BY <1>1, <1>3 DEF Firsts
<1>5. \A a \in Atoms : a \in Nat /\ a # NoAtom /\ Overlap(tokens, a) \in Nat
  BY MatcherAssumption, OverlapType DEF NoAtom
<1>6. ASSUME NEW n \in 1 .. N, n # 1, IsFirst(tokens, seen(n - 1), best[n - 1])
      PROVE  IsFirst(tokens, seen(n), best[n])
  <2>1. n - 1 \in 1 .. N /\ seen(n) = seen(n - 1) \cup {candidates[n]}
    BY <1>1, <1>6
  <2>2. seen(n) \subseteq Atoms
    BY <1>1
  <2> HIDE DEF seen
  <2> DEFINE a == best[n - 1]
             c == candidates[n]
  <2>3. a \in Atoms /\ c \in Atoms /\ a # NoAtom /\ best[n] = IF Prefers(tokens, c, a) THEN c ELSE a
    BY <1>1, <1>4, <1>5, <1>6, <2>1, <2>2 DEF IsFirst
  <2>4. \A b \in seen(n - 1) \ {a} : Beats(tokens, a, b) /\ b \in Atoms
    BY <1>6, <2>1, <2>2 DEF IsFirst
  <2>5. a \in seen(n - 1)
    BY <1>6 DEF IsFirst
  <2> HIDE DEF a, c
  <2>6. CASE Prefers(tokens, c, a)
    <3>1. Beats(tokens, c, a)
      BY <1>5, <2>3, <2>6 DEF Prefers, Beats
    <3>2. ASSUME NEW b \in seen(n) \ {c} PROVE Beats(tokens, c, b)
      <4>1. CASE b = a
        BY <3>1, <4>1
      <4>2. CASE b # a
        <5>1. Beats(tokens, a, b) /\ b \in Atoms
          BY <2>1, <2>4, <4>2 DEF c
        <5> QED BY <1>5, <2>3, <3>1, <5>1 DEF Beats
      <4> QED BY <4>1, <4>2
    <3> QED BY <2>1, <2>3, <2>6, <3>2 DEF IsFirst, c
  <2>7. CASE ~Prefers(tokens, c, a)
    <3>1. c # a => Beats(tokens, a, c)
      BY <1>5, <2>3, <2>7 DEF Prefers, Beats
    <3>2. ASSUME NEW b \in seen(n) \ {a} PROVE Beats(tokens, a, b)
      BY <2>1, <2>4, <3>1 DEF c
    <3> QED BY <2>1, <2>3, <2>5, <2>7, <3>2 DEF IsFirst
  <2> QED BY <2>6, <2>7
<1>7. 1 \in 1 .. N => IsFirst(tokens, seen(1), best[1])
  <2> SUFFICES ASSUME 1 \in 1 .. N PROVE IsFirst(tokens, seen(1), best[1])
    OBVIOUS
  <2>1. seen(1) = {candidates[1]}
    OBVIOUS
  <2>2. best[1] = candidates[1]
    BY <1>4 DEF Prefers
  <2> QED BY <2>1, <2>2 DEF IsFirst
<1>8. Bad = {}
  <2>1. SUFFICES ASSUME Bad # {} PROVE FALSE
    OBVIOUS
  <2>2. PICK k \in Bad : \A j \in Bad : k <= j
    BY <2>1, NatHasLeast
  <2>3. k \in Nat /\ k \in 1 .. N /\ ~IsFirst(tokens, seen(k), best[k])
    OBVIOUS
  <2>4. k # 1
    BY <1>7, <2>3
  <2>5. k - 1 \in Nat /\ k - 1 \in 1 .. N /\ ~(k <= k - 1)
    BY <1>1, <2>3, <2>4
  <2>6. k - 1 \notin Bad
    BY <2>2, <2>5
  <2>7. IsFirst(tokens, seen(k - 1), best[k - 1])
    BY <2>5, <2>6
  <2> QED BY <1>6, <2>3, <2>4, <2>7
<1>9. candidates = <<>> <=> N = 0
  BY EmptySeq DEF N
<1>10. candidates # <<>> => N \in 1 .. N /\ N \in Nat
  BY <1>1, <1>9
<1>11. seen(N) = ToSet(candidates)
  BY <1>1 DEF ToSet
<1>12. candidates # <<>> => IsFirst(tokens, seen(N), best[N])
  BY <1>8, <1>10
<1> QED BY <1>2, <1>4, <1>9, <1>11, <1>12

\* What is known of a match whoever the candidates are.
IsSound(match) ==
  /\ match.matched \in BOOLEAN
  /\ match.score \in {"Positive", "Zero"}
  /\ IF match.matched THEN match.atom # NoAtom /\ match.evidence # {}
     ELSE match.atom = NoAtom /\ match.evidence = {}

LEMMA RequirementMatchIs ==
  ASSUME NEW requirement, NEW candidates \in Seq(Atoms)
  PROVE  /\ IsSound(RequirementMatch(requirement, candidates))
         /\ RequirementMatch(requirement, candidates).text = requirement.text
         /\ IsBestMatch(requirement, RequirementMatch(requirement, candidates), ToSet(candidates))
<1> DEFINE tokens == requirement.tokens
           best == BestAtom(tokens, candidates)
           E == ToSet(candidates)
           match == RequirementMatch(requirement, candidates)
<1>1. E \subseteq Atoms /\ (candidates = <<>> => E = {}) /\ (candidates # <<>> => E # {})
  <2>1. DOMAIN candidates = 1 .. Len(candidates) /\ \A i \in 1 .. Len(candidates) : candidates[i] \in Atoms
    OBVIOUS
  <2>2. candidates # <<>> => 1 \in 1 .. Len(candidates)
    BY EmptySeq
  <2> QED BY <2>1, <2>2 DEF ToSet
<1>2. /\ candidates = <<>> => best = NoAtom
      /\ candidates # <<>> => IsFirst(tokens, E, best)
  BY BestAtomIs
<1>3. \A a \in Atoms : a \in Nat /\ a # NoAtom /\ Overlap(tokens, a) \in Nat
  BY MatcherAssumption, OverlapType DEF NoAtom
<1>4. IF IsMatch(tokens, best)
      THEN match = [text |-> requirement.text, matched |-> TRUE, score |-> "Positive", atom |-> best,
                    evidence |-> tokens \cap AtomTokens[best]]
      ELSE match = [text |-> requirement.text, matched |-> FALSE, score |-> "Zero", atom |-> NoAtom,
                    evidence |-> {}]
  BY DEF RequirementMatch
<1>5. \A a \in Atoms : Overlap(tokens, a) > 0 => tokens # {} /\ tokens \cap AtomTokens[a] # {}
  <2> SUFFICES ASSUME NEW a \in Atoms, Overlap(tokens, a) > 0
               PROVE  tokens # {} /\ tokens \cap AtomTokens[a] # {}
    OBVIOUS
  <2>1. Cardinality({}) = 0
    BY FS_EmptySet
  <2>2. tokens \cap AtomTokens[a] = {} => Overlap(tokens, a) = 0
    BY <2>1, Zenon DEF Overlap
  <2>3. tokens \cap AtomTokens[a] # {}
    BY <2>2
  <2> QED BY <2>3, Zenon
<1> HIDE DEF best, E, match
<1>6. CASE IsMatch(tokens, best)
  <2>1. Overlap(tokens, best) > 0 /\ best # NoAtom
    BY <1>6 DEF IsMatch
  <2>2. IsFirst(tokens, E, best)
    BY <1>2, <2>1
  <2>3. best \in E /\ best \in Atoms
    BY <1>1, <2>2 DEF IsFirst
  <2>4. /\ match.matched = TRUE /\ match.score = "Positive" /\ match.atom = best
        /\ match.evidence = tokens \cap AtomTokens[best] /\ match.text = requirement.text
    BY <1>4, <1>6
  <2>5. IsSound(match)
    BY <1>5, <2>1, <2>3, <2>4 DEF IsSound
  <2>6. IsBestMatch(requirement, match, E)
    BY <2>1, <2>2, <2>3, <2>4 DEF IsBestMatch, IsFirst, Beats
  <2> QED BY <2>4, <2>5, <2>6 DEF match, E
<1>7. CASE ~IsMatch(tokens, best)
  <2>1. /\ match.matched = FALSE /\ match.score = "Zero" /\ match.atom = NoAtom
        /\ match.evidence = {} /\ match.text = requirement.text
    BY <1>4, <1>7
  <2>2. IsSound(match)
    BY <2>1 DEF IsSound
  <2>3. \A a \in E : ~(Overlap(tokens, a) > 0)
    <3> SUFFICES ASSUME NEW a \in E, Overlap(tokens, a) > 0 PROVE FALSE
      OBVIOUS
    <3>1. IsFirst(tokens, E, best)
      BY <1>1, <1>2
    <3>2. best \in E /\ best \in Atoms /\ a \in Atoms /\ (a = best \/ Beats(tokens, best, a))
      BY <1>1, <3>1 DEF IsFirst
    <3>3. Overlap(tokens, best) > 0
      BY <1>3, <3>2 DEF Beats
    <3> QED BY <1>3, <1>5, <1>7, <3>2, <3>3 DEF IsMatch
  <2>4. IsBestMatch(requirement, match, E)
    BY <2>1, <2>3 DEF IsBestMatch
  <2> QED BY <2>1, <2>2, <2>4 DEF match, E
<1> QED BY <1>6, <1>7

\* A report of the matcher for these inputs.
IsReport(report, strategy, requirements, given, hits) ==
  LET eligible == {a \in Atoms : Eligible(strategy, requirements, given, hits, a)}
  IN  /\ IsList(report.matches)
      /\ DOMAIN report.matches = DOMAIN requirements
      /\ \A i \in DOMAIN requirements :
           /\ IsSound(report.matches[i])
           /\ report.matches[i].text = requirements[i].text
           /\ IsBestMatch(requirements[i], report.matches[i], eligible)
      /\ report.score = IF \E m \in ToSet(report.matches) : m.matched THEN "Positive" ELSE "Zero"

LEMMA EvaluateIs ==
  ASSUME NEW given \in Given, NEW strategy, NEW requirements, IsList(requirements), NEW hits
  PROVE  IsReport(Evaluate(strategy, requirements, given, hits), strategy, requirements, given, hits)
<1> DEFINE candidates == Candidates(strategy, requirements, given, hits)
           matches == [i \in DOMAIN requirements |-> RequirementMatch(requirements[i], candidates)]
           report == Evaluate(strategy, requirements, given, hits)
<1>1. /\ candidates \in Seq(Atoms)
      /\ ToSet(candidates) = {a \in Atoms : Eligible(strategy, requirements, given, hits, a)}
  BY CandidatesAre
<1>2. /\ report.matches = matches
      /\ report.score = IF \E m \in ToSet(matches) : m.matched THEN "Positive" ELSE "Zero"
  BY DEF Evaluate
<1> HIDE DEF candidates, report
<1>3. DOMAIN matches = DOMAIN requirements
  OBVIOUS
<1>4. ASSUME NEW i \in DOMAIN requirements
      PROVE  /\ IsSound(matches[i])
             /\ matches[i].text = requirements[i].text
             /\ IsBestMatch(requirements[i], matches[i], ToSet(candidates))
  BY <1>1, RequirementMatchIs
<1>5. IsList(matches)
  <2>1. DOMAIN requirements = 1 .. Len(requirements) /\ Len(requirements) \in Nat
    BY DEF IsList
  <2>2. \A i \in 1 .. Len(requirements) : matches[i] \in ToSet(matches)
    BY <1>3, <2>1 DEF ToSet
  <2>3. matches = [i \in 1 .. Len(requirements) |-> matches[i]]
    BY <2>1
  <2> HIDE DEF matches
  <2>4. matches \in Seq(ToSet(matches))
    BY <2>1, <2>2, <2>3, IsASeq
  <2> QED BY <2>4 DEF IsList
<1> HIDE DEF matches
<1>6. IsReport(report, strategy, requirements, given, hits)
  BY <1>1, <1>2, <1>3, <1>4, <1>5 DEF IsReport
<1> QED BY <1>6 DEF report

-----------------------------------------------------------------------------
(***************************************************************************)
(* Findings.                                                               *)
(***************************************************************************)
LEMMA JoinedHas ==
  \A S : \A s, t \in Seq(S) : s \o t \in Seq(S) /\ ToSet(s \o t) = ToSet(s) \cup ToSet(t)
<1> SUFFICES ASSUME NEW S, NEW s \in Seq(S), NEW t \in Seq(S)
             PROVE  s \o t \in Seq(S) /\ ToSet(s \o t) = ToSet(s) \cup ToSet(t)
  OBVIOUS
<1> DEFINE u == s \o t
           M == Len(s)
           N == Len(t)
<1>1. /\ M \in Nat /\ N \in Nat /\ DOMAIN s = 1 .. M /\ DOMAIN t = 1 .. N
      /\ u \in Seq(S) /\ DOMAIN u = 1 .. M + N
      /\ \A i \in 1 .. M + N : u[i] = IF i <= M THEN s[i] ELSE t[i - M]
  BY ConcatProperties
<1> HIDE DEF u, M, N
<1>2. ASSUME NEW i \in 1 .. M + N PROVE u[i] \in ToSet(s) \cup ToSet(t)
  <2>1. i <= M => i \in DOMAIN s
    BY <1>1
  <2>2. ~(i <= M) => i - M \in DOMAIN t
    BY <1>1
  <2> QED BY <1>1, <2>1, <2>2 DEF ToSet
<1>3. ASSUME NEW i \in 1 .. M PROVE s[i] \in ToSet(u)
  <2>1. i \in 1 .. M + N /\ u[i] = s[i]
    BY <1>1
  <2> QED BY <1>1, <2>1 DEF ToSet
<1>4. ASSUME NEW i \in 1 .. N PROVE t[i] \in ToSet(u)
  <2>1. i + M \in 1 .. M + N /\ u[i + M] = t[i]
    BY <1>1
  <2> QED BY <1>1, <2>1 DEF ToSet
<1>5. ToSet(u) = ToSet(s) \cup ToSet(t)
  <2>1. \A x : x \in ToSet(u) <=> \E i \in 1 .. M + N : u[i] = x
    BY <1>1 DEF ToSet
  <2>2. \A x : x \in ToSet(s) <=> \E i \in 1 .. M : s[i] = x
    BY <1>1 DEF ToSet
  <2>3. \A x : x \in ToSet(t) <=> \E i \in 1 .. N : t[i] = x
    BY <1>1 DEF ToSet
  <2> QED BY <1>2, <1>3, <1>4, <2>1, <2>2, <2>3
<1> QED BY <1>1, <1>5 DEF u

IsFlat(flat, seqs, N) ==
  flat = [i \in 1 .. N |-> IF i = 1 THEN seqs[i] ELSE flat[i - 1] \o seqs[i]]

LEMMA FlatExists ==
  ASSUME NEW seqs, NEW N \in Nat
  PROVE  \E flat : IsFlat(flat, seqs, N)
<1> DEFINE Bad == {k \in Nat : ~ \E flat : IsFlat(flat, seqs, k)}
<1>1. SUFFICES ASSUME Bad # {} PROVE FALSE
  OBVIOUS
<1>2. PICK k \in Bad : \A j \in Bad : k <= j
  BY <1>1, NatHasLeast
<1>3. k # 0
  <2>1. IsFlat([i \in 1 .. 0 |-> <<>>], seqs, 0)
    BY DEF IsFlat
  <2> QED BY <2>1
<1>4. PICK flat : IsFlat(flat, seqs, k - 1)
  <2>1. k - 1 \in Nat /\ ~(k <= k - 1)
    BY <1>3
  <2>2. k - 1 \notin Bad
    BY <1>2, <2>1
  <2> QED BY <2>1, <2>2
<1> DEFINE more == [i \in 1 .. k |-> IF i = 1 THEN seqs[i] ELSE flat[i - 1] \o seqs[i]]
<1>5. ASSUME NEW i \in 1 .. k - 1 PROVE more[i] = flat[i]
  <2>1. i \in 1 .. k
    BY <1>3
  <2>2. more[i] = (IF i = 1 THEN seqs[i] ELSE flat[i - 1] \o seqs[i])
    BY <2>1
  <2>3. flat[i] = (IF i = 1 THEN seqs[i] ELSE flat[i - 1] \o seqs[i])
    BY <1>4 DEF IsFlat
  <2> QED BY <2>2, <2>3
<1>6. IsFlat(more, seqs, k)
  <2>1. ASSUME NEW i \in 1 .. k, i # 1 PROVE more[i - 1] = flat[i - 1]
    <3>1. i - 1 \in 1 .. k - 1
      BY <2>1
    <3> QED BY <3>1, <1>5
  <2> QED BY <2>1 DEF IsFlat
<1> QED BY <1>2, <1>6

LEMMA FlattenHas ==
  ASSUME NEW S, NEW seqs \in Seq(Seq(S))
  PROVE  /\ FlattenSeq(seqs) \in Seq(S)
         /\ \A x : x \in ToSet(FlattenSeq(seqs)) <=> \E i \in DOMAIN seqs : x \in ToSet(seqs[i])
<1> DEFINE N == Len(seqs)
<1>1. N \in Nat /\ DOMAIN seqs = 1 .. N /\ \A i \in 1 .. N : seqs[i] \in Seq(S)
  OBVIOUS
<1>2. CASE N = 0
  <2>1. FlattenSeq(seqs) = <<>>
    BY <1>2 DEF FlattenSeq
  <2>2. ToSet(<<>>) = {}
    BY DEF ToSet
  <2> QED BY <1>1, <1>2, <2>1, <2>2
<1>3. CASE N # 0
  <2> DEFINE flat[i \in 1 .. Len(seqs)] == IF i = 1 THEN seqs[i] ELSE flat[i - 1] \o seqs[i]
             IsGood(k) == /\ flat[k] \in Seq(S)
                          /\ \A x : x \in ToSet(flat[k]) <=> \E i \in 1 .. k : x \in ToSet(seqs[i])
             Bad == {k \in Nat : k \in 1 .. N /\ ~IsGood(k)}
  <2>1. FlattenSeq(seqs) = flat[N]
    BY <1>3, Zenon DEF FlattenSeq
  <2>2. ASSUME NEW j \in 1 .. N
        PROVE  flat[j] = IF j = 1 THEN seqs[j] ELSE flat[j - 1] \o seqs[j]
    <3>1. \E f : f = [i \in 1 .. Len(seqs) |-> IF i = 1 THEN seqs[i] ELSE f[i - 1] \o seqs[i]]
      <4>1. \E f : IsFlat(f, seqs, Len(seqs))
        BY <1>1, FlatExists
      <4> QED BY <4>1, Zenon DEF IsFlat
    <3>2. flat = [i \in 1 .. Len(seqs) |-> IF i = 1 THEN seqs[i] ELSE flat[i - 1] \o seqs[i]]
      BY <3>1, Zenon
    <3> HIDE DEF flat
    <3> QED BY <3>2
  <2> HIDE DEF flat, N
  <2>3. IsGood(1)
    <3>1. flat[1] = seqs[1] /\ 1 \in 1 .. N
      BY <1>1, <1>3, <2>2
    <3> QED BY <1>1, <3>1
  <2>4. ASSUME NEW k \in 1 .. N, k # 1, IsGood(k - 1) PROVE IsGood(k)
    <3>1. flat[k] = flat[k - 1] \o seqs[k] /\ seqs[k] \in Seq(S)
      BY <1>1, <2>2, <2>4
    <3>2. flat[k] \in Seq(S) /\ ToSet(flat[k]) = ToSet(flat[k - 1]) \cup ToSet(seqs[k])
      BY <2>4, <3>1, JoinedHas
    <3>3. \A i : i \in 1 .. k <=> i \in 1 .. k - 1 \/ i = k
      BY <1>1
    <3> QED BY <2>4, <3>2, <3>3
  <2>5. Bad = {}
    <3>1. SUFFICES ASSUME Bad # {} PROVE FALSE
      OBVIOUS
    <3> HIDE DEF IsGood
    <3>2. PICK k \in Bad : \A j \in Bad : k <= j
      BY <3>1, NatHasLeast
    <3>3. k \in Nat /\ k \in 1 .. N /\ ~IsGood(k)
      OBVIOUS
    <3>4. k - 1 \in Nat /\ k - 1 \in 1 .. N /\ ~(k <= k - 1)
      BY <1>1, <2>3, <3>3
    <3>5. k - 1 \notin Bad
      BY <3>2, <3>4
    <3> QED BY <2>3, <2>4, <3>3, <3>4, <3>5
  <2>6. N \in Nat /\ N \in 1 .. N
    BY <1>1, <1>3
  <2>7. IsGood(N)
    BY <2>5, <2>6
  <2> QED BY <1>1, <2>1, <2>7
<1> QED BY <1>2, <1>3

Kinds == {SchemaBlock, EvidenceFail, ScoreWarning}

LEMMA KindsDiffer ==
  /\ SchemaBlock.severity = "Block" /\ SchemaBlock.rule = "SCHEMA-001"
  /\ EvidenceFail.severity = "Fail" /\ EvidenceFail.rule = "EVID-001"
  /\ ScoreWarning.severity = "Warn" /\ ScoreWarning.rule = "SCORE-001"
  /\ \A rule, severity : Finding(rule, severity) = SchemaBlock <=> rule = "SCHEMA-001" /\ severity = "Block"
BY DEF SchemaBlock, EvidenceFail, ScoreWarning, Finding

LEMMA RanksAre ==
  \A f \in Kinds : Severity(f) \in Nat /\ Rank(RuleIds, f.rule) \in Nat
<1>1. DOMAIN Severities = 1 .. 4 /\ Severities[2] = "Warn" /\ Severities[3] = "Fail" /\ Severities[4] = "Block"
  BY DEF Severities
<1>2. DOMAIN RuleIds = 1 .. 3 /\ RuleIds[1] = "EVID-001" /\ RuleIds[2] = "SCHEMA-001" /\ RuleIds[3] = "SCORE-001"
  BY DEF RuleIds
<1>3. ASSUME NEW f \in Kinds
      PROVE  (\E i \in 1 .. 4 : Severities[i] = f.severity) /\ (\E i \in 1 .. 3 : RuleIds[i] = f.rule)
  BY <1>1, <1>2, KindsDiffer DEF Kinds
<1>4. \A f \in Kinds : Severity(f) \in 1 .. 4
  BY <1>1, <1>3 DEF Severity, Rank
<1>5. \A f \in Kinds : Rank(RuleIds, f.rule) \in 1 .. 3
  BY <1>2, <1>3 DEF Rank
<1> QED BY <1>4, <1>5

LEMMA GraverOrders ==
  ASSUME NEW found \in Seq(Kinds)
  PROVE  Orders(Graver(ToSet(found)), found, DOMAIN found)
<1> DEFINE G == Graver(ToSet(found))
           w(i) == Severity(found[i])
           v(i) == Rank(RuleIds, found[i].rule)
<1>1. \A i \in DOMAIN found : found[i] \in Kinds /\ found[i] \in ToSet(found)
  BY DEF ToSet
<1>2. \A i \in DOMAIN found : w(i) \in Nat /\ v(i) \in Nat
  BY <1>1, RanksAre
<1>3. \A i, j \in DOMAIN found :
        <<found[i], found[j]>> \in G <=> w(i) > w(j) \/ (w(i) = w(j) /\ v(i) < v(j))
  BY <1>1 DEF Graver
<1> HIDE DEF G, w, v
<1> DEFINE D == DOMAIN found
<1>4. \A i, j, k \in D : w(i) \in Nat /\ w(j) \in Nat /\ w(k) \in Nat /\ v(i) \in Nat /\ v(j) \in Nat /\ v(k) \in Nat
  BY <1>2
<1> HIDE DEF D
<1>5. \A i, j \in D : <<found[i], found[j]>> \in G <=> w(i) > w(j) \/ (w(i) = w(j) /\ v(i) < v(j))
  BY <1>3 DEF D
<1>6. Orders(G, found, D)
  BY <1>4, <1>5 DEF Orders
<1> QED BY <1>6 DEF G, D

LEMMA WhenIs ==
  ASSUME NEW condition \in BOOLEAN, NEW f \in Kinds
  PROVE  /\ When(condition, f) \in Seq(Kinds)
         /\ \A x : x \in ToSet(When(condition, f)) <=> condition /\ x = f
<1>1. <<>> \in Seq(Kinds) /\ <<f>> \in Seq(Kinds)
  OBVIOUS
<1>2. \A x : x \notin ToSet(<<>>)
  BY DEF ToSet
<1>3. \A x : x \in ToSet(<<f>>) <=> x = f
  BY DEF ToSet
<1>4. CASE condition
  BY <1>1, <1>3, <1>4 DEF When
<1>5. CASE ~condition
  BY <1>1, <1>2, <1>5 DEF When
<1> QED BY <1>4, <1>5

IsMalformed(m) == m.text = "Empty" \/ m.score = "Negative" \/ m.matched # HasAtom(m)
IsUnfounded(m) == m.matched = TRUE /\ (~HasAtom(m) \/ m.evidence = {})

LEMMA PartsAre ==
  ASSUME NEW m, m.matched \in BOOLEAN
  PROVE  /\ Malformed(m) \in Seq(Kinds) /\ Unfounded(m) \in Seq(Kinds)
         /\ \A x : x \in ToSet(Malformed(m)) <=> IsMalformed(m) /\ x = SchemaBlock
         /\ \A x : x \in ToSet(Unfounded(m)) <=> IsUnfounded(m) /\ x = EvidenceFail
<1>1. SchemaBlock \in Kinds /\ EvidenceFail \in Kinds
  BY DEF Kinds
<1>2. \A c \in BOOLEAN : /\ When(c, SchemaBlock) \in Seq(Kinds)
                         /\ \A x : x \in ToSet(When(c, SchemaBlock)) <=> c /\ x = SchemaBlock
  BY <1>1, WhenIs
<1>3. \A c \in BOOLEAN : /\ When(c, EvidenceFail) \in Seq(Kinds)
                         /\ \A x : x \in ToSet(When(c, EvidenceFail)) <=> c /\ x = EvidenceFail
  BY <1>1, WhenIs
<1> DEFINE a == m.text = "Empty"
           b == m.score = "Negative"
           c == m.matched # HasAtom(m)
           d == m.matched /\ ~HasAtom(m)
           e == m.matched /\ m.evidence = {}
<1>4. a \in BOOLEAN /\ b \in BOOLEAN /\ c \in BOOLEAN /\ d \in BOOLEAN /\ e \in BOOLEAN
  OBVIOUS
<1>5. Malformed(m) = When(a, SchemaBlock) \o When(b, SchemaBlock) \o When(c, SchemaBlock)
  BY Zenon DEF Malformed
<1>6. Unfounded(m) = When(d, EvidenceFail) \o When(e, EvidenceFail)
  BY Zenon DEF Unfounded
<1>7. (IsMalformed(m) <=> a \/ b \/ c) /\ (IsUnfounded(m) <=> d \/ e)
  BY DEF IsMalformed, IsUnfounded
<1> HIDE DEF a, b, c, d, e
<1>8. /\ Malformed(m) \in Seq(Kinds)
      /\ ToSet(Malformed(m)) = (ToSet(When(a, SchemaBlock)) \cup ToSet(When(b, SchemaBlock))) \cup ToSet(When(c, SchemaBlock))
  <2> DEFINE ab == When(a, SchemaBlock) \o When(b, SchemaBlock)
  <2>1. /\ ab \in Seq(Kinds)
        /\ ToSet(ab) = ToSet(When(a, SchemaBlock)) \cup ToSet(When(b, SchemaBlock))
    BY <1>2, <1>4, JoinedHas
  <2>2. When(c, SchemaBlock) \in Seq(Kinds)
    BY <1>2, <1>4
  <2>3. Malformed(m) = ab \o When(c, SchemaBlock)
    BY <1>5
  <2> HIDE DEF ab
  <2> QED BY <2>1, <2>2, <2>3, JoinedHas
<1>9. /\ Unfounded(m) \in Seq(Kinds)
      /\ ToSet(Unfounded(m)) = ToSet(When(d, EvidenceFail)) \cup ToSet(When(e, EvidenceFail))
  BY <1>3, <1>4, <1>6, JoinedHas
<1> QED BY <1>2, <1>3, <1>4, <1>7, <1>8, <1>9

\* A report the rules can read.
IsReadable(report) ==
  IsList(report.matches) /\ \A m \in ToSet(report.matches) : m.matched \in BOOLEAN

Artifact(id, report) == [id |-> id, type |-> "MatchReport", report |-> report]

Blocks(report) == report.score = "Negative" \/ \E m \in ToSet(report.matches) : IsMalformed(m)
Fails(report) == \E m \in ToSet(report.matches) : IsUnfounded(m)
Warns(report) == report.score = "Zero" /\ report.matches # <<>>

LEMMA PerMatchHas ==
  ASSUME NEW report, IsReadable(report)
  PROVE  /\ PerMatch(report, Malformed) \in Seq(Kinds)
         /\ PerMatch(report, Unfounded) \in Seq(Kinds)
         /\ \A x : x \in ToSet(PerMatch(report, Malformed)) <=>
              x = SchemaBlock /\ \E m \in ToSet(report.matches) : IsMalformed(m)
         /\ \A x : x \in ToSet(PerMatch(report, Unfounded)) <=>
              x = EvidenceFail /\ \E m \in ToSet(report.matches) : IsUnfounded(m)
<1> DEFINE ms == report.matches
           N == Len(ms)
           bad == [i \in 1 .. N |-> Malformed(ms[i])]
           bare == [i \in 1 .. N |-> Unfounded(ms[i])]
<1>1. N \in Nat /\ DOMAIN ms = 1 .. N
  BY DEF IsReadable, IsList
<1>2. \A m : m \in ToSet(ms) <=> \E i \in 1 .. N : ms[i] = m
  BY <1>1 DEF ToSet
<1>3. \A i \in 1 .. N : ms[i].matched \in BOOLEAN
  BY <1>2 DEF IsReadable
<1>4. PerMatch(report, Malformed) = FlattenSeq(bad) /\ PerMatch(report, Unfounded) = FlattenSeq(bare)
  BY DEF PerMatch
<1> HIDE DEF ms, N
<1>5. ASSUME NEW i \in 1 .. N
      PROVE  /\ Malformed(ms[i]) \in Seq(Kinds) /\ Unfounded(ms[i]) \in Seq(Kinds)
             /\ \A x : x \in ToSet(Malformed(ms[i])) <=> IsMalformed(ms[i]) /\ x = SchemaBlock
             /\ \A x : x \in ToSet(Unfounded(ms[i])) <=> IsUnfounded(ms[i]) /\ x = EvidenceFail
  BY <1>3, PartsAre
<1>6. bad \in Seq(Seq(Kinds)) /\ bare \in Seq(Seq(Kinds)) /\ DOMAIN bad = 1 .. N /\ DOMAIN bare = 1 .. N
  BY <1>1, <1>5
<1>7. (\A i \in 1 .. N : bad[i] = Malformed(ms[i])) /\ \A i \in 1 .. N : bare[i] = Unfounded(ms[i])
  OBVIOUS
<1> HIDE DEF bad, bare
<1>8. FlattenSeq(bad) \in Seq(Kinds) /\ FlattenSeq(bare) \in Seq(Kinds)
  BY <1>6, FlattenHas
<1>9. \A x : x \in ToSet(FlattenSeq(bad)) <=> \E i \in 1 .. N : x \in ToSet(bad[i])
  BY <1>6, FlattenHas
<1>10. \A x : x \in ToSet(FlattenSeq(bare)) <=> \E i \in 1 .. N : x \in ToSet(bare[i])
  BY <1>6, FlattenHas
<1>11. \A x : x \in ToSet(FlattenSeq(bad)) <=> x = SchemaBlock /\ \E m \in ToSet(ms) : IsMalformed(m)
  <2>1. \A x : \A i \in 1 .. N : x \in ToSet(bad[i]) <=> IsMalformed(ms[i]) /\ x = SchemaBlock
    <3> SUFFICES ASSUME NEW x, NEW i \in 1 .. N
                 PROVE  x \in ToSet(bad[i]) <=> IsMalformed(ms[i]) /\ x = SchemaBlock
      OBVIOUS
    <3>1. bad[i] = Malformed(ms[i])
      BY <1>7
    <3>2. \A y : y \in ToSet(Malformed(ms[i])) <=> IsMalformed(ms[i]) /\ y = SchemaBlock
      BY <1>5
    <3>3. x \in ToSet(Malformed(ms[i])) <=> IsMalformed(ms[i]) /\ x = SchemaBlock
      BY <3>2, Zenon
    <3> QED BY <3>1, <3>3, Zenon
  <2>2. ASSUME NEW m \in ToSet(ms), IsMalformed(m) PROVE \E i \in 1 .. N : IsMalformed(ms[i])
    <3>1. PICK i \in 1 .. N : ms[i] = m
      BY <1>2
    <3> QED BY <2>2, <3>1, Zenon
  <2>3. \A i \in 1 .. N : ms[i] \in ToSet(ms)
    BY <1>2
  <2> QED BY <1>9, <2>1, <2>2, <2>3, Zenon
<1>12. \A x : x \in ToSet(FlattenSeq(bare)) <=> x = EvidenceFail /\ \E m \in ToSet(ms) : IsUnfounded(m)
  <2>1. \A x : \A i \in 1 .. N : x \in ToSet(bare[i]) <=> IsUnfounded(ms[i]) /\ x = EvidenceFail
    <3> SUFFICES ASSUME NEW x, NEW i \in 1 .. N
                 PROVE  x \in ToSet(bare[i]) <=> IsUnfounded(ms[i]) /\ x = EvidenceFail
      OBVIOUS
    <3>1. bare[i] = Unfounded(ms[i])
      BY <1>7
    <3>2. \A y : y \in ToSet(Unfounded(ms[i])) <=> IsUnfounded(ms[i]) /\ y = EvidenceFail
      BY <1>5
    <3>3. x \in ToSet(Unfounded(ms[i])) <=> IsUnfounded(ms[i]) /\ x = EvidenceFail
      BY <3>2, Zenon
    <3> QED BY <3>1, <3>3, Zenon
  <2>2. ASSUME NEW m \in ToSet(ms), IsUnfounded(m) PROVE \E i \in 1 .. N : IsUnfounded(ms[i])
    <3>1. PICK i \in 1 .. N : ms[i] = m
      BY <1>2
    <3> QED BY <2>2, <3>1, Zenon
  <2>3. \A i \in 1 .. N : ms[i] \in ToSet(ms)
    BY <1>2
  <2> QED BY <1>10, <2>1, <2>2, <2>3, Zenon
<1> QED BY <1>4, <1>8, <1>11, <1>12 DEF ms

LEMMA FindingsAre ==
  ASSUME NEW id, NEW report, IsReadable(report)
  PROVE  /\ Findings(Artifact(id, report)) \in Seq(Kinds)
         /\ SchemaBlock \in ToSet(Findings(Artifact(id, report))) <=> Blocks(report)
         /\ EvidenceFail \in ToSet(Findings(Artifact(id, report))) <=> Fails(report)
         /\ ScoreWarning \in ToSet(Findings(Artifact(id, report))) <=> Warns(report)
<1> DEFINE artifact == Artifact(id, report)
           schema == Schema001(artifact)
           evid == Evid001(artifact)
           score == Score001(artifact)
           negative == When(report.score = "Negative", SchemaBlock)
           found == schema \o evid \o score
           findings == Findings(artifact)
<1>1. artifact.type = "MatchReport" /\ artifact.report = report
  BY DEF Artifact
<1>2. SchemaBlock \in Kinds /\ EvidenceFail \in Kinds /\ ScoreWarning \in Kinds
  BY DEF Kinds
<1>3. /\ schema = negative \o PerMatch(report, Malformed)
      /\ evid = PerMatch(report, Unfounded)
  BY <1>1 DEF Schema001, Evid001
<1>4. score \in Seq(Kinds) /\ \A x : x \in ToSet(score) <=> Warns(report) /\ x = ScoreWarning
  <2> DEFINE c == artifact.type = "MatchReport" /\ artifact.report.score = "Zero" /\ artifact.report.matches # <<>>
  <2>1. score = When(c, ScoreWarning)
    BY Zenon DEF Score001
  <2>2. c \in BOOLEAN /\ (c <=> Warns(report))
    BY <1>1 DEF Warns
  <2> HIDE DEF c
  <2> QED BY <1>2, <2>1, <2>2, WhenIs
<1>5. negative \in Seq(Kinds) /\ \A x : x \in ToSet(negative) <=> report.score = "Negative" /\ x = SchemaBlock
  <2> DEFINE c == report.score = "Negative"
  <2>1. c \in BOOLEAN
    OBVIOUS
  <2>2. negative = When(c, SchemaBlock)
    BY Zenon
  <2> HIDE DEF negative, c
  <2> QED BY <1>2, <2>1, <2>2, WhenIs DEF c
<1> HIDE DEF negative, schema, evid, score, artifact
<1>6. schema \in Seq(Kinds) /\ ToSet(schema) = ToSet(negative) \cup ToSet(PerMatch(report, Malformed))
  BY <1>3, <1>5, PerMatchHas, JoinedHas
<1>7. evid \in Seq(Kinds)
  BY <1>3, PerMatchHas
<1>8. found \in Seq(Kinds) /\ ToSet(found) = (ToSet(schema) \cup ToSet(evid)) \cup ToSet(score)
  <2> DEFINE first == schema \o evid
  <2>1. first \in Seq(Kinds) /\ ToSet(first) = ToSet(schema) \cup ToSet(evid)
    BY <1>6, <1>7, JoinedHas
  <2>2. found = first \o score
    OBVIOUS
  <2> HIDE DEF first, found
  <2> QED BY <1>4, <2>1, <2>2, JoinedHas
<1>9. findings = Arranged(found, DOMAIN found, Graver(ToSet(found)))
  BY DEF Findings, found, schema, evid, score
<1> HIDE DEF found, findings
<1>10. ToSet(findings) = ToSet(found) /\ findings \in Seq(ToSet(found))
  <2>1. {found[i] : i \in DOMAIN found} = ToSet(found)
    BY DEF ToSet
  <2>2. DOMAIN found \subseteq Nat /\ IsFiniteSet(DOMAIN found)
    <3>1. DOMAIN found = 1 .. Len(found) /\ Len(found) \in Nat
      BY <1>8
    <3> QED BY <3>1, FS_Interval
  <2>3. Orders(Graver(ToSet(found)), found, DOMAIN found)
    BY <1>8, GraverOrders
  <2> QED BY <1>9, <2>1, <2>2, <2>3, ArrangedHas
<1>11. findings \in Seq(Kinds)
  <2>1. ToSet(found) \subseteq Kinds
    BY <1>8 DEF ToSet
  <2> QED BY <1>10, <2>1, SeqMonotonic
<1>12. SchemaBlock # EvidenceFail /\ SchemaBlock # ScoreWarning /\ EvidenceFail # ScoreWarning
  BY KindsDiffer
<1>13. /\ SchemaBlock \in ToSet(findings) <=> Blocks(report)
       /\ EvidenceFail \in ToSet(findings) <=> Fails(report)
       /\ ScoreWarning \in ToSet(findings) <=> Warns(report)
  <2>1. \A x : x \in ToSet(findings) <=>
          \/ x = SchemaBlock /\ Blocks(report)
          \/ x = EvidenceFail /\ Fails(report)
          \/ x = ScoreWarning /\ Warns(report)
    BY <1>3, <1>4, <1>5, <1>6, <1>8, <1>10, PerMatchHas DEF Blocks, Fails
  <2> QED BY <1>12, <2>1
<1> QED BY <1>11, <1>13 DEF findings, artifact

\* What a validation says: the status of what was found, and the override.
LEMMA ValidateIs ==
  ASSUME NEW id, NEW report, IsReadable(report), NEW override
  PROVE  LET validation == Validate(Artifact(id, report), override)
         IN  /\ validation.findings = Findings(Artifact(id, report))
             /\ validation.status \in Statuses
             /\ validation.status = "rejected" <=> ~Blocks(report) /\ Fails(report)
             /\ validation.status = "needs_review" <=> ~Blocks(report) /\ ~Fails(report) /\ Warns(report)
             /\ validation.status = "accepted" <=> ~Blocks(report) /\ ~Fails(report) /\ ~Warns(report)
             /\ validation.status \in {"blocked", "overridden"} <=> Blocks(report)
             /\ validation.status = "overridden" => override.rule = "SCHEMA-001"
<1> DEFINE artifact == Artifact(id, report)
           findings == Findings(artifact)
           validation == Validate(artifact, override)
           Found(severity) == \E f \in ToSet(findings) : f.severity = severity
<1>1. /\ findings \in Seq(Kinds)
      /\ SchemaBlock \in ToSet(findings) <=> Blocks(report)
      /\ EvidenceFail \in ToSet(findings) <=> Fails(report)
      /\ ScoreWarning \in ToSet(findings) <=> Warns(report)
  BY FindingsAre
<1>2. ToSet(findings) \subseteq Kinds
  BY <1>1 DEF ToSet
<1> HIDE DEF findings
<1>3. /\ Found("Block") <=> SchemaBlock \in ToSet(findings)
      /\ Found("Fail") <=> EvidenceFail \in ToSet(findings)
      /\ Found("Warn") <=> ScoreWarning \in ToSet(findings)
  BY <1>2, KindsDiffer DEF Kinds
<1>4. Status(findings) = IF Found("Block") THEN "blocked"
                         ELSE IF Found("Fail") THEN "rejected"
                         ELSE IF Found("Warn") THEN "needs_review"
                         ELSE "accepted"
  BY DEF Status
<1> HIDE DEF Found
<1>5. /\ validation.findings = findings
      /\ validation.status = IF Status(findings) = "blocked" /\ Lifts(override, artifact, findings)
                             THEN "overridden" ELSE Status(findings)
  BY DEF Validate, findings
<1>6. Lifts(override, artifact, findings) => override.rule = "SCHEMA-001"
  <2>1. ASSUME Finding(override.rule, "Block") \in ToSet(findings) PROVE override.rule = "SCHEMA-001"
    <3>1. Finding(override.rule, "Block").severity = "Block" /\ Finding(override.rule, "Block").rule = override.rule
      BY DEF Finding
    <3>2. Finding(override.rule, "Block") \in Kinds
      BY <1>2, <2>1
    <3>3. Finding(override.rule, "Block") = SchemaBlock
      BY <3>1, <3>2, KindsDiffer DEF Kinds
    <3> QED BY <3>3, KindsDiffer
  <2> QED BY <2>1 DEF Lifts
<1> HIDE DEF validation, artifact
<1>7. CASE Blocks(report)
  <2>1. Status(findings) = "blocked"
    BY <1>1, <1>3, <1>4, <1>7
  <2>2. \/ validation.status = "blocked"
        \/ validation.status = "overridden" /\ override.rule = "SCHEMA-001"
    BY <1>5, <1>6, <2>1
  <2> QED BY <1>5, <1>7, <2>2 DEF Statuses, validation, artifact, findings
<1>8. CASE ~Blocks(report)
  <2>1. validation.status = IF Fails(report) THEN "rejected" ELSE IF Warns(report) THEN "needs_review" ELSE "accepted"
    <3>1. Status(findings) = IF Fails(report) THEN "rejected" ELSE IF Warns(report) THEN "needs_review" ELSE "accepted"
      BY <1>1, <1>3, <1>4, <1>8
    <3> QED BY <1>5, <3>1
  <2>2. CASE Fails(report)
    BY <1>5, <1>8, <2>1, <2>2 DEF Statuses, validation, artifact, findings
  <2>3. CASE ~Fails(report) /\ Warns(report)
    BY <1>5, <1>8, <2>1, <2>3 DEF Statuses, validation, artifact, findings
  <2>4. CASE ~Fails(report) /\ ~Warns(report)
    BY <1>5, <1>8, <2>1, <2>4 DEF Statuses, validation, artifact, findings
  <2> QED BY <2>2, <2>3, <2>4
<1> QED BY <1>7, <1>8

\* Only a match report that a caller made up is rejected.
LEMMA ReportIsReadable ==
  ASSUME NEW report, NEW strategy, NEW requirements, NEW given, NEW hits,
         IsReport(report, strategy, requirements, given, hits)
  PROVE  /\ IsReadable(report)
         /\ ~Fails(report)
         /\ Blocks(report) <=> \E m \in ToSet(report.matches) : m.text = "Empty"
         /\ ~Warns(report) => (\E m \in ToSet(report.matches) : m.matched) \/ report.matches = <<>>
<1>1. \A m \in ToSet(report.matches) : IsSound(m)
  BY DEF IsReport, ToSet
<1>2. report.score \in {"Positive", "Zero"}
      /\ (report.score = "Zero" <=> ~ \E m \in ToSet(report.matches) : m.matched)
  BY DEF IsReport
<1>3. IsReadable(report)
  BY <1>1 DEF IsReadable, IsReport, IsSound
<1>4. \A m \in ToSet(report.matches) : ~IsUnfounded(m) /\ (IsMalformed(m) <=> m.text = "Empty")
  BY <1>1 DEF IsSound, IsUnfounded, IsMalformed, HasAtom
<1>5. ~Fails(report) /\ (Blocks(report) <=> \E m \in ToSet(report.matches) : m.text = "Empty")
  BY <1>2, <1>4 DEF Fails, Blocks
<1>6. ~Warns(report) => (\E m \in ToSet(report.matches) : m.matched) \/ report.matches = <<>>
  BY <1>2 DEF Warns
<1> QED BY <1>3, <1>5, <1>6

\* Findings are failures or warnings, and some fail just when the status says so.
LEMMA CountsAddUp ==
  ASSUME NEW findings \in Seq(Kinds)
  PROVE  LET fails == Cardinality({i \in DOMAIN findings : IsFailure(findings[i])})
             warnings == Cardinality({i \in DOMAIN findings : findings[i].severity = "Warn"})
         IN  /\ Len(findings) = fails + warnings
             /\ fails > 0 <=> SchemaBlock \in ToSet(findings) \/ EvidenceFail \in ToSet(findings)
<1> DEFINE D == DOMAIN findings
           F == {i \in DOMAIN findings : IsFailure(findings[i])}
           W == {i \in DOMAIN findings : findings[i].severity = "Warn"}
<1>1. D = 1 .. Len(findings) /\ Len(findings) \in Nat /\ \A i \in D : findings[i] \in Kinds
  OBVIOUS
<1>2. IsFiniteSet(D) /\ Cardinality(D) = Len(findings)
  <2>1. \A n \in Nat : IsFiniteSet(1 .. n) /\ Cardinality(1 .. n) = n
    BY FS_Interval
  <2> QED BY ONLY <1>1, <2>1
<1>3. \A i \in D : /\ i \in F <=> findings[i] \in {SchemaBlock, EvidenceFail}
                   /\ i \in W <=> findings[i] = ScoreWarning
  BY <1>1, KindsDiffer DEF Kinds, IsFailure
<1>4. F \subseteq D /\ W \subseteq D
  OBVIOUS
<1>5. F \cup W = D /\ F \cap W = {}
  BY <1>1, <1>3, KindsDiffer DEF Kinds
<1> HIDE DEF F, W
<1>6. IsFiniteSet(F) /\ IsFiniteSet(W) /\ Cardinality(F) \in Nat /\ Cardinality(W) \in Nat
  BY <1>2, <1>4, FS_Subset, FS_CardinalityType
<1>7. Cardinality(D) = Cardinality(F) + Cardinality(W)
  <2>1. Cardinality(F \cup W) = Cardinality(F) + Cardinality(W) - Cardinality(F \cap W)
    BY <1>6, FS_Union
  <2>2. Cardinality(F \cap W) = 0
    BY <1>5, FS_EmptySet
  <2> QED BY <1>5, <1>6, <2>1, <2>2
<1>8. Cardinality(F) > 0 <=> F # {}
  BY <1>6, FS_EmptySet
<1>9. F # {} <=> SchemaBlock \in ToSet(findings) \/ EvidenceFail \in ToSet(findings)
  BY <1>3, <1>4 DEF ToSet
<1> QED BY <1>2, <1>7, <1>8, <1>9 DEF F, W

-----------------------------------------------------------------------------
(***************************************************************************)
(* The invariant.  What a runner knows fits the step it is at, and the     *)
(* trace of its run is the one that leads there; what was written before   *)
(* stays as it was.                                                        *)
(***************************************************************************)
Reading == {"Started", "Stored", "Resolved", "Ready"}
Concluded == {"Validated", "Cleared", "Completed", "Recorded"}

BoundOf(q) ==
  IF q.request.override = "None" THEN NoOverride
  ELSE [rule |-> q.request.override, boundTo |-> q.request.opp]

\* What is true of the data of a run of this kind.
Fits(q, kind) ==
  /\ DOMAIN q = DOMAIN Idle
  /\ q.phase \in {"Matched"} \cup Reading \cup Concluded
  /\ q.phase \in Reading => kind # "Check"
  /\ q.phase \in {"Completed", "Recorded"} => kind = "Tool"
  /\ q.phase \in {"Stored"} => kind = "Demo"
  /\ IsList(q.request.atoms) /\ IsList(q.requirements) /\ q.atoms \in Given
  /\ \A a, b \in ToSet(q.atoms) : a.id = b.id => a = b
  /\ q.request.atoms = All => \A a \in ToSet(q.atoms) : a.verified
  /\ IsReadable(q.report)
  /\ kind # "Check" =>
       IF q.phase \in Reading THEN q.report = NoReport
       ELSE IsReport(q.report, q.request.strategy, q.requirements, q.atoms, q.hits)
  /\ q.validation = IF q.phase \in Concluded
                    THEN Validate(Artifact(q.request.opp, q.report), BoundOf(q)) ELSE Nothing
  /\ q.phase = "Cleared" => q.validation.status = "overridden"

Start(kind) == Event(IF kind = "Tool" THEN "RunStarted" ELSE "DemoStarted", "None", 0)
MatchDone == Event("MatchCompleted", "None", 0)
Announced(q) ==
  Event("ValidationCompleted", StatusText(q.validation.status), Len(q.validation.findings))
Applied == Event("ConstitutionOverrideApplied", "None", 0)
RunDone == Event("RunCompleted", "None", 0)

\* The trace that leads to where a run is.
Validating(q, kind) ==
  IF kind = "Check" THEN <<Announced(q)>> ELSE <<Start(kind), MatchDone, Announced(q)>>

Trail(q, kind) ==
  IF q.phase \in Reading THEN <<Start(kind)>>
  ELSE IF q.phase = "Matched" THEN IF kind = "Check" THEN <<>> ELSE <<Start(kind), MatchDone>>
  ELSE IF q.phase = "Validated" THEN Validating(q, kind)
  ELSE IF q.phase = "Cleared" THEN Append(Validating(q, kind), Applied)
  ELSE IF q.validation.status = "overridden"
       THEN <<Start(kind), MatchDone, Announced(q), Applied, RunDone>>
       ELSE <<Start(kind), MatchDone, Announced(q), RunDone>>

RunFits(r) ==
  \/ run[r] = Idle
  \/ /\ Fits(run[r], KindOf[r])
     /\ run[r].number \in 1 .. begun
     /\ run[r].number \notin told
     /\ log[run[r].number] = Trail(run[r], KindOf[r])
     /\ run[r].phase = "Recorded" => decisions[run[r].number] # NoDecision \/ run[r].number \in lost

RunsFit == DOMAIN run = Runners /\ \A r \in Runners : RunFits(r)

\* Two runners never work on one run.
NumbersAreOwn ==
  \A r, s \in Runners : r # s /\ run[r] # Idle /\ run[s] # Idle => run[r].number # run[s].number

EventTypes ==
  {"RunStarted", "DemoStarted", "MatchCompleted", "ValidationCompleted",
   "ConstitutionOverrideApplied", "RunCompleted", "DecisionRecorded"}

Events == [type : EventTypes, status : {"None", "unknown"} \cup Statuses, count : Nat]

StoresFit ==
  /\ DOMAIN opps = Opps /\ \A opp \in Opps : IsList(opps[opp])
  /\ IsTable(verified)
  /\ begun \in 0 .. MaxRuns /\ faults \in 0 .. MaxFaults
  /\ log \in [Numbers -> Seq(Events)]
  /\ DOMAIN decisions = Numbers

\* Nothing is there yet of a run that did not begin.
FutureIsEmpty ==
  \A n \in Numbers : n > begun => log[n] = <<>> /\ decisions[n] = NoDecision /\ n \notin told \cup lost

\* The second half of OverridesAreEarned.
OverrideFollows(events) ==
  \A i \in DOMAIN events :
    events[i].type = "ConstitutionOverrideApplied" =>
      i > 1 /\ events[i - 1].type = "ValidationCompleted" /\ events[i - 1].status = "overridden"

\* The two halves of DecisionsAreTraced.
IsTraced(d, events) ==
  /\ d.status \in Statuses
  /\ \E e \in ToSet(events) : e.type = "RunCompleted"
  /\ \E e \in ToSet(events) : Announces(e, d)
  /\ d.findings = d.fails + d.warnings
  /\ (d.fails > 0) = (d.status \in {"rejected", "blocked", "overridden"})

TypesOf(events) == [i \in DOMAIN events |-> events[i].type]

FullTrails ==
  {<<"RunStarted", "MatchCompleted", "ValidationCompleted", "RunCompleted", "DecisionRecorded">>,
   <<"RunStarted", "MatchCompleted", "ValidationCompleted", "ConstitutionOverrideApplied",
     "RunCompleted", "DecisionRecorded">>}

HistoryFits ==
  \A n \in Numbers :
    /\ OverrideFollows(log[n])
    /\ decisions[n] # NoDecision => IsTraced(decisions[n], log[n])
    /\ n \in told => (decisions[n] # NoDecision \/ n \in lost) /\ TypesOf(log[n]) \in FullTrails

MatchInv == StoresFit /\ RunsFit /\ NumbersAreOwn /\ FutureIsEmpty /\ HistoryFits

LEMMA IdleDoesNotFit == \A kind : ~Fits(Idle, kind)
BY DEF Fits, Idle, Reading, Concluded

LEMMA AppendHas ==
  \A S : \A s \in Seq(S), e \in S : Append(s, e) \in Seq(S) /\ ToSet(Append(s, e)) = ToSet(s) \cup {e}
<1> SUFFICES ASSUME NEW S, NEW s \in Seq(S), NEW e \in S
             PROVE  Append(s, e) \in Seq(S) /\ ToSet(Append(s, e)) = ToSet(s) \cup {e}
  OBVIOUS
<1> DEFINE t == Append(s, e)
           N == Len(s)
<1>1. /\ N \in Nat /\ DOMAIN s = 1 .. N /\ t \in Seq(S) /\ DOMAIN t = 1 .. N + 1
      /\ \A i \in 1 .. N : t[i] = s[i]
      /\ t[N + 1] = e
  OBVIOUS
<1> HIDE DEF t, N
<1>2. \A i : i \in 1 .. N + 1 <=> i \in 1 .. N \/ i = N + 1
  BY <1>1
<1>3. ToSet(t) = ToSet(s) \cup {e}
  BY <1>1, <1>2 DEF ToSet
<1> QED BY <1>1, <1>3 DEF t

LEMMA TracedStays ==
  ASSUME NEW d, NEW before, NEW after, IsTraced(d, before), ToSet(before) \subseteq ToSet(after)
  PROVE  IsTraced(d, after)
BY DEF IsTraced

\* What every action amounts to: one runner goes on, at most one event is
\* appended to its trace, at most its decision is stored and its answer sent.
LEMMA StepKeeps ==
  ASSUME MatchInv, NEW r \in Runners, NEW q, NEW m \in Numbers,
         run' = [run EXCEPT ![r] = q],
         \/ run[r] = Idle /\ m = begun + 1 /\ begun' = m
         \/ run[r] # Idle /\ m = run[r].number /\ begun' = begun,
         (DOMAIN opps = Opps /\ (\A opp \in Opps : IsList(opps[opp])) /\ IsTable(verified))',
         faults' \in 0 .. MaxFaults,
         \/ log' = log
         \/ \E e \in Events : log' = [log EXCEPT ![m] = Append(log[m], e)] /\ OverrideFollows(Append(log[m], e)),
         \/ decisions' = decisions
         \/ \E d : decisions' = [decisions EXCEPT ![m] = d] /\ IsTraced(d, log[m]),
         lost \subseteq lost', lost' \subseteq lost \cup {m},
         \/ told' = told
         \/ /\ told' = told \cup {m} /\ q = Idle
            /\ decisions'[m] # NoDecision \/ m \in lost'
            /\ TypesOf(log'[m]) \in FullTrails,
         \/ q = Idle
         \/ /\ Fits(q, KindOf[r]) /\ q.number = m /\ log'[m] = Trail(q, KindOf[r])
            /\ q.phase = "Recorded" => decisions'[m] # NoDecision \/ m \in lost'
  PROVE  MatchInv'
<1> USE DEF Numbers
<1>1. /\ begun \in 0 .. MaxRuns /\ begun' \in 0 .. MaxRuns /\ begun <= begun' /\ m \in 1 .. begun'
      /\ m \notin told /\ (run[r] = Idle => m > begun)
      /\ MaxRuns \in Nat
  <2>1. begun \in 0 .. MaxRuns /\ MaxRuns \in Nat
    BY PipelineAssumption DEF MatchInv, StoresFit
  <2>2. CASE run[r] = Idle /\ m = begun + 1 /\ begun' = m
    BY <2>1, <2>2 DEF MatchInv, FutureIsEmpty
  <2>3. CASE run[r] # Idle /\ m = run[r].number /\ begun' = begun
    BY <2>1, <2>3 DEF MatchInv, RunsFit, RunFits
  <2> QED BY <2>2, <2>3
<1>2. /\ log' \in [Numbers -> Seq(Events)]
      /\ \A n \in Numbers : n # m => log'[n] = log[n]
      /\ ToSet(log[m]) \subseteq ToSet(log'[m])
      /\ OverrideFollows(log'[m])
  <2>1. log \in [Numbers -> Seq(Events)] /\ OverrideFollows(log[m])
    BY DEF MatchInv, StoresFit, HistoryFits
  <2>2. CASE log' = log
    BY <2>1, <2>2
  <2>3. ASSUME NEW e \in Events, log' = [log EXCEPT ![m] = Append(log[m], e)],
               OverrideFollows(Append(log[m], e))
        PROVE  /\ log' \in [Numbers -> Seq(Events)]
               /\ \A n \in Numbers : n # m => log'[n] = log[n]
               /\ ToSet(log[m]) \subseteq ToSet(log'[m])
               /\ OverrideFollows(log'[m])
    <3>1. Append(log[m], e) \in Seq(Events) /\ ToSet(Append(log[m], e)) = ToSet(log[m]) \cup {e}
      BY <2>1, AppendHas
    <3>2. log'[m] = Append(log[m], e)
      BY <2>1, <2>3
    <3> QED BY <2>1, <2>3, <3>1, <3>2
  <2> QED BY <2>2, <2>3
<1>3. /\ DOMAIN decisions' = Numbers
      /\ \A n \in Numbers : n # m => decisions'[n] = decisions[n]
      /\ decisions'[m] = decisions[m] \/ IsTraced(decisions'[m], log[m])
  BY DEF MatchInv, StoresFit
<1>4. \A n \in Numbers : n # m => (n \in told' <=> n \in told) /\ (n \in lost' <=> n \in lost)
  OBVIOUS
<1>5. StoresFit'
  BY <1>1, <1>2, <1>3 DEF StoresFit
<1>6. /\ DOMAIN run' = Runners /\ run'[r] = q
      /\ \A x \in Runners : x # r => run'[x] = run[x]
  BY DEF MatchInv, RunsFit
<1>7. ASSUME NEW x \in Runners, x # r, run[x] # Idle
      PROVE  /\ run[x].number \in 1 .. begun /\ run[x].number \in Numbers /\ run[x].number # m
             /\ RunFits(x)
  <2>1. RunFits(x)
    BY DEF MatchInv, RunsFit
  <2>2. run[x].number \in 1 .. begun
    BY <1>7, <2>1 DEF RunFits
  <2>3. run[x].number # m
    <3>1. CASE run[r] = Idle
      BY <1>1, <2>2, <3>1
    <3>2. CASE run[r] # Idle
      <4>1. m = run[r].number
        BY <3>2
      <4> QED BY <1>7, <3>2, <4>1 DEF MatchInv, NumbersAreOwn
    <3> QED BY <3>1, <3>2
  <2> QED BY <1>1, <2>1, <2>2, <2>3
<1>8. RunsFit'
  <2>1. ASSUME NEW x \in Runners, x # r PROVE RunFits(x)'
    <3>1. CASE run[x] = Idle
      BY <1>6, <2>1, <3>1 DEF RunFits
    <3>2. CASE run[x] # Idle
      <4> DEFINE k == run[x].number
      <4>1. /\ run'[x] = run[x] /\ k \in 1 .. begun /\ k \in Numbers /\ k # m /\ RunFits(x)
        BY <1>6, <1>7, <2>1, <3>2
      <4>2. /\ log'[k] = log[k] /\ decisions'[k] = decisions[k]
            /\ (k \in told' <=> k \in told) /\ (k \in lost' <=> k \in lost) /\ k \in 1 .. begun'
        <5> HIDE DEF k
        <5>1. log'[k] = log[k] /\ decisions'[k] = decisions[k]
          BY ONLY <1>2, <1>3, <4>1
        <5>2. (k \in told' <=> k \in told) /\ (k \in lost' <=> k \in lost)
          BY ONLY <1>4, <4>1
        <5>3. k \in 1 .. begun'
          BY ONLY <1>1, <4>1
        <5> QED BY <5>1, <5>2, <5>3, Zenon
      <4> QED BY <3>2, <4>1, <4>2 DEF RunFits
    <3> QED BY <3>1, <3>2
  <2>2. RunFits(r)'
    <3>1. CASE q = Idle
      BY <1>6, <3>1 DEF RunFits
    <3>2. CASE q # Idle
      <4>1. m \notin told'
        BY <1>1, <3>2
      <4> QED BY <1>1, <1>6, <3>2, <4>1 DEF RunFits
    <3> QED BY <3>1, <3>2
  <2> QED BY <1>6, <2>1, <2>2 DEF RunsFit
<1>9. NumbersAreOwn'
  <2>1. ASSUME NEW x \in Runners, NEW y \in Runners, x # y, run'[x] # Idle, run'[y] # Idle
        PROVE  run'[x].number # run'[y].number
    <3>1. CASE x = r
      BY <1>6, <1>7, <2>1, <3>1
    <3>2. CASE y = r
      BY <1>6, <1>7, <2>1, <3>2
    <3>3. CASE x # r /\ y # r
      BY <1>6, <2>1, <3>3 DEF MatchInv, NumbersAreOwn
    <3> QED BY <3>1, <3>2, <3>3
  <2> QED BY <2>1 DEF NumbersAreOwn
<1>10. FutureIsEmpty'
  <2>1. ASSUME NEW n \in Numbers, n > begun'
        PROVE  (log[n] = <<>> /\ decisions[n] = NoDecision /\ n \notin told \cup lost)'
    <3>1. n # m /\ n > begun
      BY <1>1, <2>1
    <3> QED BY <1>2, <1>3, <1>4, <3>1 DEF MatchInv, FutureIsEmpty
  <2> QED BY <2>1 DEF FutureIsEmpty
<1>11. HistoryFits'
  <2>1. ASSUME NEW n \in Numbers, n # m
        PROVE  /\ OverrideFollows(log'[n])
               /\ decisions'[n] # NoDecision => IsTraced(decisions'[n], log'[n])
               /\ n \in told' => (decisions'[n] # NoDecision \/ n \in lost') /\ TypesOf(log'[n]) \in FullTrails
    BY <1>2, <1>3, <1>4, <2>1 DEF MatchInv, HistoryFits
  <2>2. decisions'[m] # NoDecision => IsTraced(decisions'[m], log'[m])
    <3>1. decisions'[m] = decisions[m] /\ decisions[m] # NoDecision => IsTraced(decisions'[m], log[m])
      BY DEF MatchInv, HistoryFits
    <3>2. decisions'[m] # NoDecision => IsTraced(decisions'[m], log[m])
      BY <1>3, <3>1
    <3> QED BY <1>2, <3>2, TracedStays
  <2>3. m \in told' => (decisions'[m] # NoDecision \/ m \in lost') /\ TypesOf(log'[m]) \in FullTrails
    BY <1>1
  <2> QED BY <1>2, <2>1, <2>2, <2>3 DEF HistoryFits
<1> QED BY <1>5, <1>8, <1>9, <1>10, <1>11 DEF MatchInv

-----------------------------------------------------------------------------
(***************************************************************************)
(* The actions.                                                            *)
(***************************************************************************)
LEMMA FieldNames ==
  DOMAIN Idle = {"phase", "number", "request", "requirements", "atoms", "hits", "report", "validation"}
BY DEF Idle

LEMMA EmptyFits ==
  /\ IsList(<<>>) /\ <<>> \in Given /\ ToSet(<<>>) = {} /\ IsReadable(NoReport)
<1>1. ToSet(<<>>) = {}
  BY DEF ToSet
<1>2. IsList(<<>>) /\ <<>> \in Given
  BY DEF IsList, Given
<1> QED BY <1>1, <1>2 DEF IsReadable, NoReport

LEMMA ListIs == \A S : \A s \in Seq(S) : IsList(s)
<1> SUFFICES ASSUME NEW S, NEW s \in Seq(S) PROVE IsList(s)
  OBVIOUS
<1>1. Len(s) \in Nat /\ DOMAIN s = 1 .. Len(s) /\ s = [i \in 1 .. Len(s) |-> s[i]]
  OBVIOUS
<1>2. \A i \in 1 .. Len(s) : s[i] \in ToSet(s)
  BY <1>1 DEF ToSet
<1>3. [i \in 1 .. Len(s) |-> s[i]] \in Seq(ToSet(s))
  BY <1>1, <1>2, IsASeq
<1> QED BY <1>1, <1>3 DEF IsList

\* A runner at work, and one that is not.
LEMMA ActiveFits ==
  ASSUME MatchInv, NEW r \in Runners
  PROVE  /\ DOMAIN run = Runners
         /\ KindOf[r] \in {"Tool", "Demo", "Check"}
         /\ Idle.phase = "Idle"
         /\ run[r].phase = "Idle" => run[r] = Idle
         /\ run[r].phase # "Idle" =>
              /\ run[r] # Idle
              /\ Fits(run[r], KindOf[r])
              /\ run[r].number \in Numbers
              /\ log[run[r].number] = Trail(run[r], KindOf[r])
              /\ run[r].phase = "Recorded" =>
                   decisions[run[r].number] # NoDecision \/ run[r].number \in lost
<1>1. Idle.phase = "Idle"
  BY DEF Idle
<1>2. RunFits(r) /\ DOMAIN run = Runners /\ begun \in 0 .. MaxRuns
  BY DEF MatchInv, RunsFit, StoresFit
<1>3. KindOf[r] \in {"Tool", "Demo", "Check"}
  BY PipelineAssumption
<1>4. CASE run[r] = Idle
  BY <1>1, <1>2, <1>3, <1>4
<1>5. CASE run[r] # Idle
  <2>1. Fits(run[r], KindOf[r]) /\ run[r].phase # "Idle"
    BY <1>2, <1>5 DEF RunFits, Fits, Reading, Concluded
  <2>2. run[r].number \in Numbers
    BY <1>2, <1>5, PipelineAssumption DEF RunFits, Numbers
  <2> QED BY <1>1, <1>2, <1>3, <1>5, <2>1, <2>2 DEF RunFits
<1> QED BY <1>4, <1>5

\* A run that ends leaves all else as it is.
LEMMA EndKeeps ==
  ASSUME MatchInv, NEW r \in Runners, run[r].phase # "Idle", Ends(r),
         faults' \in 0 .. MaxFaults,
         UNCHANGED <<opps, verified, log, decisions, told, lost, begun>>
  PROVE  MatchInv'
<1> DEFINE m == run[r].number
<1>1. run[r] # Idle /\ m \in Numbers
  BY ActiveFits
<1>2. run' = [run EXCEPT ![r] = Idle]
  BY DEF Ends
<1>3. (DOMAIN opps = Opps /\ (\A opp \in Opps : IsList(opps[opp])) /\ IsTable(verified))'
  BY DEF MatchInv, StoresFit
<1> QED BY <1>1, <1>2, <1>3, StepKeeps

\* A run that goes on without an event.
LEMMA QuietlyKeeps ==
  ASSUME MatchInv, NEW r \in Runners, run[r].phase \in Reading, NEW q,
         run' = [run EXCEPT ![r] = q],
         q.phase \in Reading, q.number = run[r].number, Fits(q, KindOf[r]),
         (DOMAIN opps = Opps /\ (\A opp \in Opps : IsList(opps[opp])) /\ IsTable(verified))',
         faults' \in 0 .. MaxFaults,
         UNCHANGED <<log, decisions, told, lost, begun>>
  PROVE  MatchInv'
<1> DEFINE m == run[r].number
<1>1. run[r].phase # "Idle" /\ q.phase # "Recorded"
  BY DEF Reading
<1>2. run[r] # Idle /\ m \in Numbers /\ log[m] = Trail(run[r], KindOf[r])
  BY <1>1, ActiveFits
<1>3. Trail(q, KindOf[r]) = Trail(run[r], KindOf[r])
  BY DEF Trail
<1> QED BY <1>1, <1>2, <1>3, StepKeeps

LEMMA FaultType == MatchInv /\ (Fault \/ faults' = faults) => faults' \in 0 .. MaxFaults
BY PipelineAssumption DEF MatchInv, StoresFit, Fault

LEMMA StoresStay ==
  MatchInv /\ UNCHANGED <<opps, verified>> =>
    (DOMAIN opps = Opps /\ (\A opp \in Opps : IsList(opps[opp])) /\ IsTable(verified))'
BY DEF MatchInv, StoresFit

LEMMA EventType ==
  \A type \in EventTypes, status \in {"None", "unknown"} \cup Statuses, count \in Nat :
    /\ Event(type, status, count) \in Events
    /\ Event(type, status, count).type = type
    /\ Event(type, status, count).status = status
BY DEF Event, Events

LEMMA BeginningKeeps ==
  ASSUME MatchInv, NEW r \in Runners, run[r].phase = "Idle", NEW q, q.number = begun + 1,
         begun < MaxRuns, begun' = begun + 1, run' = [run EXCEPT ![r] = q],
         q.phase \in {"Started", "Matched"}, Fits(q, KindOf[r]),
         \/ log' = log /\ Trail(q, KindOf[r]) = <<>>
         \/ \E e \in Events : /\ log' = [log EXCEPT ![begun + 1] = <<e>>]
                              /\ Trail(q, KindOf[r]) = <<e>>
                              /\ e.type # "ConstitutionOverrideApplied",
         UNCHANGED <<opps, verified, decisions, told, lost, faults>>
  PROVE  MatchInv'
<1> DEFINE m == begun + 1
<1>1. run[r] = Idle
  BY ActiveFits
<1>2. m \in Numbers /\ begun' = m
  BY PipelineAssumption DEF MatchInv, StoresFit, Numbers
<1>3. log[m] = <<>> /\ log \in [Numbers -> Seq(Events)]
  BY <1>2 DEF MatchInv, FutureIsEmpty, StoresFit, Numbers
<1>4. \/ log' = log /\ Trail(q, KindOf[r]) = <<>>
      \/ \E e \in Events : /\ log' = [log EXCEPT ![m] = Append(log[m], e)]
                           /\ OverrideFollows(Append(log[m], e))
                           /\ Trail(q, KindOf[r]) = <<e>>
  <2>1. ASSUME NEW e \in Events, e.type # "ConstitutionOverrideApplied"
        PROVE  Append(log[m], e) = <<e>> /\ OverrideFollows(<<e>>)
    BY <1>3, <2>1 DEF OverrideFollows
  <2> QED BY <2>1
<1>5. log'[m] = Trail(q, KindOf[r])
  BY <1>2, <1>3
<1>6. faults' \in 0 .. MaxFaults
  BY FaultType
<1> HIDE DEF m
<1>7. q.phase # "Recorded"
  OBVIOUS
<1> QED BY <1>1, <1>2, <1>4, <1>5, <1>6, <1>7, StepKeeps, StoresStay DEF m

LEMMA BeginKeeps ==
  ASSUME MatchInv, NEW r \in Runners, NEW request \in Requests, Begin(r, request)
  PROVE  MatchInv'
<1> DEFINE q == [Idle EXCEPT !.phase = "Started", !.number = begun + 1, !.request = request]
           e == Event("RunStarted", "None", 0)
<1>1. /\ KindOf[r] = "Tool" /\ run[r].phase = "Idle" /\ begun < MaxRuns /\ begun' = begun + 1
      /\ run' = [run EXCEPT ![r] = q] /\ log' = [log EXCEPT ![begun + 1] = <<e>>]
      /\ UNCHANGED <<opps, verified, decisions, told, lost, faults>>
  BY DEF Begin, Does
<1>2. /\ DOMAIN q = DOMAIN Idle /\ q.phase = "Started" /\ q.number = begun + 1 /\ q.request = request
      /\ q.requirements = <<>> /\ q.atoms = <<>> /\ q.report = NoReport /\ q.validation = Nothing
  BY FieldNames DEF Idle
<1> HIDE DEF q
<1>3. IsList(q.request.atoms)
  BY <1>2, PipelineAssumption
<1>4. Fits(q, KindOf[r])
  BY <1>1, <1>2, <1>3, EmptyFits DEF Fits, Reading, Concluded
<1>5. e \in Events /\ e.type # "ConstitutionOverrideApplied"
  BY EventType DEF EventTypes
<1>6. Trail(q, KindOf[r]) = <<e>>
  BY <1>1, <1>2 DEF Trail, Reading, Start, e
<1> QED BY <1>1, <1>2, <1>4, <1>5, <1>6, BeginningKeeps

LEMMA BeginDemoKeeps ==
  ASSUME MatchInv, NEW r \in Runners, NEW options \in DemoOptions, BeginDemo(r, options)
  PROVE  MatchInv'
<1> DEFINE request == [opp |-> DemoOpp, atoms |-> All, strategy |-> options.strategy,
                       override |-> options.override]
           q == [Idle EXCEPT !.phase = "Started", !.number = begun + 1, !.request = request]
           e == Event("DemoStarted", "None", 0)
<1>1. /\ KindOf[r] = "Demo" /\ run[r].phase = "Idle" /\ begun < MaxRuns /\ begun' = begun + 1
      /\ run' = [run EXCEPT ![r] = q] /\ log' = [log EXCEPT ![begun + 1] = <<e>>]
      /\ UNCHANGED <<opps, verified, decisions, told, lost, faults>>
  BY DEF BeginDemo, Does
<1>2. /\ DOMAIN q = DOMAIN Idle /\ q.phase = "Started" /\ q.number = begun + 1 /\ q.request = request
      /\ q.requirements = <<>> /\ q.atoms = <<>> /\ q.report = NoReport /\ q.validation = Nothing
  BY FieldNames DEF Idle
<1> HIDE DEF q
<1>3. IsList(q.request.atoms)
  <2>1. All \in Seq({NoAtom})
    BY DEF All
  <2> QED BY <1>2, <2>1, ListIs
<1>4. Fits(q, KindOf[r])
  BY <1>1, <1>2, <1>3, EmptyFits DEF Fits, Reading, Concluded
<1>5. e \in Events /\ e.type # "ConstitutionOverrideApplied"
  BY EventType DEF EventTypes
<1>6. Trail(q, KindOf[r]) = <<e>>
  BY <1>1, <1>2 DEF Trail, Reading, Start, e
<1> QED BY <1>1, <1>2, <1>4, <1>5, <1>6, BeginningKeeps

LEMMA BeginCheckKeeps ==
  ASSUME MatchInv, NEW r \in Runners, NEW draft \in Drafts, NEW opp \in Opps,
         NEW override \in Overrides, BeginCheck(r, draft, opp, override)
  PROVE  MatchInv'
<1> DEFINE request == [opp |-> opp, atoms |-> All, strategy |-> "Lexical", override |-> override]
           q == [Idle EXCEPT !.phase = "Matched", !.number = begun + 1, !.request = request,
                             !.report = draft]
<1>1. /\ KindOf[r] = "Check" /\ run[r].phase = "Idle" /\ begun < MaxRuns /\ begun' = begun + 1
      /\ run' = [run EXCEPT ![r] = q]
      /\ UNCHANGED <<opps, verified, log, decisions, told, lost, faults>>
  BY DEF BeginCheck, Does
<1>2. /\ DOMAIN q = DOMAIN Idle /\ q.phase = "Matched" /\ q.number = begun + 1 /\ q.request = request
      /\ q.requirements = <<>> /\ q.atoms = <<>> /\ q.report = draft /\ q.validation = Nothing
  BY FieldNames DEF Idle
<1> HIDE DEF q
<1>3. IsList(q.request.atoms) /\ IsReadable(q.report)
  <2>1. All \in Seq({NoAtom})
    BY DEF All
  <2>2. IsReadable(draft)
    BY PipelineAssumption DEF IsReadable
  <2> QED BY <1>2, <2>1, <2>2, ListIs
<1>4. Fits(q, KindOf[r])
  BY <1>1, <1>2, <1>3, EmptyFits DEF Fits, Reading, Concluded
<1>5. Trail(q, KindOf[r]) = <<>>
  BY <1>1, <1>2 DEF Trail, Reading
<1> QED BY <1>1, <1>2, <1>4, <1>5, BeginningKeeps

LEMMA LoadedFits ==
  ASSUME IsTable(verified), NEW names, IsList(names), ToSet(names) \subseteq DOMAIN verified
  PROVE  LET atoms == [i \in DOMAIN names |-> Loaded(names[i])]
         IN  /\ atoms \in Given
             /\ \A a, b \in ToSet(atoms) : a.id = b.id => a = b
             /\ \A a \in ToSet(atoms) : a.id \in ToSet(names) /\ a.verified = verified[a.id]
<1> DEFINE atoms == [i \in DOMAIN names |-> Loaded(names[i])]
           N == Len(names)
<1>1. N \in Nat /\ DOMAIN names = 1 .. N /\ \A i \in 1 .. N : names[i] \in ToSet(names)
  BY DEF IsList
<1>2. \A i \in 1 .. N : /\ Loaded(names[i]) \in [id : Atoms, verified : BOOLEAN]
                        /\ Loaded(names[i]).id = names[i]
                        /\ Loaded(names[i]).verified = verified[names[i]]
  BY <1>1 DEF Loaded, IsTable
<1>3. atoms \in Given
  <2>1. [i \in 1 .. N |-> Loaded(names[i])] \in Seq([id : Atoms, verified : BOOLEAN])
    BY <1>1, <1>2, IsASeq
  <2> QED BY <1>1, <2>1 DEF Given
<1>4. \A a \in ToSet(atoms) : \E i \in 1 .. N : a = Loaded(names[i])
  BY <1>1 DEF ToSet
<1> HIDE DEF atoms, N
<1>5. \A a \in ToSet(atoms) : a.id \in ToSet(names) /\ a.verified = verified[a.id]
  BY <1>1, <1>2, <1>4
<1>6. \A a, b \in ToSet(atoms) : a.id = b.id => a = b
  BY <1>2, <1>4
<1> QED BY <1>3, <1>5, <1>6 DEF atoms

LEMMA ListVerifiedFits ==
  ASSUME IsTable(verified)
  PROVE  /\ ListVerified \in Given
         /\ \A a, b \in ToSet(ListVerified) : a.id = b.id => a = b
         /\ \A a \in ToSet(ListVerified) : a.verified
<1> DEFINE S == {a \in DOMAIN verified : verified[a]}
           names == Ascending(S)
<1>1. S \subseteq Nat /\ IsFiniteSet(S)
  BY MatcherAssumption, FS_Subset DEF IsTable
<1>2. names \in Seq(S) /\ ToSet(names) = S
  BY <1>1, AscendingHas
<1>3. IsList(names) /\ ToSet(names) \subseteq DOMAIN verified
  BY <1>2, ListIs
<1>4. ListVerified = [i \in DOMAIN names |-> Loaded(names[i])]
  BY DEF ListVerified
<1> HIDE DEF names
<1>5. \A a \in ToSet(ListVerified) : a.id \in S /\ a.verified = verified[a.id]
  BY <1>2, <1>3, <1>4, LoadedFits
<1>6. \A a \in S : verified[a] = TRUE
  BY DEF IsTable
<1> HIDE DEF S
<1>7. \A a \in ToSet(ListVerified) : a.verified
  BY <1>5, <1>6
<1> QED BY <1>3, <1>4, <1>7, LoadedFits

LEMMA UpdatedFits ==
  ASSUME IsTable(verified), NEW stored, stored \subseteq DOMAIN DemoVerified
  PROVE  IsTable(Updated(stored))
<1>1. IsTable(DemoVerified)
  BY PipelineAssumption
<1> QED BY <1>1 DEF IsTable, Updated

LEMMA RemovedIs ==
  ASSUME NEW s, IsList(s), NEW i \in DOMAIN s
  PROVE  IsList(RemoveAt(s, i))
<1>1. s \in Seq(ToSet(s)) /\ i \in 1 .. Len(s) /\ Len(s) \in Nat
  BY DEF IsList
<1>2. SubSeq(s, 1, i - 1) \in Seq(ToSet(s)) /\ SubSeq(s, i + 1, Len(s)) \in Seq(ToSet(s))
  BY <1>1, SubSeqProperties
<1>3. RemoveAt(s, i) \in Seq(ToSet(s))
  BY <1>2, ConcatProperties DEF RemoveAt
<1> QED BY <1>3, ListIs

\* A run of the tool or the demo that goes on to another step of reading.
LEMMA ReadingFits ==
  ASSUME NEW q, NEW kind, Fits(q, kind), q.phase \in Reading, NEW next,
         DOMAIN next = DOMAIN Idle, next.phase \in Reading, next.phase = "Stored" => kind = "Demo",
         next.request = q.request, next.report = q.report, next.validation = q.validation,
         IsList(next.requirements), next.atoms \in Given,
         \A a, b \in ToSet(next.atoms) : a.id = b.id => a = b,
         q.request.atoms = All => \A a \in ToSet(next.atoms) : a.verified
  PROVE  Fits(next, kind)
<1>1. Reading \cap Concluded = {} /\ next.phase \notin {"Matched", "Completed", "Recorded", "Cleared"}
  BY DEF Reading, Concluded
<1> QED BY <1>1 DEF Fits

LEMMA StoreDemoKeeps ==
  ASSUME MatchInv, NEW r \in Runners, StoreDemo(r) \/ StoreDemoPartly(r)
  PROVE  MatchInv'
<1> DEFINE q == [run[r] EXCEPT !.phase = "Stored"]
<1>1. /\ KindOf[r] = "Demo" /\ run[r].phase = "Started"
      /\ run' = [run EXCEPT ![r].phase = "Stored"]
      /\ UNCHANGED <<log, decisions, told, lost, begun>>
  BY DEF StoreDemo, StoreDemoPartly, Does, Goes
<1>2. Fits(run[r], KindOf[r]) /\ DOMAIN run = Runners
  BY <1>1, ActiveFits
<1>3. run' = [run EXCEPT ![r] = q]
  BY <1>1
<1>4. /\ DOMAIN q = DOMAIN Idle /\ q.phase = "Stored" /\ q.number = run[r].number
      /\ q.request = run[r].request /\ q.report = run[r].report /\ q.validation = run[r].validation
      /\ q.requirements = run[r].requirements /\ q.atoms = run[r].atoms
  BY <1>2, FieldNames DEF Fits
<1> HIDE DEF q
<1>5. q.phase \in Reading /\ run[r].phase \in Reading
  BY <1>1, <1>4 DEF Reading
<1>6. Fits(q, KindOf[r])
  <2>1. /\ IsList(q.requirements) /\ q.atoms \in Given
        /\ \A a, b \in ToSet(q.atoms) : a.id = b.id => a = b
        /\ run[r].request.atoms = All => \A a \in ToSet(q.atoms) : a.verified
    BY <1>2, <1>4 DEF Fits
  <2> QED BY <1>1, <1>2, <1>4, <1>5, <2>1, ReadingFits
<1>7. DOMAIN opps = Opps /\ (\A opp \in Opps : IsList(opps[opp])) /\ IsTable(verified)
  BY DEF MatchInv, StoresFit
<1>8. DOMAIN opps' = Opps /\ \A opp \in Opps : IsList(opps'[opp])
  <2>1. DemoOpp \in Opps /\ IsList(DemoRequirements)
    BY PipelineAssumption
  <2>2. \E kept : opps' = [opps EXCEPT ![DemoOpp] = kept] /\ IsList(kept)
    <3>1. CASE StoreDemo(r)
      BY <2>1, <3>1 DEF StoreDemo
    <3>2. CASE StoreDemoPartly(r)
      <4>1. \A i \in DOMAIN DemoRequirements : IsList(RemoveAt(DemoRequirements, i))
        BY <2>1, RemovedIs
      <4> QED BY <1>7, <2>1, <3>2, <4>1 DEF StoreDemoPartly
    <3> QED BY <3>1, <3>2
  <2> QED BY <1>7, <2>1, <2>2
<1>9. IsTable(verified')
  BY <1>7, UpdatedFits DEF StoreDemo, StoreDemoPartly
<1>10. faults' \in 0 .. MaxFaults
  BY FaultType DEF StoreDemo, StoreDemoPartly
<1> QED BY <1>1, <1>3, <1>4, <1>5, <1>6, <1>8, <1>9, <1>10, QuietlyKeeps

LEMMA ReadOpportunityKeeps ==
  ASSUME MatchInv, NEW r \in Runners, ReadOpportunity(r)
  PROVE  MatchInv'
<1>1. /\ run[r].phase \in {"Started", "Stored"}
      /\ UNCHANGED <<opps, verified, log, decisions, told, lost, begun>>
  BY DEF ReadOpportunity, Does
<1>2. Fits(run[r], KindOf[r]) /\ DOMAIN run = Runners
  BY <1>1, ActiveFits
<1>3. PICK q : /\ run' = [run EXCEPT ![r] = q]
               /\ DOMAIN q = DOMAIN Idle /\ q.phase = "Resolved" /\ q.number = run[r].number
               /\ q.request = run[r].request /\ q.report = run[r].report
               /\ q.validation = run[r].validation /\ q.atoms = run[r].atoms
               /\ IsList(q.requirements)
  <2>1. PICK requirements :
          /\ run' = [run EXCEPT ![r].phase = "Resolved", ![r].requirements = requirements]
          /\ IsList(requirements)
    BY PipelineAssumption DEF ReadOpportunity, MatchInv, StoresFit
  <2> DEFINE q == [run[r] EXCEPT !.phase = "Resolved", !.requirements = requirements]
  <2>2. run' = [run EXCEPT ![r] = q]
    BY <2>1, <1>2
  <2>3. /\ DOMAIN q = DOMAIN Idle /\ q.phase = "Resolved" /\ q.number = run[r].number
        /\ q.request = run[r].request /\ q.report = run[r].report
        /\ q.validation = run[r].validation /\ q.atoms = run[r].atoms
        /\ q.requirements = requirements
    BY <1>2, FieldNames DEF Fits
  <2> HIDE DEF q
  <2> QED BY <2>1, <2>2, <2>3
<1>4. q.phase \in Reading /\ run[r].phase \in Reading
  BY <1>1, <1>3 DEF Reading
<1>5. Fits(q, KindOf[r])
  <2>1. /\ q.atoms \in Given
        /\ \A a, b \in ToSet(q.atoms) : a.id = b.id => a = b
        /\ run[r].request.atoms = All => \A a \in ToSet(q.atoms) : a.verified
    BY <1>2, <1>3 DEF Fits
  <2> QED BY <1>2, <1>3, <1>4, <2>1, ReadingFits
<1>6. faults' \in 0 .. MaxFaults
  BY FaultType DEF ReadOpportunity
<1> QED BY <1>1, <1>3, <1>4, <1>5, <1>6, StoresStay, QuietlyKeeps

LEMMA ReadAtomsKeeps ==
  ASSUME MatchInv, NEW r \in Runners, ReadAtoms(r) \/ ReadAtomsBusy(r)
  PROVE  MatchInv'
<1> DEFINE names == run[r].request.atoms
<1>1. /\ run[r].phase = "Resolved"
      /\ UNCHANGED <<opps, verified, log, decisions, told, lost, begun>>
  BY DEF ReadAtoms, ReadAtomsBusy
<1>2. Fits(run[r], KindOf[r]) /\ DOMAIN run = Runners
  BY <1>1, ActiveFits
<1>3. IsTable(verified)
  BY DEF MatchInv, StoresFit
<1>4. PICK q : /\ run' = [run EXCEPT ![r] = q]
               /\ DOMAIN q = DOMAIN Idle /\ q.phase = "Ready" /\ q.number = run[r].number
               /\ q.request = run[r].request /\ q.report = run[r].report
               /\ q.validation = run[r].validation /\ q.requirements = run[r].requirements
               /\ q.atoms \in Given
               /\ \A a, b \in ToSet(q.atoms) : a.id = b.id => a = b
               /\ names = All => \A a \in ToSet(q.atoms) : a.verified
  <2>1. CASE ReadAtoms(r)
    <3> DEFINE atoms == IF names = All THEN ListVerified
                        ELSE [i \in DOMAIN names |-> Loaded(names[i])]
               q == [run[r] EXCEPT !.phase = "Ready", !.atoms = atoms]
    <3>1. /\ run' = [run EXCEPT ![r].phase = "Ready", ![r].atoms = atoms]
          /\ names # All => ToSet(names) \subseteq DOMAIN verified
      BY <2>1 DEF ReadAtoms
    <3>2. /\ atoms \in Given
          /\ \A a, b \in ToSet(atoms) : a.id = b.id => a = b
          /\ names = All => \A a \in ToSet(atoms) : a.verified
      <4>1. CASE names = All
        BY <1>3, <4>1, ListVerifiedFits
      <4>2. CASE names # All
        <5>1. IsList(names) /\ atoms = [i \in DOMAIN names |-> Loaded(names[i])]
          BY <1>2, <4>2 DEF Fits
        <5> HIDE DEF atoms, names
        <5> QED BY <1>3, <3>1, <4>2, <5>1, LoadedFits
      <4> QED BY <4>1, <4>2
    <3> HIDE DEF atoms
    <3>3. run' = [run EXCEPT ![r] = q]
      BY <3>1, <1>2
    <3>4. /\ DOMAIN q = DOMAIN Idle /\ q.phase = "Ready" /\ q.number = run[r].number
          /\ q.request = run[r].request /\ q.report = run[r].report
          /\ q.validation = run[r].validation /\ q.atoms = atoms
          /\ q.requirements = run[r].requirements
      BY <1>2, FieldNames DEF Fits
    <3> HIDE DEF q, names
    <3> QED BY <3>2, <3>3, <3>4
  <2>2. CASE ReadAtomsBusy(r)
    <3> DEFINE q == [run[r] EXCEPT !.phase = "Ready"]
    <3>1. run' = [run EXCEPT ![r].phase = "Ready"]
      BY <2>2 DEF ReadAtomsBusy
    <3>2. run' = [run EXCEPT ![r] = q]
      BY <3>1, <1>2
    <3>3. /\ DOMAIN q = DOMAIN Idle /\ q.phase = "Ready" /\ q.number = run[r].number
          /\ q.request = run[r].request /\ q.report = run[r].report
          /\ q.validation = run[r].validation /\ q.atoms = run[r].atoms
          /\ q.requirements = run[r].requirements
      BY <1>2, FieldNames DEF Fits
    <3>4. /\ run[r].atoms \in Given
          /\ \A a, b \in ToSet(run[r].atoms) : a.id = b.id => a = b
          /\ names = All => \A a \in ToSet(run[r].atoms) : a.verified
      BY <1>2 DEF Fits
    <3> HIDE DEF q, names
    <3> QED BY <3>2, <3>3, <3>4
  <2> QED BY <2>1, <2>2
<1>5. q.phase \in Reading /\ run[r].phase \in Reading /\ q.phase # "Stored"
  BY <1>1, <1>4 DEF Reading
<1>6. Fits(q, KindOf[r])
  <2>1. IsList(q.requirements)
    BY <1>2, <1>4 DEF Fits
  <2> QED BY <1>2, <1>4, <1>5, <2>1, ReadingFits
<1>7. faults' \in 0 .. MaxFaults
  BY FaultType DEF ReadAtoms, ReadAtomsBusy
<1> QED BY <1>1, <1>4, <1>5, <1>6, <1>7, StoresStay, QuietlyKeeps

LEMMA EndsKeep ==
  ASSUME MatchInv, NEW r \in Runners,
         OpportunityMissing(r) \/ AtomMissing(r) \/ EndCheck(r) \/ Break(r)
  PROVE  MatchInv'
<1>1. run[r].phase # "Idle"
  BY DEF OpportunityMissing, AtomMissing, EndCheck, Break, Does, IsCleared
<1>2. Ends(r) /\ UNCHANGED <<opps, verified, log, decisions, told, lost, begun>>
  BY DEF OpportunityMissing, AtomMissing, EndCheck, Break
<1>3. faults' \in 0 .. MaxFaults
  BY FaultType DEF OpportunityMissing, AtomMissing, EndCheck, Break
<1> QED BY <1>1, <1>2, <1>3, EndKeeps

LEMMA TupleAppends ==
  /\ \A a, x : Append(<<a>>, x) = <<a, x>>
  /\ \A a, b, x : Append(<<a, b>>, x) = <<a, b, x>>
  /\ \A a, b, c, x : Append(<<a, b, c>>, x) = <<a, b, c, x>>
  /\ \A a, b, c, d, x : Append(<<a, b, c, d>>, x) = <<a, b, c, d, x>>
  /\ \A a, b, c, d, f, x : Append(<<a, b, c, d, f>>, x) = <<a, b, c, d, f, x>>
<1> DEFINE Extends(t, s, x) ==
             Len(t) = Len(s) + 1 /\ (\A i \in 1 .. Len(s) : t[i] = s[i]) /\ t[Len(t)] = x
<1>1. \A S : \A s, t \in Seq(S) : \A x \in S : Extends(t, s, x) => Append(s, x) = t
  <2> SUFFICES ASSUME NEW S, NEW s \in Seq(S), NEW t \in Seq(S), NEW x \in S, Len(t) = Len(s) + 1,
                      \A i \in 1 .. Len(s) : t[i] = s[i], t[Len(t)] = x
               PROVE  Append(s, x) = t
    OBVIOUS
  <2>1. Append(s, x) \in Seq(S) /\ Len(Append(s, x)) = Len(t)
    OBVIOUS
  <2>2. \A i \in 1 .. Len(t) : Append(s, x)[i] = t[i]
    OBVIOUS
  <2> QED BY <2>1, <2>2, SeqEqual
<1> HIDE DEF Extends
<1>2. ASSUME NEW a, NEW x PROVE Append(<<a>>, x) = <<a, x>>
  <2> DEFINE S == {a, x}
             s == <<a>>
             t == <<a, x>>
  <2>1. s \in Seq(S) /\ Len(s) = 1 /\ x \in S /\ t \in Seq(S) /\ Len(t) = 2
    OBVIOUS
  <2>2. (\A i \in 1 .. 1 : t[i] = s[i]) /\ t[2] = x
    OBVIOUS
  <2> HIDE DEF S, s, t
  <2>3. Extends(t, s, x)
    BY <2>1, <2>2 DEF Extends
  <2>4. Append(s, x) = t
    BY <1>1, <2>1, <2>3, Zenon
  <2> QED BY <2>4 DEF s, t
<1>3. ASSUME NEW a, NEW b, NEW x PROVE Append(<<a, b>>, x) = <<a, b, x>>
  <2> DEFINE S == {a, b, x}
             s == <<a, b>>
             t == <<a, b, x>>
  <2>1. s \in Seq(S) /\ Len(s) = 2 /\ x \in S /\ t \in Seq(S) /\ Len(t) = 3
    OBVIOUS
  <2>2. (\A i \in 1 .. 2 : t[i] = s[i]) /\ t[3] = x
    OBVIOUS
  <2> HIDE DEF S, s, t
  <2>3. Extends(t, s, x)
    BY <2>1, <2>2 DEF Extends
  <2>4. Append(s, x) = t
    BY <1>1, <2>1, <2>3, Zenon
  <2> QED BY <2>4 DEF s, t
<1>4. ASSUME NEW a, NEW b, NEW c, NEW x PROVE Append(<<a, b, c>>, x) = <<a, b, c, x>>
  <2> DEFINE S == {a, b, c, x}
             s == <<a, b, c>>
             t == <<a, b, c, x>>
  <2>1. s \in Seq(S) /\ Len(s) = 3 /\ x \in S /\ t \in Seq(S) /\ Len(t) = 4
    OBVIOUS
  <2>2. (\A i \in 1 .. 3 : t[i] = s[i]) /\ t[4] = x
    OBVIOUS
  <2> HIDE DEF S, s, t
  <2>3. Extends(t, s, x)
    BY <2>1, <2>2 DEF Extends
  <2>4. Append(s, x) = t
    BY <1>1, <2>1, <2>3, Zenon
  <2> QED BY <2>4 DEF s, t
<1>5. ASSUME NEW a, NEW b, NEW c, NEW d, NEW x PROVE Append(<<a, b, c, d>>, x) = <<a, b, c, d, x>>
  <2> DEFINE S == {a, b, c, d, x}
             s == <<a, b, c, d>>
             t == <<a, b, c, d, x>>
  <2>1. s \in Seq(S) /\ Len(s) = 4 /\ x \in S /\ t \in Seq(S) /\ Len(t) = 5
    OBVIOUS
  <2>2. (\A i \in 1 .. 4 : t[i] = s[i]) /\ t[5] = x
    OBVIOUS
  <2> HIDE DEF S, s, t
  <2>3. Extends(t, s, x)
    BY <2>1, <2>2 DEF Extends
  <2>4. Append(s, x) = t
    BY <1>1, <2>1, <2>3, Zenon
  <2> QED BY <2>4 DEF s, t
<1>6. ASSUME NEW a, NEW b, NEW c, NEW d, NEW f, NEW x
      PROVE  Append(<<a, b, c, d, f>>, x) = <<a, b, c, d, f, x>>
  <2> DEFINE S == {a, b, c, d, f, x}
             s == <<a, b, c, d, f>>
             t == <<a, b, c, d, f, x>>
  <2>1. s \in Seq(S) /\ Len(s) = 5 /\ x \in S /\ t \in Seq(S) /\ Len(t) = 6
    OBVIOUS
  <2>2. (\A i \in 1 .. 5 : t[i] = s[i]) /\ t[6] = x
    OBVIOUS
  <2> HIDE DEF S, s, t
  <2>3. Extends(t, s, x)
    BY <2>1, <2>2 DEF Extends
  <2>4. Append(s, x) = t
    BY <1>1, <2>1, <2>3, Zenon
  <2> QED BY <2>4 DEF s, t
<1> QED BY <1>2, <1>3, <1>4, <1>5, <1>6

\* An event with which a run goes on.
LEMMA LoggingKeeps ==
  ASSUME MatchInv, NEW r \in Runners, run[r].phase # "Idle", NEW q,
         run' = [run EXCEPT ![r] = q],
         \/ q = Idle
         \/ /\ q.number = run[r].number /\ Fits(q, KindOf[r]) /\ q.phase # "Recorded"
            /\ log'[run[r].number] = Trail(q, KindOf[r]),
         NEW e \in Events, Logs(r, e),
         e.type = "ConstitutionOverrideApplied" =>
           \E before, last : /\ Trail(run[r], KindOf[r]) = Append(before, last)
                             /\ before \in Seq(Events) /\ last \in Events
                             /\ last.type = "ValidationCompleted" /\ last.status = "overridden",
         UNCHANGED <<opps, verified, decisions, told, lost, begun, faults>>
  PROVE  MatchInv'
<1> DEFINE m == run[r].number
           s == log[m]
<1>1. /\ run[r] # Idle /\ m \in Numbers /\ s = Trail(run[r], KindOf[r])
  BY ActiveFits
<1>2. log' = [log EXCEPT ![m] = Append(s, e)]
  BY DEF Logs
<1>3. s \in Seq(Events) /\ OverrideFollows(s)
  BY <1>1 DEF MatchInv, StoresFit, HistoryFits
<1>4. OverrideFollows(Append(s, e))
  <2> DEFINE t == Append(s, e)
             N == Len(s)
  <2>1. N \in Nat /\ DOMAIN t = 1 .. N + 1 /\ DOMAIN s = 1 .. N /\ t[N + 1] = e /\ \A i \in 1 .. N : t[i] = s[i]
    BY <1>3
  <2> HIDE DEF t
  <2>2. ASSUME NEW i \in 1 .. N, t[i].type = "ConstitutionOverrideApplied"
        PROVE  i > 1 /\ t[i - 1].type = "ValidationCompleted" /\ t[i - 1].status = "overridden"
    <3>1. i > 1 /\ s[i - 1].type = "ValidationCompleted" /\ s[i - 1].status = "overridden"
      BY <1>3, <2>1, <2>2 DEF OverrideFollows
    <3>2. i - 1 \in 1 .. N
      BY <2>1, <3>1
    <3> QED BY <2>1, <3>1, <3>2
  <2>3. ASSUME e.type = "ConstitutionOverrideApplied"
        PROVE  N + 1 > 1 /\ t[N].type = "ValidationCompleted" /\ t[N].status = "overridden"
    <3>1. PICK before, last : /\ s = Append(before, last) /\ before \in Seq(Events) /\ last \in Events
                              /\ last.type = "ValidationCompleted" /\ last.status = "overridden"
      BY <1>1, <2>3
    <3>2. N = Len(before) + 1 /\ Len(before) \in Nat /\ s[N] = last
      BY <3>1
    <3>3. N \in 1 .. N
      BY <3>2
    <3> QED BY <2>1, <3>1, <3>2, <3>3
  <2>4. ASSUME NEW i \in DOMAIN t, t[i].type = "ConstitutionOverrideApplied"
        PROVE  i > 1 /\ t[i - 1].type = "ValidationCompleted" /\ t[i - 1].status = "overridden"
    <3>1. i \in 1 .. N \/ i = N + 1
      BY <2>1
    <3>2. CASE i = N + 1
      <4>1. i - 1 = N
        BY <2>1, <3>2
      <4> QED BY <2>1, <2>3, <2>4, <3>2, <4>1
    <3> QED BY <2>2, <2>4, <3>1, <3>2
  <2> QED BY <2>4 DEF OverrideFollows, t
<1>5. faults' \in 0 .. MaxFaults
  BY FaultType
<1> HIDE DEF m, s
<1>6. log' = log \/ \E x \in Events : log' = [log EXCEPT ![m] = Append(log[m], x)] /\ OverrideFollows(Append(log[m], x))
  BY <1>2, <1>4 DEF s
<1>7. run[r] # Idle /\ m = run[r].number /\ begun' = begun
  BY <1>1 DEF m
<1> QED BY <1>1, <1>5, <1>6, <1>7, StepKeeps, StoresStay DEF m

LEMMA MatchKeeps ==
  ASSUME MatchInv, NEW r \in Runners, NEW hits \in HitLists, Match(r, hits)
  PROVE  MatchInv'
<1> DEFINE p == run[r]
           report == Evaluate(p.request.strategy, p.requirements, p.atoms, hits)
           q == [run[r] EXCEPT !.phase = "Matched", !.hits = hits, !.report = report]
<1>1. /\ p.phase = "Ready"
      /\ run' = [run EXCEPT ![r].phase = "Matched", ![r].hits = hits, ![r].report = report]
      /\ Logs(r, MatchDone)
      /\ UNCHANGED <<opps, verified, decisions, told, lost, begun, faults>>
  BY DEF Match, MatchDone
<1>2. Fits(run[r], KindOf[r]) /\ DOMAIN run = Runners /\ run[r].number \in Numbers
      /\ log[run[r].number] = Trail(run[r], KindOf[r])
  BY <1>1, ActiveFits
<1>3. IsReport(report, p.request.strategy, p.requirements, p.atoms, hits)
  BY <1>2, EvaluateIs DEF Fits
<1>4. IsReadable(report)
  BY <1>3, ReportIsReadable
<1> HIDE DEF report
<1>5. run' = [run EXCEPT ![r] = q]
  BY <1>1, <1>2
<1>6. /\ DOMAIN q = DOMAIN Idle /\ q.phase = "Matched" /\ q.number = run[r].number
      /\ q.request = run[r].request /\ q.requirements = run[r].requirements
      /\ q.atoms = run[r].atoms /\ q.hits = hits /\ q.report = report
      /\ q.validation = run[r].validation
  BY <1>2, FieldNames DEF Fits
<1> HIDE DEF q
<1>7. KindOf[r] # "Check" /\ run[r].phase \in Reading /\ run[r].phase \notin Concluded
  BY <1>1, <1>2 DEF Fits, Reading, Concluded
<1>8. Fits(q, KindOf[r])
  BY <1>2, <1>3, <1>4, <1>6, <1>7 DEF Fits, Reading, Concluded
<1>9. MatchDone \in Events /\ MatchDone.type # "ConstitutionOverrideApplied"
  BY EventType DEF MatchDone, EventTypes
<1>10. log'[run[r].number] = Trail(q, KindOf[r])
  <2>1. log[run[r].number] = <<Start(KindOf[r])>>
    BY <1>2, <1>7 DEF Trail
  <2>2. log'[run[r].number] = Append(log[run[r].number], MatchDone)
    BY <1>1, <1>2 DEF Logs, MatchInv, StoresFit
  <2>3. Trail(q, KindOf[r]) = <<Start(KindOf[r]), MatchDone>>
    BY <1>6, <1>7 DEF Trail, Reading
  <2> QED BY <2>1, <2>2, <2>3, TupleAppends
<1> QED BY <1>1, <1>5, <1>6, <1>8, <1>9, <1>10, LoggingKeeps

LEMMA EventsAre ==
  /\ \A kind : Start(kind) \in Events /\ Start(kind).type # "ConstitutionOverrideApplied"
  /\ MatchDone \in Events /\ MatchDone.type # "ConstitutionOverrideApplied"
  /\ Applied \in Events /\ Applied.type = "ConstitutionOverrideApplied"
  /\ RunDone \in Events /\ RunDone.type = "RunCompleted"
<1>1. \A kind : Start(kind) \in Events /\ Start(kind).type # "ConstitutionOverrideApplied"
  BY EventType DEF Start, EventTypes
<1>2. MatchDone \in Events /\ MatchDone.type # "ConstitutionOverrideApplied"
  BY EventType DEF MatchDone, EventTypes
<1>3. Applied \in Events /\ Applied.type = "ConstitutionOverrideApplied"
  BY EventType DEF Applied, EventTypes
<1>4. RunDone \in Events /\ RunDone.type = "RunCompleted"
  BY EventType DEF RunDone, EventTypes
<1> QED BY <1>1, <1>2, <1>3, <1>4

\* What a concluded run announced.
LEMMA AnnouncedIs ==
  ASSUME NEW q, IsReadable(q.report),
         q.validation = Validate(Artifact(q.request.opp, q.report), BoundOf(q))
  PROVE  /\ q.validation.findings \in Seq(Kinds) /\ q.validation.status \in Statuses
         /\ Announced(q) \in Events /\ Announced(q).type = "ValidationCompleted"
         /\ Announced(q).status = StatusText(q.validation.status)
<1>1. q.validation.findings \in Seq(Kinds) /\ q.validation.status \in Statuses
  BY FindingsAre, ValidateIs
<1>2. Len(q.validation.findings) \in Nat
  BY <1>1
<1>3. StatusText(q.validation.status) \in {"None", "unknown"} \cup Statuses
  BY <1>1 DEF StatusText
<1>4. /\ Announced(q) \in Events /\ Announced(q).type = "ValidationCompleted"
      /\ Announced(q).status = StatusText(q.validation.status)
  <2> DEFINE status == StatusText(q.validation.status)
             count == Len(q.validation.findings)
  <2>1. "ValidationCompleted" \in EventTypes /\ Announced(q) = Event("ValidationCompleted", status, count)
    BY DEF EventTypes, Announced
  <2> HIDE DEF status, count
  <2>2. status \in {"None", "unknown"} \cup Statuses /\ count \in Nat
    BY <1>2, <1>3 DEF status, count
  <2>3. /\ Announced(q) \in Events /\ Announced(q).type = "ValidationCompleted"
        /\ Announced(q).status = status
    <3>1. \A s \in {"None", "unknown"} \cup Statuses, n \in Nat :
            /\ Event("ValidationCompleted", s, n) \in Events
            /\ Event("ValidationCompleted", s, n).type = "ValidationCompleted"
            /\ Event("ValidationCompleted", s, n).status = s
      BY <2>1, EventType
    <3> QED BY <2>1, <2>2, <3>1
  <2> QED BY <2>3 DEF status
<1> QED BY <1>1, <1>4

LEMMA ValidateReportKeeps ==
  ASSUME MatchInv, NEW r \in Runners, ValidateReport(r)
  PROVE  MatchInv'
<1> DEFINE p == run[r]
           result == Validate(Artifact(p.request.opp, p.report), BoundOf(p))
           q == [run[r] EXCEPT !.phase = "Validated", !.validation = result]
           e == Event("ValidationCompleted", StatusText(result.status), Len(result.findings))
<1>1. /\ p.phase = "Matched"
      /\ run' = [run EXCEPT ![r].phase = "Validated", ![r].validation = result]
      /\ Logs(r, e)
      /\ UNCHANGED <<opps, verified, decisions, told, lost, begun, faults>>
  BY DEF ValidateReport, ArtifactOf, Artifact, Bound, BoundOf
<1>2. Fits(run[r], KindOf[r]) /\ DOMAIN run = Runners /\ run[r].number \in Numbers
      /\ log[run[r].number] = Trail(run[r], KindOf[r])
  BY <1>1, ActiveFits
<1> HIDE DEF result
<1>3. run' = [run EXCEPT ![r] = q]
  BY <1>1, <1>2
<1>4. /\ DOMAIN q = DOMAIN Idle /\ q.phase = "Validated" /\ q.number = run[r].number
      /\ q.request = run[r].request /\ q.requirements = run[r].requirements
      /\ q.atoms = run[r].atoms /\ q.hits = run[r].hits /\ q.report = run[r].report
      /\ q.validation = result
  BY <1>2, FieldNames DEF Fits
<1> HIDE DEF q
<1>5. q.validation = Validate(Artifact(q.request.opp, q.report), BoundOf(q))
  BY <1>4 DEF result, BoundOf
<1>6. Fits(q, KindOf[r])
  BY <1>1, <1>2, <1>4, <1>5 DEF Fits, Reading, Concluded
<1>7. e = Announced(q)
  BY <1>4 DEF Announced
<1>8. e \in Events /\ e.type # "ConstitutionOverrideApplied"
  BY <1>5, <1>6, <1>7, AnnouncedIs DEF Fits
<1> HIDE DEF e
<1>9. log'[run[r].number] = Trail(q, KindOf[r])
  <2>1. log[run[r].number] = IF KindOf[r] = "Check" THEN <<>> ELSE <<Start(KindOf[r]), MatchDone>>
    BY <1>1, <1>2 DEF Trail, Reading
  <2>2. log'[run[r].number] = Append(log[run[r].number], e)
    BY <1>1, <1>2 DEF Logs, MatchInv, StoresFit
  <2>3. Trail(q, KindOf[r]) = Validating(q, KindOf[r])
    BY <1>4 DEF Trail, Reading
  <2>4. Append(<<>>, e) = <<e>>
    OBVIOUS
  <2> QED BY <1>7, <2>1, <2>2, <2>3, <2>4, TupleAppends DEF Validating
<1> QED BY <1>1, <1>3, <1>4, <1>6, <1>8, <1>9, LoggingKeeps

LEMMA AnnounceOverrideKeeps ==
  ASSUME MatchInv, NEW r \in Runners, AnnounceOverride(r)
  PROVE  MatchInv'
<1> DEFINE p == run[r]
           kind == KindOf[r]
           q == [run[r] EXCEPT !.phase = "Cleared"]
           before == IF kind = "Check" THEN <<>> ELSE <<Start(kind), MatchDone>>
<1>1. /\ p.phase = "Validated" /\ p.validation.status = "overridden"
      /\ run' = [run EXCEPT ![r].phase = "Cleared"]
      /\ Logs(r, Applied)
      /\ UNCHANGED <<opps, verified, decisions, told, lost, begun, faults>>
  BY DEF AnnounceOverride, IsOverridden, Goes, Applied
<1>2. Fits(run[r], kind) /\ DOMAIN run = Runners /\ run[r].number \in Numbers
      /\ log[run[r].number] = Trail(run[r], kind)
  BY <1>1, ActiveFits
<1>3. run' = [run EXCEPT ![r] = q]
  BY <1>1, <1>2
<1>4. /\ DOMAIN q = DOMAIN Idle /\ q.phase = "Cleared" /\ q.number = run[r].number
      /\ q.request = run[r].request /\ q.requirements = run[r].requirements
      /\ q.atoms = run[r].atoms /\ q.hits = run[r].hits /\ q.report = run[r].report
      /\ q.validation = run[r].validation
  BY <1>2, FieldNames DEF Fits
<1> HIDE DEF q
<1>5. p.validation = Validate(Artifact(p.request.opp, p.report), BoundOf(p)) /\ IsReadable(p.report)
  BY <1>1, <1>2 DEF Fits, Concluded
<1>6. Fits(q, kind)
  <2>1. BoundOf(q) = BoundOf(p)
    BY <1>4 DEF BoundOf
  <2> QED BY <1>1, <1>2, <1>4, <1>5, <2>1 DEF Fits, Reading, Concluded
<1>7. Announced(q) = Announced(p)
  BY <1>4 DEF Announced
<1>8. /\ Announced(p) \in Events /\ Announced(p).type = "ValidationCompleted"
      /\ Announced(p).status = "overridden"
  BY <1>1, <1>5, AnnouncedIs DEF StatusText
<1>9. Trail(p, kind) = Validating(p, kind) /\ Trail(q, kind) = Append(Validating(q, kind), Applied)
  BY <1>1, <1>4 DEF Trail, Reading
<1>10. Validating(p, kind) = Append(before, Announced(p)) /\ before \in Seq(Events)
  <2>1. Append(<<>>, Announced(p)) = <<Announced(p)>>
    OBVIOUS
  <2>2. <<Start(kind), MatchDone>> \in Seq(Events)
    BY EventsAre
  <2>3. <<>> \in Seq(Events)
    OBVIOUS
  <2>4. CASE kind = "Check"
    <3>1. Validating(p, kind) = <<Announced(p)>> /\ before = <<>>
      BY <2>4 DEF Validating
    <3> QED BY <2>1, <2>3, <3>1
  <2>5. CASE kind # "Check"
    <3>1. Validating(p, kind) = <<Start(kind), MatchDone, Announced(p)>> /\ before = <<Start(kind), MatchDone>>
      BY <2>5 DEF Validating
    <3> QED BY <2>2, <3>1, TupleAppends
  <2> QED BY <2>4, <2>5
<1>11. Validating(q, kind) = Validating(p, kind)
  BY <1>7 DEF Validating
<1>12. log'[run[r].number] = Append(log[run[r].number], Applied)
  BY <1>1, <1>2 DEF Logs, MatchInv, StoresFit
<1>13. log'[run[r].number] = Trail(q, kind)
  BY <1>2, <1>9, <1>11, <1>12
<1> HIDE DEF before
<1>14. \E b, last : /\ Trail(run[r], KindOf[r]) = Append(b, last)
                    /\ b \in Seq(Events) /\ last \in Events
                    /\ last.type = "ValidationCompleted" /\ last.status = "overridden"
  BY <1>8, <1>9, <1>10
<1> QED BY <1>1, <1>3, <1>4, <1>6, <1>13, <1>14, EventsAre, LoggingKeeps

LEMMA CompleteKeeps ==
  ASSUME MatchInv, NEW r \in Runners, Complete(r)
  PROVE  MatchInv'
<1> DEFINE p == run[r]
           kind == KindOf[r]
           q == [run[r] EXCEPT !.phase = "Completed"]
<1>1. /\ kind # "Check"
      /\ p.phase = "Cleared" \/ (p.phase = "Validated" /\ p.validation.status # "overridden")
      /\ Logs(r, RunDone)
      /\ UNCHANGED <<opps, verified, decisions, told, lost, begun, faults>>
  BY DEF Complete, IsCleared, IsOverridden, RunDone
<1>2. Fits(run[r], kind) /\ DOMAIN run = Runners /\ run[r].number \in Numbers
      /\ log[run[r].number] = Trail(run[r], kind)
      /\ kind \in {"Tool", "Demo", "Check"}
  BY <1>1, ActiveFits
<1>3. CASE kind = "Demo"
  <2>1. run' = [run EXCEPT ![r] = Idle]
    BY <1>3 DEF Complete, Ends
  <2>2. run[r].phase # "Idle"
    BY <1>1
  <2>3. RunDone \in Events /\ RunDone.type # "ConstitutionOverrideApplied"
    BY EventsAre
  <2>4. RunDone.type = "ConstitutionOverrideApplied" =>
          \E before, last : /\ Trail(run[r], KindOf[r]) = Append(before, last)
                            /\ before \in Seq(Events) /\ last \in Events
                            /\ last.type = "ValidationCompleted" /\ last.status = "overridden"
    BY <2>3
  <2> QED BY <1>1, <2>1, <2>2, <2>3, <2>4, LoggingKeeps
<1>4. CASE kind = "Tool"
  <2>1. run' = [run EXCEPT ![r].phase = "Completed"]
    BY <1>4 DEF Complete, Goes
  <2>2. run' = [run EXCEPT ![r] = q]
    BY <2>1, <1>2
  <2>3. /\ DOMAIN q = DOMAIN Idle /\ q.phase = "Completed" /\ q.number = run[r].number
        /\ q.request = run[r].request /\ q.requirements = run[r].requirements
        /\ q.atoms = run[r].atoms /\ q.hits = run[r].hits /\ q.report = run[r].report
        /\ q.validation = run[r].validation
    BY <1>2, FieldNames DEF Fits
  <2> HIDE DEF q
  <2>4. Fits(q, kind)
    <3>1. BoundOf(q) = BoundOf(p)
      BY <2>3 DEF BoundOf
    <3> QED BY <1>1, <1>2, <1>4, <2>3, <3>1 DEF Fits, Reading, Concluded
  <2>5. Announced(q) = Announced(p)
    BY <2>3 DEF Announced
  <2>6. log'[run[r].number] = Append(log[run[r].number], RunDone)
    BY <1>1, <1>2 DEF Logs, MatchInv, StoresFit
  <2>7. Validating(p, kind) = <<Start(kind), MatchDone, Announced(q)>>
    BY <1>1, <2>5 DEF Validating
  <2>8. Append(Trail(p, kind), RunDone) = Trail(q, kind)
    <3>1. CASE p.phase = "Cleared"
      <4>1. p.validation.status = "overridden"
        BY <1>2, <3>1 DEF Fits
      <4>2. Trail(p, kind) = Append(Validating(p, kind), Applied)
        BY <3>1 DEF Trail, Reading
      <4>3. Trail(q, kind) = <<Start(kind), MatchDone, Announced(q), Applied, RunDone>>
        BY <2>3, <4>1 DEF Trail, Reading
      <4>4. Append(<<Start(kind), MatchDone, Announced(q)>>, Applied) =
              <<Start(kind), MatchDone, Announced(q), Applied>>
        BY TupleAppends
      <4>5. Append(<<Start(kind), MatchDone, Announced(q), Applied>>, RunDone) =
              <<Start(kind), MatchDone, Announced(q), Applied, RunDone>>
        BY TupleAppends
      <4> QED BY <2>7, <4>2, <4>3, <4>4, <4>5, Zenon
    <3>2. CASE p.phase = "Validated" /\ p.validation.status # "overridden"
      <4>1. Trail(p, kind) = Validating(p, kind)
        BY <3>2 DEF Trail, Reading
      <4>2. Trail(q, kind) = <<Start(kind), MatchDone, Announced(q), RunDone>>
        BY <2>3, <3>2 DEF Trail, Reading
      <4> QED BY <2>7, <4>1, <4>2, TupleAppends
    <3> QED BY <1>1, <3>1, <3>2
  <2>9. log'[run[r].number] = Trail(q, kind)
    BY <1>2, <2>6, <2>8
  <2> QED BY <1>1, <2>2, <2>3, <2>4, <2>9, EventsAre, LoggingKeeps
<1> QED BY <1>1, <1>2, <1>3, <1>4

\* A decision as it is built fits the trace of its run.
LEMMA DecisionFits ==
  ASSUME MatchInv, NEW r \in Runners, run[r].phase = "Completed"
  PROVE  DecisionOf(r) # NoDecision /\ IsTraced(DecisionOf(r), log[run[r].number])
<1> DEFINE p == run[r]
           d == DecisionOf(r)
           events == log[run[r].number]
           fails == Cardinality({i \in DOMAIN p.validation.findings : IsFailure(p.validation.findings[i])})
           warnings == Cardinality({i \in DOMAIN p.validation.findings :
                                      p.validation.findings[i].severity = "Warn"})
<1>1. Fits(p, KindOf[r]) /\ events = Trail(p, KindOf[r]) /\ KindOf[r] # "Check"
  <2>1. Fits(p, KindOf[r]) /\ events = Trail(p, KindOf[r])
    BY ActiveFits
  <2> QED BY <2>1 DEF Fits
<1>2. p.validation = Validate(Artifact(p.request.opp, p.report), BoundOf(p)) /\ IsReadable(p.report)
  BY <1>1 DEF Fits, Concluded
<1>3. p.validation.findings \in Seq(Kinds) /\ p.validation.status \in Statuses
  BY <1>2, AnnouncedIs
<1>4. /\ d.status = p.validation.status /\ d.findings = Len(p.validation.findings)
      /\ d.fails = fails /\ d.warnings = warnings
  BY DEF DecisionOf
<1> HIDE DEF d
<1>5. d.findings = d.fails + d.warnings
  BY <1>3, <1>4, CountsAddUp
<1>6. (d.fails > 0) = (d.status \in {"rejected", "blocked", "overridden"})
  <2>1. fails > 0 <=> SchemaBlock \in ToSet(p.validation.findings) \/ EvidenceFail \in ToSet(p.validation.findings)
    BY <1>3, CountsAddUp
  <2>2. /\ SchemaBlock \in ToSet(p.validation.findings) <=> Blocks(p.report)
        /\ EvidenceFail \in ToSet(p.validation.findings) <=> Fails(p.report)
    BY <1>2, ValidateIs, FindingsAre
  <2>3. p.validation.status \in {"rejected", "blocked", "overridden"} <=> Blocks(p.report) \/ Fails(p.report)
    BY <1>2, ValidateIs
  <2> HIDE DEF fails
  <2>4. d.fails > 0 <=> d.status \in {"rejected", "blocked", "overridden"}
    BY <1>4, <2>1, <2>2, <2>3
  <2> QED BY <2>4
<1> HIDE DEF fails, warnings
<1>7. RunDone \in ToSet(events) /\ Announced(p) \in ToSet(events)
  <2> DEFINE kind == KindOf[r]
             long == <<Start(kind), MatchDone, Announced(p), Applied, RunDone>>
             short == <<Start(kind), MatchDone, Announced(p), RunDone>>
  <2>1. events = long \/ events = short
    BY <1>1 DEF Trail, Reading
  <2>2. /\ 3 \in DOMAIN long /\ long[3] = Announced(p) /\ 5 \in DOMAIN long /\ long[5] = RunDone
        /\ 3 \in DOMAIN short /\ short[3] = Announced(p) /\ 4 \in DOMAIN short /\ short[4] = RunDone
    OBVIOUS
  <2> HIDE DEF long, short
  <2> QED BY <2>1, <2>2 DEF ToSet
<1>8. Announces(Announced(p), d)
  BY <1>4 DEF Announced, Announces, Event, StatusText
<1>9. RunDone.type = "RunCompleted"
  BY EventsAre
<1>10. IsTraced(d, events)
  BY <1>3, <1>4, <1>5, <1>6, <1>7, <1>8, <1>9 DEF IsTraced
<1>11. d # NoDecision
  BY <1>3, <1>4 DEF Statuses, NoDecision
<1> QED BY <1>10, <1>11 DEF d

LEMMA StoreDecisionKeeps ==
  ASSUME MatchInv, NEW r \in Runners, StoreDecision(r) \/ StoreDecisionFails(r)
  PROVE  MatchInv'
<1> DEFINE p == run[r]
           m == run[r].number
           q == [run[r] EXCEPT !.phase = "Recorded"]
<1>1. /\ p.phase = "Completed"
      /\ run' = [run EXCEPT ![r].phase = "Recorded"]
      /\ UNCHANGED <<opps, verified, log, told, begun>>
  BY DEF StoreDecision, StoreDecisionFails, Goes
<1>2. run[r] # Idle /\ Fits(run[r], KindOf[r]) /\ DOMAIN run = Runners /\ m \in Numbers
      /\ log[m] = Trail(run[r], KindOf[r])
  BY <1>1, ActiveFits
<1>3. run' = [run EXCEPT ![r] = q]
  BY <1>1, <1>2
<1>4. /\ DOMAIN q = DOMAIN Idle /\ q.phase = "Recorded" /\ q.number = run[r].number
      /\ q.request = run[r].request /\ q.requirements = run[r].requirements
      /\ q.atoms = run[r].atoms /\ q.hits = run[r].hits /\ q.report = run[r].report
      /\ q.validation = run[r].validation
  BY <1>2, FieldNames DEF Fits
<1> HIDE DEF q
<1>5. Fits(q, KindOf[r])
  <2>1. BoundOf(q) = BoundOf(p)
    BY <1>4 DEF BoundOf
  <2> QED BY <1>1, <1>2, <1>4, <2>1 DEF Fits, Reading, Concluded
<1>6. log'[m] = Trail(q, KindOf[r])
  BY <1>1, <1>2, <1>4 DEF Trail, Reading, Announced
<1>7. DOMAIN decisions = Numbers
  BY DEF MatchInv, StoresFit
<1>8. /\ decisions' = decisions \/ \E d : decisions' = [decisions EXCEPT ![m] = d] /\ IsTraced(d, log[m])
      /\ lost \subseteq lost' /\ lost' \subseteq lost \cup {m}
      /\ decisions'[m] # NoDecision \/ m \in lost'
  <2>1. CASE StoreDecision(r)
    <3>1. decisions' = [decisions EXCEPT ![m] = DecisionOf(r)] /\ lost' = lost
      BY <2>1 DEF StoreDecision
    <3>2. DecisionOf(r) # NoDecision /\ IsTraced(DecisionOf(r), log[m])
      BY <1>1, DecisionFits
    <3> QED BY <1>2, <1>7, <3>1, <3>2
  <2>2. CASE StoreDecisionFails(r)
    BY <2>2 DEF StoreDecisionFails
  <2> QED BY <2>1, <2>2
<1>9. faults' \in 0 .. MaxFaults
  BY FaultType DEF StoreDecision, StoreDecisionFails
<1>10. (DOMAIN opps = Opps /\ (\A opp \in Opps : IsList(opps[opp])) /\ IsTable(verified))'
  BY <1>1, StoresStay
<1>11. m = run[r].number /\ q.number = m /\ log' = log /\ told' = told /\ begun' = begun
  BY <1>1, <1>4
<1> HIDE DEF m, p
<1> QED BY <1>2, <1>3, <1>5, <1>6, <1>8, <1>9, <1>10, <1>11, StepKeeps

LEMMA AnswerMatchKeeps ==
  ASSUME MatchInv, NEW r \in Runners, AnswerMatch(r)
  PROVE  MatchInv'
<1> DEFINE p == run[r]
           m == run[r].number
           e == Event("DecisionRecorded", "None", 0)
<1>1. /\ p.phase = "Recorded"
      /\ run' = [run EXCEPT ![r] = Idle]
      /\ log' = [log EXCEPT ![m] = Append(log[m], e)]
      /\ told' = told \cup {m}
      /\ UNCHANGED <<opps, verified, decisions, lost, begun, faults>>
  BY DEF AnswerMatch, Ends, Logs
<1>2. /\ run[r] # Idle /\ Fits(run[r], KindOf[r]) /\ m \in Numbers
      /\ log[m] = Trail(run[r], KindOf[r])
      /\ decisions[m] # NoDecision \/ m \in lost
  BY <1>1, ActiveFits
<1>3. KindOf[r] = "Tool"
  BY <1>1, <1>2 DEF Fits
<1>4. e \in Events /\ e.type = "DecisionRecorded"
  BY EventType DEF EventTypes
<1>5. log \in [Numbers -> Seq(Events)] /\ OverrideFollows(log[m])
  BY <1>2 DEF MatchInv, StoresFit, HistoryFits
<1> DEFINE s == log[m]
           t == Append(s, e)
<1>6. log'[m] = t
  BY <1>1, <1>2, <1>5
<1>7. OverrideFollows(t)
  <2> DEFINE N == Len(s)
  <2>1. s \in Seq(Events) /\ OverrideFollows(s)
    BY <1>2, <1>5
  <2>2. N \in Nat /\ DOMAIN t = 1 .. N + 1 /\ DOMAIN s = 1 .. N /\ t[N + 1] = e /\ \A i \in 1 .. N : t[i] = s[i]
    BY <2>1
  <2> HIDE DEF t, s, N, e
  <2>3. ASSUME NEW i \in DOMAIN t, t[i].type = "ConstitutionOverrideApplied"
        PROVE  i > 1 /\ t[i - 1].type = "ValidationCompleted" /\ t[i - 1].status = "overridden"
    <3>1. i \in 1 .. N
      BY <1>4, <2>2, <2>3
    <3>2. i > 1 /\ s[i - 1].type = "ValidationCompleted" /\ s[i - 1].status = "overridden"
      BY <2>1, <2>2, <2>3, <3>1 DEF OverrideFollows
    <3>3. i - 1 \in 1 .. N
      BY <2>2, <3>1, <3>2
    <3> QED BY <2>2, <3>2, <3>3
  <2> QED BY <2>3 DEF OverrideFollows
<1>8. TypesOf(t) \in FullTrails
  <2> DEFINE start == Start("Tool")
             announced == Announced(p)
  <2>1. /\ start.type = "RunStarted" /\ MatchDone.type = "MatchCompleted"
        /\ announced.type = "ValidationCompleted" /\ Applied.type = "ConstitutionOverrideApplied"
        /\ RunDone.type = "RunCompleted"
    BY DEF Start, MatchDone, Announced, Applied, RunDone, Event
  <2>2. \/ s = <<start, MatchDone, announced, Applied, RunDone>>
        \/ s = <<start, MatchDone, announced, RunDone>>
    BY <1>1, <1>2, <1>3 DEF Trail, Reading
  <2> HIDE DEF start, announced, s, e
  <2>3. CASE s = <<start, MatchDone, announced, Applied, RunDone>>
    <3>1. t = <<start, MatchDone, announced, Applied, RunDone, e>>
      BY <2>3, TupleAppends
    <3>2. TypesOf(t) = <<"RunStarted", "MatchCompleted", "ValidationCompleted",
                         "ConstitutionOverrideApplied", "RunCompleted", "DecisionRecorded">>
      BY <1>4, <2>1, <3>1 DEF TypesOf
    <3> QED BY <3>2 DEF FullTrails
  <2>4. CASE s = <<start, MatchDone, announced, RunDone>>
    <3>1. t = <<start, MatchDone, announced, RunDone, e>>
      BY <2>4, TupleAppends
    <3>2. TypesOf(t) = <<"RunStarted", "MatchCompleted", "ValidationCompleted", "RunCompleted",
                         "DecisionRecorded">>
      BY <1>4, <2>1, <3>1 DEF TypesOf
    <3> QED BY <3>2 DEF FullTrails
  <2> QED BY <2>2, <2>3, <2>4
<1>9. faults' \in 0 .. MaxFaults
  BY <1>1, FaultType
<1>10. decisions'[m] # NoDecision \/ m \in lost'
  BY <1>1, <1>2
<1> HIDE DEF t, s, e
<1>11. \E x \in Events : log' = [log EXCEPT ![m] = Append(log[m], x)] /\ OverrideFollows(Append(log[m], x))
  BY <1>1, <1>4, <1>7 DEF t, s
<1>12. TypesOf(log'[m]) \in FullTrails
  BY <1>6, <1>8
<1> QED BY <1>1, <1>2, <1>9, <1>10, <1>11, <1>12, StepKeeps, StoresStay

LEMMA InitFits == Init => MatchInv
<1> SUFFICES ASSUME Init PROVE MatchInv
  OBVIOUS
<1>1. DOMAIN opps = Opps /\ (\A opp \in Opps : IsList(opps[opp])) /\ IsTable(verified)
  BY PipelineAssumption DEF Init
<1>2. log \in [Numbers -> Seq(Events)] /\ \A n \in Numbers : log[n] = <<>>
  BY DEF Init
<1>3. DOMAIN decisions = Numbers /\ \A n \in Numbers : decisions[n] = NoDecision
  BY DEF Init
<1>4. begun \in 0 .. MaxRuns /\ faults \in 0 .. MaxFaults /\ told = {} /\ lost = {}
  BY PipelineAssumption DEF Init
<1>5. DOMAIN run = Runners /\ \A r \in Runners : run[r] = Idle
  BY DEF Init
<1>6. StoresFit /\ FutureIsEmpty
  BY <1>1, <1>2, <1>3, <1>4 DEF StoresFit, FutureIsEmpty
<1>7. RunsFit /\ NumbersAreOwn
  BY <1>5 DEF RunsFit, RunFits, NumbersAreOwn
<1>8. HistoryFits
  BY <1>2, <1>3, <1>4 DEF HistoryFits, OverrideFollows
<1> QED BY <1>6, <1>7, <1>8 DEF MatchInv

LEMMA NextKeeps == MatchInv /\ [Next]_vars => MatchInv'
<1> SUFFICES ASSUME MatchInv, [Next]_vars PROVE MatchInv'
  OBVIOUS
<1>1. CASE UNCHANGED vars
  <2>1. /\ StoresFit => StoresFit'
        /\ NumbersAreOwn => NumbersAreOwn'
        /\ FutureIsEmpty => FutureIsEmpty'
    BY <1>1 DEF vars, StoresFit, NumbersAreOwn, FutureIsEmpty
  <2>2. HistoryFits => HistoryFits'
    BY <1>1 DEF vars, HistoryFits
  <2>3. RunsFit => RunsFit'
    BY <1>1 DEF vars, RunsFit, RunFits
  <2> QED BY <2>1, <2>2, <2>3 DEF MatchInv
<1>2. CASE Next
  <2>1. PICK r \in Runners :
          \/ \E request \in Requests : Begin(r, request)
          \/ \E options \in DemoOptions : BeginDemo(r, options)
          \/ \E draft \in Drafts, opp \in Opps, override \in Overrides :
               BeginCheck(r, draft, opp, override)
          \/ StoreDemo(r) \/ StoreDemoPartly(r)
          \/ ReadOpportunity(r) \/ OpportunityMissing(r)
          \/ ReadAtoms(r) \/ AtomMissing(r) \/ ReadAtomsBusy(r)
          \/ \E hits \in HitLists : Match(r, hits)
          \/ ValidateReport(r) \/ AnnounceOverride(r) \/ EndCheck(r) \/ Complete(r)
          \/ StoreDecision(r) \/ StoreDecisionFails(r) \/ AnswerMatch(r) \/ Break(r)
    BY <1>2 DEF Next
  <2>2. CASE \E request \in Requests : Begin(r, request)
    BY <2>2, BeginKeeps
  <2>3. CASE \E options \in DemoOptions : BeginDemo(r, options)
    BY <2>3, BeginDemoKeeps
  <2>4. CASE \E draft \in Drafts, opp \in Opps, override \in Overrides :
               BeginCheck(r, draft, opp, override)
    BY <2>4, BeginCheckKeeps
  <2>5. CASE StoreDemo(r) \/ StoreDemoPartly(r)
    BY <2>5, StoreDemoKeeps
  <2>6. CASE ReadOpportunity(r)
    BY <2>6, ReadOpportunityKeeps
  <2>7. CASE ReadAtoms(r) \/ ReadAtomsBusy(r)
    BY <2>7, ReadAtomsKeeps
  <2>8. CASE OpportunityMissing(r) \/ AtomMissing(r) \/ EndCheck(r) \/ Break(r)
    BY <2>8, EndsKeep
  <2>9. CASE \E hits \in HitLists : Match(r, hits)
    BY <2>9, MatchKeeps
  <2>10. CASE ValidateReport(r)
    BY <2>10, ValidateReportKeeps
  <2>11. CASE AnnounceOverride(r)
    BY <2>11, AnnounceOverrideKeeps
  <2>12. CASE Complete(r)
    BY <2>12, CompleteKeeps
  <2>13. CASE StoreDecision(r) \/ StoreDecisionFails(r)
    BY <2>13, StoreDecisionKeeps
  <2>14. CASE AnswerMatch(r)
    BY <2>14, AnswerMatchKeeps
  <2> QED BY <2>1, <2>2, <2>3, <2>4, <2>5, <2>6, <2>7, <2>8, <2>9, <2>10, <2>11, <2>12, <2>13, <2>14
<1> QED BY <1>1, <1>2

LEMMA MatchInvHolds == Spec => []MatchInv
BY InitFits, NextKeeps, PTL DEF Spec

-----------------------------------------------------------------------------
\* Every run is at a step of its kind, and events, records and answers belong
\* to runs that were begun (app_service.cpp: run_match_pipeline,
\* run_validation_pipeline, record_match_decision).
THEOREM TypeCorrect == Spec => []TypeOK
<1>1. ASSUME MatchInv PROVE TypeOK
  <2>1. /\ DOMAIN opps = Opps /\ DOMAIN verified \subseteq Atoms
        /\ begun \in 0 .. MaxRuns /\ faults \in 0 .. MaxFaults
    BY <1>1 DEF MatchInv, StoresFit, IsTable
  <2>2. \A n \in Numbers : decisions[n] # NoDecision => decisions[n].status \in Statuses
    BY <1>1 DEF MatchInv, HistoryFits, IsTraced
  <2>3. ASSUME NEW r \in Runners
        PROVE  /\ run[r].number \in 0 .. begun
               /\ run[r].phase \in Concluded <=> run[r].validation.status \in Statuses
    <3>1. CASE run[r] = Idle
      <4>1. begun \in Nat
        BY <2>1, PipelineAssumption
      <4> QED BY <3>1, <4>1 DEF Idle, Nothing, Statuses, Concluded
    <3>2. CASE run[r] # Idle
      <4>1. Fits(run[r], KindOf[r]) /\ run[r].number \in 1 .. begun
        BY <1>1, <3>2 DEF MatchInv, RunsFit, RunFits
      <4>2. CASE run[r].phase \in Concluded
        <5>1. run[r].validation.status \in Statuses
          BY <4>1, <4>2, ValidateIs DEF Fits
        <5> QED BY <4>1, <4>2, <5>1
      <4>3. CASE run[r].phase \notin Concluded
        <5>1. run[r].validation.status \notin Statuses
          BY <4>1, <4>3 DEF Fits, Nothing, Statuses
        <5> QED BY <4>1, <4>3, <5>1
      <4> QED BY <4>2, <4>3
    <3> QED BY <3>1, <3>2
  <2> QED BY <1>1, <2>1, <2>2, <2>3 DEF TypeOK, MatchInv, FutureIsEmpty, Concluded
<1> QED BY <1>1, MatchInvHolds, PTL

\* A report that the matcher made is still the best there is for what its run
\* read, however long the run takes from there (matcher.cpp).
THEOREM ReportsStayBest == Spec => []ReportsAreBest
<1>1. ASSUME MatchInv PROVE ReportsAreBest
  <2> SUFFICES ASSUME NEW r \in Runners, KindOf[r] # "Check", run[r].report # NoReport
               PROVE  LET q == run[r]
                          eligible == {a \in Atoms :
                            Eligible(q.request.strategy, q.requirements, q.atoms, q.hits, a)}
                      IN  /\ DOMAIN q.report.matches = DOMAIN q.requirements
                          /\ \A i \in DOMAIN q.requirements :
                               IsBestMatch(q.requirements[i], q.report.matches[i], eligible)
    BY DEF ReportsAreBest
  <2>1. Fits(run[r], KindOf[r])
    BY <1>1 DEF MatchInv, RunsFit, RunFits, Idle
  <2> DEFINE q == run[r]
  <2>2. IsReport(q.report, q.request.strategy, q.requirements, q.atoms, q.hits)
    BY <2>1 DEF Fits
  <2> QED BY <2>2 DEF IsReport
<1> QED BY <1>1, MatchInvHolds, PTL

\* What a run that is past the matcher knows of its report.
LEMMA MatchedFits ==
  ASSUME MatchInv, NEW r \in Runners, KindOf[r] # "Check", run[r].report # NoReport
  PROVE  /\ Fits(run[r], KindOf[r])
         /\ IsReport(run[r].report, run[r].request.strategy, run[r].requirements,
                     run[r].atoms, run[r].hits)
<1>1. Fits(run[r], KindOf[r])
  BY DEF MatchInv, RunsFit, RunFits, Idle
<1> QED BY <1>1 DEF Fits

\* An atom that is not verified is evidence only where the caller named it and
\* the vector index found it (matcher.cpp: select_candidates; app_service.cpp:
\* the atoms run_match_pipeline reads).
THEOREM UnverifiedStaysNamed == Spec => []UnverifiedIsNamed
<1>1. ASSUME MatchInv PROVE UnverifiedIsNamed
  <2> SUFFICES ASSUME NEW r \in Runners, NEW m \in ToSet(run[r].report.matches),
                      KindOf[r] # "Check", m.matched,
                      [id |-> m.atom, verified |-> FALSE] \in ToSet(run[r].atoms)
               PROVE  /\ run[r].request.atoms # All
                      /\ run[r].request.strategy = "Hybrid"
                      /\ m.atom \in ToSet(run[r].hits)
    BY DEF UnverifiedIsNamed
  <2> DEFINE q == run[r]
             named == [id |-> m.atom, verified |-> FALSE]
             eligible == {a \in Atoms :
               Eligible(q.request.strategy, q.requirements, q.atoms, q.hits, a)}
  <2>1. q.report # NoReport
    BY DEF NoReport, ToSet
  <2>2. Fits(q, KindOf[r])
    BY <1>1, <2>1, MatchedFits
  <2>3. IsReport(q.report, q.request.strategy, q.requirements, q.atoms, q.hits)
    BY <1>1, <2>1, MatchedFits
  <2>4. PICK i \in DOMAIN q.requirements : m = q.report.matches[i]
    BY <2>3 DEF IsReport, ToSet
  <2>5. IsBestMatch(q.requirements[i], m, eligible)
    BY <2>3, <2>4 DEF IsReport
  <2>6. Eligible(q.request.strategy, q.requirements, q.atoms, q.hits, m.atom)
    BY <2>5 DEF IsBestMatch
  <2>7. [id |-> m.atom, verified |-> TRUE] \notin ToSet(q.atoms)
    <3>1. \A a, b \in ToSet(q.atoms) : a.id = b.id => a = b
      BY <2>2 DEF Fits
    <3>2. named # [id |-> m.atom, verified |-> TRUE]
      OBVIOUS
    <3> QED BY <3>1, <3>2
  <2>8. IsHybrid(q.request.strategy, q.requirements)
    BY <2>6, <2>7 DEF Eligible
  <2>9. m.atom \in ToSet(q.hits)
    BY <2>6, <2>7, <2>8 DEF Eligible, RanksHigh
  <2>10. q.request.atoms # All
    BY <2>2 DEF Fits
  <2> QED BY <2>8, <2>9, <2>10 DEF IsHybrid
<1> QED BY <1>1, MatchInvHolds, PTL

\* The default constitution never rejects a report of the matcher, and blocks
\* one only for a requirement without text (matcher.cpp against the rules under
\* src/constitution/rules).
THEOREM MatcherAlwaysMeetsRules == Spec => []MatcherMeetsRules
<1>1. ASSUME MatchInv PROVE MatcherMeetsRules
  <2> SUFFICES ASSUME NEW r \in Runners, KindOf[r] # "Check", run[r].validation # Nothing
               PROVE  LET q == run[r]
                      IN  /\ q.validation.status # "rejected"
                          /\ q.validation.status \in {"blocked", "overridden"} <=>
                               \E m \in ToSet(q.report.matches) : m.text = "Empty"
                          /\ q.validation.status = "accepted" =>
                               \/ \E m \in ToSet(q.report.matches) : m.matched
                               \/ q.requirements = <<>>
    BY DEF MatcherMeetsRules
  <2> DEFINE q == run[r]
             report == q.report
  <2>1. Fits(q, KindOf[r])
    BY <1>1 DEF MatchInv, RunsFit, RunFits, Idle
  <2>2. q.phase \in Concluded
    BY <2>1 DEF Fits
  <2>3. q.validation = Validate(Artifact(q.request.opp, report), BoundOf(q))
    BY <2>1, <2>2 DEF Fits
  <2>4. IsReport(report, q.request.strategy, q.requirements, q.atoms, q.hits)
    BY <2>1, <2>2 DEF Fits, Reading, Concluded
  <2>5. /\ IsReadable(report)
        /\ ~Fails(report)
        /\ Blocks(report) <=> \E m \in ToSet(report.matches) : m.text = "Empty"
        /\ ~Warns(report) => (\E m \in ToSet(report.matches) : m.matched) \/ report.matches = <<>>
    BY <2>4, ReportIsReadable
  <2>6. /\ q.validation.status = "rejected" <=> ~Blocks(report) /\ Fails(report)
        /\ q.validation.status = "accepted" <=> ~Blocks(report) /\ ~Fails(report) /\ ~Warns(report)
        /\ q.validation.status \in {"blocked", "overridden"} <=> Blocks(report)
    BY <2>3, <2>5, ValidateIs
  <2>7. report.matches = <<>> => q.requirements = <<>>
    <3>1. IsList(q.requirements) /\ DOMAIN report.matches = DOMAIN q.requirements
      BY <2>1, <2>4 DEF Fits, IsReport
    <3>2. q.requirements \in Seq(ToSet(q.requirements))
      BY <3>1 DEF IsList
    <3>3. DOMAIN q.requirements = 1 .. Len(q.requirements) /\ Len(q.requirements) \in Nat
      BY <3>2
    <3>4. ASSUME report.matches = <<>> PROVE q.requirements = <<>>
      <4>1. 1 \notin DOMAIN q.requirements
        BY <3>1, <3>4
      <4>2. Len(q.requirements) = 0
        BY <3>3, <4>1
      <4> QED BY <3>2, <4>2
    <3> QED BY <3>4
  <2> QED BY <2>5, <2>6, <2>7
<1> QED BY <1>1, MatchInvHolds, PTL

\* A status is overridden only for the one rule that blocks and that the
\* request named, and the trace says so right after the validation said it
\* (validation_engine.cpp: the override; app_service.cpp: the two events).
THEOREM OverridesStayEarned == Spec => []OverridesAreEarned
<1>1. ASSUME MatchInv PROVE OverridesAreEarned
  <2>1. ASSUME NEW r \in Runners, run[r].validation.status = "overridden"
        PROVE  LET blocking == {f \in ToSet(run[r].validation.findings) : f.severity = "Block"}
               IN  {f.rule : f \in blocking} = {run[r].request.override}
    <3> DEFINE q == run[r]
               findings == q.validation.findings
    <3>1. q.validation # Nothing
      BY <2>1 DEF Nothing
    <3>2. Fits(q, KindOf[r])
      BY <1>1, <3>1 DEF MatchInv, RunsFit, RunFits, Idle
    <3>3. q.validation = Validate(Artifact(q.request.opp, q.report), BoundOf(q))
          /\ IsReadable(q.report)
      BY <3>1, <3>2 DEF Fits
    <3>4. /\ findings = Findings(Artifact(q.request.opp, q.report))
          /\ Blocks(q.report)
          /\ BoundOf(q).rule = "SCHEMA-001"
      BY <2>1, <3>3, ValidateIs
    <3>5. q.request.override = "SCHEMA-001"
      BY <3>4 DEF BoundOf, NoOverride
    <3>6. findings \in Seq(Kinds) /\ SchemaBlock \in ToSet(findings)
      BY <3>3, <3>4, FindingsAre
    <3> HIDE DEF findings
    <3>7. ToSet(findings) \subseteq Kinds
      BY <3>6 DEF ToSet
    <3>8. \A f \in Kinds : f.severity = "Block" <=> f = SchemaBlock
      BY DEF Kinds, SchemaBlock, EvidenceFail, ScoreWarning, Finding
    <3>9. {f \in ToSet(findings) : f.severity = "Block"} = {SchemaBlock}
      BY <3>6, <3>7, <3>8
    <3>10. SchemaBlock.rule = "SCHEMA-001"
      BY DEF SchemaBlock, Finding
    <3>11. {f.rule : f \in {SchemaBlock}} = {"SCHEMA-001"}
      BY <3>10
    <3> QED BY <3>5, <3>9, <3>11 DEF findings
  <2>2. \A n \in Numbers : OverrideFollows(log[n])
    BY <1>1 DEF MatchInv, HistoryFits
  <2> QED BY <2>1, <2>2 DEF OverridesAreEarned, OverrideFollows
<1> QED BY <1>1, MatchInvHolds, PTL

\* A decision agrees with what ValidationCompleted announced in its run, where
\* needs_review is announced as "unknown", and no answer goes out before the
\* trace is whole (app_service.cpp: record_match_decision;
\* match_opportunity's handler).
THEOREM DecisionsStayTraced == Spec => []DecisionsAreTraced
<1>1. ASSUME MatchInv PROVE DecisionsAreTraced
  <2> SUFFICES ASSUME NEW n \in Numbers
               PROVE  LET types == TypesOf(log[n])
                          d == decisions[n]
                      IN  /\ d # NoDecision =>
                               /\ "RunCompleted" \in ToSet(types)
                               /\ \E e \in ToSet(log[n]) : Announces(e, d)
                               /\ d.findings = d.fails + d.warnings
                               /\ (d.fails > 0) = (d.status \in {"rejected", "blocked", "overridden"})
                          /\ n \in told => (d # NoDecision \/ n \in lost) /\ types \in FullTrails
    BY DEF DecisionsAreTraced, TypesOf, FullTrails
  <2>1. /\ decisions[n] # NoDecision => IsTraced(decisions[n], log[n])
        /\ n \in told =>
             (decisions[n] # NoDecision \/ n \in lost) /\ TypesOf(log[n]) \in FullTrails
    BY <1>1 DEF MatchInv, HistoryFits
  <2>2. (\E e \in ToSet(log[n]) : e.type = "RunCompleted") => "RunCompleted" \in ToSet(TypesOf(log[n]))
    BY DEF ToSet, TypesOf
  <2> QED BY <2>1, <2>2 DEF IsTraced
<1> QED BY <1>1, MatchInvHolds, PTL
=============================================================================
