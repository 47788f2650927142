------------------------- MODULE FeedAssemblyProofs -------------------------
(***************************************************************************)
(* Proofs about FeedAssembly, for any finite number of stories, and any    *)
(* owners, times, views and audiences.                                     *)
(***************************************************************************)
EXTENDS FeedAssembly, FiniteSetTheorems, FunctionTheorems, SequenceTheorems, TLAPS

-----------------------------------------------------------------------------
(* What sorting yields.  That there is an i-th pair, with i - 1 before it, *)
(* needs no induction: no two pairs have as many before them, so that each *)
(* number that is possible is taken.                                       *)

Ahead(pairs, p) == {q \in pairs : q[1] < p[1] \/ (q[1] = p[1] /\ q[2] < p[2])}

Rank(pairs) == [p \in pairs |-> Cardinality(Ahead(pairs, p)) + 1]

\* The pairs ahead of one are finitely many, not all, and fewer than those ahead
\* of a later one.
LEMMA AheadGrows ==
  ASSUME NEW pairs \in SUBSET (Int \X Int), IsFiniteSet(pairs), NEW p \in pairs
  PROVE  /\ Cardinality(Ahead(pairs, p)) \in Nat
         /\ Cardinality(Ahead(pairs, p)) < Cardinality(pairs)
         /\ \A q \in Ahead(pairs, p) :
                Cardinality(Ahead(pairs, q)) < Cardinality(Ahead(pairs, p))
<1> DEFINE A(x) == Ahead(pairs, x)
<1>1. p \in Int \X Int /\ p \notin A(p)
  BY DEF Ahead
<1>2. A(p) \in SUBSET (pairs \ {p})
  BY <1>1 DEF Ahead
<1>3. IsFiniteSet(pairs \ {p}) /\ Cardinality(pairs \ {p}) = Cardinality(pairs) - 1
  BY FS_RemoveElement
<1>4. /\ IsFiniteSet(A(p)) /\ Cardinality(A(p)) \in Nat /\ Cardinality(pairs) \in Nat
      /\ Cardinality(A(p)) <= Cardinality(pairs) - 1
  BY <1>2, <1>3, FS_Subset, FS_CardinalityType
<1>5. ASSUME NEW q \in A(p) PROVE Cardinality(A(q)) < Cardinality(A(p))
  <2>1. q \in pairs /\ q \in Int \X Int
    BY DEF Ahead
  <2>2. A(q) \in SUBSET A(p) /\ q \notin A(q)
    BY <1>1, <1>5, <2>1 DEF Ahead
  <2>3. A(q) # A(p)
    BY <1>5, <2>2
  <2>4. Cardinality(A(q)) <= Cardinality(A(p)) /\ Cardinality(A(q)) # Cardinality(A(p))
    BY <1>4, <2>2, <2>3, FS_Subset
  <2>5. Cardinality(A(q)) \in Nat
    BY <1>4, <2>2, FS_Subset, FS_CardinalityType
  <2>6. QED BY <1>4, <2>4, <2>5
<1>6. QED BY <1>4, <1>5

\* Each pair has a rank of its own, and each rank is some pair's.
LEMMA RankIsBijection ==
  ASSUME NEW pairs \in SUBSET (Int \X Int), IsFiniteSet(pairs)
  PROVE  /\ Cardinality(pairs) \in Nat
         /\ Rank(pairs) \in [pairs -> 1..Cardinality(pairs)]
         /\ \A p, q \in pairs : Rank(pairs)[p] = Rank(pairs)[q] => p = q
         /\ \A i \in 1..Cardinality(pairs) : \E p \in pairs : Rank(pairs)[p] = i
         /\ \A p, q \in pairs : Rank(pairs)[p] < Rank(pairs)[q] => p[1] <= q[1]
<1> DEFINE n == Cardinality(pairs)
           r == Rank(pairs)
<1>1. n \in Nat
  BY FS_CardinalityType
<1>2. \A p \in pairs : r[p] = Cardinality(Ahead(pairs, p)) + 1
  BY DEF Rank
<1>3. r \in [pairs -> 1..n]
  <2>1. \A p \in pairs : Cardinality(Ahead(pairs, p)) + 1 \in 1..n
    BY <1>1, AheadGrows
  <2>2. QED BY <2>1 DEF Rank
<1>4. \A p \in pairs : \A q \in Ahead(pairs, p) : q \in pairs /\ r[q] < r[p]
  <2> SUFFICES ASSUME NEW p \in pairs, NEW q \in Ahead(pairs, p) PROVE q \in pairs /\ r[q] < r[p]
      OBVIOUS
  <2>1. q \in pairs
    BY DEF Ahead
  <2>2. QED BY <1>2, <2>1, AheadGrows
<1>5. \A p, q \in pairs : p = q \/ p \in Ahead(pairs, q) \/ q \in Ahead(pairs, p)
  <2> SUFFICES ASSUME NEW p \in pairs, NEW q \in pairs
               PROVE  p = q \/ p \in Ahead(pairs, q) \/ q \in Ahead(pairs, p)
      OBVIOUS
  <2>1. p = <<p[1], p[2]>> /\ q = <<q[1], q[2]>> /\ {p[1], p[2], q[1], q[2]} \subseteq Int
    OBVIOUS
  <2>2. QED BY <2>1 DEF Ahead
<1>6. \A p, q \in pairs : r[p] = r[q] => p = q
  BY <1>3, <1>4, <1>5
<1>7. \A p, q \in pairs : r[p] < r[q] => p[1] <= q[1]
  <2> SUFFICES ASSUME NEW p \in pairs, NEW q \in pairs, r[p] < r[q] PROVE p[1] <= q[1]
      OBVIOUS
  <2>1. r[p] \in Nat /\ r[q] \in Nat /\ p[1] \in Int /\ q[1] \in Int
    BY <1>1, <1>3
  <2>2. q \notin Ahead(pairs, p)
    BY <1>4, <2>1
  <2>3. QED BY <2>1, <2>2 DEF Ahead
<1>8. \A i \in 1..n : \E p \in pairs : r[p] = i
  <2>1. r \in Injection(pairs, 1..n)
    BY <1>3, <1>6 DEF Injection, IsInjective
  <2>2. IsFiniteSet(1..n) /\ Cardinality(1..n) = n
    BY <1>1, FS_Interval
  <2>3. r \in Surjection(pairs, 1..n)
    BY <2>1, <2>2, FS_Injection
  <2>4. QED BY <2>3 DEF Surjection
<1>9. QED BY <1>1, <1>3, <1>6, <1>7, <1>8

\* Sorting puts each pair somewhere, once, and keys never fall.
LEMMA InOrderSorts ==
  ASSUME NEW pairs \in SUBSET (Int \X Int), IsFiniteSet(pairs)
  PROVE  /\ Cardinality(pairs) \in Nat
         /\ InOrder(pairs) \in [1..Cardinality(pairs) -> pairs]
         /\ \A i, j \in 1..Cardinality(pairs) : InOrder(pairs)[i] = InOrder(pairs)[j] => i = j
         /\ \A p \in pairs : \E i \in 1..Cardinality(pairs) : InOrder(pairs)[i] = p
         /\ \A i, j \in 1..Cardinality(pairs) :
                i < j => InOrder(pairs)[i][1] <= InOrder(pairs)[j][1]
<1> DEFINE n == Cardinality(pairs)
           r == Rank(pairs)
           f == InOrder(pairs)
<1>1. /\ n \in Nat /\ r \in [pairs -> 1..n]
      /\ \A p, q \in pairs : r[p] = r[q] => p = q
      /\ \A i \in 1..n : \E p \in pairs : r[p] = i
      /\ \A p, q \in pairs : r[p] < r[q] => p[1] <= q[1]
  BY RankIsBijection
<1>2. f = [i \in 1..n |-> CHOOSE p \in pairs : Cardinality(Ahead(pairs, p)) = i - 1]
  BY DEF InOrder, Ahead
<1>3. \A p \in pairs : r[p] = Cardinality(Ahead(pairs, p)) + 1 /\ Cardinality(Ahead(pairs, p)) \in Nat
  BY AheadGrows DEF Rank
<1> HIDE DEF n, r, f
<1>4. \A i \in 1..n : f[i] \in pairs /\ r[f[i]] = i
  <2> SUFFICES ASSUME NEW i \in 1..n PROVE f[i] \in pairs /\ r[f[i]] = i
      OBVIOUS
  <2>1. PICK p \in pairs : r[p] = i
    BY <1>1
  <2>2. Cardinality(Ahead(pairs, p)) = i - 1
    BY <1>1, <1>3, <2>1
  <2>3. f[i] = CHOOSE q \in pairs : Cardinality(Ahead(pairs, q)) = i - 1
    BY <1>2
  <2>4. f[i] \in pairs /\ Cardinality(Ahead(pairs, f[i])) = i - 1
    BY <2>2, <2>3
  <2>5. QED BY <1>1, <1>3, <2>4
<1>5. f \in [1..n -> pairs]
  BY <1>2, <1>4
<1>6. \A p \in pairs : r[p] \in 1..n /\ f[r[p]] = p
  BY <1>1, <1>4
<1>7. \A i, j \in 1..n : i < j => f[i][1] <= f[j][1]
  BY <1>1, <1>4
<1>8. /\ n \in Nat /\ f \in [1..n -> pairs]
      /\ \A i, j \in 1..n : f[i] = f[j] => i = j
      /\ \A p \in pairs : \E i \in 1..n : f[i] = p
      /\ \A i, j \in 1..n : i < j => f[i][1] <= f[j][1]
  BY <1>1, <1>4, <1>5, <1>6, <1>7
<1>9. QED BY <1>8 DEF n, f

\* So does sorting places by a key that each of them has.
Keyed(places, key) == {<<key[i], i>> : i \in places}

Sorts(order, places, key) ==
    /\ DOMAIN order = 1..Cardinality(places) /\ Cardinality(places) \in Nat
    /\ \A k \in DOMAIN order : order[k][2] \in places
    /\ \A k, l \in DOMAIN order : order[k][2] = order[l][2] => k = l
    /\ \A i \in places : \E k \in DOMAIN order : order[k][2] = i
    /\ \A k, l \in DOMAIN order : k < l => key[order[k][2]] <= key[order[l][2]]

LEMMA PlacesSorted ==
  ASSUME NEW places \in SUBSET Int, IsFiniteSet(places), NEW key \in [places -> Int]
  PROVE  Sorts(InOrder(Keyed(places, key)), places, key)
<1> DEFINE pairs == Keyed(places, key)
           g == [i \in places |-> <<key[i], i>>]
           f == InOrder(pairs)
<1>1. pairs \in SUBSET (Int \X Int) /\ \A p \in pairs : p[2] \in places /\ p = <<key[p[2]], p[2]>>
  BY DEF Keyed
<1>2. g \in Bijection(places, pairs)
  <2>1. g \in [places -> pairs] /\ \A i, j \in places : g[i] = g[j] => i = j
    BY DEF Keyed
  <2>2. \A p \in pairs : \E i \in places : g[i] = p
    BY <1>1
  <2>3. QED BY <2>1, <2>2, Fun_IsBij
<1>3. IsFiniteSet(pairs) /\ Cardinality(pairs) = Cardinality(places)
  BY <1>2, FS_Bijection DEF ExistsBijection
<1> HIDE DEF pairs
<1>4. /\ Cardinality(places) \in Nat /\ f \in [1..Cardinality(places) -> pairs]
      /\ \A i, j \in 1..Cardinality(places) : f[i] = f[j] => i = j
      /\ \A p \in pairs : \E i \in 1..Cardinality(places) : f[i] = p
      /\ \A i, j \in 1..Cardinality(places) : i < j => f[i][1] <= f[j][1]
  BY <1>1, <1>3, InOrderSorts
<1> HIDE DEF f
<1>5. \A k \in 1..Cardinality(places) : f[k][2] \in places /\ f[k] = <<key[f[k][2]], f[k][2]>>
  BY <1>1, <1>4
<1>6. \A i \in places : <<key[i], i>> \in pairs
  BY DEF pairs, Keyed
<1>7. Sorts(f, places, key)
  <2>1. DOMAIN f = 1..Cardinality(places)
    BY <1>4
  <2>2. \A k, l \in DOMAIN f : f[k][2] = f[l][2] => k = l
    BY <1>4, <1>5, <2>1
  <2>3. ASSUME NEW i \in places PROVE \E k \in DOMAIN f : f[k][2] = i
    <3>1. PICK k \in 1..Cardinality(places) : f[k] = <<key[i], i>>
      BY <1>4, <1>6
    <3>2. QED BY <2>1, <3>1
  <2>4. \A k, l \in DOMAIN f : k < l => key[f[k][2]] <= key[f[l][2]]
    BY <1>4, <1>5, <2>1
  <2>5. QED BY <1>4, <1>5, <2>1, <2>2, <2>3, <2>4 DEF Sorts
<1>8. QED BY <1>7 DEF f, pairs

\* One of finitely many places has the least key.
LEMMA LeastPlace ==
  ASSUME NEW places \in SUBSET Int, IsFiniteSet(places), NEW key \in [places -> Int],
         places # {}
  PROVE  \E i \in places : \A j \in places : key[i] <= key[j]
<1> DEFINE order == InOrder(Keyed(places, key))
<1>1. Sorts(order, places, key)
  BY PlacesSorted
<1> HIDE DEF order
<1>2. Cardinality(places) \in Nat /\ Cardinality(places) # 0
  BY <1>1, FS_EmptySet DEF Sorts
<1>3. 1 \in DOMAIN order /\ \A k \in DOMAIN order : k = 1 \/ 1 < k
  BY <1>1, <1>2 DEF Sorts
<1>4. order[1][2] \in places /\ \A k \in DOMAIN order : key[order[1][2]] <= key[order[k][2]]
  <2>1. \A k \in DOMAIN order : order[k][2] \in places /\ key[order[k][2]] \in Int
    <3>1. \A k \in DOMAIN order : order[k][2] \in places
      BY <1>1 DEF Sorts
    <3>2. \A i \in places : key[i] \in Int
      OBVIOUS
    <3>3. QED BY <3>1, <3>2
  <2>2. \A k \in DOMAIN order : 1 < k => key[order[1][2]] <= key[order[k][2]]
    BY <1>1, <1>3 DEF Sorts
  <2>3. key[order[1][2]] <= key[order[1][2]]
    BY <1>3, <2>1
  <2>4. QED BY <1>3, <2>1, <2>2, <2>3
<1>5. \A j \in places : key[order[1][2]] <= key[j]
  BY <1>1, <1>4 DEF Sorts
<1>6. QED BY <1>4, <1>5

-----------------------------------------------------------------------------
(* What is read: each story that is shown once, newest first.              *)

Read(read) ==
    /\ Cardinality(Shown) \in Nat /\ read \in [1..Cardinality(Shown) -> Shown]
    /\ \A i, j \in DOMAIN read : read[i] = read[j] => i = j
    /\ \A s \in Shown : \E i \in DOMAIN read : read[i] = s

Places(read, u) == {i \in DOMAIN read : OwnerOf[read[i]] = u}

LEMMA ReadIsRead ==
  ASSUME NEW read \in ReadOrders
  PROVE  Read(read)
<1> DEFINE n == Cardinality(Shown)
<1>1. n \in Nat /\ read \in [1..n -> Shown] /\ \A i, j \in 1..n : i # j => read[i] # read[j]
  BY FeedAssumption, FS_CardinalityType DEF ReadOrders, SetToSeqs
<1>2. read \in Injection(1..n, Shown)
  BY <1>1 DEF Injection, IsInjective
<1>3. Cardinality(1..n) = n
  BY <1>1, FS_Interval
<1>4. read \in Surjection(1..n, Shown)
  BY <1>2, <1>3, FeedAssumption, FS_Injection
<1>5. QED BY <1>1, <1>4 DEF Read, Surjection

\* The stories of an owner are as many as their places in what was read.
LEMMA PlacesOfOwner ==
  ASSUME NEW read, Read(read), NEW u
  PROVE  /\ Places(read, u) \in SUBSET (1..Cardinality(Shown)) /\ IsFiniteSet(Places(read, u))
         /\ Cardinality(Places(read, u)) = Cardinality(StoriesBy(u))
         /\ \A i \in Places(read, u) : read[i] \in StoriesBy(u)
         /\ \A s \in StoriesBy(u) : \E i \in Places(read, u) : read[i] = s
<1> DEFINE B == Places(read, u)
           g == [i \in B |-> read[i]]
<1>1. B \in SUBSET (1..Cardinality(Shown))
  BY DEF Places, Read
<1>2. IsFiniteSet(B)
  <2>1. IsFiniteSet(1..Cardinality(Shown))
    BY FS_Interval DEF Read
  <2>2. QED BY <1>1, <2>1, FS_Subset
<1>3. \A i \in B : read[i] \in StoriesBy(u)
  BY <1>1 DEF Places, Read, StoriesBy
<1>4. \A s \in StoriesBy(u) : \E i \in B : read[i] = s
  BY DEF Places, Read, StoriesBy
<1>5. g \in Bijection(B, StoriesBy(u))
  <2>1. g \in [B -> StoriesBy(u)] /\ \A i, j \in B : g[i] = g[j] => i = j
    BY <1>1, <1>3 DEF Read
  <2>2. \A s \in StoriesBy(u) : \E i \in B : g[i] = s
    BY <1>4
  <2>3. QED BY <2>1, <2>2, Fun_IsBij
<1>6. Cardinality(B) = Cardinality(StoriesBy(u))
  BY <1>2, <1>5, FS_Bijection DEF ExistsBijection
<1>7. QED BY <1>1, <1>2, <1>3, <1>4, <1>6

\* The bucket of an owner, sorted: all their stories, each once, oldest first.
LEMMA StoriesOfOwner ==
  ASSUME FeedTypeOK, NEW read, Read(read), NEW u
  PROVE  /\ StoriesOf(read, u) \in Seq(Shown)
         /\ Len(StoriesOf(read, u)) = Cardinality(StoriesBy(u))
         /\ ToSet(StoriesOf(read, u)) = StoriesBy(u)
         /\ \A k, l \in DOMAIN StoriesOf(read, u) :
                k < l => created[StoriesOf(read, u)[k]] <= created[StoriesOf(read, u)[l]]
<1> DEFINE B == Places(read, u)
           key == [i \in B |-> created[read[i]]]
           order == InOrder(Keyed(B, key))
           st == StoriesOf(read, u)
           m == Cardinality(StoriesBy(u))
<1>1. /\ B \in SUBSET Int /\ IsFiniteSet(B) /\ Cardinality(B) = m
      /\ \A i \in B : read[i] \in StoriesBy(u) /\ read[i] \in Shown
      /\ \A s \in StoriesBy(u) : \E i \in B : read[i] = s
  <2>1. /\ B \in SUBSET (1..Cardinality(Shown)) /\ IsFiniteSet(B) /\ Cardinality(B) = m
        /\ \A i \in B : read[i] \in StoriesBy(u)
        /\ \A s \in StoriesBy(u) : \E i \in B : read[i] = s
    BY PlacesOfOwner
  <2>2. 1..Cardinality(Shown) \in SUBSET Int
    BY DEF Read
  <2>3. StoriesBy(u) \in SUBSET Shown
    BY DEF StoriesBy
  <2>4. QED BY <2>1, <2>2, <2>3
<1>2. key \in [B -> Int]
  BY <1>1 DEF FeedTypeOK
<1>3. Sorts(order, B, key)
  BY <1>1, <1>2, PlacesSorted
<1>4. st = [k \in DOMAIN order |-> read[order[k][2]]]
  <2>1. Keyed(B, key) = {<<created[read[i]], i>> : i \in B}
    BY DEF Keyed
  <2>2. QED BY <2>1 DEF StoriesOf, Places
<1> HIDE DEF order, B, st, m
<1>5. DOMAIN order = 1..m /\ m \in Nat /\ DOMAIN st = 1..m
  BY <1>1, <1>3, <1>4 DEF Sorts
<1>6. \A k \in 1..m : order[k][2] \in B /\ st[k] = read[order[k][2]] /\ st[k] \in StoriesBy(u)
  BY <1>1, <1>3, <1>4, <1>5 DEF Sorts
<1>7. st \in Seq(Shown) /\ Len(st) = m
  <2>1. st \in [1..m -> Shown]
    BY <1>4, <1>5, <1>6 DEF StoriesBy
  <2>2. QED BY <1>5, <2>1
<1>8. ToSet(st) = StoriesBy(u)
  <2>1. ASSUME NEW s \in StoriesBy(u) PROVE \E k \in 1..m : st[k] = s
    <3>1. PICK i \in B : read[i] = s
      BY <1>1
    <3>2. PICK k \in 1..m : order[k][2] = i
      BY <1>3, <1>5 DEF Sorts
    <3>3. QED BY <1>6, <3>1, <3>2
  <2>2. QED BY <1>5, <1>6, <2>1 DEF ToSet
<1>9. \A k, l \in 1..m : k < l => created[st[k]] <= created[st[l]]
  <2>1. \A k, l \in 1..m : k < l => key[order[k][2]] <= key[order[l][2]]
    BY <1>3, <1>5 DEF Sorts
  <2>2. \A k \in 1..m : key[order[k][2]] = created[st[k]]
    BY <1>6
  <2> HIDE DEF key
  <2>3. QED BY <2>1, <2>2
<1>10. QED BY <1>5, <1>7, <1>8, <1>9 DEF st, m

\* The Map has one key for each visible owner with stories.
LEMMA PlacesOfOwners ==
  ASSUME NEW read, Read(read)
  PROVE  LET places == FirstPlaces(read) IN
         /\ places \in SUBSET (1..Cardinality(Shown)) /\ IsFiniteSet(places)
         /\ Cardinality(places) = Cardinality(ActiveOwners) /\ Cardinality(places) \in Nat
         /\ \A i \in places : read[i] \in Shown /\ OwnerOf[read[i]] \in ActiveOwners
         /\ \A i, j \in places : OwnerOf[read[i]] = OwnerOf[read[j]] => i = j
         /\ \A u \in ActiveOwners : \E i \in places : OwnerOf[read[i]] = u
<1> DEFINE places == FirstPlaces(read)
           g == [i \in places |-> OwnerOf[read[i]]]
<1>1. places \in SUBSET (1..Cardinality(Shown)) /\ places \in SUBSET Int
  BY DEF FirstPlaces, Read
<1>2. IsFiniteSet(places)
  <2>1. IsFiniteSet(1..Cardinality(Shown))
    BY FS_Interval DEF Read
  <2>2. QED BY <1>1, <2>1, FS_Subset
<1>3. \A i \in places : read[i] \in Shown /\ OwnerOf[read[i]] \in ActiveOwners
  BY DEF FirstPlaces, Read, ActiveOwners
<1>4. \A i, j \in places : OwnerOf[read[i]] = OwnerOf[read[j]] => i = j
  <2> SUFFICES ASSUME NEW i \in places, NEW j \in places, OwnerOf[read[i]] = OwnerOf[read[j]]
               PROVE  i = j
      OBVIOUS
  <2>1. i <= j /\ j <= i
    BY DEF FirstPlaces
  <2>2. QED BY <1>1, <2>1
<1>5. ASSUME NEW u \in ActiveOwners PROVE \E i \in places : OwnerOf[read[i]] = u
  <2> DEFINE B == Places(read, u)
             key == [i \in B |-> i]
  <2>1. PICK s \in Shown : OwnerOf[s] = u
    BY DEF ActiveOwners
  <2>2. B # {}
    BY <2>1 DEF Places, Read
  <2>3. B \in SUBSET Int /\ IsFiniteSet(B) /\ key \in [B -> Int]
    BY PlacesOfOwner
  <2>4. PICK i \in B : \A j \in B : key[i] <= key[j]
    <3> HIDE DEF B, key
    <3>1. QED BY <2>2, <2>3, LeastPlace
  <2>5. \A j \in B : i <= j
    BY <2>4
  <2>6. i \in places /\ OwnerOf[read[i]] = u
    BY <2>5 DEF Places, FirstPlaces, ActiveOwners
  <2>7. QED BY <2>6
<1>6. g \in Bijection(places, ActiveOwners)
  <2>1. g \in [places -> ActiveOwners] /\ \A i, j \in places : g[i] = g[j] => i = j
    BY <1>3, <1>4
  <2>2. \A u \in ActiveOwners : \E i \in places : g[i] = u
    BY <1>5
  <2>3. QED BY <2>1, <2>2, Fun_IsBij
<1>7. Cardinality(places) = Cardinality(ActiveOwners) /\ Cardinality(places) \in Nat
  BY <1>2, <1>6, FS_Bijection, FS_CardinalityType DEF ExistsBijection
<1>8. QED BY <1>1, <1>2, <1>3, <1>4, <1>5, <1>7

-----------------------------------------------------------------------------
(* A group: the whole of an owner, and close to their oldest story by the  *)
(* field that it is sorted by.                                             *)

\* A story is created when it is published or an instant later.
CreatedSoon == \A s \in Shown : published[s] <= created[s] /\ created[s] <= published[s] + 1

LEMMA GroupIsWhole ==
  ASSUME FeedTypeOK, NEW read, Read(read), NEW u \in ActiveOwners
  PROVE  /\ GroupOf(read, u) \in Group /\ GroupOf(read, u).owner = u
         /\ Whole(GroupOf(read, u))
         /\ GroupOf(read, u).latestPublishedAt \in Int
         /\ StoriesOf(read, u)[1] \in StoriesBy(u)
         /\ GroupOf(read, u).latestPublishedAt = published[StoriesOf(read, u)[1]]
         /\ \A s \in StoriesBy(u) : created[StoriesOf(read, u)[1]] <= created[s]
<1> DEFINE st == StoriesOf(read, u)
           g == GroupOf(read, u)
<1>1. /\ st \in Seq(Shown) /\ Len(st) = Cardinality(StoriesBy(u)) /\ ToSet(st) = StoriesBy(u)
      /\ \A k, l \in DOMAIN st : k < l => created[st[k]] <= created[st[l]]
  BY StoriesOfOwner
<1>2. g = [owner |-> u, preview |-> st[1], latestPublishedAt |-> published[st[1]],
           hasUnviewed |-> \E i \in DOMAIN st : st[i] \notin viewed, stories |-> st]
  BY DEF GroupOf
<1>3. PICK s \in StoriesBy(u) : TRUE
  BY DEF ActiveOwners, StoriesBy
<1> HIDE DEF st, g
<1>4. DOMAIN st = 1..Len(st) /\ Len(st) \in Nat
  BY <1>1
<1>5. \A t \in StoriesBy(u) : \E k \in 1..Len(st) : st[k] = t
  BY <1>1, <1>4 DEF ToSet
<1>6. 1 \in DOMAIN st
  BY <1>3, <1>4, <1>5
<1>7. \A k \in DOMAIN st : st[k] \in StoriesBy(u)
  BY <1>1 DEF ToSet
<1>8. st[1] \in StoriesBy(u) /\ st[1] \in Shown /\ published[st[1]] \in 0..Latest
  <2>1. st[1] \in StoriesBy(u) /\ st[1] \in Shown
    BY <1>6, <1>7 DEF StoriesBy
  <2>2. QED BY <2>1 DEF FeedTypeOK
<1>9. u \in Owners
  BY FeedAssumption DEF ActiveOwners
<1>10. g \in Group /\ g.owner = u /\ g.latestPublishedAt = published[st[1]] /\ g.stories = st
  BY <1>1, <1>2, <1>8, <1>9 DEF Group
<1>11. Whole(g)
  <2>1. g.hasUnviewed <=> ~(ToSet(st) \subseteq viewed)
    BY <1>2 DEF ToSet
  <2>2. QED BY <1>1, <1>10, <2>1 DEF Whole
<1>12. \A t \in StoriesBy(u) : created[st[1]] <= created[t]
  <2> SUFFICES ASSUME NEW t \in StoriesBy(u) PROVE created[st[1]] <= created[t]
      OBVIOUS
  <2>1. PICK k \in 1..Len(st) : st[k] = t
    BY <1>5
  <2>2. created[st[1]] \in Nat
    BY <1>8 DEF FeedTypeOK
  <2>3. CASE k = 1
    BY <2>1, <2>2, <2>3
  <2>4. CASE 1 < k
    BY <1>1, <1>4, <1>6, <2>1, <2>4
  <2>5. QED BY <1>4, <2>1, <2>3, <2>4
<1>13. g.latestPublishedAt \in Int
  BY <1>8, <1>10, FeedAssumption
<1>14. QED BY <1>8, <1>10, <1>11, <1>12, <1>13 DEF g, st

\* The earliest publication is that of a story of the owner.
LEMMA OldestIsLeast ==
  ASSUME FeedTypeOK, NEW u \in ActiveOwners
  PROVE  /\ \E s \in StoriesBy(u) : Oldest(u) = published[s]
         /\ \A s \in StoriesBy(u) : Oldest(u) <= published[s]
<1> DEFINE times == {published[s] : s \in StoriesBy(u)}
<1>1. times \in SUBSET (0..Latest) /\ times # {} /\ times \in SUBSET Int
  <2>1. \A s \in StoriesBy(u) : published[s] \in 0..Latest
    BY DEF StoriesBy, FeedTypeOK
  <2>2. PICK s \in StoriesBy(u) : TRUE
    BY DEF ActiveOwners, StoriesBy
  <2>3. published[s] \in times
    OBVIOUS
  <2>4. 0..Latest \in SUBSET Int
    BY FeedAssumption
  <2>5. QED BY <2>1, <2>3, <2>4
<1>2. IsFiniteSet(times)
  <2>1. IsFiniteSet(0..Latest)
    BY FeedAssumption, FS_Interval
  <2>2. QED BY <1>1, <2>1, FS_Subset
<1>3. \E t \in times : \A w \in times : t <= w
  <2> DEFINE key == [t \in times |-> t]
  <2> HIDE DEF times
  <2>1. key \in [times -> Int]
    BY <1>1
  <2>2. PICK t \in times : \A w \in times : key[t] <= key[w]
    <3> HIDE DEF key
    <3>1. QED BY <1>1, <1>2, <2>1, LeastPlace
  <2>3. QED BY <2>2
<1>4. Oldest(u) = CHOOSE t \in times : \A w \in times : t <= w
  BY DEF Oldest
<1>5. Oldest(u) \in times /\ \A w \in times : Oldest(u) <= w
  BY <1>3, <1>4
<1>6. QED BY <1>5

LEMMA LatestIsNearOldest ==
  ASSUME FeedTypeOK, CreatedSoon, NEW read, Read(read), NEW u \in ActiveOwners
  PROVE  /\ Oldest(u) \in Int
         /\ Oldest(u) <= GroupOf(read, u).latestPublishedAt
         /\ GroupOf(read, u).latestPublishedAt <= Oldest(u) + 1
<1> DEFINE first == StoriesOf(read, u)[1]
<1>1. /\ first \in StoriesBy(u) /\ GroupOf(read, u).latestPublishedAt = published[first]
      /\ \A s \in StoriesBy(u) : created[first] <= created[s]
  BY GroupIsWhole
<1>2. PICK s \in StoriesBy(u) : Oldest(u) = published[s]
  BY OldestIsLeast
<1> HIDE DEF first
<1>3. Oldest(u) <= published[first] /\ created[first] <= created[s]
  BY <1>1, OldestIsLeast
<1>4. first \in Shown /\ s \in Shown
  BY <1>1 DEF StoriesBy
<1>5. /\ published[first] \in Int /\ created[first] \in Int
      /\ published[s] \in Int /\ created[s] \in Int
  BY <1>4, FeedAssumption DEF FeedTypeOK
<1>6. published[first] <= created[first] /\ created[s] <= published[s] + 1
  BY <1>4 DEF CreatedSoon
<1>7. QED BY <1>1, <1>2, <1>3, <1>5, <1>6

-----------------------------------------------------------------------------
(* The answer: the groups of all visible owners, sorted and cut.           *)

LEMMA GroupsAreSorted ==
  ASSUME FeedTypeOK, NEW read, Read(read)
  PROVE  LET groups == GroupsAt(read, FirstPlaces(read)) IN
         /\ groups \in Seq(Group) /\ Len(groups) = Cardinality(ActiveOwners)
         /\ \A k \in 1..Len(groups) : /\ groups[k].owner \in ActiveOwners
                                      /\ groups[k] = GroupOf(read, groups[k].owner)
         /\ \A k, l \in 1..Len(groups) : groups[k].owner = groups[l].owner => k = l
         /\ \A u \in ActiveOwners : \E k \in 1..Len(groups) : groups[k].owner = u
         /\ \A k, l \in 1..Len(groups) :
                k < l => groups[l].latestPublishedAt <= groups[k].latestPublishedAt
<1> DEFINE places == FirstPlaces(read)
           groups == GroupsAt(read, places)
           m == Cardinality(ActiveOwners)
           by(i) == OwnerOf[read[i]]
           key == [i \in places |-> -GroupOf(read, by(i)).latestPublishedAt]
           order == InOrder(Keyed(places, key))
<1>1. /\ places \in SUBSET (1..Cardinality(Shown)) /\ IsFiniteSet(places)
      /\ Cardinality(places) = m /\ m \in Nat
      /\ \A i \in places : by(i) \in ActiveOwners
      /\ \A i, j \in places : by(i) = by(j) => i = j
      /\ \A u \in ActiveOwners : \E i \in places : by(i) = u
  BY PlacesOfOwners
<1>2. places \in SUBSET Int
  BY <1>1 DEF Read
<1>3. \A u \in ActiveOwners : /\ GroupOf(read, u) \in Group /\ GroupOf(read, u).owner = u
                              /\ GroupOf(read, u).latestPublishedAt \in Int
  BY GroupIsWhole
<1>4. key \in [places -> Int]
  BY <1>1, <1>3
<1>5. groups = [k \in DOMAIN order |-> GroupOf(read, by(order[k][2]))]
  <2>1. Keyed(places, key) = {<<-GroupOf(read, by(i)).latestPublishedAt, i>> : i \in places}
    BY DEF Keyed
  <2>2. QED BY <2>1 DEF GroupsAt
<1>6. Sorts(order, places, key)
  <2> HIDE DEF places, key
  <2>1. QED BY <1>1, <1>2, <1>4, PlacesSorted
<1> HIDE DEF order, groups, places, m
<1>7. DOMAIN order = 1..m /\ \A k \in 1..m : order[k][2] \in places
  BY <1>1, <1>6 DEF Sorts
<1>8. \A k \in 1..m : /\ groups[k] = GroupOf(read, by(order[k][2]))
                      /\ by(order[k][2]) \in ActiveOwners
                      /\ groups[k] \in Group /\ groups[k].owner = by(order[k][2])
                      /\ groups[k].latestPublishedAt \in Int
                      /\ key[order[k][2]] = -groups[k].latestPublishedAt
  <2> HIDE DEF by
  <2> SUFFICES ASSUME NEW k \in 1..m
               PROVE  /\ groups[k] = GroupOf(read, by(order[k][2]))
                      /\ by(order[k][2]) \in ActiveOwners
                      /\ groups[k] \in Group /\ groups[k].owner = by(order[k][2])
                      /\ groups[k].latestPublishedAt \in Int
                      /\ key[order[k][2]] = -groups[k].latestPublishedAt
      OBVIOUS
  <2>1. groups[k] = GroupOf(read, by(order[k][2]))
    BY <1>5, <1>7
  <2>2. order[k][2] \in places /\ by(order[k][2]) \in ActiveOwners
    BY <1>1, <1>7
  <2>3. QED BY <1>3, <2>1, <2>2
<1> HIDE DEF key, by
<1>9. groups \in Seq(Group) /\ Len(groups) = m
  <2>1. groups \in [1..m -> Group]
    BY <1>5, <1>7, <1>8
  <2>2. QED BY <1>1, <2>1
<1>10. \A k, l \in 1..m : groups[k].owner = groups[l].owner => k = l
  <2> SUFFICES ASSUME NEW k \in 1..m, NEW l \in 1..m, groups[k].owner = groups[l].owner
               PROVE  k = l
      OBVIOUS
  <2>1. order[k][2] \in places /\ order[l][2] \in places /\ by(order[k][2]) = by(order[l][2])
    BY <1>7, <1>8
  <2>2. order[k][2] = order[l][2]
    BY <1>1, <2>1
  <2>3. QED BY <1>6, <1>7, <2>2 DEF Sorts
<1>11. ASSUME NEW u \in ActiveOwners PROVE \E k \in 1..m : groups[k].owner = u
  <2>1. PICK i \in places : by(i) = u
    BY <1>1
  <2>2. PICK k \in 1..m : order[k][2] = i
    BY <1>6, <1>7 DEF Sorts
  <2>3. QED BY <1>8, <2>1, <2>2
<1>12. \A k, l \in 1..m : k < l => groups[l].latestPublishedAt <= groups[k].latestPublishedAt
  <2> SUFFICES ASSUME NEW k \in 1..m, NEW l \in 1..m, k < l
               PROVE  groups[l].latestPublishedAt <= groups[k].latestPublishedAt
      OBVIOUS
  <2>1. key[order[k][2]] <= key[order[l][2]]
    BY <1>6, <1>7 DEF Sorts
  <2>2. -groups[k].latestPublishedAt <= -groups[l].latestPublishedAt
    BY <1>8, <2>1
  <2>3. QED BY <1>8, <2>2
<1>13. \A k \in 1..m : groups[k].owner \in ActiveOwners /\ groups[k] = GroupOf(read, groups[k].owner)
  BY <1>8
<1>14. QED BY <1>9, <1>10, <1>11, <1>12, <1>13 DEF groups, places, m

\* Cutting keeps what comes first.
LEMMA CutKeepsFirst ==
  ASSUME FeedTypeOK, NEW S, NEW seq \in Seq(S)
  PROVE  /\ Cut(seq) \in Seq(S) /\ Len(Cut(seq)) <= Len(seq)
         /\ \/ Len(Cut(seq)) = take /\ take <= Len(seq)
            \/ Len(Cut(seq)) = Len(seq) /\ Len(seq) <= take
         /\ \A i \in 1..Len(Cut(seq)) : Cut(seq)[i] = seq[i]
<1> DEFINE m == IF take < Len(seq) THEN take ELSE Len(seq)
<1>1. take \in Nat /\ take > 0 /\ Len(seq) \in Nat
  BY FeedAssumption DEF FeedTypeOK
<1>2. m \in Nat /\ m <= Len(seq) /\ \A i \in 1..m : seq[i] \in S
  BY <1>1
<1>3. \/ m = take /\ take <= Len(seq)
      \/ m = Len(seq) /\ Len(seq) <= take
  BY <1>1
<1>4. Cut(seq) = SubSeq(seq, 1, m)
  BY DEF Cut
<1> HIDE DEF m
<1>5. /\ SubSeq(seq, 1, m) \in Seq(S)
      /\ Len(SubSeq(seq, 1, m)) = IF 1 <= m THEN m - 1 + 1 ELSE 0
      /\ \A i \in 1..(m - 1 + 1) : SubSeq(seq, 1, m)[i] = seq[1 + i - 1]
  BY <1>2, SubSeqProperties
<1>6. Len(Cut(seq)) = m
  BY <1>2, <1>4, <1>5
<1>7. \A i \in 1..m : Cut(seq)[i] = seq[i]
  <2> SUFFICES ASSUME NEW i \in 1..m PROVE Cut(seq)[i] = seq[i]
      OBVIOUS
  <2>1. i \in 1..(m - 1 + 1) /\ 1 + i - 1 = i
    BY <1>2
  <2>2. QED BY <1>4, <1>5, <2>1
<1>8. QED BY <1>2, <1>3, <1>4, <1>5, <1>6, <1>7

-----------------------------------------------------------------------------

FeedInv == FeedTypeOK /\ CreatedSoon /\ FeedIsWhole /\ CutIsFair

LEMMA FeedStarts == FeedInit => FeedInv
<1> SUFFICES ASSUME FeedInit PROVE FeedInv
    OBVIOUS
<1>1. /\ feed = None /\ published \in [Shown -> 0..Latest] /\ viewed \subseteq Shown
      /\ visible \subseteq Owners /\ take \in 1..MaxTake
  BY DEF FeedInit
<1>2. PICK late \in SUBSET Shown :
          created = [s \in Shown |-> published[s] + (IF s \in late THEN 1 ELSE 0)]
  BY DEF FeedInit
<1>3. \A s \in Shown : /\ published[s] \in Nat
                       /\ created[s] = published[s] + (IF s \in late THEN 1 ELSE 0)
  BY <1>1, <1>2, FeedAssumption
<1>4. created \in [Shown -> Nat] /\ CreatedSoon
  BY <1>2, <1>3 DEF CreatedSoon
<1>5. QED BY <1>1, <1>4 DEF FeedInv, FeedTypeOK, FeedIsWhole, CutIsFair

\* Each answer is whole and fair.
LEMMA FeedAnswers ==
  ASSUME FeedInv, ListFeed
  PROVE  FeedInv'
<1>1. PICK read \in ReadOrders : feed' = Feed(read)
  BY DEF ListFeed
<1>2. UNCHANGED <<published, created, viewed, visible, take>>
  BY DEF ListFeed
<1>3. Read(read) /\ FeedTypeOK /\ CreatedSoon
  BY <1>1, ReadIsRead DEF FeedInv
<1> DEFINE groups == GroupsAt(read, FirstPlaces(read))
           f == Feed(read)
           m == Len(f)
<1>4. /\ groups \in Seq(Group) /\ Len(groups) = Cardinality(ActiveOwners)
      /\ \A k \in 1..Len(groups) : /\ groups[k].owner \in ActiveOwners
                                   /\ groups[k] = GroupOf(read, groups[k].owner)
      /\ \A k, l \in 1..Len(groups) : groups[k].owner = groups[l].owner => k = l
      /\ \A u \in ActiveOwners : \E k \in 1..Len(groups) : groups[k].owner = u
      /\ \A k, l \in 1..Len(groups) :
             k < l => groups[l].latestPublishedAt <= groups[k].latestPublishedAt
  BY <1>3, GroupsAreSorted
<1>5. f = Cut(groups)
  BY DEF Feed
<1> HIDE DEF groups, f
<1>6. /\ f \in Seq(Group) /\ m <= Len(groups)
      /\ \/ m = take /\ take <= Len(groups)
         \/ m = Len(groups) /\ Len(groups) <= take
      /\ \A i \in 1..m : f[i] = groups[i]
  BY <1>3, <1>4, <1>5, CutKeepsFirst
<1>7. DOMAIN f = 1..m /\ m \in Nat /\ Len(groups) \in Nat /\ 1..m \in SUBSET (1..Len(groups))
  BY <1>4, <1>6
<1> HIDE DEF m
<1>8. FeedTypeOK' /\ CreatedSoon'
  <2>1. feed' \in Seq(Group)
    BY <1>1, <1>6 DEF f
  <2>2. QED BY <1>2, <1>3, <2>1 DEF FeedTypeOK, CreatedSoon, Group
<1>9. \A i \in 1..m : /\ f[i].owner \in ActiveOwners /\ f[i] = GroupOf(read, f[i].owner)
                      /\ Whole(f[i])
  <2> SUFFICES ASSUME NEW i \in 1..m
               PROVE  /\ f[i].owner \in ActiveOwners /\ f[i] = GroupOf(read, f[i].owner)
                      /\ Whole(f[i])
      OBVIOUS
  <2>1. f[i].owner \in ActiveOwners /\ f[i] = GroupOf(read, f[i].owner)
    BY <1>4, <1>6, <1>7
  <2>2. Whole(GroupOf(read, f[i].owner))
    BY <1>3, <2>1, GroupIsWhole
  <2>3. QED BY <2>1, <2>2
<1>10. \A i, j \in 1..m : f[i].owner = f[j].owner => i = j
  BY <1>4, <1>6, <1>7
<1>11. \/ m = take /\ take <= Cardinality(ActiveOwners)
       \/ m = Cardinality(ActiveOwners) /\ Cardinality(ActiveOwners) <= take
  BY <1>4, <1>6
<1>12. ASSUME NEW u \in ActiveOwners, \A i \in 1..m : f[i].owner # u, NEW i \in 1..m
       PROVE  Oldest(u) <= Oldest(f[i].owner) + 1
  <2>1. PICK l \in 1..Len(groups) : groups[l].owner = u
    BY <1>4
  <2>2. l \notin 1..m
    BY <1>6, <1>12, <2>1
  <2>3. i < l /\ i \in 1..Len(groups)
    BY <1>7, <2>1, <2>2
  <2>4. groups[l].latestPublishedAt <= groups[i].latestPublishedAt
    BY <1>4, <2>1, <2>3
  <2>5. /\ groups[l] = GroupOf(read, u) /\ groups[i] = GroupOf(read, f[i].owner)
        /\ f[i].owner \in ActiveOwners
    BY <1>4, <1>6, <1>9, <2>1
  <2>6. /\ Oldest(u) \in Int /\ Oldest(f[i].owner) \in Int
        /\ Oldest(u) <= GroupOf(read, u).latestPublishedAt
        /\ GroupOf(read, f[i].owner).latestPublishedAt <= Oldest(f[i].owner) + 1
        /\ GroupOf(read, u).latestPublishedAt \in Int
        /\ GroupOf(read, f[i].owner).latestPublishedAt \in Int
    BY <1>3, <2>5, LatestIsNearOldest, GroupIsWhole
  <2>7. QED BY <2>4, <2>5, <2>6
<1>13. /\ feed' = f /\ ActiveOwners' = ActiveOwners /\ take' = take
       /\ \A u : Oldest(u)' = Oldest(u)
  BY <1>1, <1>2 DEF f, ActiveOwners, Oldest
<1>14. FeedIsWhole'
  <2>1. \A i \in 1..m : Whole(feed[i])'
    BY <1>2, <1>9, <1>13 DEF Whole
  <2>2. QED BY <1>7, <1>9, <1>10, <1>11, <1>13, <2>1 DEF FeedIsWhole, m
<1>15. CutIsFair'
  BY <1>7, <1>12, <1>13 DEF CutIsFair
<1>16. QED BY <1>8, <1>14, <1>15 DEF FeedInv

\* The answer of listFeed is typed, whole and fairly cut in every state.
THEOREM FeedInvariance == FeedSpec => []FeedInv
<1>1. FeedInit => FeedInv
  BY FeedStarts
<1>2. FeedInv /\ [ListFeed]_feedVars => FeedInv'
  <2> SUFFICES ASSUME FeedInv, [ListFeed]_feedVars PROVE FeedInv'
      OBVIOUS
  <2>1. CASE ListFeed
    BY <2>1, FeedAnswers
  <2>2. CASE UNCHANGED feedVars
    <3>1. FeedTypeOK' /\ CreatedSoon'
      BY <2>2 DEF feedVars, FeedInv, FeedTypeOK, CreatedSoon, Group
    <3>2. /\ ActiveOwners' = ActiveOwners /\ feed' = feed /\ take' = take
          /\ \A g : Whole(g)' <=> Whole(g)
      BY <2>2 DEF feedVars, ActiveOwners, Whole
    <3>3. FeedIsWhole'
      BY <3>2 DEF FeedInv, FeedIsWhole
    <3>4. \A u : Oldest(u)' = Oldest(u)
      BY <2>2 DEF feedVars, Oldest
    <3>5. CutIsFair'
      BY <3>2, <3>4 DEF FeedInv, CutIsFair
    <3>6. QED BY <3>1, <3>3, <3>5 DEF FeedInv
  <2>3. QED BY <2>1, <2>2
<1>3. QED BY <1>1, <1>2, PTL DEF FeedSpec

\* The types of what the feed is made of and of the answer (listFeed, the
\* groups of the Map).
THEOREM FeedTypeCorrect == FeedSpec => []FeedTypeOK
BY FeedInvariance, PTL DEF FeedInv

\* The feed has each visible owner once, with all their stories, oldest first,
\* and `take' of them or as many as there are.
THEOREM FeedHasWholeOwners == FeedSpec => []FeedIsWhole
BY FeedInvariance, PTL DEF FeedInv

\* The oldest story of an owner who is cut off is at most an instant newer than
\* that of any owner who is not: the sort by latestPublishedAt before slice(0, take).
THEOREM FeedIsCutFairly == FeedSpec => []CutIsFair
BY FeedInvariance, PTL DEF FeedInv
=============================================================================
