--------------------------- MODULE ElectionProofs ----------------------------
(***************************************************************************)
(* Proofs about the leader elections of Identity, for any Cores, order of  *)
(* IDs and seed: sorting makes one list of the IDs, whatever order a Go    *)
(* map or Tendermint had them in, so Cores that know the same IDs elect    *)
(* the same leader.                                                        *)
(*                                                                         *)
(* The place of an ID in the sorted list is the number of IDs below it.    *)
(* This gives both that there is a sorted order and that there is one.     *)
(***************************************************************************)
EXTENDS IdentityProofs

-----------------------------------------------------------------------------
(* Sorting                                                                  *)

\* An order of the IDs: no two have the same rank.
Orders(rank) ==
    /\ rank \in [Cores -> Int]
    /\ \A c, d \in Cores : rank[c] = rank[d] => c = d

Below(S, rank, c) == {d \in S : rank[d] < rank[c]}
Place(S, rank, c) == Cardinality(Below(S, rank, c)) + 1

\* A higher ID has a later place.
LEMMA PlacesRise ==
    ASSUME NEW S \in SUBSET Cores, IsFiniteSet(S), NEW rank, Orders(rank),
           NEW c \in S, NEW d \in S
    PROVE  /\ Place(S, rank, c) \in 1 .. Cardinality(S)
           /\ rank[c] < rank[d] => Place(S, rank, c) < Place(S, rank, d)
           /\ Place(S, rank, c) = Place(S, rank, d) => c = d
           /\ Place(S, rank, c) < Place(S, rank, d) => rank[c] < rank[d]
<1>1. \A x \in S : rank[x] \in Int BY DEF Orders
<1>2. ASSUME NEW x \in S
      PROVE  /\ IsFiniteSet(Below(S, rank, x)) /\ x \notin Below(S, rank, x)
             /\ Cardinality(Below(S, rank, x)) \in Nat
             /\ Place(S, rank, x) \in 1 .. Cardinality(S)
  <2>1. Below(S, rank, x) \subseteq S \ {x} BY <1>1 DEF Below
  <2>2. IsFiniteSet(S \ {x}) /\ Cardinality(S \ {x}) = Cardinality(S) - 1
    BY FS_RemoveElement
  <2>3. IsFiniteSet(Below(S, rank, x)) /\ Cardinality(Below(S, rank, x)) <= Cardinality(S) - 1
    BY <2>1, <2>2, FS_Subset
  <2>4. Cardinality(Below(S, rank, x)) \in Nat /\ Cardinality(S) \in Nat
    BY <2>3, FS_CardinalityType
  <2> QED BY <2>1, <2>3, <2>4 DEF Place
<1>3. ASSUME NEW x \in S, NEW y \in S, rank[x] < rank[y]
      PROVE  Place(S, rank, x) < Place(S, rank, y)
  <2>1. Below(S, rank, x) \cup {x} \subseteq Below(S, rank, y) BY <1>1, <1>3 DEF Below
  <2>2. Cardinality(Below(S, rank, x) \cup {x}) = Cardinality(Below(S, rank, x)) + 1
    BY <1>2, FS_AddElement
  <2>3. Cardinality(Below(S, rank, x) \cup {x}) <= Cardinality(Below(S, rank, y))
    BY <1>2, <2>1, FS_Subset
  <2> QED BY <1>2, <2>2, <2>3 DEF Place
<1>4. rank[c] < rank[d] \/ rank[d] < rank[c] \/ c = d BY <1>1 DEF Orders
<1>5. Place(S, rank, c) \in Nat /\ Place(S, rank, d) \in Nat BY <1>2
<1> QED BY <1>1, <1>2, <1>3, <1>4, <1>5

\* The places are all taken.
LEMMA PlacesTaken ==
    ASSUME NEW S \in SUBSET Cores, IsFiniteSet(S), NEW rank, Orders(rank),
           NEW x \in 1 .. Cardinality(S)
    PROVE  \E c \in S : Place(S, rank, c) = x
<1> DEFINE place == [c \in S |-> Place(S, rank, c)]
<1>1. Cardinality(S) \in Nat BY FS_CardinalityType
<1>2. place \in Injection(S, 1 .. Cardinality(S))
  <2>1. place \in [S -> 1 .. Cardinality(S)] BY PlacesRise
  <2>2. \A c, d \in S : place[c] = place[d] => c = d BY PlacesRise
  <2> HIDE DEF place
  <2> QED BY <2>1, <2>2 DEF Injection, IsInjective
<1>3. IsFiniteSet(1 .. Cardinality(S)) /\ Cardinality(1 .. Cardinality(S)) = Cardinality(S)
  <2>1. Cardinality(S) \in Int /\ 1 \in Int BY <1>1
  <2>2. /\ IsFiniteSet(1 .. Cardinality(S))
        /\ Cardinality(1 .. Cardinality(S))
             = IF 1 > Cardinality(S) THEN 0 ELSE Cardinality(S) - 1 + 1
    BY <2>1, FS_Interval
  <2> QED BY <1>1, <2>2
<1>4. place \in Surjection(S, 1 .. Cardinality(S))
  <2> HIDE DEF place
  <2> QED BY <1>2, <1>3, FS_Injection
<1>5. \E c \in S : place[c] = x
  <2> HIDE DEF place
  <2> QED BY <1>4 DEF Surjection
<1> QED BY <1>5

Increasing(s, rank) ==
    \A x, y \in DOMAIN s : x < y => rank[s[x]] < rank[s[y]]

\* An increasing list of the IDs has each at its place.
LEMMA AtItsPlace ==
    ASSUME NEW S \in SUBSET Cores, IsFiniteSet(S), NEW rank, Orders(rank),
           NEW s \in [1 .. Cardinality(S) -> S], Increasing(s, rank),
           \A c \in S : \E z \in 1 .. Cardinality(S) : s[z] = c,
           NEW x \in 1 .. Cardinality(S)
    PROVE  Place(S, rank, s[x]) = x
<1> DEFINE N == Cardinality(S)
           low == [z \in 1 .. (x - 1) |-> s[z]]
<1>1. N \in Nat BY FS_CardinalityType
<1>2. \A c \in S : rank[c] \in Int BY DEF Orders
<1>3. \A z \in 1 .. (x - 1) : z \in 1 .. N /\ z < x BY <1>1
<1>4. low \in [1 .. (x - 1) -> Below(S, rank, s[x])]
  BY <1>1, <1>3 DEF Below, Increasing
<1>5. \A y, z \in 1 .. (x - 1) : low[y] = low[z] => y = z
  <2> SUFFICES ASSUME NEW y \in 1 .. (x - 1), NEW z \in 1 .. (x - 1), s[y] = s[z], y # z
               PROVE  FALSE
    OBVIOUS
  <2>1. y \in 1 .. N /\ z \in 1 .. N BY <1>3
  <2>2. y < z \/ z < y BY <2>1
  <2>3. rank[s[y]] < rank[s[z]] \/ rank[s[z]] < rank[s[y]]
    BY <2>1, <2>2 DEF Increasing
  <2> QED BY <1>2, <2>1, <2>3
<1>6. ASSUME NEW c \in Below(S, rank, s[x]) PROVE \E y \in 1 .. (x - 1) : low[y] = c
  <2>1. c \in S /\ rank[c] < rank[s[x]] BY DEF Below
  <2>2. PICK z \in 1 .. N : s[z] = c BY <2>1
  <2>3. ~(x < z) /\ x # z
    <3>1. x < z => rank[s[x]] < rank[s[z]] BY DEF Increasing
    <3> QED BY <1>2, <2>1, <2>2, <3>1
  <2>4. z \in 1 .. (x - 1) BY <1>1, <2>3
  <2> QED BY <2>2, <2>4
<1> HIDE DEF low
<1>7. low \in Bijection(1 .. (x - 1), Below(S, rank, s[x]))
  BY <1>4, <1>5, <1>6 DEF Bijection, Injection, Surjection, IsInjective
<1>8. ExistsBijection(1 .. (x - 1), Below(S, rank, s[x])) BY <1>7 DEF ExistsBijection
<1>9. x - 1 \in Nat BY <1>1
<1>10. Cardinality(Below(S, rank, s[x])) = x - 1 BY <1>8, <1>9, FS_CountingElements
<1> QED BY <1>1, <1>10 DEF Place

\* The lists a map or Tendermint can make of IDs have each of them once.
LEMMA Arranged ==
    ASSUME NEW S \in SUBSET Cores, IsFiniteSet(S), NEW ids \in SetToSeqs(S)
    PROVE  /\ ids \in [1 .. Cardinality(S) -> S]
           /\ \A c \in S : \E x \in 1 .. Cardinality(S) : ids[x] = c
<1> DEFINE N == Cardinality(S)
<1>1. ids \in [1 .. N -> S] /\ \A x, y \in 1 .. N : x # y => ids[x] # ids[y]
  BY DEF SetToSeqs
<1>2. N \in Nat BY FS_CardinalityType
<1>3. Cardinality(1 .. N) = N
  <2>1. N \in Int /\ 1 \in Int BY <1>2
  <2>2. Cardinality(1 .. N) = IF 1 > N THEN 0 ELSE N - 1 + 1 BY <2>1, FS_Interval
  <2> QED BY <1>2, <2>2
<1>4. ids \in Injection(1 .. N, S) BY <1>1 DEF Injection, IsInjective
<1>5. ids \in Surjection(1 .. N, S) BY <1>3, <1>4, FS_Injection
<1> QED BY <1>1, <1>5 DEF Surjection

\* There are such lists.
LEMMA SomeList ==
    ASSUME NEW S, IsFiniteSet(S)
    PROVE  SetToSeqs(S) # {}
<1>1. ExistsBijection(1 .. Cardinality(S), S) BY FS_CardinalityType
<1>2. PICK f : f \in Bijection(1 .. Cardinality(S), S) BY <1>1 DEF ExistsBijection
<1>3. /\ f \in [1 .. Cardinality(S) -> S]
      /\ \A x, y \in 1 .. Cardinality(S) : x # y => f[x] # f[y]
  BY <1>2 DEF Bijection, Injection, IsInjective
<1>4. f \in SetToSeqs(S) BY <1>3 DEF SetToSeqs
<1> QED BY <1>4

\* Sort finds an increasing order, and only one list is in it.
LEMMA Sorted ==
    ASSUME NEW S \in SUBSET Cores, IsFiniteSet(S), NEW rank, Orders(rank),
           NEW ids \in SetToSeqs(S)
    PROVE  /\ Sort(ids, rank) \in [1 .. Cardinality(S) -> S]
           /\ \A x \in 1 .. Cardinality(S) : Place(S, rank, Sort(ids, rank)[x]) = x
<1> DEFINE N == Cardinality(S)
           D == DOMAIN ids
           Good(o) == \A x, y \in D : x < y => rank[ids[o[x]]] < rank[ids[o[y]]]
           order == CHOOSE o \in [D -> D] : Good(o)
           s == [x \in D |-> ids[order[x]]]
<1>0. N \in Nat BY FS_CardinalityType
<1>1. /\ ids \in [1 .. N -> S] /\ D = 1 .. N
      /\ \A c \in S : \E x \in 1 .. N : ids[x] = c
  BY Arranged
<1>2. \E o \in [D -> D] : Good(o)
  <2> DEFINE o == [x \in D |-> CHOOSE y \in D : Place(S, rank, ids[y]) = x]
  <2>1. \A x \in D : \E y \in D : Place(S, rank, ids[y]) = x
    <3> TAKE x \in D
    <3>1. PICK c \in S : Place(S, rank, c) = x BY <1>1, PlacesTaken
    <3> QED BY <1>1, <3>1
  <2>2. \A x \in D : o[x] \in D /\ Place(S, rank, ids[o[x]]) = x BY <2>1
  <2>3. o \in [D -> D] BY <2>2
  <2> HIDE DEF o
  <2>4. ASSUME NEW x \in D, NEW y \in D, x < y
        PROVE  rank[ids[o[x]]] < rank[ids[o[y]]]
    <3>1. ids[o[x]] \in S /\ ids[o[y]] \in S BY <1>1, <2>2
    <3>2. Place(S, rank, ids[o[x]]) < Place(S, rank, ids[o[y]]) BY <2>2, <2>4
    <3> QED BY <3>1, <3>2, PlacesRise
  <2> QED BY <2>3, <2>4
<1>3. order \in [D -> D] /\ Good(order) BY <1>2
<1>4. Sort(ids, rank) = s BY DEF Sort
<1> HIDE DEF order
<1>5. s \in [1 .. N -> S] BY <1>1, <1>3
<1>6. \A x \in 1 .. N : s[x] = ids[order[x]] BY <1>1
<1>7. \A x, y \in 1 .. N : x < y => rank[s[x]] < rank[s[y]] BY <1>1, <1>3, <1>6
<1>8. \A c \in S : \E x \in 1 .. N : s[x] = c
  <2>1. IsFiniteSet(1 .. N) /\ Cardinality(1 .. N) = N
    <3>1. N \in Int /\ 1 \in Int BY <1>0
    <3>2. IsFiniteSet(1 .. N) /\ Cardinality(1 .. N) = IF 1 > N THEN 0 ELSE N - 1 + 1
      BY <3>1, FS_Interval
    <3> QED BY <1>0, <3>2
  <2>2. ASSUME NEW x \in 1 .. N, NEW y \in 1 .. N, s[x] = s[y] PROVE x = y
    <3>1. rank[s[x]] \in Int BY <1>5 DEF Orders
    <3>2. ~(x < y) /\ ~(y < x) BY <1>7, <2>2, <3>1
    <3> QED BY <1>0, <3>2
  <2>3. s \in Injection(1 .. N, S)
    <3> HIDE DEF s
    <3> QED BY <1>5, <2>2 DEF Injection, IsInjective
  <2>4. s \in Surjection(1 .. N, S)
    <3> HIDE DEF s
    <3> QED BY <2>1, <2>3, FS_Injection
  <2> QED BY <2>4 DEF Surjection
<1> HIDE DEF s
<1>9. Increasing(s, rank) BY <1>5, <1>7 DEF Increasing
<1>10. \A x \in 1 .. N : Place(S, rank, s[x]) = x BY <1>5, <1>8, <1>9, AtItsPlace
<1> QED BY <1>4, <1>5, <1>10

LEMMA OneOrder ==
    ASSUME NEW S \in SUBSET Cores, IsFiniteSet(S), NEW rank, Orders(rank),
           NEW ids \in SetToSeqs(S), NEW others \in SetToSeqs(S)
    PROVE  Sort(ids, rank) = Sort(others, rank)
<1>1. PICK s, t : s = Sort(ids, rank) /\ t = Sort(others, rank) OBVIOUS
<1>2. /\ s \in [1 .. Cardinality(S) -> S] /\ t \in [1 .. Cardinality(S) -> S]
      /\ \A x \in 1 .. Cardinality(S) :
            Place(S, rank, s[x]) = x /\ Place(S, rank, t[x]) = x
  BY <1>1, Sorted
<1>3. ASSUME NEW x \in 1 .. Cardinality(S) PROVE s[x] = t[x]
  <2>1. /\ s[x] \in S /\ t[x] \in S
        /\ Place(S, rank, s[x]) = Place(S, rank, t[x])
    BY <1>2
  <2>2. PICK c \in S, d \in S : c = s[x] /\ d = t[x] BY <2>1
  <2>3. Place(S, rank, c) = Place(S, rank, d) BY <2>1, <2>2
  <2>4. c = d BY <2>3, PlacesRise
  <2> QED BY <2>2, <2>4
<1>4. s = t
  <2>1. PICK D : D = 1 .. Cardinality(S) OBVIOUS
  <2>2. s \in [D -> S] /\ t \in [D -> S] /\ \A x \in D : s[x] = t[x]
    BY <1>2, <1>3, <2>1
  <2> QED BY <2>2
<1> QED BY <1>1, <1>4

-----------------------------------------------------------------------------
(* Elections                                                                *)

\* The order of a map does not show in who is elected.
LEMMA OneContributor ==
    ASSUME NEW S \in SUBSET Cores, NEW b, NEW seed
    PROVE  \E e : ElectChainContributorAsLeader(S, b, seed) = {e}
<1>1. S \ {b} \in SUBSET Cores /\ IsFiniteSet(S \ {b}) BY IdentityAssumption, FS_Subset
<1>2. PICK ids \in SetToSeqs(S \ {b}) : TRUE BY <1>1, SomeList
<1>3. Orders(Rank) BY IdentityAssumption DEF Orders
<1>4. \A others \in SetToSeqs(S \ {b}) : Sort(others, Rank) = Sort(ids, Rank)
  BY <1>1, <1>3, OneOrder
<1>5. ElectChainContributorAsLeader(S, b, seed) = {ElectLeaders(Sort(ids, Rank), seed)}
  BY <1>2, <1>4 DEF ElectChainContributorAsLeader
<1> QED BY <1>5

\* Nor does the order of Tendermint's validators.
LEMMA OneValidator ==
    ASSUME NEW S \in SUBSET Cores, NEW b, NEW seed
    PROVE  \E e : ElectValidatorAsLeader(S, b, seed) = {e}
<1> DEFINE rank == [c \in Cores |-> -Rank[c]]
<1>1. IsFiniteSet(S) BY IdentityAssumption, FS_Subset
<1>2. PICK ids \in SetToSeqs(S) : TRUE BY <1>1, SomeList
<1>3. Orders(rank)
  <2>1. Rank \in [Cores -> Int] /\ \A c, d \in Cores : Rank[c] = Rank[d] => c = d
    BY IdentityAssumption
  <2>2. rank \in [Cores -> Int] /\ \A c \in Cores : rank[c] = -Rank[c] BY <2>1
  <2> HIDE DEF rank
  <2>3. \A c, d \in Cores : rank[c] = rank[d] => Rank[c] = Rank[d] BY <2>1, <2>2
  <2> QED BY <2>1, <2>2, <2>3 DEF Orders
<1> HIDE DEF rank
<1>4. \A others \in SetToSeqs(S) : Sort(others, rank) = Sort(ids, rank)
  BY <1>1, <1>3, OneOrder
<1>5. \A others \in SetToSeqs(S) : GetSortedValidatorList(others) = GetSortedValidatorList(ids)
  BY <1>4 DEF GetSortedValidatorList, rank
<1>6. ElectValidatorAsLeader(S, b, seed)
        = {ElectLeaders(Allowed(GetSortedValidatorList(ids), b), seed)}
  BY <1>2, <1>5 DEF ElectValidatorAsLeader
<1> QED BY <1>6

\* SetStake: a Core that is ready has asked for the validators.
Asked == \A i \in Cores : ready[i] => validators[i] = Validators

LEMMA AskedStep ==
    ASSUME Typed, Asked, [Next]_vars
    PROVE  Asked'
<1> USE DEF Asked
<1>0. ready \in [Cores -> BOOLEAN] /\ validators \in [Cores -> {{}, Validators}] BY TypesOf
<1>1. ASSUME NEW i \in Cores, SyncMonitor(i) PROVE Asked'
  <2>1. /\ \A j \in Cores \ {i} : ready'[j] = ready[j]
        /\ validators' = IF ready'[i] THEN [validators EXCEPT ![i] = Validators] ELSE validators
    BY <1>0, <1>1 DEF SyncMonitor, SetStake, Set
  <2> QED BY <1>0, <2>1
<1>2. ASSUME NEW i \in Cores, Restart(i) PROVE Asked'
  BY <1>0, <1>2 DEF Restart, Set
<1>3. ASSUME UNCHANGED <<ready, validators>> PROVE Asked'
  BY <1>3
<1>4. ASSUME NEW i \in Cores, DeliverTx(i) PROVE Asked'
  BY <1>3, <1>4 DEF DeliverTx, status
<1>5. ASSUME NEW i \in Cores, ListJWKs(i) \/ LoadIdentity(i) \/ CheckStake(i) PROVE Asked'
  BY <1>3, <1>5 DEF ListJWKs, LoadIdentity, CheckStake, status
<1>6. ASSUME NEW i \in Cores, StakeIdentity(i) \/ ChannelsOpen(i) \/ SendIdentity(i) PROVE Asked'
  BY <1>3, <1>6 DEF StakeIdentity, ChannelsOpen, SendIdentity, status
<1>7. ASSUME NEW i \in Cores, BroadcastCal(i) PROVE Asked'
  BY <1>3, <1>7 DEF BroadcastCal, status
<1>8. ASSUME NEW tx \in Txs, NEW p \in Validators, Propose(p, tx) PROVE Asked'
  BY <1>3, <1>8 DEF Propose, status
<1>9. CASE UNCHANGED vars BY <1>3, <1>9 DEF vars
<1> QED BY <1>1, <1>2, <1>4, <1>5, <1>6, <1>7, <1>8, <1>9 DEF Next, CoreStep

\* The two parts are inductive together.
LEMMA BooksAndValidators == Spec => [](IdentityInv /\ Asked)
<1>1. Init => Asked
  <2> SUFFICES ASSUME Init, NEW i \in Cores, ready[i] PROVE validators[i] = Validators
    BY DEF Asked
  <2>1. i \in Founders BY DEF Init
  <2> QED BY <2>1 DEF Init
<1>2. IdentityInv /\ Asked /\ [Next]_vars => Asked'
  BY AskedStep DEF IdentityInv
<1> QED BY Inductive, <1>1, <1>2, PTL DEF Spec

\* SameLeader, for whatever seed the Cores poll.
SameLeaderForAnySeed ==
    \A i, j \in Cores \ raced :
        pos[i] = pos[j] /\ load[i] = "done" /\ load[j] = "done" =>
            \A b \in Cores \cup {NoKey}, seed \in Int :
                /\ Cardinality(Contributors(i, b, seed) \cup Contributors(j, b, seed)) = 1
                /\ ready[i] /\ ready[j] =>
                       Cardinality(Leaders(i, b, seed) \cup Leaders(j, b, seed)) = 1

\* Two such Cores have one contributor and one validator between them.
LEMMA OneLeader ==
    ASSUME IdentityInv, Asked
    PROVE  SameLeaderForAnySeed /\ SameLeader
<1> DEFINE Agree(i, j, b, seed) ==
             /\ Cardinality(Contributors(i, b, seed) \cup Contributors(j, b, seed)) = 1
             /\ ready[i] /\ ready[j] =>
                    Cardinality(Leaders(i, b, seed) \cup Leaders(j, b, seed)) = 1
<1> SUFFICES
      ASSUME NEW i \in Cores \ raced, NEW j \in Cores \ raced,
             pos[i] = pos[j], load[i] = "done", load[j] = "done"
      PROVE  /\ \A b \in Cores \cup {NoKey}, seed \in Int : Agree(i, j, b, seed)
             /\ \A b \in Cores \cup {NoKey}, seed \in {0, 1} : Agree(i, j, b, seed)
  BY DEF SameLeaderForAnySeed, SameLeader
<1>1. \A c \in Cores : keys[i][c] = keys[j][c]
  BY DEF IdentityInv, Book, BookOf, Current
<1>2. PICK S \in SUBSET Cores : S = GetLastNSubmitters(i) /\ S = GetLastNSubmitters(j)
  BY <1>1 DEF GetLastNSubmitters
<1>3. ASSUME NEW b, NEW seed
      PROVE  Cardinality(Contributors(i, b, seed) \cup Contributors(j, b, seed)) = 1
  <2>1. PICK e : ElectChainContributorAsLeader(S, b, seed) = {e} BY OneContributor
  <2>2. Contributors(i, b, seed) \cup Contributors(j, b, seed) = {e}
    BY <1>2, <2>1 DEF Contributors
  <2> QED BY <2>2, FS_Singleton
<1>4. ASSUME NEW b, NEW seed, ready[i], ready[j]
      PROVE  Cardinality(Leaders(i, b, seed) \cup Leaders(j, b, seed)) = 1
  <2>1. validators[i] = Validators /\ validators[j] = Validators BY <1>4 DEF Asked
  <2>2. PICK V \in SUBSET Cores : V = Validators BY IdentityAssumption
  <2>3. PICK v : ElectValidatorAsLeader(V, b, seed) = {v} BY OneValidator
  <2>4. Leaders(i, b, seed) \cup Leaders(j, b, seed) = {v}
    BY <2>1, <2>2, <2>3 DEF Leaders
  <2> QED BY <2>4, FS_Singleton
<1> QED BY <1>3, <1>4

\* tmleader.go: for any number of Cores, keys, restarts and any seed, Cores
\* with the same blocks, whose lists of JWKs were complete, elect the same
\* contributor and the same validator, in whatever order Go's maps and
\* Tendermint list them.
THEOREM AnySeed == Spec => []SameLeaderForAnySeed
<1>1. IdentityInv /\ Asked => SameLeaderForAnySeed
  BY OneLeader
<1> QED BY BooksAndValidators, <1>1, PTL

\* And so they do for the seeds that the run tries: the elections of
\* tmleader.go forget the order in which a Core lists the IDs.
THEOREM LeadersAgree == Spec => []SameLeader
<1>1. IdentityInv /\ Asked => SameLeader
  BY OneLeader
<1> QED BY BooksAndValidators, <1>1, PTL
=============================================================================
