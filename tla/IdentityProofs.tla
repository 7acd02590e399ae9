---------------------------- MODULE IdentityProofs -----------------------------
(***************************************************************************)
(* Proofs about Identity, for any Cores, keys, founders and bounds: types, *)
(* that a Core whose LoadIdentity is done knows the keys declared last     *)
(* (while blocks and restarts go on), and what rests on it, the same       *)
(* number of CALs on all Cores and the declared key of a Core that does    *)
(* not stake.                                                              *)
(*                                                                         *)
(* The argument goes by what LoadIdentity has still to set: the last JWK   *)
(* of a Core in its list declares the key that Core declared last in the   *)
(* blocks delivered so far, and where the list has no JWK of a Core, the   *)
(* book has that key already (Book).                                       *)
(***************************************************************************)
EXTENDS Identity, FiniteSetTheorems, WellFoundedInduction, TLAPS

(* The key c declared last in the first n blocks, and in those i has.       *)
KeyAt(c, n) == LastKey(c, GetAllJWKs(n))
Current(i, c) == KeyAt(c, pos[i])

Typed ==
    /\ TypeOK
    /\ born \in [Cores -> Nat] /\ \A i \in Cores : born[i] <= pos[i]
    /\ early \subseteq Cores /\ raced \subseteq Cores /\ rekeyed \subseteq Cores
    /\ restarts \in Nat

Declares(n, c) == chain[n].type = "JWK" /\ chain[n].core = c

(* The last JWK of c among those a Core has still to set.                   *)
LastOf(i, m, c) ==
    m \in list[i] /\ chain[m].core = c /\ \A x \in list[i] : x > m => chain[x].core # c

BookOf(i, c) ==
    /\ load[i] = "start" => keys[i][c] \in {NoKey, Current(i, c)}
    /\ load[i] = "set" =>
           /\ \A m \in list[i] : LastOf(i, m, c) => chain[m].key = Current(i, c)
           /\ (\A m \in list[i] : chain[m].core # c) => keys[i][c] = Current(i, c)
    /\ load[i] = "done" => keys[i][c] = Current(i, c)

Book == \A i \in Cores \ raced, c \in Cores : BookOf(i, c)

(* The goroutines in their order, apart from the Cores on record.           *)
OrderedOf(i) ==
    /\ synced[i] /\ load[i] # "done" => i \in early
    /\ ready[i] => synced[i]
    /\ stake[i] # "wait" => ready[i]
    /\ staked[i] => Current(i, i) # NoKey

Ordered == \A i \in Cores : OrderedOf(i)

OtherKey(i) == \E n \in born[i] + 1 .. pos[i] : Declares(n, i) /\ chain[n].key # myKey[i]

(* StakedDeclared for one Core.                                             *)
DeclaredOf(i) ==
    staked[i] /\ stake[i] # "wait" =>
        Current(i, i) = myKey[i] \/ i \in early \cup raced \/ OtherKey(i)

AllVerifiable == \A n \in 1 .. Len(chain) : Verifiable(n)

Counted == AllVerifiable => \A i \in Cores \ (early \cup raced) : txInt[i] = pos[i]

IdentityInv == Typed /\ Book /\ Ordered /\ Counted /\ StakedDeclared

-----------------------------------------------------------------------------
(* The chain and the keys in it                                            *)

(* A set of places of the chain has a first and a last one (FiniteSetsExt). *)
LEMMA FirstPlace ==
    ASSUME NEW T, T \subseteq Nat, T # {}
    PROVE  Min(T) \in T /\ \A y \in T : Min(T) <= y
<1>1. \E u \in T : \A w \in T : ~ (<<w, u>> \in OpToRel(<, Nat))
  BY NatLessThanWellFounded, WFMin, Zenon
<1>2. \A x, y \in Nat : <<y, x>> \in OpToRel(<, Nat) <=> y < x
  BY SMT DEF OpToRel
<1>3. PICK u \in T : \A w \in T : ~ (w < u)
  BY <1>1, <1>2, Zenon
<1>4. \A y \in T : u <= y BY <1>3
<1> QED BY <1>4, Zenon DEF Min

LEMMA LastPlace ==
    ASSUME NEW T, NEW n \in Nat, T \subseteq 1 .. n, T # {}
    PROVE  Max(T) \in T /\ \A y \in T : y <= Max(T)
<1> DEFINE U == {n - x : x \in T}
<1>0. \A x \in T : n - x \in Nat OBVIOUS
<1>1. U \subseteq Nat /\ U # {} BY <1>0
<1>2. Min(U) \in U /\ \A y \in U : Min(U) <= y
  <2> HIDE DEF U
  <2> QED BY <1>1, FirstPlace, Zenon
<1>3. PICK x \in T : Min(U) = n - x BY <1>2
<1>4. \A y \in T : x >= y
  <2> TAKE y \in T
  <2>1. n - y \in U OBVIOUS
  <2>2. n - x <= n - y BY <1>2, <1>3, <2>1
  <2>3. x \in Int /\ y \in Int OBVIOUS
  <2> QED BY <2>2, <2>3
<1>5. Max(T) \in T /\ \A y \in T : Max(T) >= y BY <1>4, Zenon DEF Max
<1>6. \A y \in T : y \in Int OBVIOUS
<1> QED BY <1>5, <1>6

LEMMA Blocks ==
    ASSUME chain \in Seq(Txs)
    PROVE  /\ Len(chain) \in Nat /\ DOMAIN chain = 1 .. Len(chain)
           /\ \A n \in 1 .. Len(chain) :
                 /\ chain[n] \in Txs /\ chain[n].core \in Cores /\ chain[n].key \in Keys
                 /\ chain[n].key # NoKey /\ chain[n].type \in {"JWK", "CAL"}
<1>1. \A tx \in Txs : tx.core \in Cores /\ tx.key \in Keys /\ tx.type \in {"JWK", "CAL"}
  BY DEF Txs
<1>2. NoKey \notin Keys BY IdentityAssumption
<1>3. \A n \in 1 .. Len(chain) : chain[n] \in Txs OBVIOUS
<1> QED BY <1>1, <1>2, <1>3

(* LastKey: the key of the last declaration, or none.                       *)
LEMMA KeyOfLast ==
    ASSUME NEW n \in Nat, NEW c, NEW m \in 1 .. n, Declares(m, c),
           \A x \in 1 .. n : x > m => ~Declares(x, c)
    PROVE  KeyAt(c, n) = chain[m].key
<1> DEFINE own == {x \in GetAllJWKs(n) : chain[x].core = c}
<1>1. own \subseteq 1 .. n /\ m \in own BY DEF GetAllJWKs, Declares
<1>2. \A x \in own : Declares(x, c) BY DEF GetAllJWKs, Declares
<1>3. Max(own) \in own /\ \A y \in own : y <= Max(own)
  <2> HIDE DEF own
  <2> QED BY <1>1, LastPlace
<1>4. Max(own) = m
  <2> DEFINE x == Max(own)
  <2>1. x \in 1 .. n /\ m <= x /\ Declares(x, c) BY <1>1, <1>2, <1>3
  <2> HIDE DEF x
  <2>2. x = m BY <2>1
  <2> QED BY <2>2 DEF x
<1> QED BY <1>1, <1>4 DEF KeyAt, LastKey

LEMMA KeyOfNone ==
    ASSUME NEW n \in Nat, NEW c, \A x \in 1 .. n : ~Declares(x, c)
    PROVE  KeyAt(c, n) = NoKey
BY DEF KeyAt, LastKey, GetAllJWKs, Declares

LEMMA LastDeclared ==
    ASSUME NEW n \in Nat, NEW c
    PROVE  \/ \A x \in 1 .. n : ~Declares(x, c)
           \/ \E m \in 1 .. n : Declares(m, c) /\ \A x \in 1 .. n : x > m => ~Declares(x, c)
<1> DEFINE T == {x \in 1 .. n : Declares(x, c)}
<1>1. CASE T = {} BY <1>1
<1>2. CASE T # {}
  <2>1. Max(T) \in T /\ \A y \in T : y <= Max(T)
    <3>1. T \subseteq 1 .. n OBVIOUS
    <3> HIDE DEF T
    <3> QED BY <1>2, <3>1, LastPlace
  <2>2. PICK m \in T : m = Max(T) BY <2>1
  <2>3. \A x \in 1 .. n : x > m => ~Declares(x, c) BY <2>1, <2>2
  <2> QED BY <2>2, <2>3
<1> QED BY <1>1, <1>2

LEMMA KeyType ==
    ASSUME chain \in Seq(Txs), NEW n \in 0 .. Len(chain), NEW c
    PROVE  /\ KeyAt(c, n) \in Keys \cup {NoKey}
           /\ KeyAt(c, n) = NoKey <=> \A x \in 1 .. n : ~Declares(x, c)
<1>1. n \in Nat /\ Len(chain) \in Nat BY Blocks
<1>2. \A m \in 1 .. n : m \in 1 .. Len(chain) BY <1>1
<1>3. CASE \A x \in 1 .. n : ~Declares(x, c) BY <1>1, <1>3, KeyOfNone
<1>4. CASE \E m \in 1 .. n : Declares(m, c) /\ \A x \in 1 .. n : x > m => ~Declares(x, c)
  <2>1. PICK m \in 1 .. n : Declares(m, c) /\ \A x \in 1 .. n : x > m => ~Declares(x, c)
    BY <1>4
  <2>2. KeyAt(c, n) = chain[m].key BY <1>1, <2>1, KeyOfLast
  <2> QED BY <1>2, <2>1, <2>2, Blocks
<1> QED BY <1>1, <1>3, <1>4, LastDeclared

(* One more block: its key if it declares one for c, the same otherwise.    *)
LEMMA KeyNext ==
    ASSUME chain \in Seq(Txs), NEW n \in Nat, n + 1 <= Len(chain), NEW c
    PROVE  /\ Declares(n + 1, c) => KeyAt(c, n + 1) = chain[n + 1].key
           /\ ~Declares(n + 1, c) => KeyAt(c, n + 1) = KeyAt(c, n)
<1>1. n + 1 \in Nat /\ n + 1 \in 1 .. n + 1 OBVIOUS
<1>2. ASSUME Declares(n + 1, c) PROVE KeyAt(c, n + 1) = chain[n + 1].key
  <2>1. \A x \in 1 .. n + 1 : x > n + 1 => ~Declares(x, c) OBVIOUS
  <2> QED BY <1>1, <1>2, <2>1, KeyOfLast
<1>3. ASSUME ~Declares(n + 1, c) PROVE KeyAt(c, n + 1) = KeyAt(c, n)
  <2>1. CASE \A x \in 1 .. n : ~Declares(x, c)
    <3>1. \A x \in 1 .. n + 1 : ~Declares(x, c)
      <4> TAKE x \in 1 .. n + 1
      <4>1. x = n + 1 \/ x \in 1 .. n OBVIOUS
      <4> QED BY <4>1, <1>3, <2>1
    <3> QED BY <1>1, <2>1, <3>1, KeyOfNone
  <2>2. CASE \E m \in 1 .. n : Declares(m, c) /\ \A x \in 1 .. n : x > m => ~Declares(x, c)
    <3>1. PICK m \in 1 .. n : Declares(m, c) /\ \A x \in 1 .. n : x > m => ~Declares(x, c)
      BY <2>2
    <3>2. m \in 1 .. n + 1 OBVIOUS
    <3>3. \A x \in 1 .. n + 1 : x > m => ~Declares(x, c)
      <4> TAKE x \in 1 .. n + 1
      <4>1. x = n + 1 \/ x \in 1 .. n OBVIOUS
      <4> QED BY <4>1, <1>3, <3>1
    <3> QED BY <1>1, <3>1, <3>2, <3>3, KeyOfLast
  <2> QED BY <2>1, <2>2, LastDeclared
<1> QED BY <1>2, <1>3

(* The blocks there are stay.                                               *)
LEMMA KeyStays ==
    ASSUME chain \in Seq(Txs), chain' = chain \/ \E tx \in Txs : chain' = Append(chain, tx),
           NEW n \in 0 .. Len(chain), NEW c
    PROVE  (KeyAt(c, n))' = KeyAt(c, n)
<1>1. n \in Nat /\ Len(chain) \in Nat BY Blocks
<1>2. \A m \in 1 .. n : chain'[m] = chain[m]
  <2> TAKE m \in 1 .. n
  <2>1. m \in 1 .. Len(chain) BY <1>1
  <2> QED BY <2>1
<1> DEFINE own == {x \in GetAllJWKs(n) : chain[x].core = c}
<1>3. own \subseteq 1 .. n BY DEF GetAllJWKs
<1>4. GetAllJWKs(n)' = GetAllJWKs(n) BY <1>2 DEF GetAllJWKs
<1>5. own' = own BY <1>2, <1>4 DEF GetAllJWKs
<1>6. own # {} => Max(own) \in 1 .. n
  <2> HIDE DEF own
  <2> QED BY <1>1, <1>3, LastPlace
<1>7. (KeyAt(c, n))' = IF own' = {} THEN NoKey ELSE chain'[Max(own')].key BY DEF KeyAt, LastKey
<1>8. KeyAt(c, n) = IF own = {} THEN NoKey ELSE chain[Max(own)].key BY DEF KeyAt, LastKey
<1> HIDE DEF own
<1> QED BY <1>2, <1>5, <1>6, <1>7, <1>8

-----------------------------------------------------------------------------
(* Types                                                                   *)

LEMMA TypesOf ==
    ASSUME Typed
    PROVE  /\ chain \in Seq(Txs) /\ sent \subseteq Txs
           /\ myKey \in [Cores -> Keys] /\ pos \in [Cores -> Nat] /\ txInt \in [Cores -> Nat]
           /\ keys \in [Cores -> KeyOf] /\ uris \in [Cores -> SUBSET Cores]
           /\ validators \in [Cores -> {{}, Validators}]
           /\ synced \in [Cores -> BOOLEAN] /\ ready \in [Cores -> BOOLEAN]
           /\ staked \in [Cores -> BOOLEAN] /\ amValidator \in [Cores -> BOOLEAN]
           /\ channels \in [Cores -> BOOLEAN]
           /\ load \in [Cores -> {"start", "set", "done"}]
           /\ list \in [Cores -> SUBSET (1 .. Len(chain))]
           /\ stake \in [Cores -> {"wait", "loop", "send"}]
           /\ born \in [Cores -> Nat] /\ restarts \in Nat
           /\ early \subseteq Cores /\ raced \subseteq Cores /\ rekeyed \subseteq Cores
           /\ \A i \in Cores : /\ txInt[i] <= pos[i] /\ pos[i] <= Len(chain)
                               /\ load[i] = "set" <=> list[i] # {}
                               /\ born[i] <= pos[i]
<1>1. TypeOK BY DEF Typed
<1>2. DOMAIN chain = 1 .. Len(chain) BY <1>1 DEF TypeOK
<1> QED BY <1>1, <1>2 DEF Typed, TypeOK

(* Only Propose adds to the chain, and only at its end.                     *)
LEMMA ChainGrows ==
    ASSUME Typed, [Next]_vars
    PROVE  /\ chain' = chain \/ \E tx \in Txs : chain' = Append(chain, tx)
           /\ chain' \in Seq(Txs) /\ Len(chain) <= Len(chain')
           /\ Len(chain) \in Nat /\ Len(chain') \in Nat
           /\ \A n \in 1 .. Len(chain) : chain'[n] = chain[n]
<1>0. chain \in Seq(Txs) BY DEF Typed, TypeOK
<1>1. chain' = chain \/ \E tx \in Txs : chain' = Append(chain, tx)
  <2>1. ASSUME NEW tx \in Txs, NEW p \in Validators, Propose(p, tx)
        PROVE  chain' = Append(chain, tx)
    BY <2>1 DEF Propose
  <2>2. ASSUME NEW i \in Cores, CoreStep(i) \/ BroadcastCal(i) \/ Restart(i)
        PROVE  chain' = chain
    BY <2>2 DEF CoreStep, BroadcastCal, Restart, DeliverTx, SyncMonitor, ListJWKs, LoadIdentity,
                CheckStake, StakeIdentity, ChannelsOpen, SendIdentity, net
  <2> QED BY <2>1, <2>2, Zenon DEF Next, vars
<1>2. CASE chain' = chain BY <1>0, <1>2
<1>3. CASE \E tx \in Txs : chain' = Append(chain, tx)
  <2>1. PICK tx \in Txs : chain' = Append(chain, tx) BY <1>3
  <2>2. chain' \in Seq(Txs) /\ Len(chain') = Len(chain) + 1 BY <1>0, <2>1
  <2>3. \A n \in 1 .. Len(chain) : chain'[n] = chain[n] BY <1>0, <2>1
  <2> QED BY <1>0, <1>1, <2>2, <2>3
<1> QED BY <1>1, <1>2, <1>3

LEMMA TypedInit ==
    ASSUME Init, chain \in Seq(Txs)
    PROVE  Typed
<1>1. Len(chain) \in Nat /\ DOMAIN chain = 1 .. Len(chain) BY Blocks
<1>2. \A c \in Cores : FirstKey[c] \in Keys
  BY IdentityAssumption DEF Keys
<1>3. pos \in [Cores -> Nat] /\ \A i \in Cores : pos[i] <= Len(chain)
  BY <1>1 DEF Init
<1>4. myKey \in [Cores -> Keys] /\ keys \in [Cores -> KeyOf]
  BY <1>2 DEF Init, KeyOf
<1>5. uris \in [Cores -> SUBSET Cores] /\ validators \in [Cores -> {{}, Validators}]
  BY IdentityAssumption DEF Init
<1>6. {synced, ready, staked, amValidator, channels} \subseteq [Cores -> BOOLEAN]
  BY DEF Init
<1>7. /\ load \in [Cores -> {"start", "set", "done"}] /\ stake \in [Cores -> {"wait", "loop", "send"}]
      /\ list \in [Cores -> SUBSET DOMAIN chain]
      /\ \A i \in Cores : load[i] = "set" <=> list[i] # {}
  BY DEF Init
<1>8. txInt = pos /\ born = pos BY DEF Init
<1>9. sent = {} /\ restarts = 0 /\ rekeyed = {} /\ early = {} /\ raced = {} BY DEF Init
<1>10. /\ chain \in Seq(Txs) /\ sent \subseteq Txs
       /\ txInt \in [Cores -> Nat] /\ \A i \in Cores : txInt[i] <= pos[i]
  BY <1>3, <1>8, <1>9
<1>11. TypeOK BY <1>3, <1>4, <1>5, <1>6, <1>7, <1>10 DEF TypeOK
<1> QED BY <1>3, <1>8, <1>9, <1>11 DEF Typed

LEMMA TypedStep ==
    ASSUME Typed, [Next]_vars
    PROVE  Typed'
<1> USE DEF Set
<1>0. /\ chain' \in Seq(Txs) /\ DOMAIN chain' = 1 .. Len(chain')
      /\ \A i \in Cores : pos[i] <= Len(chain') /\ list[i] \in SUBSET DOMAIN chain'
      /\ DOMAIN chain = 1 .. Len(chain) /\ Len(chain) \in Nat
  BY ChainGrows, TypesOf
<1>1. ASSUME NEW i \in Cores, DeliverTx(i) PROVE Typed'
  <2>1. chain' = chain /\ pos[i] + 1 \in 1 .. Len(chain)
    BY <1>1, TypesOf, <1>0 DEF DeliverTx, net
  <2>2. PICK tx \in Txs : tx = chain[pos[i] + 1] BY <2>1, <1>0
  <2>3. tx.core \in Cores /\ tx.key \in Keys /\ tx.key \in Keys \cup {NoKey} BY <2>2 DEF Txs
  <2>4. keys' \in [Cores -> KeyOf] /\ uris' \in [Cores -> SUBSET Cores]
    <3>1. CASE tx.type = "JWK"
      <4>1. /\ keys' = [keys EXCEPT ![i] = [keys[i] EXCEPT ![tx.core] = tx.key]]
            /\ uris' = [uris EXCEPT ![i] = uris[i] \cup {tx.core}]
        BY <1>1, <2>2, <3>1 DEF DeliverTx, SetIdentity
      <4>2. keys[i] \in KeyOf /\ uris[i] \subseteq Cores BY TypesOf
      <4>3. [keys[i] EXCEPT ![tx.core] = tx.key] \in KeyOf BY <4>2, <2>3 DEF KeyOf
      <4> QED BY <4>1, <4>2, <4>3, <2>3, TypesOf
    <3>2. CASE tx.type # "JWK"
      BY <1>1, <2>2, <3>2, TypesOf DEF DeliverTx, book
    <3> QED BY <3>1, <3>2
  <2>5. pos' = [pos EXCEPT ![i] = pos[i] + 1] BY <1>1 DEF DeliverTx
  <2>6. /\ txInt' \in [Cores -> Nat] /\ txInt'[i] <= txInt[i] + 1
        /\ \A j \in Cores : j # i => txInt'[j] = txInt[j]
    BY <1>1, TypesOf DEF DeliverTx
  <2>7. staked' \in [Cores -> BOOLEAN] /\ raced' \subseteq Cores
    BY <1>1, TypesOf DEF DeliverTx
  <2>8. UNCHANGED <<sent, myKey, validators, synced, ready, amValidator, channels, load, list,
                    stake, restarts, born, rekeyed, early>>
    BY <1>1 DEF DeliverTx, net, status, loading
  <2>9. /\ pos' \in [Cores -> Nat] /\ txInt' \in [Cores -> Nat]
        /\ \A j \in Cores : txInt'[j] <= pos'[j] /\ pos'[j] <= Len(chain) /\ born[j] <= pos'[j]
    <3>1. /\ pos \in [Cores -> Nat] /\ txInt \in [Cores -> Nat] /\ born \in [Cores -> Nat]
          /\ Len(chain) \in Nat
          /\ \A j \in Cores : txInt[j] <= pos[j] /\ pos[j] <= Len(chain) /\ born[j] <= pos[j]
      BY TypesOf, <1>0
    <3>2. \A j \in Cores : pos'[j] = IF j = i THEN pos[i] + 1 ELSE pos[j]
      BY <2>5, <3>1
    <3>3. \A j \in Cores : txInt'[j] \in Nat
      BY <2>6
    <3>4. pos' \in [Cores -> Nat] /\ txInt' \in [Cores -> Nat]
      BY <2>5, <2>6, <3>1
    <3>5. pos[i] + 1 <= Len(chain)
      <4>1. \A x, y \in Nat : x \in 1 .. y => x <= y
        OBVIOUS
      <4>2. pos[i] + 1 \in Nat
        BY <3>1
      <4> QED BY <2>1, <3>1, <4>1, <4>2, Zenon
    <3>6. ASSUME NEW j \in Cores
          PROVE  txInt'[j] <= pos'[j] /\ pos'[j] <= Len(chain) /\ born[j] <= pos'[j]
      <4>1. CASE j = i
        <5>1. \A x, p, b, l, y \in Nat :
                 x <= p /\ b <= p /\ p + 1 <= l /\ y <= x + 1
                     => y <= p + 1 /\ p + 1 <= l /\ b <= p + 1
          OBVIOUS
        <5>2. /\ txInt[i] \in Nat /\ pos[i] \in Nat /\ born[i] \in Nat /\ txInt'[i] \in Nat
              /\ txInt[i] <= pos[i] /\ born[i] <= pos[i] /\ txInt'[i] <= txInt[i] + 1
          BY <2>6, <3>1, <3>3, Zenon
        <5>3. /\ txInt'[i] <= pos[i] + 1 /\ pos[i] + 1 <= Len(chain)
              /\ born[i] <= pos[i] + 1
          <6>1. PICK x, p, b, l, y \in Nat :
                   /\ x = txInt[i] /\ p = pos[i] /\ b = born[i]
                   /\ l = Len(chain) /\ y = txInt'[i]
            BY <3>1, <5>2
          <6> QED BY <3>5, <5>1, <5>2, <6>1
        <5> QED BY <3>2, <4>1, <5>3
      <4>2. CASE j # i
        BY <2>6, <3>1, <3>2, <4>2, Zenon
      <4> QED BY <4>1, <4>2
    <3> QED BY <3>4, <3>6
  <2>10. TypeOK' BY <2>1, <2>4, <2>7, <2>8, <2>9, TypesOf, <1>0 DEF TypeOK, KeyOf
  <2> QED BY <2>7, <2>8, <2>9, <2>10, TypesOf DEF Typed
<1>2. ASSUME NEW i \in Cores, SyncMonitor(i) PROVE Typed'
  <2>1. /\ synced' \in [Cores -> BOOLEAN] /\ ready' \in [Cores -> BOOLEAN]
        /\ validators' \in [Cores -> {{}, Validators}] /\ early' \subseteq Cores
    BY <1>2, TypesOf DEF SyncMonitor, SetStake
  <2>2. UNCHANGED <<chain, sent, myKey, pos, txInt, keys, uris, staked, amValidator, channels,
                    load, list, stake, restarts, born, rekeyed, raced>>
    BY <1>2 DEF SyncMonitor, net, ledger, book, staking, loading
  <2>3. TypeOK' BY <2>1, <2>2, TypesOf, <1>0 DEF TypeOK, KeyOf
  <2> QED BY <2>1, <2>2, <2>3, TypesOf DEF Typed
<1>3. ASSUME NEW i \in Cores, ListJWKs(i) PROVE Typed'
  <2>1. PICK n \in {pos[i] - 1, pos[i]} \cap Nat :
          /\ list' = [list EXCEPT ![i] = GetAllJWKs(n)]
          /\ load' = [load EXCEPT ![i] = IF GetAllJWKs(n) = {} THEN "done" ELSE "set"]
          /\ raced' \subseteq raced \cup {i}
    BY <1>3 DEF ListJWKs
  <2>2. GetAllJWKs(n) \in SUBSET DOMAIN chain
    BY <1>0, TypesOf DEF GetAllJWKs
  <2>3. UNCHANGED <<chain, sent, myKey, pos, txInt, keys, uris, validators, synced, ready, staked,
                    amValidator, channels, stake, restarts, born, rekeyed, early>>
    BY <1>3 DEF ListJWKs, net, ledger, book, status, staking
  <2>4. /\ list' \in [Cores -> SUBSET DOMAIN chain'] /\ load' \in [Cores -> {"start", "set", "done"}]
        /\ \A j \in Cores : load'[j] = "set" <=> list'[j] # {}
    BY <2>1, <2>2, <2>3, <1>0, TypesOf
  <2>5. \A j \in Cores : /\ txInt'[j] <= pos'[j] /\ pos'[j] <= Len(chain')
                         /\ load'[j] = "set" <=> list'[j] # {}
    BY <2>3, <2>4, TypesOf
  <2>6. TypeOK' BY <2>3, <2>4, <2>5, TypesOf DEF TypeOK, KeyOf
  <2> QED BY <2>1, <2>3, <2>6, TypesOf DEF Typed
<1>4. ASSUME NEW i \in Cores, LoadIdentity(i) PROVE Typed'
  <2>1. list[i] # {} /\ list[i] \subseteq 1 .. Len(chain) /\ list[i] \subseteq Nat
    BY <1>4, TypesOf DEF LoadIdentity
  <2>2. NextJWK(list[i]) \in list[i] BY <2>1, FirstPlace DEF NextJWK
  <2>3. PICK n \in list[i] : n = NextJWK(list[i]) BY <2>2
  <2>4. /\ keys' = [keys EXCEPT ![i] = [keys[i] EXCEPT ![chain[n].core] = chain[n].key]]
        /\ uris' = [uris EXCEPT ![i] = uris[i] \cup {chain[n].core}]
        /\ list' = [list EXCEPT ![i] = list[i] \ {n}]
        /\ load' = [load EXCEPT ![i] = IF list[i] = {n} THEN "done" ELSE "set"]
    BY <1>4, <2>3 DEF LoadIdentity, SetIdentity
  <2>5. UNCHANGED <<chain, sent, myKey, pos, txInt, validators, synced, ready, staked, amValidator,
                    channels, stake, restarts, born, rekeyed, early, raced>>
    BY <1>4 DEF LoadIdentity, net, ledger, status, staking, history
  <2>6. chain[n].core \in Cores /\ chain[n].key \in Keys BY <2>1, TypesOf, Blocks
  <2>7. keys[i] \in KeyOf /\ uris[i] \subseteq Cores BY TypesOf
  <2>8. [keys[i] EXCEPT ![chain[n].core] = chain[n].key] \in KeyOf BY <2>6, <2>7 DEF KeyOf
  <2>9. keys' \in [Cores -> KeyOf] /\ uris' \in [Cores -> SUBSET Cores]
    BY <2>4, <2>6, <2>7, <2>8, TypesOf
  <2>10. /\ list' \in [Cores -> SUBSET DOMAIN chain'] /\ load' \in [Cores -> {"start", "set", "done"}]
         /\ \A j \in Cores : load'[j] = "set" <=> list'[j] # {}
    BY <2>4, <2>5, <1>0, TypesOf
  <2>11. TypeOK' BY <2>5, <2>9, <2>10, TypesOf, <1>0 DEF TypeOK
  <2> QED BY <2>5, <2>11, TypesOf DEF Typed
<1>5. ASSUME NEW i \in Cores, CheckStake(i) PROVE Typed'
  <2>1. /\ staked' \in [Cores -> BOOLEAN] /\ stake' \in [Cores -> {"wait", "loop", "send"}]
        /\ UNCHANGED <<chain, sent, myKey, pos, txInt, keys, uris, validators, synced, ready,
                       amValidator, channels, load, list, restarts, born, rekeyed, early, raced>>
    BY <1>5, TypesOf DEF CheckStake, net, ledger, book, status, loading, history
  <2>2. TypeOK' BY <2>1, TypesOf, <1>0 DEF TypeOK, KeyOf
  <2> QED BY <2>1, <2>2, TypesOf DEF Typed
<1>6. ASSUME NEW i \in Cores, StakeIdentity(i) PROVE Typed'
  <2>1. /\ amValidator' \in [Cores -> BOOLEAN] /\ stake' \in [Cores -> {"wait", "loop", "send"}]
        /\ UNCHANGED <<chain, sent, myKey, pos, txInt, keys, uris, validators, synced, ready,
                       staked, channels, load, list, restarts, born, rekeyed, early, raced>>
    BY <1>6, TypesOf DEF StakeIdentity, AmValidator, IsValidator, net, ledger, book, status,
                         loading, history
  <2>2. TypeOK' BY <2>1, TypesOf, <1>0 DEF TypeOK, KeyOf
  <2> QED BY <2>1, <2>2, TypesOf DEF Typed
<1>7. ASSUME NEW i \in Cores, ChannelsOpen(i) PROVE Typed'
  <2>1. /\ channels' \in [Cores -> BOOLEAN]
        /\ UNCHANGED <<chain, sent, myKey, pos, txInt, keys, uris, validators, synced, ready,
                       staked, amValidator, load, list, stake, restarts, born, rekeyed, early,
                       raced>>
    BY <1>7, TypesOf DEF ChannelsOpen, net, ledger, book, status, loading, history
  <2>2. TypeOK' BY <2>1, TypesOf, <1>0 DEF TypeOK, KeyOf
  <2> QED BY <2>1, <2>2, TypesOf DEF Typed
<1>8. ASSUME NEW i \in Cores, SendIdentity(i) \/ BroadcastCal(i) PROVE Typed'
  <2>1. myKey[i] \in Keys BY TypesOf
  <2>2. JWK(i, myKey[i]) \in Txs /\ CAL(i, myKey[i]) \in Txs BY <2>1 DEF JWK, CAL, Txs
  <2>3. /\ sent' \subseteq Txs /\ stake' \in [Cores -> {"wait", "loop", "send"}]
        /\ UNCHANGED <<chain, myKey, pos, txInt, keys, uris, validators, synced, ready,
                       staked, amValidator, channels, load, list, restarts, born, rekeyed, early,
                       raced>>
    <3>1. CASE SendIdentity(i)
      BY <3>1, <2>2, TypesOf DEF SendIdentity, ledger, book, status, staking, loading, history
    <3>2. CASE BroadcastCal(i)
      BY <3>2, <2>2, TypesOf DEF BroadcastCal, ledger, book, status, staking, loading, history
    <3> QED BY <3>1, <3>2, <1>8
  <2>4. TypeOK' BY <2>3, TypesOf, <1>0 DEF TypeOK, KeyOf
  <2> QED BY <2>3, <2>4, TypesOf DEF Typed
<1>9. ASSUME NEW i \in Cores, Restart(i) PROVE Typed'
  <2>1. PICK k \in KeysOf[i] : myKey' = [myKey EXCEPT ![i] = k] BY <1>9 DEF Restart
  <2>2. k \in Keys BY DEF Keys
  <2>3. /\ keys' = [keys EXCEPT ![i] = [c \in Cores |-> NoKey]]
        /\ validators' = [validators EXCEPT ![i] = {}]
        /\ synced' = [synced EXCEPT ![i] = FALSE] /\ ready' = [ready EXCEPT ![i] = FALSE]
        /\ load' = [load EXCEPT ![i] = "start"] /\ list' = [list EXCEPT ![i] = {}]
        /\ stake' = [stake EXCEPT ![i] = "wait"] /\ born' = [born EXCEPT ![i] = pos[i]]
        /\ rekeyed' \subseteq rekeyed \cup {i} /\ early' = early \cup (raced \cap {i})
        /\ raced' = raced \ {i} /\ restarts' = restarts + 1
    BY <1>9 DEF Restart
  <2>4. PICK s \in {staked[i], LastKey(i, GetAllJWKs(pos[i])) # NoKey} :
           staked' = [staked EXCEPT ![i] = s]
    BY <1>9 DEF Restart
  <2>5. s \in BOOLEAN BY TypesOf
  <2>6. UNCHANGED <<chain, sent, pos, txInt, uris, amValidator, channels>> BY <1>9 DEF Restart, net
  <2>7. [c \in Cores |-> NoKey] \in KeyOf BY DEF KeyOf
  <2>8. /\ myKey' \in [Cores -> Keys] /\ keys' \in [Cores -> KeyOf]
        /\ validators' \in [Cores -> {{}, Validators}] /\ synced' \in [Cores -> BOOLEAN]
        /\ ready' \in [Cores -> BOOLEAN] /\ staked' \in [Cores -> BOOLEAN]
        /\ stake' \in [Cores -> {"wait", "loop", "send"}]
    BY <2>1, <2>2, <2>3, <2>4, <2>5, <2>7, TypesOf
  <2>9. /\ list' \in [Cores -> SUBSET DOMAIN chain'] /\ load' \in [Cores -> {"start", "set", "done"}]
        /\ \A j \in Cores : load'[j] = "set" <=> list'[j] # {}
    BY <2>3, <2>6, <1>0, TypesOf
  <2>10. born' \in [Cores -> Nat] /\ \A j \in Cores : born'[j] <= pos'[j]
    BY <2>3, <2>6, TypesOf
  <2>11. TypeOK' BY <2>6, <2>8, <2>9, TypesOf, <1>0 DEF TypeOK
  <2> QED BY <2>3, <2>10, <2>11, TypesOf DEF Typed
<1>10. ASSUME NEW tx \in Txs, NEW p \in Validators, Propose(p, tx) PROVE Typed'
  <2>1. /\ sent' \subseteq Txs
        /\ UNCHANGED <<myKey, pos, txInt, keys, uris, validators, synced, ready,
                       staked, amValidator, channels, load, list, stake, restarts, born, rekeyed,
                       early, raced>>
    BY <1>10, TypesOf DEF Propose, ledger, book, status, staking, loading, history
  <2>2. list' \in [Cores -> SUBSET DOMAIN chain'] BY <2>1, <1>0, TypesOf
  <2>3. TypeOK' BY <2>1, <2>2, <1>0, TypesOf DEF TypeOK, KeyOf
  <2> QED BY <2>1, <2>3, TypesOf DEF Typed
<1>11. CASE UNCHANGED vars
  <2>1. TypeOK' BY <1>11, TypesOf, <1>0 DEF TypeOK, KeyOf, vars
  <2> QED BY <1>11, <2>1, TypesOf DEF Typed, vars
<1> QED
  BY <1>1, <1>2, <1>3, <1>4, <1>5, <1>6, <1>7, <1>8, <1>9, <1>10, <1>11, Zenon DEF Next, CoreStep

-----------------------------------------------------------------------------
(* What a Core knows                                                       *)

LEMMA CurrentStays ==
    ASSUME Typed, [Next]_vars, NEW j \in Cores, pos'[j] = pos[j], NEW c
    PROVE  (Current(j, c))' = Current(j, c)
<1>1. PICK n : n = pos[j] OBVIOUS
<1>2. n \in 0 .. Len(chain) BY <1>1, TypesOf
<1>3. (KeyAt(c, n))' = KeyAt(c, n) BY <1>2, ChainGrows, TypesOf, KeyStays
<1>4. (Current(j, c))' = (KeyAt(c, n))' BY <1>1 DEF Current
<1>5. Current(j, c) = KeyAt(c, n) BY <1>1 DEF Current
<1> QED BY <1>3, <1>4, <1>5

(* A block with another declaration changes what is current, and only for   *)
(* the Core that declares.                                                  *)
LEMMA CurrentNext ==
    ASSUME Typed, NEW i \in Cores, DeliverTx(i), NEW c,
           NEW tx, tx = chain[pos[i] + 1]
    PROVE  /\ tx.type = "JWK" /\ tx.core = c => (Current(i, c))' = tx.key
           /\ ~(tx.type = "JWK" /\ tx.core = c) => (Current(i, c))' = Current(i, c)
<1>1. PICK n : n = pos[i] OBVIOUS
<1>2. n \in Nat /\ n + 1 <= Len(chain) /\ n + 1 \in 0 .. Len(chain) /\ n + 1 \in Nat
  BY <1>1, TypesOf, Blocks DEF DeliverTx
<1>3. PICK m : m = n + 1 OBVIOUS
<1>4. chain' = chain /\ pos'[i] = m BY <1>1, <1>3, TypesOf DEF DeliverTx, Set, net
<1>5. (KeyAt(c, m))' = KeyAt(c, m) BY <1>2, <1>3, <1>4, TypesOf, KeyStays
<1>6. (Current(i, c))' = (KeyAt(c, m))' BY <1>4 DEF Current
<1>7. Current(i, c) = KeyAt(c, n) BY <1>1 DEF Current
<1>8. /\ Declares(m, c) => KeyAt(c, m) = chain[m].key
      /\ ~Declares(m, c) => KeyAt(c, m) = KeyAt(c, n)
  BY <1>2, <1>3, TypesOf, KeyNext
<1> QED BY <1>1, <1>3, <1>5, <1>6, <1>7, <1>8 DEF Declares

LEMMA BookKept ==
    ASSUME Typed, [Next]_vars, NEW j \in Cores, NEW c \in Cores, BookOf(j, c),
           pos'[j] = pos[j], load'[j] = load[j], list'[j] = list[j], keys'[j][c] = keys[j][c]
    PROVE  BookOf(j, c)'
<1>1. (Current(j, c))' = Current(j, c) BY CurrentStays
<1>2. \A m \in list[j] : chain'[m] = chain[m] BY ChainGrows, TypesOf
<1>3. ASSUME load[j] = "start" PROVE keys'[j][c] \in {NoKey, (Current(j, c))'}
  BY <1>1, <1>3 DEF BookOf
<1>4. ASSUME load[j] = "done" PROVE keys'[j][c] = (Current(j, c))'
  BY <1>1, <1>4 DEF BookOf
<1>5. ASSUME load[j] = "set"
      PROVE  /\ \A m \in list'[j] : LastOf(j, m, c)' => chain'[m].key = (Current(j, c))'
             /\ (\A m \in list'[j] : chain'[m].core # c) => keys'[j][c] = (Current(j, c))'
  <2>1. ASSUME NEW m \in list'[j], LastOf(j, m, c)' PROVE chain'[m].key = (Current(j, c))'
    <3>1. LastOf(j, m, c) BY <2>1, <1>2 DEF LastOf
    <3> QED BY <3>1, <1>1, <1>2, <1>5 DEF BookOf
  <2>2. ASSUME \A m \in list'[j] : chain'[m].core # c PROVE keys'[j][c] = (Current(j, c))'
    <3>1. \A m \in list[j] : chain[m].core # c BY <2>2, <1>2
    <3> QED BY <3>1, <1>1, <1>5 DEF BookOf
  <2> QED BY <2>1, <2>2
<1> QED BY <1>3, <1>4, <1>5 DEF BookOf

LEMMA BookDeliver ==
    ASSUME Typed, Book, NEW i \in Cores, DeliverTx(i), i \notin raced', NEW c \in Cores
    PROVE  BookOf(i, c)'
<1>1. PICK tx \in Txs : tx = chain[pos[i] + 1]
  <2>1. pos[i] + 1 \in 1 .. Len(chain) BY TypesOf, Blocks DEF DeliverTx
  <2> QED BY <2>1, TypesOf, Blocks
<1>2. UNCHANGED <<chain, load, list>> BY DEF DeliverTx, net, loading
<1>3. i \notin raced /\ (tx.type = "JWK" => \A n \in list[i] : ~Outdates(tx, n))
  BY <1>1, TypesOf DEF DeliverTx
<1>4. BookOf(i, c) BY <1>3 DEF Book
<1>5. CASE tx.type = "JWK" /\ tx.core = c
  <2>1. keys[i] \in [Cores -> Keys \cup {NoKey}] BY TypesOf DEF KeyOf
  <2>2. keys' = [keys EXCEPT ![i] = [keys[i] EXCEPT ![tx.core] = tx.key]]
    BY <1>1, <1>5 DEF DeliverTx, SetIdentity, Set
  <2>3. keys'[i][c] = tx.key BY <2>1, <2>2, <1>5, TypesOf
  <2>4. (Current(i, c))' = tx.key BY <1>1, <1>5, CurrentNext
  <2>5. \A m \in list'[i] : chain'[m].core = c => chain'[m].key = tx.key
    BY <1>2, <1>3, <1>5 DEF Outdates
  <2> QED BY <2>3, <2>4, <2>5 DEF BookOf, LastOf
<1>6. CASE ~(tx.type = "JWK" /\ tx.core = c)
  <2>1. keys[i] \in [Cores -> Keys \cup {NoKey}] BY TypesOf DEF KeyOf
  <2>2. \/ keys' = keys
        \/ keys' = [keys EXCEPT ![i] = [keys[i] EXCEPT ![tx.core] = tx.key]] /\ tx.core # c
    BY <1>1, <1>6 DEF DeliverTx, SetIdentity, Set, book
  <2>3. keys'[i][c] = keys[i][c]
    <3>1. keys \in [Cores -> KeyOf] BY TypesOf
    <3>2. CASE keys' = keys BY <3>2
    <3>3. CASE keys' = [keys EXCEPT ![i] = [keys[i] EXCEPT ![tx.core] = tx.key]] /\ tx.core # c
      <4>1. keys'[i] = [keys[i] EXCEPT ![tx.core] = tx.key] BY <3>1, <3>3
      <4> QED BY <2>1, <3>3, <4>1
    <3> QED BY <2>2, <3>2, <3>3
  <2>4. (Current(i, c))' = Current(i, c) BY <1>1, <1>6, CurrentNext
  <2> QED BY <1>2, <1>4, <2>3, <2>4 DEF BookOf, LastOf
<1> QED BY <1>5, <1>6

(* GetAllJWKs: the last JWK of c that it finds declares c's current key.    *)
LEMMA Listed ==
    ASSUME Typed, NEW n \in Nat, n <= Len(chain), NEW c
    PROVE  /\ \A m \in GetAllJWKs(n) :
                 chain[m].core = c /\ (\A x \in GetAllJWKs(n) : x > m => chain[x].core # c)
                 => chain[m].key = KeyAt(c, n)
           /\ (\A m \in GetAllJWKs(n) : chain[m].core # c) => KeyAt(c, n) = NoKey
<1>1. ASSUME NEW m \in GetAllJWKs(n), chain[m].core = c,
             \A x \in GetAllJWKs(n) : x > m => chain[x].core # c
      PROVE  chain[m].key = KeyAt(c, n)
  <2>1. m \in 1 .. n /\ Declares(m, c) BY <1>1 DEF GetAllJWKs, Declares
  <2>2. \A x \in 1 .. n : x > m => ~Declares(x, c) BY <1>1 DEF GetAllJWKs, Declares
  <2> QED BY <2>1, <2>2, KeyOfLast
<1>2. ASSUME \A m \in GetAllJWKs(n) : chain[m].core # c PROVE KeyAt(c, n) = NoKey
  <2>1. \A x \in 1 .. n : ~Declares(x, c) BY <1>2 DEF GetAllJWKs, Declares
  <2> QED BY <2>1, KeyOfNone
<1> QED BY <1>1, <1>2

LEMMA BookList ==
    ASSUME Typed, Book, [Next]_vars, NEW i \in Cores, ListJWKs(i), i \notin raced', NEW c \in Cores
    PROVE  BookOf(i, c)'
<1>1. PICK n \in {pos[i] - 1, pos[i]} \cap Nat :
        /\ list' = [list EXCEPT ![i] = GetAllJWKs(n)]
        /\ load' = [load EXCEPT ![i] = IF GetAllJWKs(n) = {} THEN "done" ELSE "set"]
        /\ raced' = IF \E d \in Cores :
                          LastKey(d, GetAllJWKs(n)) # LastKey(d, GetAllJWKs(pos[i]))
                    THEN raced \cup {i} ELSE raced
  BY DEF ListJWKs, Set
<1>2. UNCHANGED <<chain, pos, keys>> /\ load[i] = "start"
  BY DEF ListJWKs, net, ledger, book
<1>3. i \notin raced /\ KeyAt(c, n) = Current(i, c)
  BY <1>1 DEF KeyAt, Current
<1>4. (Current(i, c))' = KeyAt(c, n) BY <1>2, <1>3, CurrentStays
<1>5. n \in Nat /\ n <= Len(chain) BY <1>1, TypesOf, Blocks
<1>6. keys[i][c] \in {NoKey, KeyAt(c, n)} BY <1>2, <1>3 DEF Book, BookOf
<1>7. list'[i] = GetAllJWKs(n) /\ load'[i] = IF GetAllJWKs(n) = {} THEN "done" ELSE "set"
  BY <1>1, TypesOf
<1>8. \A m \in list'[i] : LastOf(i, m, c)' => chain'[m].key = (Current(i, c))'
  BY <1>2, <1>4, <1>5, <1>7, Listed DEF LastOf
<1>9. (\A m \in list'[i] : chain'[m].core # c) => keys'[i][c] = (Current(i, c))'
  <2>1. ASSUME \A m \in list'[i] : chain'[m].core # c PROVE KeyAt(c, n) = NoKey
    BY <1>2, <1>5, <1>7, <2>1, Listed
  <2> QED BY <1>2, <1>4, <1>6, <2>1
<1> QED BY <1>7, <1>8, <1>9 DEF BookOf

LEMMA BookSet ==
    ASSUME Typed, Book, [Next]_vars, NEW i \in Cores, LoadIdentity(i), i \notin raced', NEW c \in Cores
    PROVE  BookOf(i, c)'
<1>1. list[i] # {} /\ list[i] \subseteq Nat BY TypesOf DEF LoadIdentity
<1>2. PICK n \in list[i] : n = NextJWK(list[i]) /\ \A x \in list[i] : n <= x
  BY <1>1, FirstPlace DEF NextJWK
<1>3. /\ keys' = [keys EXCEPT ![i] = [keys[i] EXCEPT ![chain[n].core] = chain[n].key]]
      /\ list' = [list EXCEPT ![i] = list[i] \ {n}]
      /\ load' = [load EXCEPT ![i] = IF list[i] = {n} THEN "done" ELSE "set"]
      /\ load[i] = "set" /\ UNCHANGED <<chain, pos, raced>>
  BY <1>2 DEF LoadIdentity, SetIdentity, Set, net, ledger, history
<1>4. BookOf(i, c) BY <1>3 DEF Book
<1>5. (Current(i, c))' = Current(i, c) BY <1>3, CurrentStays
<1>6. list'[i] = list[i] \ {n} /\ load'[i] = IF list[i] = {n} THEN "done" ELSE "set"
  BY <1>3, TypesOf
<1>7. keys'[i][c] = IF chain[n].core = c THEN chain[n].key ELSE keys[i][c]
  <2>1. keys[i] \in [Cores -> Keys \cup {NoKey}] BY TypesOf DEF KeyOf
  <2> QED BY <2>1, <1>3, TypesOf
<1>8. ASSUME NEW m \in list'[i], LastOf(i, m, c)' PROVE chain'[m].key = (Current(i, c))'
  <2>1. m \in list[i] /\ n <= m /\ n \in Nat /\ m \in Nat BY <1>1, <1>2, <1>6
  <2>2. LastOf(i, m, c) BY <1>3, <1>6, <1>8, <2>1 DEF LastOf
  <2> QED BY <1>3, <1>4, <1>5, <2>1, <2>2 DEF BookOf
<1>9. ASSUME \A m \in list'[i] : chain'[m].core # c PROVE keys'[i][c] = (Current(i, c))'
  <2>1. \A m \in list[i] \ {n} : chain[m].core # c BY <1>3, <1>6, <1>9
  <2>2. CASE chain[n].core = c
    <3>1. LastOf(i, n, c) BY <1>1, <1>2, <2>1, <2>2 DEF LastOf
    <3> QED BY <1>2, <1>3, <1>4, <1>5, <1>7, <2>2, <3>1 DEF BookOf
  <2>3. CASE chain[n].core # c
    <3>1. \A m \in list[i] : chain[m].core # c BY <2>1, <2>3
    <3> QED BY <1>3, <1>4, <1>5, <1>7, <2>3, <3>1 DEF BookOf
  <2> QED BY <2>2, <2>3
<1>10. load'[i] = "done" => list'[i] = {} BY <1>6
<1> QED BY <1>6, <1>8, <1>9, <1>10 DEF BookOf

-----------------------------------------------------------------------------
(* The steps                                                               *)

(* A step of one Core leaves what the others have.                          *)
SameOf(j) ==
    /\ UNCHANGED <<myKey[j], pos[j], txInt[j], keys[j], synced[j], ready[j], staked[j],
                   load[j], list[j], stake[j], born[j]>>
    /\ j \in early' <=> j \in early
    /\ j \in raced' <=> j \in raced

LEMMA Others ==
    ASSUME Typed, NEW i \in Cores, NEW j \in Cores, j # i,
           CoreStep(i) \/ BroadcastCal(i) \/ Restart(i)
    PROVE  SameOf(j)
<1> USE TypesOf DEF Set, SameOf, net, ledger, book, status, staking, loading, history
<1>1. CASE DeliverTx(i)
  <2>1. UNCHANGED <<myKey, synced, ready, load, list, stake, born, early>>
    BY <1>1 DEF DeliverTx
  <2>2. pos'[j] = pos[j] /\ txInt'[j] = txInt[j] /\ staked'[j] = staked[j] BY <1>1 DEF DeliverTx
  <2>3. keys'[j] = keys[j] BY <1>1 DEF DeliverTx, SetIdentity
  <2>4. j \in raced' <=> j \in raced BY <1>1 DEF DeliverTx
  <2> QED BY <2>1, <2>2, <2>3, <2>4
<1>2. CASE SyncMonitor(i)
  <2>1. UNCHANGED <<myKey, pos, txInt, keys, staked, load, list, stake, born, raced>>
    BY <1>2 DEF SyncMonitor
  <2>2. synced'[j] = synced[j] /\ ready'[j] = ready[j] /\ (j \in early' <=> j \in early)
    BY <1>2 DEF SyncMonitor
  <2> QED BY <2>1, <2>2
<1>3. CASE ListJWKs(i) BY <1>3 DEF ListJWKs
<1>4. CASE LoadIdentity(i) BY <1>4 DEF LoadIdentity, SetIdentity
<1>5. CASE CheckStake(i) BY <1>5 DEF CheckStake
<1>6. CASE StakeIdentity(i) BY <1>6 DEF StakeIdentity
<1>7. CASE ChannelsOpen(i) BY <1>7 DEF ChannelsOpen
<1>8. CASE SendIdentity(i) BY <1>8 DEF SendIdentity
<1>9. CASE BroadcastCal(i) BY <1>9 DEF BroadcastCal
<1>10. CASE Restart(i)
  <2>1. PICK k : myKey' = [myKey EXCEPT ![i] = k] BY <1>10 DEF Restart
  <2>2. PICK s : staked' = [staked EXCEPT ![i] = s] BY <1>10 DEF Restart
  <2>3. UNCHANGED <<pos, txInt>> BY <1>10 DEF Restart
  <2>4. /\ keys'[j] = keys[j] /\ synced'[j] = synced[j] /\ ready'[j] = ready[j]
        /\ load'[j] = load[j] /\ list'[j] = list[j] /\ stake'[j] = stake[j] /\ born'[j] = born[j]
    BY <1>10 DEF Restart
  <2>5. (j \in early' <=> j \in early) /\ (j \in raced' <=> j \in raced) BY <1>10 DEF Restart
  <2> QED BY <2>1, <2>2, <2>3, <2>4, <2>5
<1> QED
  BY <1>1, <1>2, <1>3, <1>4, <1>5, <1>6, <1>7, <1>8, <1>9, <1>10, Zenon DEF CoreStep

LEMMA Idle ==
    ASSUME Typed, NEW j \in Cores, UNCHANGED vars \/ \E tx \in Txs, p \in Validators : Propose(p, tx)
    PROVE  SameOf(j)
<1>1. UNCHANGED <<myKey, pos, txInt, keys, synced, ready, staked, load, list, stake, born, early,
                  raced>>
  BY DEF vars, Propose, ledger, book, status, staking, loading, history
<1> QED BY <1>1 DEF SameOf

LEMMA OneMoves ==
    ASSUME Typed, [Next]_vars
    PROVE  \/ \A j \in Cores : SameOf(j)
           \/ \E i \in Cores : /\ CoreStep(i) \/ BroadcastCal(i) \/ Restart(i)
                               /\ \A j \in Cores \ {i} : SameOf(j)
<1>1. CASE UNCHANGED vars \/ \E tx \in Txs, p \in Validators : Propose(p, tx)
  BY <1>1, Idle
<1>2. CASE \E i \in Cores : CoreStep(i) \/ BroadcastCal(i) \/ Restart(i)
  BY <1>2, Others
<1> QED BY <1>1, <1>2, Zenon DEF Next

LEMMA BookStep ==
    ASSUME Typed, Book, [Next]_vars
    PROVE  Book'
<1> SUFFICES ASSUME NEW i \in Cores, i \notin raced', NEW c \in Cores PROVE BookOf(i, c)'
  BY Zenon DEF Book
<1>1. CASE SameOf(i)
  <2>1. i \notin raced BY <1>1 DEF SameOf
  <2>2. BookOf(i, c) BY <2>1 DEF Book
  <2> QED BY <1>1, <2>2, BookKept DEF SameOf
<1>2. CASE DeliverTx(i) BY <1>2, BookDeliver
<1>3. CASE ListJWKs(i) BY <1>3, BookList
<1>4. CASE LoadIdentity(i) BY <1>4, BookSet
<1>5. CASE Restart(i)
  <2>1. load'[i] = "start" /\ keys'[i] = [d \in Cores |-> NoKey]
    BY <1>5, TypesOf DEF Restart, Set
  <2>2. keys'[i][c] = NoKey BY <2>1
  <2> QED BY <2>1, <2>2 DEF BookOf
<1>6. CASE \/ SyncMonitor(i) \/ CheckStake(i) \/ StakeIdentity(i) \/ ChannelsOpen(i)
           \/ SendIdentity(i) \/ BroadcastCal(i)
  <2>1. UNCHANGED <<pos, keys, load, list, raced>>
    BY <1>6 DEF SyncMonitor, CheckStake, StakeIdentity, ChannelsOpen, SendIdentity, BroadcastCal,
                ledger, book, loading, history
  <2>2. BookOf(i, c) BY <2>1 DEF Book
  <2> QED BY <2>1, <2>2, BookKept
<1> QED BY <1>1, <1>2, <1>3, <1>4, <1>5, <1>6, OneMoves, Zenon DEF CoreStep

LEMMA OrderedStep ==
    ASSUME Typed, Ordered, [Next]_vars
    PROVE  Ordered'
<1> SUFFICES ASSUME NEW i \in Cores PROVE OrderedOf(i)'
  BY Zenon DEF Ordered
<1> USE DEF Set
<1>0. OrderedOf(i) BY DEF Ordered
<1>1. CASE SameOf(i)
  <2>1. (Current(i, i))' = Current(i, i) BY <1>1, CurrentStays DEF SameOf
  <2> QED BY <1>0, <1>1, <2>1 DEF OrderedOf, SameOf
<1>2. CASE DeliverTx(i)
  <2>1. PICK tx \in Txs : tx = chain[pos[i] + 1]
    <3>1. pos[i] + 1 \in 1 .. Len(chain) BY <1>2, TypesOf, Blocks DEF DeliverTx
    <3> QED BY <3>1, TypesOf, Blocks
  <2>2. tx.key # NoKey BY IdentityAssumption DEF Txs
  <2>3. UNCHANGED <<synced, ready, load, stake, early>> BY <1>2 DEF DeliverTx, status, loading
  <2>4. staked'[i] => staked[i] \/ (tx.type = "JWK" /\ tx.core = i)
    BY <1>2, <2>1, TypesOf DEF DeliverTx, JWK
  <2>5. staked'[i] => (Current(i, i))' # NoKey
    BY <1>0, <1>2, <2>1, <2>2, <2>4, CurrentNext DEF OrderedOf
  <2> QED BY <1>0, <2>3, <2>5 DEF OrderedOf
<1>3. CASE SyncMonitor(i)
  <2>1. UNCHANGED <<pos, load, staked, stake>> BY <1>3 DEF SyncMonitor, ledger, loading, staking
  <2>2. (Current(i, i))' = Current(i, i) BY <2>1, CurrentStays
  <2>3. /\ synced'[i] /\ load[i] # "done" => i \in early'
        /\ ready'[i] => ready[i] \/ synced'[i]
        /\ ready[i] => ready'[i]
        /\ synced[i] => synced'[i]
    BY <1>3, TypesOf DEF SyncMonitor
  <2> QED BY <1>0, <2>1, <2>2, <2>3 DEF OrderedOf
<1>4. CASE ListJWKs(i) \/ LoadIdentity(i)
  <2>1. UNCHANGED <<pos, synced, ready, staked, stake, early>> /\ load[i] # "done"
    BY <1>4 DEF ListJWKs, LoadIdentity, ledger, status, staking, history
  <2>2. (Current(i, i))' = Current(i, i) BY <2>1, CurrentStays
  <2> QED BY <1>0, <2>1, <2>2 DEF OrderedOf
<1>5. CASE CheckStake(i)
  <2>1. UNCHANGED <<pos, synced, ready, load, early>> /\ ready[i] /\ (staked'[i] => staked[i])
    BY <1>5, TypesOf DEF CheckStake, ledger, status, loading, history
  <2>2. (Current(i, i))' = Current(i, i) BY <2>1, CurrentStays
  <2> QED BY <1>0, <2>1, <2>2 DEF OrderedOf
<1>6. CASE StakeIdentity(i) \/ ChannelsOpen(i) \/ SendIdentity(i) \/ BroadcastCal(i)
  <2>1. /\ UNCHANGED <<pos, synced, ready, load, staked, early>>
        /\ stake'[i] # "wait" => stake[i] # "wait"
    BY <1>6, TypesOf DEF StakeIdentity, ChannelsOpen, SendIdentity, BroadcastCal, ledger, status,
                         staking, loading, history
  <2>2. (Current(i, i))' = Current(i, i) BY <2>1, CurrentStays
  <2> QED BY <1>0, <2>1, <2>2 DEF OrderedOf
<1>7. CASE Restart(i)
  <2>1. PICK s \in {staked[i], Current(i, i) # NoKey} : staked' = [staked EXCEPT ![i] = s]
    BY <1>7 DEF Restart, Current, KeyAt
  <2>2. /\ pos' = pos /\ synced'[i] = FALSE /\ ready'[i] = FALSE /\ stake'[i] = "wait"
    BY <1>7, TypesOf DEF Restart
  <2>3. staked'[i] = s BY <2>1, TypesOf
  <2>4. (Current(i, i))' = Current(i, i) BY <2>2, CurrentStays
  <2>5. staked'[i] => Current(i, i) # NoKey BY <1>0, <2>1, <2>3 DEF OrderedOf
  <2> QED BY <2>2, <2>4, <2>5 DEF OrderedOf
<1> QED BY <1>1, <1>2, <1>3, <1>4, <1>5, <1>6, <1>7, OneMoves, Zenon DEF CoreStep

LEMMA OtherKeyStays ==
    ASSUME Typed, [Next]_vars, NEW i \in Cores, OtherKey(i),
           myKey'[i] = myKey[i], born'[i] = born[i], pos'[i] \in Nat, pos[i] <= pos'[i]
    PROVE  OtherKey(i)'
<1>1. PICK n \in born[i] + 1 .. pos[i] : Declares(n, i) /\ chain[n].key # myKey[i]
  BY DEF OtherKey
<1>2. born[i] \in Nat /\ pos[i] \in Nat /\ pos[i] <= Len(chain) /\ Len(chain) \in Nat
  BY TypesOf, Blocks
<1>3. n \in 1 .. Len(chain) /\ n \in born'[i] + 1 .. pos'[i] BY <1>1, <1>2
<1>4. chain'[n] = chain[n] BY <1>3, ChainGrows
<1> QED BY <1>1, <1>3, <1>4 DEF OtherKey, Declares

(* CheckStake keeps the stake of a Core only if the key it knows of itself  *)
(* is the one it runs with, and that is the one it declared last.           *)
LEMMA DeclaredStep ==
    ASSUME Typed, Book, Ordered, StakedDeclared, [Next]_vars
    PROVE  StakedDeclared'
<1> SUFFICES ASSUME NEW i \in Cores, staked'[i], stake'[i] # "wait", i \notin early' \cup raced'
             PROVE  (Current(i, i))' = myKey'[i] \/ OtherKey(i)'
  BY DEF StakedDeclared, OtherKey, Declares, Current, KeyAt
<1> USE DEF Set
<1>0. DeclaredOf(i) BY DEF StakedDeclared, DeclaredOf, OtherKey, Declares, Current, KeyAt
<1>1. ASSUME staked[i], stake[i] # "wait", i \notin early \cup raced,
             myKey'[i] = myKey[i], born'[i] = born[i], pos'[i] = pos[i]
      PROVE  (Current(i, i))' = myKey'[i] \/ OtherKey(i)'
  <2>1. Current(i, i) = myKey[i] \/ OtherKey(i) BY <1>0, <1>1 DEF DeclaredOf
  <2>2. (Current(i, i))' = Current(i, i) BY <1>1, CurrentStays
  <2>3. pos'[i] \in Nat /\ pos[i] <= pos'[i] BY <1>1, TypesOf
  <2>4. CASE OtherKey(i) BY <1>1, <2>3, <2>4, OtherKeyStays
  <2> QED BY <1>1, <2>1, <2>2, <2>4
<1>2. CASE SameOf(i) BY <1>1, <1>2 DEF SameOf
<1>3. CASE DeliverTx(i)
  <2>1. PICK tx \in Txs : tx = chain[pos[i] + 1]
    <3>1. pos[i] + 1 \in 1 .. Len(chain) BY <1>3, TypesOf, Blocks DEF DeliverTx
    <3> QED BY <3>1, TypesOf, Blocks
  <2>2. UNCHANGED <<chain, myKey, stake, born, early>> /\ raced \subseteq raced'
    BY <1>3 DEF DeliverTx, net
  <2>3. pos'[i] = pos[i] + 1 /\ pos'[i] \in Nat /\ pos[i] <= pos'[i] /\ born[i] \in Nat
    BY <1>3, TypesOf DEF DeliverTx
  <2>4. CASE tx.type = "JWK" /\ tx.core = i
    <3>1. (Current(i, i))' = tx.key BY <1>3, <2>1, <2>4, CurrentNext
    <3>2. pos'[i] \in born'[i] + 1 .. pos'[i]
      <4>1. born[i] <= pos[i] /\ pos[i] \in Nat BY TypesOf
      <4> QED BY <2>2, <2>3, <4>1
    <3>3. chain'[pos'[i]] = tx BY <2>1, <2>2, <2>3
    <3>4. tx.key # myKey'[i] => OtherKey(i)' BY <2>4, <3>2, <3>3 DEF OtherKey, Declares
    <3> QED BY <3>1, <3>4
  <2>5. CASE ~(tx.type = "JWK" /\ tx.core = i)
    <3>1. (Current(i, i))' = Current(i, i) BY <1>3, <2>1, <2>5, CurrentNext
    <3>2. staked[i] BY <1>3, <2>1, <2>5, TypesOf DEF DeliverTx, JWK
    <3>3. Current(i, i) = myKey[i] \/ OtherKey(i) BY <1>0, <2>2, <3>2 DEF DeclaredOf
    <3>4. CASE OtherKey(i) BY <2>2, <2>3, <3>4, OtherKeyStays
    <3> QED BY <2>2, <3>1, <3>3, <3>4
  <2> QED BY <2>4, <2>5
<1>4. CASE CheckStake(i)
  <2>1. UNCHANGED <<keys, myKey, pos, early, raced>> /\ ready[i]
    BY <1>4 DEF CheckStake, ledger, book, history
  <2>2. staked[i] /\ keys[i][i] \in {NoKey, myKey[i]} BY <1>4, TypesOf DEF CheckStake
  <2>3. load[i] = "done" BY <2>1 DEF Ordered, OrderedOf
  <2>4. keys[i][i] = Current(i, i) BY <2>1, <2>3 DEF Book, BookOf
  <2>5. Current(i, i) # NoKey BY <2>2 DEF Ordered, OrderedOf
  <2>6. (Current(i, i))' = Current(i, i) BY <2>1, CurrentStays
  <2> QED BY <2>1, <2>2, <2>4, <2>5, <2>6
<1>5. CASE \/ SyncMonitor(i) \/ ListJWKs(i) \/ LoadIdentity(i) \/ StakeIdentity(i)
           \/ ChannelsOpen(i) \/ SendIdentity(i) \/ BroadcastCal(i)
  <2>1. /\ UNCHANGED <<staked, myKey, born, pos>> /\ (stake'[i] # "wait" => stake[i] # "wait")
    BY <1>5, TypesOf DEF SyncMonitor, ListJWKs, LoadIdentity, StakeIdentity, ChannelsOpen,
                SendIdentity, BroadcastCal, ledger, staking, history
  <2>2. early \subseteq early' /\ raced \subseteq raced'
    BY <1>5 DEF SyncMonitor, ListJWKs, LoadIdentity, StakeIdentity, ChannelsOpen,
                SendIdentity, BroadcastCal, history
  <2> QED BY <1>1, <2>1, <2>2
<1>6. CASE Restart(i) BY <1>6, TypesOf DEF Restart
<1> QED BY <1>2, <1>3, <1>4, <1>5, <1>6, OneMoves, Zenon DEF CoreStep

(* A Core whose keys were there when it was synced counts every block.      *)
LEMMA CountedStep ==
    ASSUME Typed, Book, Ordered, Counted, [Next]_vars
    PROVE  Counted'
<1> SUFFICES ASSUME AllVerifiable', NEW i \in Cores, i \notin early' \cup raced'
             PROVE  txInt'[i] = pos'[i]
  BY DEF Counted
<1> USE DEF Set
<1>1. AllVerifiable
  <2> SUFFICES ASSUME NEW n \in 1 .. Len(chain) PROVE Verifiable(n)
    BY DEF AllVerifiable
  <2>1. PICK m : m = n - 1 OBVIOUS
  <2>2. m \in 0 .. Len(chain) /\ n \in 1 .. Len(chain') BY <2>1, ChainGrows
  <2>3. PICK c : c = chain[n].core OBVIOUS
  <2>4. chain'[n] = chain[n] BY ChainGrows
  <2>5. (KeyAt(c, m))' = KeyAt(c, m) BY <2>2, ChainGrows, TypesOf, KeyStays
  <2>6. (chain[n].type = "JWK" \/ chain[n].key = KeyAt(c, m))'
    BY <2>1, <2>2, <2>3, <2>4 DEF AllVerifiable, Verifiable, KeyAt
  <2> QED BY <2>1, <2>3, <2>4, <2>5, <2>6 DEF Verifiable, KeyAt
<1>2. ASSUME i \notin early \cup raced PROVE txInt[i] = pos[i] BY <1>1, <1>2 DEF Counted
<1>3. CASE SameOf(i) BY <1>2, <1>3 DEF SameOf
<1>4. CASE DeliverTx(i)
  <2>1. pos[i] \in Nat /\ pos[i] + 1 \in 1 .. Len(chain) BY <1>4, TypesOf, Blocks DEF DeliverTx
  <2>2. PICK tx \in Txs : tx = chain[pos[i] + 1] BY <2>1, TypesOf, Blocks
  <2>3. i \notin early \cup raced /\ txInt[i] = pos[i] BY <1>2, <1>4 DEF DeliverTx
  <2>4. tx.type = "JWK" \/ tx.key = Current(i, tx.core)
    <3>1. (pos[i] + 1) - 1 = pos[i] BY <2>1
    <3> QED BY <1>1, <2>1, <2>2, <3>1 DEF AllVerifiable, Verifiable, Current, KeyAt
  <2>5. ASSUME synced[i] PROVE DecodeTxAndVerifySig(i, tx)
    <3>1. load[i] = "done" BY <2>3, <2>5 DEF Ordered, OrderedOf
    <3>2. tx.core \in Cores BY DEF Txs
    <3>3. keys[i][tx.core] = Current(i, tx.core) BY <2>3, <3>1, <3>2 DEF Book, BookOf
    <3> QED BY <2>4, <3>3 DEF DecodeTxAndVerifySig
  <2>6. txInt' = [txInt EXCEPT ![i] = txInt[i] + 1] BY <1>4, <2>2, <2>5 DEF DeliverTx
  <2>7. pos' = [pos EXCEPT ![i] = pos[i] + 1] BY <1>4 DEF DeliverTx
  <2> QED BY <2>3, <2>6, <2>7, TypesOf
<1>5. CASE \/ SyncMonitor(i) \/ ListJWKs(i) \/ LoadIdentity(i) \/ CheckStake(i) \/ StakeIdentity(i)
           \/ ChannelsOpen(i) \/ SendIdentity(i) \/ BroadcastCal(i)
  <2>1. UNCHANGED <<pos, txInt>> /\ early \subseteq early' /\ raced \subseteq raced'
    BY <1>5 DEF SyncMonitor, ListJWKs, LoadIdentity, CheckStake, StakeIdentity, ChannelsOpen,
                SendIdentity, BroadcastCal, ledger, history
  <2> QED BY <1>2, <2>1
<1>6. CASE Restart(i)
  <2>1. UNCHANGED <<pos, txInt>> /\ i \notin early \cup raced BY <1>6 DEF Restart
  <2> QED BY <1>2, <2>1
<1> QED BY <1>3, <1>4, <1>5, <1>6, OneMoves, Zenon DEF CoreStep

-----------------------------------------------------------------------------
(* The founders' declarations                                              *)

Founding == {JWK(c, FirstKey[c]) : c \in Founders}

(* SetToSeq: every founder's declaration is in one block.                   *)
LEMMA FirstBlocks ==
    ASSUME Init
    PROVE  /\ chain \in Seq(Txs)
           /\ \A m \in 1 .. Len(chain) : chain[m] \in Founding
           /\ \A x \in Founding : \E m \in 1 .. Len(chain) : chain[m] = x
           /\ \A m, n \in 1 .. Len(chain) : chain[m] = chain[n] => m = n
<1> DEFINE l == Cardinality(Founding)
<1>1. IsFiniteSet(Founding)
  <2> DEFINE f == [c \in Founders |-> JWK(c, FirstKey[c])]
  <2>1. IsFiniteSet(Founders) BY IdentityAssumption, FS_Subset
  <2>2. f \in Surjection(Founders, Founding) BY DEF Surjection, Founding
  <2> HIDE DEF f
  <2> QED BY <2>1, <2>2, FS_Surjection
<1>2. l \in Nat /\ ExistsBijection(1 .. l, Founding) BY <1>1, FS_CardinalityType
<1>3. \E g \in [1 .. l -> Founding] : IsInjective(g)
  <2>1. PICK g : g \in Bijection(1 .. l, Founding) BY <1>2 DEF ExistsBijection
  <2> QED BY <2>1, Zenon DEF Bijection, Injection
<1>4. chain \in [1 .. l -> Founding] /\ IsInjective(chain)
  <2>1. chain = SetToSeq(Founding) BY DEF Init, Founding
  <2>2. chain = CHOOSE g \in [1 .. l -> Founding] : IsInjective(g) BY <2>1 DEF SetToSeq
  <2> HIDE DEF l
  <2> QED BY <1>3, <2>2
<1>5. Founding \subseteq Txs
  BY IdentityAssumption DEF Founding, JWK, Txs, Keys
<1> HIDE DEF l
<1>6. chain \in Seq(Txs) /\ Len(chain) = l /\ DOMAIN chain = 1 .. l
  <2>1. chain \in [1 .. l -> Txs] BY <1>4, <1>5
  <2>2. chain \in Seq(Txs) BY <1>2, <2>1
  <2>3. DOMAIN chain = 1 .. l BY <1>4
  <2>4. Len(chain) = l BY <1>2, <2>2, <2>3
  <2> QED BY <2>2, <2>3, <2>4
<1>7. \A x, y \in 1 .. l : chain[x] = chain[y] => x = y BY <1>4, <1>6 DEF IsInjective
<1>8. chain \in Injection(1 .. l, Founding) BY <1>4, <1>7 DEF Injection
<1>9. IsFiniteSet(1 .. l) /\ Cardinality(1 .. l) = l
  <2>1. l \in Int /\ 1 \in Int BY <1>2
  <2>2. IsFiniteSet(1 .. l) /\ Cardinality(1 .. l) = IF 1 > l THEN 0 ELSE l - 1 + 1
    BY <2>1, FS_Interval
  <2> QED BY <1>2, <2>2
<1>10. chain \in Surjection(1 .. l, Founding)
  BY <1>1, <1>8, <1>9, FS_Injection DEF l
<1>11. \A x \in Founding : \E m \in 1 .. l : chain[m] = x BY <1>10 DEF Surjection
<1> QED BY <1>4, <1>6, <1>7, <1>11

LEMMA FirstCurrent ==
    ASSUME Init, NEW c \in Cores
    PROVE  /\ KeyAt(c, 0) = NoKey
           /\ KeyAt(c, Len(chain)) = IF c \in Founders THEN FirstKey[c] ELSE NoKey
<1>1. Len(chain) \in Nat BY FirstBlocks, Blocks
<1>2. KeyAt(c, 0) = NoKey
  <2>1. \A x \in 1 .. 0 : ~Declares(x, c) OBVIOUS
  <2> QED BY <2>1, KeyOfNone
<1>3. \A m \in 1 .. Len(chain) : \E d \in Founders :
         chain[m] = JWK(d, FirstKey[d]) /\ chain[m].core = d
  BY FirstBlocks DEF Founding, JWK
<1>4. CASE c \notin Founders
  <2>1. \A x \in 1 .. Len(chain) : ~Declares(x, c) BY <1>3, <1>4 DEF Declares
  <2> QED BY <1>1, <1>2, <1>4, <2>1, KeyOfNone
<1>5. CASE c \in Founders
  <2>1. PICK m \in 1 .. Len(chain) : chain[m] = JWK(c, FirstKey[c])
    BY <1>5, FirstBlocks DEF Founding
  <2>2. Declares(m, c) /\ chain[m].key = FirstKey[c] BY <2>1 DEF Declares, JWK
  <2>3. ASSUME NEW x \in 1 .. Len(chain), x > m, Declares(x, c) PROVE FALSE
    <3>1. chain[x] = JWK(c, FirstKey[c]) BY <1>3, <2>3 DEF Declares
    <3>2. x = m BY <2>1, <3>1, FirstBlocks
    <3> QED BY <2>3, <3>2
  <2> QED BY <1>1, <1>2, <1>5, <2>2, <2>3, KeyOfLast
<1> QED BY <1>4, <1>5

-----------------------------------------------------------------------------
(* The invariant                                                           *)

LEMMA InitInv == Init => IdentityInv
<1> SUFFICES ASSUME Init PROVE IdentityInv
  OBVIOUS
<1>1. Typed BY TypedInit, FirstBlocks
<1>2. \A i, c \in Cores :
         /\ i \in Founders => Current(i, c) = IF c \in Founders THEN FirstKey[c] ELSE NoKey
         /\ i \notin Founders => Current(i, c) = NoKey
  <2> TAKE i, c \in Cores
  <2>1. pos[i] = IF i \in Founders THEN Len(chain) ELSE 0 BY DEF Init
  <2> QED BY <2>1, FirstCurrent DEF Current
<1>3. ASSUME NEW i \in Cores, NEW c \in Cores PROVE BookOf(i, c)
  <2>1. keys[i][c] = IF i \in Founders /\ c \in Founders THEN FirstKey[c] ELSE NoKey
    BY DEF Init
  <2>2. load[i] = IF i \in Founders THEN "done" ELSE "start" BY DEF Init
  <2> QED BY <1>2, <2>1, <2>2 DEF BookOf
<1>4. ASSUME NEW i \in Cores PROVE OrderedOf(i)
  <2>1. /\ synced[i] = (i \in Founders) /\ ready[i] = (i \in Founders)
        /\ staked[i] = (i \in Founders)
        /\ load[i] = IF i \in Founders THEN "done" ELSE "start"
        /\ stake[i] = IF i \in Founders THEN "loop" ELSE "wait"
    BY DEF Init
  <2>2. i \in Founders => FirstKey[i] # NoKey BY IdentityAssumption DEF Keys
  <2> QED BY <1>2, <2>1, <2>2 DEF OrderedOf
<1>5. Counted BY DEF Init, Counted
<1>6. ASSUME NEW i \in Cores, staked[i] PROVE Current(i, i) = myKey[i]
  <2>1. i \in Founders /\ myKey[i] = FirstKey[i] BY <1>6 DEF Init
  <2> QED BY <1>2, <2>1
<1> QED BY <1>1, <1>3, <1>4, <1>5, <1>6
        DEF IdentityInv, Book, Ordered, StakedDeclared, Current, KeyAt

THEOREM Inductive == Spec => []IdentityInv
<1>1. IdentityInv /\ [Next]_vars => IdentityInv'
  <2> SUFFICES ASSUME IdentityInv, [Next]_vars PROVE IdentityInv'
    OBVIOUS
  <2>1. Typed /\ Book /\ Ordered /\ Counted /\ StakedDeclared BY DEF IdentityInv
  <2> QED BY <2>1, TypedStep, BookStep, OrderedStep, CountedStep, DeclaredStep DEF IdentityInv
<1> QED BY InitInv, <1>1, PTL DEF Spec

-----------------------------------------------------------------------------
(* Theorems                                                                 *)

(* stakingidentity.go, polling.go: the variables keep their types, no Core  *)
(* counts more CALs and JWKs than it has blocks, and LoadIdentity's list    *)
(* speaks of blocks that are there, until it is through.                    *)
THEOREM TypeCorrect == Spec => []TypeOK
<1>1. IdentityInv => TypeOK BY DEF IdentityInv, Typed
<1> QED BY <1>1, Inductive, PTL

(* LoadIdentity against DeliverTx, for any number of Cores, keys, blocks    *)
(* and restarts: the list is set in front of, between and after the blocks  *)
(* that arrive meanwhile, and the book ends with the keys declared last.    *)
THEOREM KeysKnown == Spec => []KeysCurrent
<1>1. ASSUME IdentityInv PROVE KeysCurrent
  <2>1. Book BY <1>1 DEF IdentityInv
  <2> QED BY <2>1 DEF Book, BookOf, KeysCurrent, Current, KeyAt
<1> QED BY <1>1, Inductive, PTL

(* TxInt: the Cores that had their keys when they were synced have counted  *)
(* every block, verified or not; so the number is the same on all of them.  *)
THEOREM CountsAgree == Spec => []SameTxInt
<1>1. ASSUME IdentityInv PROVE SameTxInt
  <2>1. Typed /\ Counted BY <1>1 DEF IdentityInv
  <2>2. DOMAIN chain = 1 .. Len(chain) BY <2>1, TypesOf, Blocks
  <2> QED BY <2>1, <2>2 DEF Counted, AllVerifiable, SameTxInt
<1> QED BY <1>1, Inductive, PTL

(* StakeIdentity's check in front of its loop suffices, at any point of the *)
(* chain and with any keys: no Core goes without staking on a declaration   *)
(* of another key than its own, the recorded cases apart.                   *)
THEOREM StakeDeclares == Spec => []StakedDeclared
<1>1. IdentityInv => StakedDeclared BY DEF IdentityInv
<1> QED BY <1>1, Inductive, PTL

=============================================================================
