-------------------------- MODULE ProofStoreProofs --------------------------
(***************************************************************************)
(* ProofStore, for every set of proof IDs, CALs and transactions, every    *)
(* lifetime and number of restarts: rows and proofs are what the history   *)
(* says, no proof goes missing for a day, and a confirmed anchor reaches   *)
(* every hash under it.                                                    *)
(***************************************************************************)
EXTENDS ProofStore, FiniteSetTheorems, SequenceTheorems, WellFoundedInduction, TLAPS

-----------------------------------------------------------------------------
(* The inductive invariant                                                 *)

\* The aggregations under an anchor.
Under(t) == UNION {calAggs[c] : c \in root[t]}

\* Aggregations, CALs and anchors are made in order and of what came before;
\* those of one CAL at the same time, and in no other.
Histories ==
    /\ \E n \in 0..MaxAggs : Used = 1..n
    /\ \A a \in Aggs : drained[a].at <= now
    /\ \A c \in Cals :
          /\ calAggs[c] \subseteq Used
          /\ \A a, b \in calAggs[c] : drained[a].at = drained[b].at
          /\ \A d \in Cals \ {c} : calAggs[c] \cap calAggs[d] = {}
          /\ c \in indexed => calAggs[c] # {} /\ c \notin mishap.unsent
                              /\ work[c].pc # "broadcast"
    /\ \A t \in Txs :
          /\ root[t] \subseteq indexed
          /\ \A c \in root[t] : work[c].pc = "idle"
          /\ \A o \in Txs \ {t} : root[t] \cap root[o] = {}

\* A row says what was.
RowsTrue ==
    /\ \A r \in agg.byOwner : r[2] \in drained[r[1]].ids
    /\ \A r \in cal.byOwner : r[2] \in calAggs[r[1]]
    /\ \A r \in anchor.byOwner : r[2] \in root[r[1]]
    /\ \A r \in btcTx.byOwner : r[1] = r[2]

\* No mark is older than what it stands for.
MarkedAfter(m, S) == \A a \in S : drained[a].at <= m

Marks ==
    /\ \A id \in Ids : agg.created[id] # Never =>
          \E a \in AggsOf(id) : drained[a].at <= agg.created[id]
    /\ \A id \in Ids : proofs.created[id] # Never =>
          \E a \in AggsOf(id) : drained[a].at <= proofs.created[id]
    /\ \A a \in Aggs : cal.created[a] # Never =>
          a \in Used /\ drained[a].at <= cal.created[a]
    /\ \A c \in Cals : anchor.created[c] # Never =>
          \E t \in Txs : c \in root[t] /\ MarkedAfter(anchor.created[c], Under(t))
    /\ \A t \in Txs : btcTx.created[t] # Never =>
          root[t] # {} /\ MarkedAfter(btcTx.created[t], Under(t))

\* What PruneOldState's iterators hold.
PruneSeq == prune \in Seq(SUBSET (Ids \cup Aggs \cup Cals \cup Txs))

\* The snapshots of PruneOldState, counted from the one of the proofs.
Snapshot(i) == IF Len(prune) >= i THEN prune[Len(prune) + 1 - i] ELSE {}
Aged(S) == \A a \in S : ~Young(a)

\* What a snapshot holds is out of its day, although the tables move on.
Snapshots ==
    /\ \A id \in Snapshot(1) \cup Snapshot(2) : \E a \in AggsOf(id) : ~Young(a)
    /\ \A a \in Snapshot(3) : a \in Used /\ ~Young(a)
    /\ \A c \in Snapshot(4) : \E t \in Txs : c \in root[t] /\ Aged(Under(t))
    /\ \A t \in Snapshot(5) : t \in Txs /\ root[t] # {} /\ Aged(Under(t))

\* The branches of a proof fit together.
Coherent(id, p) ==
    /\ p.agg \in Aggs /\ id \in drained[p.agg].ids
    /\ p.cal \in Cals /\ p.agg \in calAggs[p.cal]
    /\ p.tx # NoTx /\ Once(id) => p.path = p.tx /\ p.cal \in root[p.tx]

\* The proofs a goroutine is about to write.
InHand ==
    /\ \A c \in Cals : \A id \in DOMAIN work[c].new :
          Coherent(id, work[c].new[id]) /\ work[c].new[id].cal = c
    /\ \A t \in Txs : \A id \in DOMAIN confirm[t].new :
          LET p == confirm[t].new[id]
          IN  Coherent(id, p) /\ p.cal \in indexed /\ p.tx # NoTx

\* Only another writer can have come between the look at a proof and its writing.
Raced ==
    /\ \A c \in Cals : work[c].pc = "write" =>
          \A id \in DOMAIN work[c].new : HasBtc(id) => id \in mishap.contested
    /\ \A t \in Txs : confirm[t].pc = "write" =>
          \A id \in DOMAIN confirm[t].new : HasBtc(id) => id \in mishap.contested

\* AnchorCalendar leaves no hash of its aggregations without a proof.
Settled(a, id) ==
    proofs.proof[id] # NoProof \/ ~Young(a) \/ ~Once(id) \/ id \in mishap.lost

Served ==
    \A c \in Cals : \A a \in calAggs[c] : \A id \in drained[a].ids :
        /\ work[c].pc = "write" => id \in DOMAIN work[c].new \/ Settled(a, id)
        /\ work[c].pc = "cache" => Settled(a, id)

\* An aggregation in its day whose hashes were submitted once.
Clean(a) == Young(a) /\ \A id \in drained[a].ids : Once(id)

\* Its rows are all there, those of its CAL and of the anchor too.
RowsThere ==
    /\ \A a \in Aggs : Clean(a) => \A id \in drained[a].ids : <<a, id>> \in agg.byKey
    /\ \A c \in Cals : \A a \in calAggs[c] :
          /\ Clean(a) /\ ~ drained[a].ids \subseteq mishap.lost
          /\ work[c].pc # "broadcast" /\ c \notin mishap.unsent
          => <<c, a>> \in cal.byKey
    /\ \A t \in Txs : ~Aged(Under(t)) =>
          <<t, t>> \in btcTx.byKey /\ \A c \in root[t] : <<t, c>> \in anchor.byKey

\* GenerateBtcBatch has all hashes under the anchor.
Batched ==
    \A t \in Txs : confirm[t].pc = "write" =>
        \A a \in Under(t) : Clean(a) =>
            \A id \in drained[a].ids \ mishap.lost :
                id \in DOMAIN confirm[t].new \/ HasBtc(id)

\* The inductive invariant.  The history, the rows and marks that speak of it
\* and the snapshots carry the rest: what proofs say, which of them are in hand,
\* who is still to write, and what an anchor will find.
StoreInv ==
    /\ TypeOK /\ PruneSeq /\ RowsMarked
    /\ Histories /\ RowsTrue /\ Marks /\ Snapshots
    /\ InHand /\ ProofsCoherent /\ CalDataServed /\ Raced
    /\ Served /\ HashAccounted /\ RowsThere /\ Batched

-----------------------------------------------------------------------------
(* Types                                                                   *)

\* A set of aggregations has a last one (FiniteSetsExt).
LEMMA LastAgg ==
    ASSUME NEW T, T \subseteq Aggs, T # {}
    PROVE  Max(T) \in T
<1> DEFINE U == {MaxAggs - x : x \in T}
<1>0. MaxAggs \in Nat
  BY StoreAssumption
<1>a. \A x \in T : x \in Nat /\ x <= MaxAggs /\ MaxAggs - x \in Nat
  BY <1>0 DEF Aggs
<1>1. U \subseteq Nat /\ U # {}
  BY <1>a
<1>2. \E u \in U : \A v \in U : ~ (<<v, u>> \in OpToRel(<, Nat))
  <2> HIDE DEF U
  <2> QED BY <1>1, NatLessThanWellFounded, WFMin, Zenon
<1>3. \A x, y \in Nat : <<y, x>> \in OpToRel(<, Nat) <=> y < x
  BY SMT DEF OpToRel
<1>4. PICK u \in U : \A v \in U : ~ (v < u)
  BY <1>1, <1>2, <1>3, Zenon
<1>5. PICK x \in T : u = MaxAggs - x
  BY <1>4
<1>6. \A y \in T : x >= y
  <2> TAKE y \in T
  <2>1. MaxAggs - y \in U
    OBVIOUS
  <2>2. ~ (MaxAggs - y < MaxAggs - x)
    BY <1>4, <1>5, <2>1
  <2> QED BY <1>0, <1>a, <2>2
<1> QED BY <1>6, Zenon DEF Max

\* Of several proofs one is of the first aggregation.
LEMMA FirstProof ==
    ASSUME NEW R, R # {}, \A p \in R : p.agg \in Aggs
    PROVE  (CHOOSE p \in R : \A q \in R : p.agg <= q.agg) \in R
<1> DEFINE U == {p.agg : p \in R}
<1>1. U \subseteq Nat /\ U # {}
  BY DEF Aggs
<1>2. \E u \in U : \A v \in U : ~ (<<v, u>> \in OpToRel(<, Nat))
  <2> HIDE DEF U
  <2> QED BY <1>1, NatLessThanWellFounded, WFMin, Zenon
<1>3. \A x, y \in Nat : <<y, x>> \in OpToRel(<, Nat) <=> y < x
  BY SMT DEF OpToRel
<1>4. PICK u \in U : \A v \in U : ~ (v < u)
  BY <1>1, <1>2, <1>3, Zenon
<1>5. PICK p \in R : u = p.agg
  BY <1>4
<1>6. \A q \in R : p.agg <= q.agg
  <2> TAKE q \in R
  <2>1. p.agg \in Nat /\ q.agg \in Nat
    BY DEF Aggs
  <2>2. ~ (q.agg < p.agg)
    BY <1>4, <1>5
  <2> HIDE DEF U
  <2> QED BY <2>1, <2>2
<1> QED BY <1>6, Zenon

\* Batches of proofs are functions on sets of IDs.
LEMMA BatchType ==
    ASSUME NEW b
    PROVE  b \in Batches <=>
              /\ b = [id \in DOMAIN b |-> b[id]] /\ DOMAIN b \subseteq Ids
              /\ \A id \in DOMAIN b : b[id] \in Proofs
<1>1. ASSUME b \in Batches
      PROVE  /\ b = [id \in DOMAIN b |-> b[id]] /\ DOMAIN b \subseteq Ids
             /\ \A id \in DOMAIN b : b[id] \in Proofs
  <2>1. PICK S \in SUBSET Ids : b \in [S -> Proofs]
    BY <1>1 DEF Batches
  <2> QED BY <2>1
<1>2. ASSUME b = [id \in DOMAIN b |-> b[id]], DOMAIN b \subseteq Ids,
             \A id \in DOMAIN b : b[id] \in Proofs
      PROVE  b \in Batches
  <2>1. b \in [DOMAIN b -> Proofs]
    BY <1>2
  <2> QED BY <1>2, <2>1 DEF Batches
<1> QED BY <1>1, <1>2

LEMMA EmptyBatch == << >> \in Batches /\ DOMAIN << >> = {}
<1>1. DOMAIN << >> = {}
  OBVIOUS
<1>2. << >> = [id \in {} |-> id]
  OBVIOUS
<1>3. << >> = [id \in DOMAIN << >> |-> << >>[id]]
  BY <1>1, <1>2
<1> QED BY <1>1, <1>3, BatchType

\* The rows of a table are pairs of a key and an owner.
LEMMA TableRows ==
    ASSUME NEW keys, NEW owners, NEW table \in Tables(keys, owners)
    PROVE  /\ \A r \in table.byKey \cup table.byOwner :
                 r = <<r[1], r[2]>> /\ r[1] \in keys /\ r[2] \in owners
           /\ \A k, o : k \in ByOwner(table, o) <=> <<k, o>> \in table.byOwner
           /\ \A k, o : o \in ByKey(table, k) <=> <<k, o>> \in table.byKey
           /\ \A k, S : k \in KeysOf(table, S) <=> \E o \in S : <<k, o>> \in table.byOwner
<1>1. \A r \in table.byKey \cup table.byOwner :
         r = <<r[1], r[2]>> /\ r[1] \in keys /\ r[2] \in owners
  BY DEF Tables
<1>2. \A k, o : <<k, o>>[1] = k /\ <<k, o>>[2] = o
  OBVIOUS
<1>3. \A k, o : k \in ByOwner(table, o) <=> <<k, o>> \in table.byOwner
  BY <1>1, <1>2 DEF ByOwner
<1>4. \A k, o : o \in ByKey(table, k) <=> <<k, o>> \in table.byKey
  BY <1>1, <1>2 DEF ByKey
<1>5. \A k, S : k \in KeysOf(table, S) <=> \E o \in S : <<k, o>> \in table.byOwner
  <2> TAKE k, S
  <2>1. ASSUME NEW o \in S, <<k, o>> \in table.byOwner
        PROVE  k \in KeysOf(table, S)
    <3> DEFINE b == <<k, o>>
    <3>1. b[1] = k /\ b[2] = o /\ b \in table.byOwner
      BY <2>1
    <3> HIDE DEF b
    <3> QED BY <3>1 DEF KeysOf
  <2>2. ASSUME k \in KeysOf(table, S)
        PROVE  \E o \in S : <<k, o>> \in table.byOwner
    <3>1. PICK b \in table.byOwner : b[2] \in S /\ k = b[1]
      BY <2>2 DEF KeysOf
    <3>2. <<k, b[2]>> \in table.byOwner
      BY <1>1, <3>1
    <3> QED BY <3>1, <3>2
  <2> QED BY <2>1, <2>2
<1> QED BY <1>1, <1>3, <1>4, <1>5

\* The proofs of GenerateCalBatch.
LEMMA CalProofsType ==
    ASSUME TypeOK, NEW c \in Cals, NEW id \in DOMAIN CalProofs(c)
    PROVE  LET p == CalProofs(c)[id]
           IN  /\ id \in Ids /\ p \in Proofs /\ p.agg \in calAggs[c] /\ id \in drained[p.agg].ids
               /\ p.cal = c /\ p.tx = NoTx
<1> USE StoreAssumption
<1> DEFINE A == AggsOf(id) \cap calAggs[c]
<1>1. id \in UNION {drained[a].ids : a \in calAggs[c]} /\ calAggs[c] \subseteq Aggs
  BY DEF CalProofs, TypeOK
<1>2. A \subseteq Aggs /\ A # {}
  BY <1>1 DEF AggsOf
<1>3. Max(A) \in A
  <2> HIDE DEF A
  <2> QED BY <1>2, LastAgg
<1>4. CalProofs(c)[id] = AddCalendarBranch(Max(A), c)
  BY <1>1 DEF CalProofs
<1>5. id \in Ids
  BY <1>1 DEF TypeOK
<1>6. Max(A) \in Aggs /\ Max(A) \in calAggs[c] /\ id \in drained[Max(A)].ids
  BY <1>2, <1>3 DEF AggsOf
<1> HIDE DEF A
<1> QED BY <1>4, <1>5, <1>6 DEF AddCalendarBranch, Proofs

\* The proofs of GenerateBtcBatch each follow the rows of one aggregation, of
\* its CAL and of that CAL's anchor.
LEMMA BtcProofsType ==
    ASSUME TypeOK, NEW t \in Txs, NEW id \in DOMAIN BtcProofs(t)
    PROVE  LET p == BtcProofs(t)[id]
           IN  /\ id \in GetProofIdsByBtcTxId(t) /\ id \in Ids /\ p \in Proofs
               /\ p.agg \in Aggs /\ p.cal \in Cals /\ p.path \in Txs /\ p.tx = t
               /\ <<p.agg, id>> \in agg.byOwner /\ <<p.cal, p.agg>> \in cal.byOwner
               /\ <<p.path, p.cal>> \in anchor.byOwner
<1> USE StoreAssumption
<1>1. id \in GetProofIdsByBtcTxId(t) /\ RowProofs(id, t) # {}
  BY DEF BtcProofs
<1>2. \A p \in RowProofs(id, t) :
         /\ p \in Proofs
         /\ p.agg \in Aggs /\ p.cal \in Cals /\ p.path \in Txs /\ p.tx = t
         /\ <<p.agg, id>> \in agg.byOwner /\ <<p.cal, p.agg>> \in cal.byOwner
         /\ <<p.path, p.cal>> \in anchor.byOwner
  <2> TAKE p \in RowProofs(id, t)
  <2>0. /\ agg \in Tables(Aggs, Ids) /\ cal \in Tables(Cals, Aggs)
        /\ anchor \in Tables(Txs, Cals)
    BY DEF TypeOK
  <2>1. PICK r \in Aggs \X Cals \X Txs :
          /\ p = AddChainBranch(AddCalendarBranch(r[1], r[2]), r[3], t)
          /\ r[1] \in GetAggStateObjectsByProofIds(id)
          /\ r[2] \in GetCalStateObjectsByAggIds(r[1])
          /\ r[3] \in GetAnchorBTCAggStateObjectsByCalIds(r[2])
    BY DEF RowProofs
  <2>2. p = [agg |-> r[1], cal |-> r[2], path |-> r[3], tx |-> t]
    BY <2>1 DEF AddChainBranch, AddCalendarBranch
  <2>3. <<r[1], id>> \in agg.byOwner
    BY <2>0, <2>1, TableRows DEF GetAggStateObjectsByProofIds
  <2>4. <<r[2], r[1]>> \in cal.byOwner
    BY <2>0, <2>1, TableRows DEF GetCalStateObjectsByAggIds
  <2>5. <<r[3], r[2]>> \in anchor.byOwner
    BY <2>0, <2>1, TableRows DEF GetAnchorBTCAggStateObjectsByCalIds
  <2> QED BY <2>1, <2>2, <2>3, <2>4, <2>5 DEF Proofs
<1>3. BtcProofs(t)[id] \in RowProofs(id, t)
  <2>1. BtcProofs(t)[id] = CHOOSE p \in RowProofs(id, t) : \A q \in RowProofs(id, t) : p.agg <= q.agg
    BY DEF BtcProofs
  <2>2. \A p \in RowProofs(id, t) : p.agg \in Aggs
    BY <1>2
  <2> QED BY <1>1, <2>1, <2>2, FirstProof
<1>4. id \in Ids
  BY <1>1 DEF GetProofIdsByBtcTxId, ByKey, TypeOK, Tables
<1> QED BY <1>1, <1>2, <1>3, <1>4

-----------------------------------------------------------------------------
(* The tables                                                              *)

\* Both of a row's entries go in together, and its owner is marked.
LEMMA InsertTable ==
    ASSUME TypeOK, NEW keys, NEW owners, NEW table \in Tables(keys, owners),
           NEW rows \in SUBSET (keys \X owners)
    PROVE  LET new == Insert(table, rows)
           IN  /\ new \in Tables(keys, owners)
               /\ new.byKey = table.byKey \cup rows /\ new.byOwner = table.byOwner \cup rows
               /\ \A o \in owners :
                     IF \E r \in rows : r[2] = o THEN new.created[o] = now
                     ELSE new.created[o] = table.created[o]
               /\ \A r \in rows : new.created[r[2]] = now
BY DEF TypeOK, Tables, Insert

\* An owner pruned leaves no row, nor does any other under one of its keys.
LEMMA WithoutTable ==
    ASSUME NEW keys, NEW owners, NEW table \in Tables(keys, owners), NEW S
    PROVE  LET new == Without(table, S)
           IN  /\ new \in Tables(keys, owners)
               /\ \A r : r \in new.byKey <=> r \in table.byKey /\ r[1] \notin KeysOf(table, S)
               /\ \A r : r \in new.byOwner <=> r \in table.byOwner /\ r[2] \notin S
               /\ \A o \in owners : IF o \in S THEN new.created[o] = Never
                                    ELSE new.created[o] = table.created[o]
BY DEF Tables, Without, Unmark

LEMMA WithoutAnchorsTable ==
    ASSUME TypeOK, NEW S
    PROVE  LET new == WithoutAnchors(S)
           IN  /\ new \in Tables(Txs, Cals)
               /\ \A r : r \in new.byKey <=> r \in anchor.byKey /\ r[1] \notin KeysOf(anchor, S)
               /\ new.byOwner = anchor.byOwner
               /\ \A c \in Cals : IF c \in S THEN new.created[c] = Never
                                  ELSE new.created[c] = anchor.created[c]
<1>1. anchor \in Tables(Txs, Cals)
  BY DEF TypeOK
<1> DEFINE W == Without(anchor, S)
<1>2. WithoutAnchors(S) = [W EXCEPT !.byOwner = anchor.byOwner]
  BY DEF WithoutAnchors
<1>3. /\ W \in Tables(Txs, Cals)
      /\ \A r : r \in W.byKey <=> r \in anchor.byKey /\ r[1] \notin KeysOf(anchor, S)
      /\ \A c \in Cals : IF c \in S THEN W.created[c] = Never
                         ELSE W.created[c] = anchor.created[c]
  BY <1>1, WithoutTable
<1> HIDE DEF W
<1>4. WithoutAnchors(S) = [byKey |-> W.byKey, byOwner |-> anchor.byOwner,
                           created |-> W.created]
  BY <1>2, <1>3 DEF Tables
<1>5. WithoutAnchors(S) \in Tables(Txs, Cals)
  BY <1>1, <1>3, <1>4 DEF Tables
<1> QED BY <1>3, <1>4, <1>5

\* A batch is written whole, and what it writes is marked with the time.
LEMMA BulkInsertProofsType ==
    ASSUME TypeOK, NEW new \in Batches, BulkInsertProofs(new)
    PROVE  /\ proofs' \in [proof : [Ids -> Proofs], created : [Ids -> Time \cup {Never}]]
           /\ \A id \in Ids :
                 IF id \in DOMAIN new
                 THEN proofs'.proof[id] = new[id] /\ proofs'.created[id] = now
                 ELSE /\ proofs'.proof[id] = proofs.proof[id]
                      /\ proofs'.created[id] = proofs.created[id]
BY BatchType DEF TypeOK, BulkInsertProofs

\* What BulkInsertProofs finds replaceable.
LEMMA ReplaceableType ==
    ASSUME NEW new, DOMAIN new \subseteq Ids, \A id \in DOMAIN new : new[id] \in Proofs
    PROVE  /\ Replaceable(new) \in Batches
           /\ \A id : id \in DOMAIN Replaceable(new) <=> id \in DOMAIN new /\ ~ HasBtc(id)
           /\ \A id \in DOMAIN Replaceable(new) : Replaceable(new)[id] = new[id]
<1> DEFINE b == Replaceable(new)
<1>1. /\ \A id : id \in DOMAIN b <=> id \in DOMAIN new /\ ~ HasBtc(id)
      /\ \A id \in DOMAIN b : b[id] = new[id]
      /\ b = [id \in DOMAIN b |-> b[id]]
  BY DEF Replaceable
<1> HIDE DEF b
<1>2. b \in Batches
  BY <1>1, BatchType
<1> QED BY <1>1, <1>2 DEF b

\* PruneOldState's snapshots are of owners.
LEMMA SnapshotSeq ==
    ASSUME TypeOK, StartPrune
    PROVE  PruneSeq' /\ Len(prune') = 5
<1>1. /\ Old(btcTx.created) \subseteq Txs /\ Old(anchor.created) \subseteq Cals
      /\ Old(cal.created) \subseteq Aggs /\ Old(agg.created) \subseteq Ids
      /\ Old(proofs.created) \subseteq Ids
  BY DEF TypeOK, Tables, Old
<1>2. prune' = <<Old(btcTx.created), Old(anchor.created), Old(cal.created),
                 Old(agg.created), Old(proofs.created)>>
  BY DEF StartPrune
<1> QED BY <1>1, <1>2 DEF PruneSeq

\* A step keeps every variable in its type.
LEMMA TypeStep ==
    ASSUME TypeOK, PruneSeq, [Next]_vars
    PROVE  TypeOK' /\ PruneSeq'
<1> USE StoreAssumption, EmptyBatch DEF TypeOK, chain, tables, history
<1>1. ASSUME NEW id \in Ids, HashHandler(id) \/ LnPaymentHandler(id)
      PROVE  TypeOK' /\ PruneSeq'
  BY <1>1 DEF HashHandler, LnPaymentHandler, PruneSeq
<1>2. ASSUME NEW c \in Cals, NEW S \in SUBSET Ids, AnchorCalendar(c, S)
      PROVE  TypeOK' /\ PruneSeq'
  <2>1. agg' \in Tables(Aggs, Ids)
    <3> DEFINE rows == {<<Fresh, id>> : id \in S} \cup {<<Fresh + 1, id>> : id \in queued \ S}
    <3>1. agg' = Insert(agg, rows) /\ S \subseteq Ids /\ queued \subseteq Ids
      BY <1>2 DEF AnchorCalendar, BulkInsertAggState
    <3>2. Fresh \in Aggs /\ (queued \ S # {} => Fresh + 1 \in Aggs)
      BY <1>2 DEF AnchorCalendar
    <3>3. rows \in SUBSET (Aggs \X Ids)
      BY <3>1, <3>2
    <3> HIDE DEF rows
    <3> QED BY <3>1, <3>3, InsertTable
  <2>2. /\ drained' \in [Aggs -> [ids : SUBSET Ids, at : Time]]
        /\ calAggs' \in [Cals -> SUBSET Aggs]
    BY <1>2 DEF AnchorCalendar
  <2>3. work' \in [Cals -> [pc : {"idle", "broadcast", "write", "cache"}, new : Batches]]
    <3>1. work' = [work EXCEPT ![c] = [work[c] EXCEPT !.pc = "broadcast"]]
      BY <1>2 DEF AnchorCalendar
    <3>2. work[c] \in [pc : {"idle", "broadcast", "write", "cache"}, new : Batches]
      OBVIOUS
    <3>3. [work[c] EXCEPT !.pc = "broadcast"]
             \in [pc : {"idle", "broadcast", "write", "cache"}, new : Batches]
      BY <3>2
    <3> QED BY <3>1, <3>3
  <2> QED BY <1>2, <2>1, <2>2, <2>3 DEF AnchorCalendar, PruneSeq
<1>3. ASSUME NEW c \in Cals, BroadcastFails(c)
      PROVE  TypeOK' /\ PruneSeq'
  BY <1>3 DEF BroadcastFails, NoWork, PruneSeq
<1>4. ASSUME NEW c \in Cals, GenerateCalBatch(c)
      PROVE  TypeOK' /\ PruneSeq'
  <2>1. Replaceable(CalProofs(c)) \in Batches
    BY CalProofsType, ReplaceableType
  <2>2. cal' \in Tables(Cals, Aggs)
    <3>1. CreateCalStateMessage(c) \in SUBSET (Cals \X Aggs)
      BY DEF CreateCalStateMessage, GenerateCalendarTree
    <3> QED BY <1>4, <3>1, InsertTable DEF GenerateCalBatch, BulkInsertCalState
  <2> QED BY <1>4, <2>1, <2>2 DEF GenerateCalBatch, PruneSeq
<1>5. ASSUME NEW c \in Cals, WriteCalBatch(c)
      PROVE  TypeOK' /\ PruneSeq'
  <2>1. work[c].new \in Batches
    OBVIOUS
  <2>2. BulkInsertProofs(work[c].new)
    BY <1>5 DEF WriteCalBatch
  <2>3. proofs' \in [proof : [Ids -> Proofs], created : [Ids -> Time \cup {Never}]]
    BY <2>1, <2>2, BulkInsertProofsType
  <2>4. Contested(c) \subseteq Ids
    BY <2>1, BatchType DEF Contested, NewOf
  <2> QED BY <1>5, <2>3, <2>4 DEF WriteCalBatch, PruneSeq
<1>6. ASSUME NEW c \in Cals, CacheRoot(c) \/ Index(c) \/ DeleteCached(c)
      PROVE  TypeOK' /\ PruneSeq'
  <2>1. CASE CacheRoot(c)
    BY <2>1 DEF CacheRoot, NoWork, PruneSeq
  <2>2. CASE Index(c) \/ DeleteCached(c)
    BY <2>2 DEF Index, DeleteCached, PruneSeq
  <2> QED BY <1>6, <2>1, <2>2
<1>7. ASSUME NEW t \in Txs, NEW S \in SUBSET Cals, BeginTxMonitor(t, S)
      PROVE  TypeOK' /\ PruneSeq'
  <2>1. btcTx' \in Tables(Txs, Txs)
    <3>1. GenerateAnchorBtcTxState(t) \in SUBSET (Txs \X Txs)
      BY DEF GenerateAnchorBtcTxState
    <3> QED BY <1>7, <3>1, InsertTable DEF BeginTxMonitor, BulkInsertBtcTxState
  <2>2. anchor' \in Tables(Txs, Cals)
    <3>1. PrepareBtcaStateData(t, S) \in SUBSET (Txs \X Cals)
      BY DEF PrepareBtcaStateData
    <3> QED BY <1>7, <3>1, InsertTable DEF BeginTxMonitor, BulkInsertBtcAggState
  <2>3. TypeOK'
    <3>1. confirm' = [confirm EXCEPT ![t] = [confirm[t] EXCEPT !.pc = "waiting"]]
      BY <1>7 DEF BeginTxMonitor
    <3>2. [confirm[t] EXCEPT !.pc = "waiting"]
             \in [pc : {"none", "waiting", "write", "done"}, new : Batches]
      <4>1. confirm[t] \in [pc : {"none", "waiting", "write", "done"}, new : Batches]
        OBVIOUS
      <4> QED BY <4>1
    <3>3. confirm' \in [Txs -> [pc : {"none", "waiting", "write", "done"}, new : Batches]]
      BY <3>1, <3>2
    <3>4. root' \in [Txs -> SUBSET Cals]
      <4>1. root' = [root EXCEPT ![t] = S]
        BY <1>7 DEF BeginTxMonitor
      <4> QED BY <4>1
    <3>5. UNCHANGED <<now, queued, work, indexed, cached, agg, cal, proofs, prune, drained,
                      calAggs, mishap>>
      BY <1>7 DEF BeginTxMonitor
    <3> QED BY <2>1, <2>2, <3>3, <3>4, <3>5
  <2>4. PruneSeq'
    BY <1>7 DEF BeginTxMonitor, PruneSeq
  <2> QED BY <2>3, <2>4
<1>8. ASSUME NEW t \in Txs, GenerateBtcBatch(t)
      PROVE  TypeOK' /\ PruneSeq'
  <2>1. Replaceable(BtcProofs(t)) \in Batches
    BY BtcProofsType, ReplaceableType
  <2> QED BY <1>8, <2>1 DEF GenerateBtcBatch, PruneSeq
<1>9. ASSUME NEW t \in Txs, WriteBtcBatch(t)
      PROVE  TypeOK' /\ PruneSeq'
  <2>1. confirm[t].new \in Batches /\ t \notin Cals
    OBVIOUS
  <2>2. BulkInsertProofs(confirm[t].new)
    BY <1>9 DEF WriteBtcBatch
  <2>3. proofs' \in [proof : [Ids -> Proofs], created : [Ids -> Time \cup {Never}]]
    BY <2>1, <2>2, BulkInsertProofsType
  <2>4. Contested(t) \subseteq Ids
    BY <2>1, BatchType DEF Contested, NewOf
  <2> QED BY <1>9, <2>3, <2>4 DEF WriteBtcBatch, PruneSeq
<1>10. CASE StartPrune
  BY <1>10, SnapshotSeq DEF StartPrune
<1>11. CASE PruneTable
  <2>1. PruneSeq' /\ Len(prune') <= 5
    <3>1. prune # <<>>
      BY <1>11 DEF PruneTable, PruneBtcTx, PruneAnchors, PruneCals, PruneAggs, PruneProofs
    <3>2. prune' = Tail(prune)
      BY <1>11 DEF PruneTable
    <3> QED BY <3>1, <3>2, HeadTailProperties DEF PruneSeq
  <2>2. \A S : /\ Without(btcTx, S) \in Tables(Txs, Txs) /\ WithoutAnchors(S) \in Tables(Txs, Cals)
               /\ Without(cal, S) \in Tables(Cals, Aggs) /\ Without(agg, S) \in Tables(Aggs, Ids)
    BY WithoutTable, WithoutAnchorsTable
  <2>3. PruneProofs => proofs' \in [proof : [Ids -> Proofs], created : [Ids -> Time \cup {Never}]]
    BY DEF PruneProofs, Proofs, Unmark
  <2>4. /\ btcTx' \in Tables(Txs, Txs) /\ anchor' \in Tables(Txs, Cals)
        /\ cal' \in Tables(Cals, Aggs) /\ agg' \in Tables(Aggs, Ids)
        /\ proofs' \in [proof : [Ids -> Proofs], created : [Ids -> Time \cup {Never}]]
    BY <1>11, <2>2, <2>3
      DEF PruneTable, PruneBtcTx, PruneAnchors, PruneCals, PruneAggs, PruneProofs
  <2> QED BY <1>11, <2>1, <2>4 DEF PruneTable
<1>12. CASE Tick
  BY <1>12 DEF Tick, Time, PruneSeq
<1>13. CASE Crash
  <2>1. prune' = <<>>
    BY <1>13 DEF Crash
  <2>2. PruneSeq' /\ Len(prune') <= 5
    BY <2>1, EmptySeq DEF PruneSeq
  <2>3. mishap' \in [crashes : 0..MaxCrashes, lost : SUBSET Ids, unsent : SUBSET Cals,
                     uncached : SUBSET Cals, contested : SUBSET Ids]
    <3> DEFINE D == {d \in Cals : work[d].pc \in {"broadcast", "write"}}
    <3> DEFINE L == UNION {drained[a].ids : a \in UNION {calAggs[c] : c \in D}}
    <3> DEFINE U == {c \in Cals : work[c].pc = "cache"}
    <3>1. L \subseteq Ids /\ U \subseteq Cals /\ mishap.crashes + 1 \in 0..MaxCrashes
      BY <1>13 DEF Crash
    <3>2. mishap' = [mishap EXCEPT !.crashes = mishap.crashes + 1,
                                   !.lost = mishap.lost \cup queued \cup L,
                                   !.uncached = mishap.uncached \cup U]
      BY <1>13 DEF Crash
    <3> HIDE DEF L, U
    <3> QED BY <3>1, <3>2
  <2>4. confirm' \in [Txs -> [pc : {"none", "waiting", "write", "done"}, new : Batches]]
    BY <1>13 DEF Crash
  <2> QED BY <1>13, <2>2, <2>3, <2>4 DEF Crash, NoWork
<1>14. CASE UNCHANGED vars
  BY <1>14 DEF vars, PruneSeq
<1> QED
  BY <1>1, <1>2, <1>3, <1>4, <1>5, <1>6, <1>7, <1>8, <1>9, <1>10, <1>11, <1>12, <1>13, <1>14
    DEF Next

\* A step keeps rows and marks together, in every table alike.
RowsOf(table) ==
    /\ table.byKey \subseteq table.byOwner
    /\ \A r \in table.byKey : table.created[r[2]] # Never
MarkedRows(table) == \A r \in table.byOwner : table.created[r[2]] # Never

LEMMA InsertMarks ==
    ASSUME TypeOK, NEW keys, NEW owners, NEW table \in Tables(keys, owners),
           NEW rows \in SUBSET (keys \X owners)
    PROVE  /\ RowsOf(table) => RowsOf(Insert(table, rows))
           /\ MarkedRows(table) => MarkedRows(Insert(table, rows))
<1>1. now # Never
  BY DEF TypeOK, Time, Never
<1>2. \A r \in table.byKey \cup table.byOwner \cup rows : r[2] \in owners
  BY TableRows
<1> QED BY <1>1, <1>2, InsertTable DEF RowsOf, MarkedRows

LEMMA WithoutMarks ==
    ASSUME NEW keys, NEW owners, NEW table \in Tables(keys, owners), NEW S
    PROVE  /\ RowsOf(table) => RowsOf(Without(table, S))
           /\ MarkedRows(table) => MarkedRows(Without(table, S))
<1>1. \A r \in table.byKey \cup table.byOwner : r = <<r[1], r[2]>> /\ r[2] \in owners
  BY TableRows
<1>2. \A r \in table.byOwner : r[2] \in S => r[1] \in KeysOf(table, S)
  BY <1>1, TableRows
<1> QED BY <1>1, <1>2, WithoutTable DEF RowsOf, MarkedRows

LEMMA WithoutAnchorsMarks ==
    ASSUME TypeOK, NEW S, RowsOf(anchor)
    PROVE  RowsOf(WithoutAnchors(S))
<1>0. anchor \in Tables(Txs, Cals)
  BY DEF TypeOK
<1>1. \A r \in anchor.byKey \cup anchor.byOwner : r = <<r[1], r[2]>> /\ r[2] \in Cals
  BY <1>0, TableRows
<1>2. \A r \in anchor.byOwner : r[2] \in S => r[1] \in KeysOf(anchor, S)
  BY <1>0, <1>1, TableRows
<1> QED BY <1>1, <1>2, WithoutAnchorsTable DEF RowsOf

\* RowsMarked table by table.
LEMMA RowsMarkedByTable ==
    RowsMarked <=> /\ RowsOf(agg) /\ RowsOf(cal) /\ RowsOf(anchor) /\ RowsOf(btcTx)
                   /\ MarkedRows(agg) /\ MarkedRows(cal) /\ MarkedRows(btcTx)
BY DEF RowsMarked, RowsOf, MarkedRows

LEMMA RowsMarkedStep ==
    ASSUME TypeOK, RowsMarked, [Next]_vars
    PROVE  RowsMarked'
<1> USE StoreAssumption DEF chain, tables, history
<1>a. RowsMarked' <=>
         /\ RowsOf(agg') /\ RowsOf(cal') /\ RowsOf(anchor') /\ RowsOf(btcTx')
         /\ MarkedRows(agg') /\ MarkedRows(cal') /\ MarkedRows(btcTx')
  BY DEF RowsMarked, RowsOf, MarkedRows
<1>b. /\ RowsOf(agg) /\ RowsOf(cal) /\ RowsOf(anchor) /\ RowsOf(btcTx)
      /\ MarkedRows(agg) /\ MarkedRows(cal) /\ MarkedRows(btcTx)
  BY RowsMarkedByTable
<1>0. /\ agg \in Tables(Aggs, Ids) /\ cal \in Tables(Cals, Aggs)
      /\ anchor \in Tables(Txs, Cals) /\ btcTx \in Tables(Txs, Txs)
  BY DEF TypeOK
<1>1. CASE UNCHANGED tables
  BY <1>1 DEF RowsMarked
<1>2. ASSUME NEW c \in Cals, NEW S \in SUBSET Ids, AnchorCalendar(c, S)
      PROVE  RowsMarked'
  <2> DEFINE rows == {<<Fresh, id>> : id \in S} \cup {<<Fresh + 1, id>> : id \in queued \ S}
  <2>1. agg' = Insert(agg, rows) /\ queued \subseteq Ids
    BY <1>2 DEF AnchorCalendar, BulkInsertAggState, TypeOK
  <2>2. Fresh \in Aggs /\ (queued \ S # {} => Fresh + 1 \in Aggs)
    BY <1>2 DEF AnchorCalendar
  <2>3. rows \in SUBSET (Aggs \X Ids)
    BY <2>1, <2>2
  <2> HIDE DEF rows
  <2>4. RowsOf(agg') /\ MarkedRows(agg')
    BY <1>0, <1>b, <2>1, <2>3, InsertMarks
  <2> QED BY <1>a, <1>b, <1>2, <2>4 DEF AnchorCalendar
<1>4. ASSUME NEW c \in Cals, GenerateCalBatch(c)
      PROVE  RowsMarked'
  <2>1. CreateCalStateMessage(c) \in SUBSET (Cals \X Aggs)
    BY DEF CreateCalStateMessage, GenerateCalendarTree, TypeOK
  <2>2. RowsOf(cal') /\ MarkedRows(cal')
    BY <1>0, <1>b, <1>4, <2>1, InsertMarks DEF GenerateCalBatch, BulkInsertCalState
  <2> QED BY <1>a, <1>b, <1>4, <2>2 DEF GenerateCalBatch
<1>7. ASSUME NEW t \in Txs, NEW S \in SUBSET Cals, BeginTxMonitor(t, S)
      PROVE  RowsMarked'
  <2>1. /\ GenerateAnchorBtcTxState(t) \in SUBSET (Txs \X Txs)
        /\ PrepareBtcaStateData(t, S) \in SUBSET (Txs \X Cals)
    BY DEF GenerateAnchorBtcTxState, PrepareBtcaStateData
  <2>2. RowsOf(btcTx') /\ MarkedRows(btcTx')
    BY <1>0, <1>b, <1>7, <2>1, InsertMarks DEF BeginTxMonitor, BulkInsertBtcTxState
  <2>3. RowsOf(anchor')
    BY <1>0, <1>b, <1>7, <2>1, InsertMarks DEF BeginTxMonitor, BulkInsertBtcAggState
  <2> QED BY <1>a, <1>b, <1>7, <2>2, <2>3 DEF BeginTxMonitor
<1>11. CASE PruneTable
  <2>1. CASE PruneBtcTx
    <3>1. RowsOf(btcTx') /\ MarkedRows(btcTx')
      BY <1>0, <1>b, <2>1, WithoutMarks DEF PruneBtcTx
    <3> QED BY <1>a, <1>b, <2>1, <3>1 DEF PruneBtcTx
  <2>2. CASE PruneAnchors
    <3>1. RowsOf(anchor')
      BY <1>0, <1>b, <2>2, WithoutAnchorsMarks DEF PruneAnchors
    <3> QED BY <1>a, <1>b, <2>2, <3>1 DEF PruneAnchors
  <2>3. CASE PruneCals
    <3>1. RowsOf(cal') /\ MarkedRows(cal')
      BY <1>0, <1>b, <2>3, WithoutMarks DEF PruneCals
    <3> QED BY <1>a, <1>b, <2>3, <3>1 DEF PruneCals
  <2>4. CASE PruneAggs
    <3>1. RowsOf(agg') /\ MarkedRows(agg')
      BY <1>0, <1>b, <2>4, WithoutMarks DEF PruneAggs
    <3> QED BY <1>a, <1>b, <2>4, <3>1 DEF PruneAggs
  <2>5. CASE PruneProofs
    BY <1>a, <1>b, <2>5 DEF PruneProofs
  <2> QED BY <1>11, <2>1, <2>2, <2>3, <2>4, <2>5 DEF PruneTable
<1>12. ASSUME NEW c \in Cals, WriteCalBatch(c)
       PROVE  RowsMarked'
  BY <1>12 DEF WriteCalBatch, RowsMarked
<1>13. ASSUME NEW t \in Txs, WriteBtcBatch(t)
       PROVE  RowsMarked'
  BY <1>13 DEF WriteBtcBatch, RowsMarked
<1> QED
  BY <1>1, <1>2, <1>4, <1>7, <1>11, <1>12, <1>13
    DEF Next, vars, HashHandler, LnPaymentHandler, BroadcastFails, CacheRoot, Index,
        DeleteCached, GenerateBtcBatch, StartPrune, Tick, Crash

-----------------------------------------------------------------------------
(* The history                                                             *)

\* Cardinality(S) <= 1 says that S has one element at most.
LEMMA AtMostOne ==
    ASSUME NEW S, IsFiniteSet(S)
    PROVE  Cardinality(S) <= 1 <=> \A x, y \in S : x = y
<1>0. Cardinality(S) \in Nat
  BY FS_CardinalityType
<1>1. ASSUME Cardinality(S) <= 1, NEW x \in S, NEW y \in S
      PROVE  x = y
  <2>1. SUFFICES ASSUME x # y PROVE FALSE
    OBVIOUS
  <2>2. IsFiniteSet(S \ {x}) /\ Cardinality(S \ {x}) = Cardinality(S) - 1
    BY FS_RemoveElement
  <2>3. Cardinality(S \ {x}) = 0
    BY <1>0, <1>1, <2>2, FS_CardinalityType
  <2>4. S \ {x} = {}
    BY <2>2, <2>3, FS_EmptySet
  <2> QED BY <2>1, <2>4
<1>2. ASSUME \A x, y \in S : x = y
      PROVE  Cardinality(S) <= 1
  <2>1. CASE S = {}
    BY <2>1, FS_EmptySet
  <2>2. CASE S # {}
    <3>1. PICK x \in S : S = {x}
      BY <1>2, <2>2
    <3>2. Cardinality(S) = 1
      BY <3>1, FS_Singleton
    <3> QED BY <3>2
  <2> QED BY <2>1, <2>2
<1> QED BY <1>1, <1>2

LEMMA AggsFinite == \A S \in SUBSET Aggs : IsFiniteSet(S)
<1>1. IsFiniteSet(Aggs)
  BY StoreAssumption, FS_Interval DEF Aggs
<1> QED BY <1>1, FS_Subset

\* A hash submitted once is in one aggregation at most.
LEMMA OnceInOne ==
    \A id : Once(id) <=> \A a, b \in AggsOf(id) : a = b
<1> TAKE id
<1>1. IsFiniteSet(AggsOf(id))
  BY AggsFinite DEF AggsOf
<1> QED BY <1>1, AtMostOne DEF Once

\* The first aggregation not made yet.
LEMMA FreshIsNext ==
    ASSUME NEW n \in 0..MaxAggs, Used = 1..n
    PROVE  Fresh = n + 1
<1>1. n \in Nat /\ 1..n = Used
  BY StoreAssumption
<1>2. Cardinality(1..n) = n
  BY <1>1, FS_Interval
<1> QED BY <1>2 DEF Fresh

\* What AnchorCalendar makes: new aggregations, one or two, of what was queued,
\* for this CAL, with a row for each hash.
Makes(c, N) ==
    /\ N # {} /\ N \cap Used = {} /\ calAggs' = [calAggs EXCEPT ![c] = N]
    /\ \A a \in N : /\ drained'[a].at = now /\ drained'[a].ids # {}
                    /\ drained'[a].ids \subseteq queued
    /\ \A a \in Aggs \ N : drained'[a] = drained[a]
    /\ \E m \in 0..MaxAggs : Used' = 1..m
    /\ \E rows \in SUBSET (Aggs \X Ids) :
          /\ agg' = Insert(agg, rows)
          /\ \A a \in Aggs, id \in Ids : <<a, id>> \in rows <=> a \in N /\ id \in drained'[a].ids

LEMMA NewAggs ==
    ASSUME TypeOK, Histories, NEW c \in Cals, NEW S \in SUBSET Ids, AnchorCalendar(c, S)
    PROVE  \E N \in SUBSET Aggs : Makes(c, N)
<1>1. PICK n \in 0..MaxAggs : Used = 1..n
  BY DEF Histories
<1>2. Fresh = n + 1 /\ n \in Nat /\ Fresh \in Nat /\ Fresh \notin Used /\ Fresh + 1 \notin Used
      /\ Fresh # Fresh + 1
  <2>1. Fresh = n + 1 /\ n \in Nat
    BY <1>1, FreshIsNext, StoreAssumption
  <2> QED BY <1>1, <2>1
<1> DEFINE two == queued \ S # {}
           N == IF two THEN {Fresh, Fresh + 1} ELSE {Fresh}
           rows == {<<Fresh, id>> : id \in S} \cup {<<Fresh + 1, id>> : id \in queued \ S}
<1>3. /\ queued # {} /\ S \subseteq queued /\ S # {} /\ queued \subseteq Ids
      /\ N \subseteq Aggs
      /\ drained' = [a \in Aggs |->
                CASE a = Fresh -> [ids |-> S, at |-> now]
                  [] a = Fresh + 1 /\ two -> [ids |-> queued \ S, at |-> now]
                  [] OTHER -> drained[a]]
      /\ calAggs' = [calAggs EXCEPT ![c] = N]
      /\ agg' = Insert(agg, rows)
  BY DEF AnchorCalendar, BulkInsertAggState, TypeOK
<1>4. Fresh \in Aggs /\ (two => Fresh + 1 \in Aggs)
  BY <1>3
<1>5. /\ drained'[Fresh] = [ids |-> S, at |-> now]
      /\ two => drained'[Fresh + 1] = [ids |-> queued \ S, at |-> now]
      /\ \A a \in Aggs \ N : drained'[a] = drained[a]
  <2>1. drained'[Fresh] = [ids |-> S, at |-> now]
    BY <1>2, <1>3, <1>4
  <2>2. two => drained'[Fresh + 1] = [ids |-> queued \ S, at |-> now]
    BY <1>2, <1>3, <1>4
  <2>3. \A a \in Aggs \ N : drained'[a] = drained[a]
    BY <1>3
  <2> QED BY <2>1, <2>2, <2>3
<1>6. N # {} /\ N \cap Used = {}
  BY <1>2
<1>7. \A a \in N : /\ drained'[a].at = now /\ drained'[a].ids # {}
                   /\ drained'[a].ids \subseteq queued
  BY <1>3, <1>5
<1>8. Used' = Used \cup N
  <2>1. Used \subseteq Aggs /\ \A a \in Aggs : a \in Used <=> drained[a].ids # {}
    BY DEF Used
  <2>2. Used' \subseteq Aggs /\ \A a \in Aggs : a \in Used' <=> drained'[a].ids # {}
    BY DEF Used
  <2>3. N \subseteq Aggs
    BY <1>3
  <2>4. \A a \in Aggs : drained'[a].ids # {} <=> a \in N \/ drained[a].ids # {}
    BY <1>5, <1>6, <1>7
  <2> HIDE DEF N
  <2> QED BY <2>1, <2>2, <2>3, <2>4
<1>9. \E m \in 0..MaxAggs : Used' = 1..m
  <2>0. MaxAggs \in Nat
    BY StoreAssumption
  <2>1. CASE two
    <3>1. n + 2 \in 0..MaxAggs /\ 1..(n + 2) = (1..n) \cup {n + 1, n + 1 + 1}
      BY <1>2, <1>4, <2>0, <2>1 DEF Aggs
    <3> QED BY <1>1, <1>2, <1>8, <2>1, <3>1
  <2>2. CASE ~ two
    <3>1. n + 1 \in 0..MaxAggs /\ 1..(n + 1) = (1..n) \cup {n + 1}
      BY <1>2, <1>4, <2>0 DEF Aggs
    <3> QED BY <1>1, <1>2, <1>8, <2>2, <3>1
  <2> QED BY <2>1, <2>2
<1>10. \A a \in Aggs, id \in Ids : <<a, id>> \in rows <=> a \in N /\ id \in drained'[a].ids
  BY <1>2, <1>3, <1>5
<1>11. rows \in SUBSET (Aggs \X Ids)
  BY <1>3, <1>4
<1> HIDE DEF N, rows
<1>12. \E added \in SUBSET (Aggs \X Ids) :
           /\ agg' = Insert(agg, added)
           /\ \A a \in Aggs, id \in Ids : <<a, id>> \in added <=> a \in N /\ id \in drained'[a].ids
  BY <1>3, <1>10, <1>11
<1>13. Makes(c, N)
  BY <1>3, <1>5, <1>6, <1>7, <1>9, <1>12 DEF Makes
<1> QED BY <1>3, <1>13

\* The history is only added to.
Onward ==
    /\ \A a \in Used : drained'[a] = drained[a]
    /\ \A c \in Cals : calAggs[c] # {} => calAggs'[c] = calAggs[c]
    /\ \A t \in Txs : root[t] # {} => root'[t] = root[t]
    /\ indexed \subseteq indexed' /\ now <= now'
    /\ mishap.lost \subseteq mishap'.lost /\ mishap.unsent \subseteq mishap'.unsent
    /\ mishap.uncached \subseteq mishap'.uncached
    /\ mishap.contested \subseteq mishap'.contested

LEMMA OnwardStep ==
    ASSUME TypeOK, Histories, [Next]_vars
    PROVE  Onward
<1> USE DEF chain, tables, history
<1>0. now \in Nat
  BY StoreAssumption DEF TypeOK, Time
<1>a. /\ mishap \in [crashes : 0..MaxCrashes, lost : SUBSET Ids, unsent : SUBSET Cals,
                     uncached : SUBSET Cals, contested : SUBSET Ids]
      /\ drained \in [Aggs -> [ids : SUBSET Ids, at : Time]] /\ Used \subseteq Aggs
      /\ calAggs \in [Cals -> SUBSET Aggs] /\ root \in [Txs -> SUBSET Cals]
  BY DEF TypeOK, Used
<1>1. CASE UNCHANGED <<drained, calAggs, root, indexed, now, mishap>>
  BY <1>0, <1>1 DEF Onward
<1>2. ASSUME NEW c \in Cals, NEW S \in SUBSET Ids, AnchorCalendar(c, S)
      PROVE  Onward
  <2>a. PICK N \in SUBSET Aggs : Makes(c, N)
    BY <1>2, NewAggs
  <2>1. /\ N \cap Used = {} /\ calAggs' = [calAggs EXCEPT ![c] = N]
        /\ \A a \in Aggs \ N : drained'[a] = drained[a]
    BY <2>a DEF Makes
  <2>2. calAggs[c] = {} /\ UNCHANGED <<root, indexed, now, mishap>>
    BY <1>2 DEF AnchorCalendar
  <2> QED BY <1>0, <1>a, <2>1, <2>2 DEF Onward
<1>3. ASSUME NEW c \in Cals, BroadcastFails(c) \/ Index(c) \/ WriteCalBatch(c)
      PROVE  Onward
  BY <1>0, <1>a, <1>3 DEF BroadcastFails, Index, WriteCalBatch, Onward
<1>4. ASSUME NEW t \in Txs, NEW S \in SUBSET Cals, BeginTxMonitor(t, S) \/ WriteBtcBatch(t)
      PROVE  Onward
  BY <1>0, <1>a, <1>4 DEF BeginTxMonitor, WriteBtcBatch, Onward
<1>5. CASE Tick
  BY <1>0, <1>a, <1>5 DEF Tick, Onward
<1>6. CASE Crash
  BY <1>0, <1>a, <1>6 DEF Crash, Onward
<1> QED
  BY <1>1, <1>2, <1>3, <1>4, <1>5, <1>6
    DEF Next, vars, HashHandler, LnPaymentHandler, GenerateCalBatch, CacheRoot,
        DeleteCached, WriteBtcBatch, GenerateBtcBatch, StartPrune, PruneTable

\* What follows from it: a hash submitted again stays so, an aggregation out of
\* its day too, and what an anchor covers is settled with its root.
LEMMA OnwardFacts ==
    ASSUME TypeOK, TypeOK', Histories, Onward
    PROVE  /\ Used \subseteq Used'
           /\ \A id : AggsOf(id) \subseteq AggsOf(id)' /\ AggsOf(id) \subseteq Used
           /\ \A id : Once(id)' => Once(id)
           /\ \A a \in Used : Young(a)' => Young(a)
           /\ \A a \in Used : Clean(a)' => Clean(a)
           /\ \A t \in Txs : /\ Under(t) \subseteq Used
                             /\ root[t] # {} => Under(t)' = Under(t)
           /\ \A c \in Cals : calAggs[c] \subseteq Used
<1>1. Used \subseteq Used'
  BY DEF Onward, Used
<1>2. \A id : AggsOf(id) \subseteq AggsOf(id)' /\ AggsOf(id) \subseteq Used
  BY DEF Onward, AggsOf, Used
<1>3. \A id : Once(id)' => Once(id)
  <2>1. \A id : Once(id)' <=> \A a, b \in AggsOf(id)' : a = b
    <3> TAKE id
    <3>1. IsFiniteSet(AggsOf(id)')
      BY AggsFinite DEF AggsOf
    <3> QED BY <3>1, AtMostOne DEF Once
  <2> QED BY <1>2, <2>1, OnceInOne
<1>4. \A a \in Used : Young(a)' => Young(a)
  <2>1. /\ now \in Nat /\ now' \in Nat /\ now <= now' /\ Lifetime \in Nat
        /\ \A a \in Used : drained[a].at \in Nat /\ drained'[a] = drained[a]
    BY StoreAssumption DEF TypeOK, Time, Onward, Used
  <2> QED BY <2>1 DEF Young
<1>5. \A a \in Used : Clean(a)' => Clean(a)
  BY <1>3, <1>4 DEF Clean, Onward
<1>6. \A c \in Cals : calAggs[c] \subseteq Used
  BY DEF Histories
<1>7. ASSUME NEW t \in Txs
      PROVE  Under(t) \subseteq Used /\ (root[t] # {} => Under(t)' = Under(t))
  <2>1. \A c \in root[t] : c \in Cals /\ calAggs[c] # {}
    BY DEF TypeOK, Histories
  <2> QED BY <1>6, <2>1 DEF Under, Onward
<1> QED BY <1>1, <1>2, <1>3, <1>4, <1>5, <1>6, <1>7

LEMMA HistoriesStep ==
    ASSUME TypeOK, TypeOK', Histories, [Next]_vars
    PROVE  Histories'
<1> USE DEF chain, tables, history
<1>o. Onward
  BY OnwardStep
<1>a. /\ now \in Nat /\ mishap \in [crashes : 0..MaxCrashes, lost : SUBSET Ids,
                     unsent : SUBSET Cals, uncached : SUBSET Cals, contested : SUBSET Ids]
      /\ drained \in [Aggs -> [ids : SUBSET Ids, at : Time]] /\ Used \subseteq Aggs
      /\ calAggs \in [Cals -> SUBSET Aggs] /\ root \in [Txs -> SUBSET Cals]
      /\ work \in [Cals -> [pc : {"idle", "broadcast", "write", "cache"}, new : Batches]]
  BY StoreAssumption DEF TypeOK, Used, Time
<1>1. CASE UNCHANGED <<drained, calAggs, root, indexed, now, mishap, work>>
  BY <1>1 DEF Histories, Used
<1>2. ASSUME NEW c \in Cals, NEW S \in SUBSET Ids, AnchorCalendar(c, S)
      PROVE  Histories'
  <2>a. PICK N \in SUBSET Aggs : Makes(c, N)
    BY <1>2, NewAggs
  <2>1. /\ N # {} /\ N \cap Used = {} /\ calAggs' = [calAggs EXCEPT ![c] = N]
        /\ \A a \in N : drained'[a].at = now /\ drained'[a].ids # {}
        /\ \A a \in Aggs \ N : drained'[a] = drained[a]
        /\ \E m \in 0..MaxAggs : Used' = 1..m
    BY <2>a DEF Makes
  <2>2. /\ calAggs[c] = {} /\ UNCHANGED <<root, indexed, now, mishap>>
        /\ work[c].pc = "idle"
        /\ work' = [work EXCEPT ![c].pc = "broadcast"]
    BY <1>2 DEF AnchorCalendar
  <2>3. \A a \in Aggs : drained'[a].at <= now'
    BY <1>a, <2>1, <2>2 DEF Histories
  <2>4. N \subseteq Used'
    BY <2>1 DEF Used
  <2>5. \A d \in Cals : /\ calAggs'[d] \subseteq Used'
                        /\ \A a, b \in calAggs'[d] : drained'[a].at = drained'[b].at
                        /\ \A e \in Cals \ {d} : calAggs'[d] \cap calAggs'[e] = {}
    <3>1. /\ calAggs'[c] = N /\ \A d \in Cals \ {c} : calAggs'[d] = calAggs[d]
          /\ \A d \in Cals : calAggs[d] \subseteq Used /\ \A a \in calAggs[d] : drained'[a] = drained[a]
      BY <1>a, <1>o, <2>1 DEF Histories, Onward
    <3>2. Used \subseteq Used'
      BY <1>o, OnwardFacts
    <3>3. \A d \in Cals \ {c} : \A e \in Cals \ {d} : calAggs[d] \cap calAggs[e] = {}
      BY DEF Histories
    <3>4. \A d \in Cals \ {c} : \A a, b \in calAggs[d] : drained[a].at = drained[b].at
      BY DEF Histories
    <3>5. \A d \in Cals : \A e \in Cals \ {d} : calAggs'[d] \cap calAggs'[e] = {}
      BY <2>1, <3>1, <3>3
    <3>6. \A d \in Cals : \A a, b \in calAggs'[d] : drained'[a].at = drained'[b].at
      BY <2>1, <3>1, <3>4
    <3>7. \A d \in Cals : calAggs'[d] \subseteq Used'
      BY <2>4, <3>1, <3>2
    <3> QED BY <3>5, <3>6, <3>7
  <2>6. c \notin indexed
    BY <2>2 DEF Histories
  <2>7. \A d \in indexed' : calAggs'[d] # {} /\ d \notin mishap'.unsent /\ work'[d].pc # "broadcast"
    <3>1. \A d \in indexed : d \in Cals /\ d # c /\ calAggs'[d] = calAggs[d] /\ work'[d] = work[d]
      BY <1>a, <2>1, <2>2, <2>6 DEF TypeOK
    <3> QED BY <2>2, <3>1 DEF Histories
  <2>8. \A t \in Txs : /\ root'[t] \subseteq indexed'
                       /\ \A d \in root'[t] : work'[d].pc = "idle"
                       /\ \A o \in Txs \ {t} : root'[t] \cap root'[o] = {}
    BY <1>a, <2>2, <2>6 DEF Histories
  <2> QED BY <2>1, <2>3, <2>5, <2>7, <2>8 DEF Histories
<1>3. ASSUME NEW c \in Cals, BroadcastFails(c) \/ GenerateCalBatch(c) \/ WriteCalBatch(c)
                             \/ CacheRoot(c) \/ Index(c)
      PROVE  Histories'
  <2>1. UNCHANGED <<drained, calAggs, root, now>>
    BY <1>3 DEF BroadcastFails, GenerateCalBatch, WriteCalBatch, CacheRoot, Index
  <2>2. \A t \in Txs : /\ root[t] \subseteq indexed'
                       /\ \A d \in root[t] : work'[d].pc = "idle"
    <3>1. indexed \subseteq indexed'
      BY <1>o DEF Onward
    <3>2. \A d \in Cals : work[d].pc = "idle" => work'[d].pc = "idle"
      BY <1>3, <1>a DEF BroadcastFails, GenerateCalBatch, WriteCalBatch, CacheRoot, Index, NoWork
    <3> QED BY <1>a, <3>1, <3>2 DEF Histories
  <2>3. \A d \in Cals : d \in indexed' =>
           calAggs[d] # {} /\ d \notin mishap'.unsent /\ work'[d].pc # "broadcast"
    <3>1. \A d \in Cals : work[d].pc # "broadcast" => work'[d].pc # "broadcast"
      BY <1>3, <1>a DEF BroadcastFails, GenerateCalBatch, WriteCalBatch, CacheRoot, Index, NoWork
    <3>2. \A d \in Cals : d \in mishap'.unsent => d \in mishap.unsent \/ work[d].pc = "broadcast"
      BY <1>3, <1>a DEF BroadcastFails, GenerateCalBatch, WriteCalBatch, CacheRoot, Index
    <3>3. \A d \in Cals : d \in indexed' => d \in indexed \/ Sent(d)
      BY <1>3 DEF BroadcastFails, GenerateCalBatch, WriteCalBatch, CacheRoot, Index
    <3> QED BY <3>1, <3>2, <3>3 DEF Histories, Sent
  <2> QED BY <2>1, <2>2, <2>3 DEF Histories, Used
<1>4. ASSUME NEW t \in Txs, NEW S \in SUBSET Cals, BeginTxMonitor(t, S)
      PROVE  Histories'
  <2>1. /\ UNCHANGED <<drained, calAggs, now, indexed, work, mishap>>
        /\ root' = [root EXCEPT ![t] = S]
        /\ S \subseteq indexed \ UNION {root[o] : o \in Txs}
        /\ \A c \in S : work[c].pc = "idle"
    BY <1>4 DEF BeginTxMonitor
  <2>2. \A u \in Txs : /\ root'[u] \subseteq indexed
                       /\ \A d \in root'[u] : work[d].pc = "idle"
    BY <1>a, <2>1 DEF Histories
  <2>3. \A u \in Txs : \A o \in Txs \ {u} : root'[u] \cap root'[o] = {}
    <3>1. \A o \in Txs : S \cap root[o] = {}
      BY <2>1
    <3>2. \A o \in Txs : root'[o] = IF o = t THEN S ELSE root[o]
      BY <1>a, <2>1
    <3> QED BY <3>1, <3>2 DEF Histories
  <2>4. Used' = Used
    BY <2>1 DEF Used
  <2> QED BY <2>1, <2>2, <2>3, <2>4 DEF Histories
<1>5. ASSUME NEW t \in Txs, WriteBtcBatch(t)
      PROVE  Histories'
  <2>1. UNCHANGED <<drained, calAggs, now, indexed, work, root>> /\ mishap'.unsent = mishap.unsent
    BY <1>5, <1>a DEF WriteBtcBatch
  <2> QED BY <2>1 DEF Histories, Used
<1>6. CASE Tick
  <2>1. UNCHANGED <<drained, calAggs, indexed, work, root, mishap>> /\ now' = now + 1
    BY <1>6 DEF Tick
  <2>2. \A a \in Aggs : drained[a].at <= now'
    BY <1>a, <2>1 DEF Histories, Time
  <2> QED BY <2>1, <2>2 DEF Histories, Used
<1>7. CASE Crash
  <2>1. /\ UNCHANGED <<drained, calAggs, now, indexed, root>> /\ mishap'.unsent = mishap.unsent
        /\ \A d \in Cals : work'[d].pc = "idle"
    BY <1>7, <1>a DEF Crash, NoWork
  <2>2. \A t \in Txs : \A d \in root[t] : work'[d].pc = "idle"
    BY <1>a, <2>1
  <2> QED BY <2>1, <2>2 DEF Histories, Used
<1> QED
  BY <1>1, <1>2, <1>3, <1>4, <1>5, <1>6, <1>7
    DEF Next, vars, HashHandler, LnPaymentHandler,
        DeleteCached, GenerateBtcBatch, StartPrune, PruneTable


\* Pruning only takes rows, and only those of the keys of a snapshot's owners.
LEMMA PruneTakes ==
    ASSUME TypeOK, PruneSeq, PruneTable
    PROVE  /\ Len(prune) \in 1..5 /\ Head(prune) = prune[1]
           /\ IF Len(prune) = 5 THEN btcTx' = Without(btcTx, prune[1]) ELSE btcTx' = btcTx
           /\ IF Len(prune) = 4 THEN anchor' = WithoutAnchors(prune[1]) ELSE anchor' = anchor
           /\ IF Len(prune) = 3 THEN cal' = Without(cal, prune[1]) ELSE cal' = cal
           /\ IF Len(prune) = 2 THEN agg' = Without(agg, prune[1]) ELSE agg' = agg
           /\ IF Len(prune) = 1
              THEN \A id \in Ids : IF id \in prune[1]
                      THEN proofs'.proof[id] = NoProof /\ proofs'.created[id] = Never
                      ELSE /\ proofs'.proof[id] = proofs.proof[id]
                           /\ proofs'.created[id] = proofs.created[id]
              ELSE proofs' = proofs
           /\ prune' = Tail(prune)
           /\ UNCHANGED <<now, queued, work, indexed, cached, confirm, drained, calAggs, root, mishap>>
<1>1. prune # <<>> /\ Len(prune) \in Nat
  BY DEF PruneTable, PruneBtcTx, PruneAnchors, PruneCals, PruneAggs, PruneProofs, PruneSeq
<1>2. Len(prune) \in 1..5 /\ Head(prune) = prune[1]
  <2>0. Len(prune) <= 5
    BY DEF TypeOK
  <2>1. prune \in Seq(SUBSET (Ids \cup Aggs \cup Cals \cup Txs))
    BY DEF PruneSeq
  <2>2. Len(prune) # 0
    BY <1>1, <2>1, EmptySeq
  <2>3. Head(prune) = prune[1]
    BY <1>1, <2>1, HeadTailProperties
  <2>4. Len(prune) \in 1..5
    <3> DEFINE n == Len(prune)
    <3>1. n \in Nat /\ n <= 5 /\ n # 0
      BY <1>1, <2>0, <2>2
    <3> HIDE DEF n
    <3>2. n \in 1..5
      BY <3>1
    <3> QED BY <3>2 DEF n
  <2> QED BY <2>3, <2>4
<1>3. PruneProofs => \A id \in Ids : IF id \in prune[1]
                      THEN proofs'.proof[id] = NoProof /\ proofs'.created[id] = Never
                      ELSE /\ proofs'.proof[id] = proofs.proof[id]
                           /\ proofs'.created[id] = proofs.created[id]
  BY <1>2 DEF PruneProofs, Unmark, TypeOK
<1>4. PruneBtcTx \/ PruneAnchors \/ PruneCals \/ PruneAggs \/ PruneProofs
  BY DEF PruneTable
<1>5. UNCHANGED <<now, queued, work, indexed, cached, confirm, drained, calAggs, root, mishap>>
      /\ prune' = Tail(prune)
  BY DEF PruneTable, chain, history
<1>6. CASE PruneBtcTx
  BY <1>2, <1>5, <1>6 DEF PruneBtcTx
<1>7. CASE PruneAnchors
  BY <1>2, <1>5, <1>7 DEF PruneAnchors
<1>8. CASE PruneCals
  BY <1>2, <1>5, <1>8 DEF PruneCals
<1>9. CASE PruneAggs
  BY <1>2, <1>5, <1>9 DEF PruneAggs
<1>10. CASE PruneProofs
  BY <1>2, <1>3, <1>5, <1>10 DEF PruneProofs
<1> QED BY <1>4, <1>6, <1>7, <1>8, <1>9, <1>10

LEMMA RowsTrueStep ==
    ASSUME TypeOK, TypeOK', PruneSeq, Histories, RowsTrue, [Next]_vars
    PROVE  RowsTrue'
<1> USE DEF chain, tables, history
<1>o. Onward
  BY OnwardStep
<1>0. /\ agg \in Tables(Aggs, Ids) /\ cal \in Tables(Cals, Aggs)
      /\ anchor \in Tables(Txs, Cals) /\ btcTx \in Tables(Txs, Txs)
  BY DEF TypeOK
\* Rows that were there stay true.
<1>a. /\ \A r \in agg.byOwner : r[2] \in drained'[r[1]].ids
      /\ \A r \in cal.byOwner : r[2] \in calAggs'[r[1]]
      /\ \A r \in anchor.byOwner : r[2] \in root'[r[1]]
      /\ \A r \in btcTx.byOwner : r[1] = r[2]
  <2>1. \A r \in agg.byOwner : r[2] \in drained'[r[1]].ids
    <3>1. \A r \in agg.byOwner : r[1] \in Aggs
      BY <1>0, TableRows
    <3> QED BY <1>o, <3>1 DEF RowsTrue, Onward, Used
  <2>2. \A r \in cal.byOwner : r[2] \in calAggs'[r[1]]
    <3>1. \A r \in cal.byOwner : r[1] \in Cals
      BY <1>0, TableRows
    <3>2. \A r \in cal.byOwner : calAggs[r[1]] # {}
      BY DEF RowsTrue
    <3> QED BY <1>o, <3>1, <3>2 DEF RowsTrue, Onward
  <2>3. \A r \in anchor.byOwner : r[2] \in root'[r[1]]
    <3>1. \A r \in anchor.byOwner : r[1] \in Txs
      BY <1>0, TableRows
    <3>2. \A r \in anchor.byOwner : root[r[1]] # {}
      BY DEF RowsTrue
    <3> QED BY <1>o, <3>1, <3>2 DEF RowsTrue, Onward
  <2> QED BY <2>1, <2>2, <2>3 DEF RowsTrue
<1>1. CASE UNCHANGED <<agg, cal, anchor, btcTx>>
  BY <1>a, <1>1 DEF RowsTrue
<1>2. ASSUME NEW c \in Cals, NEW S \in SUBSET Ids, AnchorCalendar(c, S)
      PROVE  RowsTrue'
  <2>1. PICK N \in SUBSET Aggs : Makes(c, N)
    BY <1>2, NewAggs
  <2>2. PICK rows \in SUBSET (Aggs \X Ids) :
           /\ agg' = Insert(agg, rows)
           /\ \A a \in Aggs, id \in Ids : <<a, id>> \in rows <=> a \in N /\ id \in drained'[a].ids
    BY <2>1 DEF Makes
  <2>3. agg'.byOwner = agg.byOwner \cup rows
    BY <1>0, <2>2, InsertTable
  <2>4. \A r \in rows : r[2] \in drained'[r[1]].ids
    <3>1. \A r \in rows : r = <<r[1], r[2]>> /\ r[1] \in Aggs /\ r[2] \in Ids
      OBVIOUS
    <3> QED BY <2>2, <3>1
  <2> QED BY <1>2, <1>a, <2>3, <2>4 DEF AnchorCalendar, RowsTrue
<1>3. ASSUME NEW c \in Cals, GenerateCalBatch(c)
      PROVE  RowsTrue'
  <2>1. CreateCalStateMessage(c) \in SUBSET (Cals \X Aggs)
    BY DEF CreateCalStateMessage, GenerateCalendarTree, TypeOK
  <2>2. cal'.byOwner = cal.byOwner \cup CreateCalStateMessage(c)
    BY <1>0, <1>3, <2>1, InsertTable DEF GenerateCalBatch, BulkInsertCalState
  <2>3. \A r \in CreateCalStateMessage(c) : r[2] \in calAggs'[r[1]]
    BY <1>3 DEF CreateCalStateMessage, GenerateCalendarTree, GenerateCalBatch
  <2> QED BY <1>3, <1>a, <2>2, <2>3 DEF GenerateCalBatch, RowsTrue
<1>4. ASSUME NEW t \in Txs, NEW S \in SUBSET Cals, BeginTxMonitor(t, S)
      PROVE  RowsTrue'
  <2>1. /\ GenerateAnchorBtcTxState(t) \in SUBSET (Txs \X Txs)
        /\ PrepareBtcaStateData(t, S) \in SUBSET (Txs \X Cals)
    BY DEF GenerateAnchorBtcTxState, PrepareBtcaStateData
  <2>2. /\ btcTx'.byOwner = btcTx.byOwner \cup GenerateAnchorBtcTxState(t)
        /\ anchor'.byOwner = anchor.byOwner \cup PrepareBtcaStateData(t, S)
    BY <1>0, <1>4, <2>1, InsertTable
      DEF BeginTxMonitor, BulkInsertBtcTxState, BulkInsertBtcAggState
  <2>3. \A r \in PrepareBtcaStateData(t, S) : r[2] \in root'[r[1]]
    BY <1>4 DEF PrepareBtcaStateData, BeginTxMonitor, TypeOK
  <2>4. \A r \in GenerateAnchorBtcTxState(t) : r[1] = r[2]
    BY DEF GenerateAnchorBtcTxState
  <2> QED BY <1>4, <1>a, <2>2, <2>3, <2>4 DEF BeginTxMonitor, RowsTrue
<1>5. CASE PruneTable
  <2>1. /\ agg'.byOwner \subseteq agg.byOwner /\ cal'.byOwner \subseteq cal.byOwner
        /\ anchor'.byOwner \subseteq anchor.byOwner /\ btcTx'.byOwner \subseteq btcTx.byOwner
    BY <1>0, <1>5, PruneTakes, WithoutTable, WithoutAnchorsTable
  <2> QED BY <1>a, <2>1 DEF RowsTrue
<1> QED
  BY <1>1, <1>2, <1>3, <1>4, <1>5
    DEF Next, vars, HashHandler, LnPaymentHandler, BroadcastFails, WriteCalBatch, CacheRoot,
        Index, DeleteCached, GenerateBtcBatch, WriteBtcBatch, StartPrune, Tick, Crash

\* A proof about to be written is of an aggregation its hash was in.
LEMMA MarksStep ==
    ASSUME TypeOK, TypeOK', PruneSeq, Histories, Histories', Marks, InHand, [Next]_vars
    PROVE  Marks'
<1> USE DEF chain, tables, history
<1>o. Onward
  BY OnwardStep
<1>f. /\ Used \subseteq Used'
      /\ \A id : AggsOf(id) \subseteq AggsOf(id)' /\ AggsOf(id) \subseteq Used
      /\ \A t \in Txs : root[t] # {} => Under(t)' = Under(t) /\ Under(t) \subseteq Used
  BY <1>o, OnwardFacts
<1>d. \A a \in Used : drained'[a] = drained[a]
  BY <1>o DEF Onward
<1>0. /\ agg \in Tables(Aggs, Ids) /\ cal \in Tables(Cals, Aggs)
      /\ anchor \in Tables(Txs, Cals) /\ btcTx \in Tables(Txs, Txs) /\ now \in Nat
  BY StoreAssumption DEF TypeOK, Time
\* A mark that stays, or goes, is true.
<1>a. ASSUME NEW id \in Ids, NEW m, m # Never, m \in {agg.created[id], proofs.created[id]}
      PROVE  \E a \in AggsOf(id)' : drained'[a].at <= m
  <2>1. PICK a \in AggsOf(id) : drained[a].at <= m
    BY <1>a DEF Marks
  <2> QED BY <1>f, <1>d, <2>1
<1>b. ASSUME NEW a \in Aggs, cal.created[a] # Never
      PROVE  a \in Used' /\ drained'[a].at <= cal.created[a]
  BY <1>b, <1>f, <1>d DEF Marks
<1>c. ASSUME NEW c \in Cals, anchor.created[c] # Never
      PROVE  \E t \in Txs : /\ c \in root'[t]
                             /\ \A a \in Under(t)' : drained'[a].at <= anchor.created[c]
  <2>1. PICK t \in Txs : c \in root[t] /\ MarkedAfter(anchor.created[c], Under(t))
    BY <1>c DEF Marks
  <2>2. c \in root'[t] /\ Under(t)' = Under(t) /\ Under(t) \subseteq Used
    BY <1>f, <1>o, <2>1 DEF Onward
  <2>3. \A a \in Under(t)' : drained'[a].at <= anchor.created[c]
    BY <1>d, <2>1, <2>2 DEF MarkedAfter
  <2> QED BY <2>2, <2>3
<1>e. ASSUME NEW t \in Txs, btcTx.created[t] # Never
      PROVE  root'[t] # {} /\ \A a \in Under(t)' : drained'[a].at <= btcTx.created[t]
  <2>1. root[t] # {} /\ MarkedAfter(btcTx.created[t], Under(t))
    BY <1>e DEF Marks
  <2>2. root'[t] # {} /\ Under(t)' = Under(t) /\ Under(t) \subseteq Used
    BY <1>f, <1>o, <2>1 DEF Onward
  <2>3. \A a \in Under(t)' : drained'[a].at <= btcTx.created[t]
    BY <1>d, <2>1, <2>2 DEF MarkedAfter
  <2> QED BY <2>2, <2>3
\* The marks of the four tables and of the proofs, one by one.
<1>1. \A id \in Ids : agg'.created[id] # Never =>
         \E a \in AggsOf(id)' : drained'[a].at <= agg'.created[id]
  <2>1. CASE agg' = agg
    BY <1>a, <2>1
  <2>2. ASSUME NEW c \in Cals, NEW S \in SUBSET Ids, AnchorCalendar(c, S), NEW id \in Ids,
               agg'.created[id] # Never
        PROVE  \E a \in AggsOf(id)' : drained'[a].at <= agg'.created[id]
    <3>1. PICK N \in SUBSET Aggs : Makes(c, N)
      BY <2>2, NewAggs
    <3>2. PICK rows \in SUBSET (Aggs \X Ids) :
             /\ agg' = Insert(agg, rows)
             /\ \A a \in Aggs, i \in Ids : <<a, i>> \in rows <=> a \in N /\ i \in drained'[a].ids
      BY <3>1 DEF Makes
    <3>3. IF \E r \in rows : r[2] = id THEN agg'.created[id] = now
          ELSE agg'.created[id] = agg.created[id]
      BY <1>0, <3>2, InsertTable
    <3>4. CASE \E r \in rows : r[2] = id
      <4>1. PICK r \in rows : r[2] = id
        BY <3>4
      <4>2. r = <<r[1], id>> /\ r[1] \in Aggs
        BY <4>1
      <4>3. r[1] \in N /\ id \in drained'[r[1]].ids
        BY <3>2, <4>1, <4>2
      <4>4. r[1] \in AggsOf(id)' /\ drained'[r[1]].at = now
        BY <3>1, <4>2, <4>3 DEF AggsOf, Makes
      <4> QED BY <1>0, <3>3, <3>4, <4>4
    <3>5. CASE ~ \E r \in rows : r[2] = id
      BY <1>a, <2>2, <3>3, <3>5
    <3> QED BY <3>4, <3>5
  <2>3. CASE PruneTable
    <3>1. \A id \in Ids : agg'.created[id] \in {Never, agg.created[id]}
      BY <1>0, <2>3, PruneTakes, WithoutTable
    <3> QED BY <1>a, <3>1
  <2> QED
    BY <2>1, <2>2, <2>3
      DEF Next, vars, HashHandler, LnPaymentHandler, BroadcastFails, GenerateCalBatch,
          WriteCalBatch, CacheRoot, Index, DeleteCached, BeginTxMonitor, GenerateBtcBatch,
          WriteBtcBatch, StartPrune, Tick, Crash
<1>2. \A id \in Ids : proofs'.created[id] # Never =>
         \E a \in AggsOf(id)' : drained'[a].at <= proofs'.created[id]
  <2>1. CASE proofs' = proofs
    BY <1>a, <2>1
  <2>2. ASSUME NEW new \in Batches, BulkInsertProofs(new),
               \A id \in DOMAIN new : Coherent(id, new[id]), NEW id \in Ids, proofs'.created[id] # Never
        PROVE  \E a \in AggsOf(id)' : drained'[a].at <= proofs'.created[id]
    <3>1. CASE id \in DOMAIN new
      <4>1. proofs'.created[id] = now
        BY <2>2, <3>1, BulkInsertProofsType
      <4>2. new[id].agg \in AggsOf(id)
        BY <2>2, <3>1 DEF Coherent, AggsOf
      <4>3. drained[new[id].agg].at <= now
        BY <4>2 DEF Histories, AggsOf
      <4> QED BY <1>f, <1>d, <4>1, <4>2, <4>3
    <3>2. CASE id \notin DOMAIN new
      BY <1>a, <2>2, <3>2, BulkInsertProofsType
    <3> QED BY <3>1, <3>2
  <2>3. ASSUME NEW c \in Cals, WriteCalBatch(c), NEW id \in Ids, proofs'.created[id] # Never
        PROVE  \E a \in AggsOf(id)' : drained'[a].at <= proofs'.created[id]
    BY <2>2, <2>3 DEF WriteCalBatch, InHand, TypeOK
  <2>4. ASSUME NEW t \in Txs, WriteBtcBatch(t), NEW id \in Ids, proofs'.created[id] # Never
        PROVE  \E a \in AggsOf(id)' : drained'[a].at <= proofs'.created[id]
    BY <2>2, <2>4 DEF WriteBtcBatch, InHand, TypeOK
  <2>5. CASE PruneTable
    <3>1. \A id \in Ids : proofs'.created[id] \in {Never, proofs.created[id]}
      BY <2>5, PruneTakes
    <3> QED BY <1>a, <3>1
  <2> QED
    BY <2>1, <2>3, <2>4, <2>5
      DEF Next, vars, HashHandler, LnPaymentHandler, AnchorCalendar, BroadcastFails,
          GenerateCalBatch, CacheRoot, Index, DeleteCached, BeginTxMonitor, GenerateBtcBatch,
          StartPrune, Tick, Crash
<1>3. \A a \in Aggs : cal'.created[a] # Never =>
         a \in Used' /\ drained'[a].at <= cal'.created[a]
  <2>1. CASE cal' = cal
    BY <1>b, <2>1
  <2>2. ASSUME NEW c \in Cals, GenerateCalBatch(c), NEW a \in Aggs, cal'.created[a] # Never
        PROVE  a \in Used' /\ drained'[a].at <= cal'.created[a]
    <3>1. CreateCalStateMessage(c) \in SUBSET (Cals \X Aggs)
      BY DEF CreateCalStateMessage, GenerateCalendarTree, TypeOK
    <3>2. IF \E r \in CreateCalStateMessage(c) : r[2] = a THEN cal'.created[a] = now
          ELSE cal'.created[a] = cal.created[a]
      BY <1>0, <2>2, <3>1, InsertTable DEF GenerateCalBatch, BulkInsertCalState
    <3>3. (\E r \in CreateCalStateMessage(c) : r[2] = a) => a \in Used /\ drained[a].at <= now
      BY DEF CreateCalStateMessage, GenerateCalendarTree, Histories
    <3> QED BY <1>b, <1>f, <1>d, <2>2, <3>2, <3>3
  <2>3. CASE PruneTable
    <3>1. \A a \in Aggs : cal'.created[a] \in {Never, cal.created[a]}
      BY <1>0, <2>3, PruneTakes, WithoutTable
    <3> QED BY <1>b, <3>1
  <2> QED
    BY <2>1, <2>2, <2>3
      DEF Next, vars, HashHandler, LnPaymentHandler, AnchorCalendar, BroadcastFails,
          WriteCalBatch, CacheRoot, Index, DeleteCached, BeginTxMonitor, GenerateBtcBatch,
          WriteBtcBatch, StartPrune, Tick, Crash
<1>g. ASSUME NEW t \in Txs, NEW S \in SUBSET Cals, BeginTxMonitor(t, S)
      PROVE  /\ root'[t] = S /\ S # {} /\ now' = now /\ \A a \in Under(t)' : drained'[a].at <= now
             /\ \A c \in Cals : IF c \in S THEN anchor'.created[c] = now
                                ELSE anchor'.created[c] = anchor.created[c]
             /\ \A u \in Txs : IF u = t THEN btcTx'.created[u] = now
                               ELSE btcTx'.created[u] = btcTx.created[u]
  <2>1. root'[t] = S /\ S # {} /\ now' = now
    BY <1>g DEF BeginTxMonitor, TypeOK
  <2>2. \A a \in Under(t)' : drained'[a].at <= now
    <3>1. Under(t)' \subseteq Aggs
      BY DEF Under, TypeOK
    <3> QED BY <2>1, <3>1 DEF Histories
  <2>3. /\ GenerateAnchorBtcTxState(t) \in SUBSET (Txs \X Txs)
        /\ PrepareBtcaStateData(t, S) \in SUBSET (Txs \X Cals)
    BY DEF GenerateAnchorBtcTxState, PrepareBtcaStateData
  <2>4. \A c \in Cals : IF c \in S THEN anchor'.created[c] = now
                        ELSE anchor'.created[c] = anchor.created[c]
    <3>1. \A c : c \in S <=> \E r \in PrepareBtcaStateData(t, S) : r[2] = c
      <4> TAKE c
      <4>1. c \in S => <<t, c>> \in PrepareBtcaStateData(t, S) /\ <<t, c>>[2] = c
        BY DEF PrepareBtcaStateData
      <4>2. \A r \in PrepareBtcaStateData(t, S) : r[2] \in S
        BY DEF PrepareBtcaStateData
      <4> QED BY <4>1, <4>2
    <3> QED BY <1>0, <1>g, <2>3, <3>1, InsertTable DEF BeginTxMonitor, BulkInsertBtcAggState
  <2>5. \A u \in Txs : IF u = t THEN btcTx'.created[u] = now
                       ELSE btcTx'.created[u] = btcTx.created[u]
    <3>1. \A u : u = t <=> \E r \in GenerateAnchorBtcTxState(t) : r[2] = u
      BY DEF GenerateAnchorBtcTxState
    <3>2. btcTx' = Insert(btcTx, GenerateAnchorBtcTxState(t))
      BY <1>g DEF BeginTxMonitor, BulkInsertBtcTxState
    <3>3. \A u \in Txs : IF \E r \in GenerateAnchorBtcTxState(t) : r[2] = u
                         THEN btcTx'.created[u] = now ELSE btcTx'.created[u] = btcTx.created[u]
      BY <1>0, <2>3, <3>2, InsertTable
    <3> QED BY <3>1, <3>3
  <2> QED BY <2>1, <2>2, <2>4, <2>5
<1>4. \A c \in Cals : anchor'.created[c] # Never =>
         \E t \in Txs : c \in root'[t] /\ \A a \in Under(t)' : drained'[a].at <= anchor'.created[c]
  <2>1. CASE anchor' = anchor
    BY <1>c, <2>1
  <2>2. ASSUME NEW t \in Txs, NEW S \in SUBSET Cals, BeginTxMonitor(t, S),
               NEW c \in Cals, anchor'.created[c] # Never
        PROVE  \E u \in Txs : /\ c \in root'[u]
                             /\ \A a \in Under(u)' : drained'[a].at <= anchor'.created[c]
    <3>1. CASE c \in S
      BY <1>g, <2>2, <3>1
    <3>2. CASE c \notin S
      <4>1. anchor'.created[c] = anchor.created[c]
        BY <1>g, <2>2, <3>2
      <4> QED BY <1>c, <2>2, <4>1
    <3> QED BY <3>1, <3>2
  <2>3. CASE PruneTable
    <3>1. \A c \in Cals : anchor'.created[c] \in {Never, anchor.created[c]}
      BY <2>3, PruneTakes, WithoutAnchorsTable
    <3> QED BY <1>c, <3>1
  <2> QED
    BY <2>1, <2>2, <2>3
      DEF Next, vars, HashHandler, LnPaymentHandler, AnchorCalendar, BroadcastFails,
          GenerateCalBatch, WriteCalBatch, CacheRoot, Index, DeleteCached, GenerateBtcBatch,
          WriteBtcBatch, StartPrune, Tick, Crash
<1>5. \A t \in Txs : btcTx'.created[t] # Never =>
         root'[t] # {} /\ \A a \in Under(t)' : drained'[a].at <= btcTx'.created[t]
  <2>1. CASE btcTx' = btcTx
    BY <1>e, <2>1
  <2>2. ASSUME NEW t \in Txs, NEW S \in SUBSET Cals, BeginTxMonitor(t, S),
               NEW u \in Txs, btcTx'.created[u] # Never
        PROVE  root'[u] # {} /\ \A a \in Under(u)' : drained'[a].at <= btcTx'.created[u]
    BY <1>e, <1>g, <2>2
  <2>3. CASE PruneTable
    <3>1. \A t \in Txs : btcTx'.created[t] \in {Never, btcTx.created[t]}
      BY <1>0, <2>3, PruneTakes, WithoutTable
    <3> QED BY <1>e, <3>1
  <2> QED
    BY <2>1, <2>2, <2>3
      DEF Next, vars, HashHandler, LnPaymentHandler, AnchorCalendar, BroadcastFails,
          GenerateCalBatch, WriteCalBatch, CacheRoot, Index, DeleteCached, GenerateBtcBatch,
          WriteBtcBatch, StartPrune, Tick, Crash
<1> QED BY <1>1, <1>2, <1>3, <1>4, <1>5 DEF Marks, MarkedAfter

\* The snapshots are taken by StartPrune, and only shrink after that.
LEMMA SnapshotsTaken ==
    ASSUME TypeOK, StartPrune
    PROVE  /\ Snapshot(1)' = Old(proofs.created) /\ Snapshot(2)' = Old(agg.created)
           /\ Snapshot(3)' = Old(cal.created) /\ Snapshot(4)' = Old(anchor.created)
           /\ Snapshot(5)' = Old(btcTx.created)
<1>1. prune' = <<Old(btcTx.created), Old(anchor.created), Old(cal.created),
                 Old(agg.created), Old(proofs.created)>>
  BY DEF StartPrune
<1>2. /\ Len(prune') = 5 /\ prune'[1] = Old(btcTx.created) /\ prune'[2] = Old(anchor.created)
      /\ prune'[3] = Old(cal.created) /\ prune'[4] = Old(agg.created)
      /\ prune'[5] = Old(proofs.created)
  BY <1>1
<1> QED BY <1>2 DEF Snapshot

LEMMA SnapshotsShrink ==
    ASSUME TypeOK, PruneSeq, [Next]_vars, ~ StartPrune, NEW i \in 1..5
    PROVE  Snapshot(i)' \subseteq Snapshot(i)
<1>1. CASE prune' = prune
  BY <1>1 DEF Snapshot
<1>2. CASE PruneTable
  <2>1. /\ prune' = Tail(prune) /\ Len(prune) \in 1..5
        /\ prune \in Seq(SUBSET (Ids \cup Aggs \cup Cals \cup Txs))
    BY <1>2, PruneTakes DEF PruneSeq
  <2>2. /\ Len(prune') = Len(prune) - 1
        /\ \A j \in 1..Len(prune) - 1 : prune'[j] = prune[j + 1]
    BY <2>1
  <2>3. CASE Len(prune) - 1 >= i
    <3>1. Len(prune') + 1 - i \in 1..Len(prune) - 1 /\ Len(prune') + 1 - i + 1 = Len(prune) + 1 - i
      BY <2>1, <2>2, <2>3
    <3> QED BY <2>1, <2>2, <2>3, <3>1 DEF Snapshot
  <2>4. CASE ~ (Len(prune) - 1 >= i)
    BY <2>2, <2>4 DEF Snapshot
  <2> QED BY <2>3, <2>4
<1>3. CASE Crash
  <2>1. prune' = <<>>
    BY <1>3 DEF Crash
  <2>2. Len(prune') = 0
    BY <2>1
  <2> QED BY <2>2 DEF Snapshot
<1> QED
  BY <1>1, <1>2, <1>3
    DEF Next, vars, HashHandler, LnPaymentHandler, AnchorCalendar, BroadcastFails,
        GenerateCalBatch, WriteCalBatch, CacheRoot, Index, DeleteCached, BeginTxMonitor,
        GenerateBtcBatch, WriteBtcBatch, StartPrune, Tick

\* An owner is pruned a day after its last row, so after what the row is of.
LEMMA OldIsAged ==
    ASSUME TypeOK, NEW created, NEW o \in Old(created), created[o] \in Time \cup {Never},
           NEW a \in Aggs, drained[a].at <= created[o]
    PROVE  ~ Young(a)
<1>1. /\ now \in Nat /\ Lifetime \in Nat /\ drained[a].at \in Nat
      /\ created[o] \in Nat /\ now > created[o] + Lifetime
  BY StoreAssumption DEF TypeOK, Time, Old, Never
<1> QED BY <1>1 DEF Young

LEMMA SnapshotsStep ==
    ASSUME TypeOK, TypeOK', PruneSeq, Histories, Marks, Snapshots, [Next]_vars
    PROVE  Snapshots'
<1>o. Onward
  BY OnwardStep
<1>f. /\ Used \subseteq Used'
      /\ \A id : AggsOf(id) \subseteq AggsOf(id)' /\ AggsOf(id) \subseteq Used
      /\ \A t \in Txs : root[t] # {} => Under(t)' = Under(t) /\ Under(t) \subseteq Used
      /\ \A a \in Used : Young(a)' => Young(a)
  BY <1>o, OnwardFacts
<1>1. CASE StartPrune
  <2>0. UNCHANGED <<now, drained, calAggs, root>>
    BY <1>1 DEF StartPrune, history
  <2>1. \A id : \A S \in {Old(proofs.created), Old(agg.created)} :
           id \in S => \E a \in AggsOf(id) : ~Young(a)
    <3>1. ASSUME NEW id \in Old(proofs.created)
          PROVE  \E a \in AggsOf(id) : ~Young(a)
      <4>1. id \in Ids /\ proofs.created[id] # Never /\ proofs.created[id] \in Time \cup {Never}
        BY DEF Old, TypeOK
      <4>2. PICK a \in AggsOf(id) : drained[a].at <= proofs.created[id]
        BY <4>1 DEF Marks
      <4> QED BY <4>1, <4>2, OldIsAged DEF AggsOf
    <3>2. ASSUME NEW id \in Old(agg.created)
          PROVE  \E a \in AggsOf(id) : ~Young(a)
      <4>1. id \in Ids /\ agg.created[id] # Never /\ agg.created[id] \in Time \cup {Never}
        BY DEF Old, TypeOK, Tables
      <4>2. PICK a \in AggsOf(id) : drained[a].at <= agg.created[id]
        BY <4>1 DEF Marks
      <4> QED BY <4>1, <4>2, OldIsAged DEF AggsOf
    <3> QED BY <3>1, <3>2
  <2>2. ASSUME NEW a \in Old(cal.created)
        PROVE  a \in Used /\ ~Young(a)
    <3>1. a \in Aggs /\ cal.created[a] # Never /\ cal.created[a] \in Time \cup {Never}
      BY DEF Old, TypeOK, Tables
    <3>2. a \in Used /\ drained[a].at <= cal.created[a]
      BY <3>1 DEF Marks
    <3> QED BY <3>1, <3>2, OldIsAged
  <2>3. ASSUME NEW c \in Old(anchor.created)
        PROVE  \E t \in Txs : c \in root[t] /\ Aged(Under(t))
    <3>1. c \in Cals /\ anchor.created[c] # Never /\ anchor.created[c] \in Time \cup {Never}
      BY DEF Old, TypeOK, Tables
    <3>2. PICK t \in Txs : c \in root[t] /\ MarkedAfter(anchor.created[c], Under(t))
      BY <3>1 DEF Marks
    <3>3. Under(t) \subseteq Aggs
      BY DEF Under, TypeOK
    <3> QED BY <3>1, <3>2, <3>3, OldIsAged DEF Aged, MarkedAfter
  <2>4. ASSUME NEW t \in Old(btcTx.created)
        PROVE  t \in Txs /\ root[t] # {} /\ Aged(Under(t))
    <3>1. t \in Txs /\ btcTx.created[t] # Never /\ btcTx.created[t] \in Time \cup {Never}
      BY DEF Old, TypeOK, Tables
    <3>2. root[t] # {} /\ MarkedAfter(btcTx.created[t], Under(t))
      BY <3>1 DEF Marks
    <3>3. Under(t) \subseteq Aggs
      BY <3>1 DEF Under, TypeOK
    <3> QED BY <3>1, <3>2, <3>3, OldIsAged DEF Aged, MarkedAfter
  <2>5. /\ \A id \in Snapshot(1)' \cup Snapshot(2)' : \E a \in AggsOf(id) : ~Young(a)
        /\ \A a \in Snapshot(3)' : a \in Used /\ ~Young(a)
        /\ \A c \in Snapshot(4)' : \E t \in Txs : c \in root[t] /\ Aged(Under(t))
        /\ \A t \in Snapshot(5)' : t \in Txs /\ root[t] # {} /\ Aged(Under(t))
    BY <1>1, <2>1, <2>2, <2>3, <2>4, SnapshotsTaken
  <2>6. /\ \A id : AggsOf(id)' = AggsOf(id)
        /\ \A a : Young(a)' <=> Young(a)
        /\ \A t : Under(t)' = Under(t)
        /\ Used' = Used
    BY <2>0 DEF AggsOf, Young, Under, Used
  <2> HIDE DEF Used
  <2> QED BY <2>0, <2>5, <2>6 DEF Snapshots, Aged
<1>2. CASE ~ StartPrune
  <2>1. \A i \in 1..5 : Snapshot(i)' \subseteq Snapshot(i)
    BY <1>2, SnapshotsShrink
  <2>2. /\ Snapshot(1)' \subseteq Snapshot(1) /\ Snapshot(2)' \subseteq Snapshot(2)
        /\ Snapshot(3)' \subseteq Snapshot(3) /\ Snapshot(4)' \subseteq Snapshot(4)
        /\ Snapshot(5)' \subseteq Snapshot(5)
    BY <2>1
  <2>3. \A id \in Snapshot(1)' \cup Snapshot(2)' : \E a \in AggsOf(id)' : ~Young(a)'
    BY <1>f, <2>2 DEF Snapshots
  <2>4. \A a \in Snapshot(3)' : a \in Used' /\ ~Young(a)'
    BY <1>f, <2>2 DEF Snapshots
  <2>5. \A t \in Txs : root[t] # {} /\ Aged(Under(t)) => root'[t] = root[t] /\ Aged(Under(t))'
    BY <1>f, <1>o DEF Aged, Onward
  <2>6. \A c \in Snapshot(4)' : \E t \in Txs : c \in root'[t] /\ Aged(Under(t))'
    BY <2>2, <2>5 DEF Snapshots
  <2>7. \A t \in Snapshot(5)' : t \in Txs /\ root'[t] # {} /\ Aged(Under(t))'
    BY <2>2, <2>5 DEF Snapshots
  <2> QED BY <2>3, <2>4, <2>6, <2>7 DEF Snapshots
<1> QED BY <1>1, <1>2

-----------------------------------------------------------------------------
(* The branches of proofs                                                  *)

\* What fits together stays so.
StillCoherent(id, p) ==
    /\ p.agg \in Aggs /\ id \in drained'[p.agg].ids
    /\ p.cal \in Cals /\ p.agg \in calAggs'[p.cal]
    /\ p.tx # NoTx /\ Once(id)' => p.path = p.tx /\ p.cal \in root'[p.tx]

LEMMA CoherentKept ==
    ASSUME TypeOK, TypeOK', Histories, Onward
    PROVE  \A id : \A p \in Proofs : Coherent(id, p) => StillCoherent(id, p)
<1> TAKE id
<1> TAKE p \in Proofs
<1> HAVE Coherent(id, p)
<1>1. p.agg \in Used /\ calAggs[p.cal] # {} /\ p.tx \in Txs \cup {NoTx}
  BY DEF Coherent, Used, Proofs, NoProof
<1>2. drained'[p.agg] = drained[p.agg] /\ calAggs'[p.cal] = calAggs[p.cal]
  BY <1>1 DEF Onward, Coherent
<1>3. Once(id)' => Once(id)
  BY OnwardFacts
<1>4. p.tx # NoTx /\ Once(id)' => p.path = p.tx /\ p.cal \in root'[p.tx]
  BY <1>1, <1>3 DEF Coherent, Onward
<1> QED BY <1>2, <1>4 DEF Coherent, StillCoherent

\* GetProofIdsByBtcTxId goes from rows to rows.
LEMMA ProofIdsByRows ==
    ASSUME TypeOK, NEW t, NEW id
    PROVE  id \in GetProofIdsByBtcTxId(t) <=>
              \E o, c, a : /\ <<t, o>> \in btcTx.byKey /\ <<o, c>> \in anchor.byKey
                           /\ <<c, a>> \in cal.byKey /\ <<a, id>> \in agg.byKey
<1>0. /\ agg \in Tables(Aggs, Ids) /\ cal \in Tables(Cals, Aggs)
      /\ anchor \in Tables(Txs, Cals) /\ btcTx \in Tables(Txs, Txs)
  BY DEF TypeOK
<1>1. /\ \A k, o : o \in ByKey(btcTx, k) <=> <<k, o>> \in btcTx.byKey
      /\ \A k, o : o \in ByKey(anchor, k) <=> <<k, o>> \in anchor.byKey
      /\ \A k, o : o \in ByKey(cal, k) <=> <<k, o>> \in cal.byKey
      /\ \A k, o : o \in ByKey(agg, k) <=> <<k, o>> \in agg.byKey
  BY <1>0, TableRows
<1> DEFINE cals == UNION {ByKey(anchor, o) : o \in ByKey(btcTx, t)}
           aggs == UNION {ByKey(cal, c) : c \in cals}
<1>2. GetProofIdsByBtcTxId(t) = UNION {ByKey(agg, a) : a \in aggs}
  BY DEF GetProofIdsByBtcTxId
<1>3. \A c : c \in cals <=> \E o : o \in ByKey(btcTx, t) /\ c \in ByKey(anchor, o)
  OBVIOUS
<1>4. \A a : a \in aggs <=> \E c : c \in cals /\ a \in ByKey(cal, c)
  <2> HIDE DEF cals
  <2> QED OBVIOUS
<1>5. id \in GetProofIdsByBtcTxId(t) <=> \E a : a \in aggs /\ id \in ByKey(agg, a)
  <2> HIDE DEF aggs
  <2> QED BY <1>2
<1> HIDE DEF cals, aggs
<1> QED BY <1>1, <1>3, <1>4, <1>5, Zenon

\* The proofs of an anchor are of CALs under it.
LEMMA BtcCoherent ==
    ASSUME TypeOK, RowsMarked, Histories, RowsTrue, NEW t \in Txs, NEW id \in DOMAIN BtcProofs(t)
    PROVE  LET p == BtcProofs(t)[id]
           IN  Coherent(id, p) /\ p.cal \in indexed /\ p.tx # NoTx
<1> DEFINE p == BtcProofs(t)[id]
<1>1. /\ id \in GetProofIdsByBtcTxId(t) /\ id \in Ids /\ p \in Proofs
      /\ p.agg \in Aggs /\ p.cal \in Cals /\ p.path \in Txs /\ p.tx = t
      /\ <<p.agg, id>> \in agg.byOwner /\ <<p.cal, p.agg>> \in cal.byOwner
      /\ <<p.path, p.cal>> \in anchor.byOwner
  BY BtcProofsType
<1>0. /\ \A k, o : <<k, o>> \in agg.byOwner => o \in drained[k].ids
      /\ \A k, o : <<k, o>> \in cal.byOwner => o \in calAggs[k]
      /\ \A k, o : <<k, o>> \in anchor.byOwner => o \in root[k]
      /\ \A k, o : <<k, o>> \in btcTx.byOwner => k = o
  <2>1. \A k, o : <<k, o>>[1] = k /\ <<k, o>>[2] = o
    OBVIOUS
  <2> QED BY <2>1, Zenon DEF RowsTrue
<1> HIDE DEF p
<1>2. id \in drained[p.agg].ids /\ p.agg \in calAggs[p.cal] /\ p.cal \in root[p.path]
  BY <1>0, <1>1
<1>3. p.cal \in indexed
  BY <1>1, <1>2 DEF Histories
<1>4. ASSUME Once(id)
      PROVE  p.path = t
  <2>1. PICK o, c, a : /\ <<t, o>> \in btcTx.byKey /\ <<o, c>> \in anchor.byKey
                       /\ <<c, a>> \in cal.byKey /\ <<a, id>> \in agg.byKey
    BY <1>1, ProofIdsByRows
  <2>2. /\ <<t, o>> \in btcTx.byOwner /\ <<o, c>> \in anchor.byOwner
        /\ <<c, a>> \in cal.byOwner /\ <<a, id>> \in agg.byOwner
    BY <2>1 DEF RowsMarked
  <2>3. t = o /\ c \in root[t] /\ a \in calAggs[c] /\ id \in drained[a].ids
    BY <1>0, <2>2
  <2>4. c \in Cals /\ a \in Aggs
    BY <2>3 DEF TypeOK
  <2>5. a \in AggsOf(id) /\ p.agg \in AggsOf(id)
    BY <1>1, <1>2, <2>3, <2>4 DEF AggsOf
  <2>6. a = p.agg
    BY <1>4, <2>5, OnceInOne
  <2>7. c = p.cal
    BY <1>1, <1>2, <2>3, <2>4, <2>6 DEF Histories
  <2> QED BY <1>1, <1>2, <2>3, <2>7 DEF Histories
<1>5. p.tx # NoTx
  BY <1>1, StoreAssumption
<1>6. Coherent(id, p)
  BY <1>1, <1>2, <1>4 DEF Coherent
<1> QED BY <1>3, <1>5, <1>6 DEF p

LEMMA InHandStep ==
    ASSUME TypeOK, TypeOK', RowsMarked, Histories, RowsTrue, InHand, [Next]_vars
    PROVE  InHand'
<1> USE EmptyBatch DEF chain, tables, history
<1>o. Onward
  BY OnwardStep
<1>t. /\ work \in [Cals -> [pc : {"idle", "broadcast", "write", "cache"}, new : Batches]]
      /\ confirm \in [Txs -> [pc : {"none", "waiting", "write", "done"}, new : Batches]]
      /\ \A b \in Batches : \A id \in DOMAIN b : b[id] \in Proofs
  BY BatchType DEF TypeOK
\* Batches that stay, or go, are coherent.
<1>a. ASSUME NEW c \in Cals, NEW id, id \in DOMAIN work[c].new
      PROVE  StillCoherent(id, work[c].new[id]) /\ work[c].new[id].cal = c
  BY <1>a, <1>o, <1>t, CoherentKept DEF InHand
<1>b. ASSUME NEW t \in Txs, NEW id, id \in DOMAIN confirm[t].new
      PROVE  LET p == confirm[t].new[id]
             IN  StillCoherent(id, p) /\ p.cal \in indexed' /\ p.tx # NoTx
  BY <1>b, <1>o, <1>t, CoherentKept DEF InHand, Onward
<1>1. ASSUME NEW c \in Cals, NEW id, id \in DOMAIN work'[c].new
      PROVE  StillCoherent(id, work'[c].new[id]) /\ work'[c].new[id].cal = c
  <2>1. CASE work'[c].new = work[c].new
    BY <1>1, <1>a, <2>1
  <2>2. CASE work'[c].new = << >>
    BY <1>1, <2>2
  <2>3. CASE GenerateCalBatch(c)
    <3>1. work'[c].new = Replaceable(CalProofs(c))
      BY <1>t, <2>3 DEF GenerateCalBatch
    <3>2. id \in DOMAIN CalProofs(c) /\ work'[c].new[id] = CalProofs(c)[id]
      BY <1>1, <3>1, ReplaceableType, CalProofsType
    <3>3. LET p == CalProofs(c)[id]
          IN  /\ p \in Proofs /\ p.agg \in calAggs[c] /\ id \in drained[p.agg].ids
              /\ p.cal = c /\ p.tx = NoTx
      BY <3>2, CalProofsType
    <3>4. Coherent(id, CalProofs(c)[id])
      BY <3>3 DEF Coherent, TypeOK
    <3> QED BY <1>o, <3>2, <3>3, <3>4, CoherentKept
  <2>4. work'[c].new = work[c].new \/ work'[c].new = << >> \/ GenerateCalBatch(c)
    <3>1. ASSUME NEW d \in Cals, BroadcastFails(d) \/ GenerateCalBatch(d) \/ WriteCalBatch(d)
                                 \/ CacheRoot(d)
          PROVE  <2>4
      BY <1>t, <3>1 DEF BroadcastFails, GenerateCalBatch, WriteCalBatch, CacheRoot, NoWork
    <3>2. ASSUME NEW d \in Cals, NEW S \in SUBSET Ids, AnchorCalendar(d, S)
          PROVE  <2>4
      BY <1>t, <3>2 DEF AnchorCalendar
    <3>3. CASE Crash
      BY <3>3 DEF Crash, NoWork
    <3>4. CASE work' = work
      BY <3>4
    <3> QED
      BY <3>1, <3>2, <3>3, <3>4
        DEF Next, vars, HashHandler, LnPaymentHandler, Index, DeleteCached, BeginTxMonitor,
            GenerateBtcBatch, WriteBtcBatch, StartPrune, PruneTable, Tick
  <2> QED BY <2>1, <2>2, <2>3, <2>4
<1>2. ASSUME NEW t \in Txs, NEW id, id \in DOMAIN confirm'[t].new
      PROVE  LET p == confirm'[t].new[id]
             IN  StillCoherent(id, p) /\ p.cal \in indexed' /\ p.tx # NoTx
  <2>1. CASE confirm'[t].new = confirm[t].new
    BY <1>2, <1>b, <2>1
  <2>2. CASE confirm'[t].new = << >>
    BY <1>2, <2>2
  <2>3. CASE GenerateBtcBatch(t) /\ confirm'[t].new = Replaceable(BtcProofs(t))
    <3>1. id \in DOMAIN BtcProofs(t) /\ confirm'[t].new[id] = BtcProofs(t)[id]
      <4>1. PICK b : b = BtcProofs(t)
        OBVIOUS
      <4>2. DOMAIN b \subseteq Ids /\ \A i \in DOMAIN b : b[i] \in Proofs
        BY <4>1, BtcProofsType
      <4>3. /\ \A i : i \in DOMAIN Replaceable(b) => i \in DOMAIN b
            /\ \A i \in DOMAIN Replaceable(b) : Replaceable(b)[i] = b[i]
        BY <4>2, ReplaceableType
      <4> QED BY <1>2, <2>3, <4>1, <4>3
    <3>2. LET p == BtcProofs(t)[id]
          IN  Coherent(id, p) /\ p.cal \in indexed /\ p.tx # NoTx /\ p \in Proofs
      BY <3>1, BtcCoherent, BtcProofsType
    <3>3. indexed \subseteq indexed'
      BY <1>o DEF Onward
    <3> QED BY <1>o, <3>1, <3>2, <3>3, CoherentKept
  <2>4. \/ confirm'[t].new = confirm[t].new \/ confirm'[t].new = << >>
        \/ GenerateBtcBatch(t) /\ confirm'[t].new = Replaceable(BtcProofs(t))
    <3>1. ASSUME NEW u \in Txs, GenerateBtcBatch(u) \/ WriteBtcBatch(u)
          PROVE  <2>4
      BY <1>t, <3>1 DEF GenerateBtcBatch, WriteBtcBatch
    <3>2. ASSUME NEW u \in Txs, NEW S \in SUBSET Cals, BeginTxMonitor(u, S)
          PROVE  <2>4
      BY <1>t, <3>2 DEF BeginTxMonitor
    <3>3. CASE Crash
      BY <1>t, <3>3 DEF Crash
    <3>4. CASE confirm' = confirm
      BY <3>4
    <3> QED
      BY <3>1, <3>2, <3>3, <3>4
        DEF Next, vars, HashHandler, LnPaymentHandler, AnchorCalendar, BroadcastFails,
            GenerateCalBatch, WriteCalBatch, CacheRoot, Index, DeleteCached, StartPrune,
            PruneTable, Tick
  <2> QED BY <2>1, <2>2, <2>3, <2>4
<1>3. ASSUME NEW c \in Cals, NEW id, id \in DOMAIN work'[c].new
      PROVE  Coherent(id, work[c].new[id])' /\ work'[c].new[id].cal = c
  BY <1>1, <1>3 DEF Coherent, StillCoherent
<1>4. ASSUME NEW t \in Txs, NEW id, id \in DOMAIN confirm'[t].new
      PROVE  LET p == confirm[t].new[id]
             IN  Coherent(id, p)' /\ p'.cal \in indexed' /\ p'.tx # NoTx
  BY <1>2, <1>4 DEF Coherent, StillCoherent
<1> QED BY <1>3, <1>4 DEF InHand, Coherent

-----------------------------------------------------------------------------
(* Steps seen from one goroutine, one confirmation, one proof              *)

LEMMA WorkMoves ==
    ASSUME TypeOK, [Next]_vars, NEW c \in Cals
    PROVE  \/ work'[c] = work[c]
           \/ \E S \in SUBSET Ids : AnchorCalendar(c, S) /\ work'[c].pc = "broadcast"
           \/ BroadcastFails(c) /\ work'[c] = NoWork
           \/ GenerateCalBatch(c) /\ work'[c] = [pc |-> "write", new |-> Replaceable(CalProofs(c))]
           \/ WriteCalBatch(c) /\ work'[c] = [pc |-> "cache", new |-> << >>]
           \/ CacheRoot(c) /\ work'[c] = NoWork
           \/ Crash /\ work'[c] = NoWork
<1> USE DEF TypeOK
<1> DEFINE Goal == \/ work'[c] = work[c]
                   \/ \E S \in SUBSET Ids : AnchorCalendar(c, S) /\ work'[c].pc = "broadcast"
                   \/ BroadcastFails(c) /\ work'[c] = NoWork
                   \/ GenerateCalBatch(c)
                      /\ work'[c] = [pc |-> "write", new |-> Replaceable(CalProofs(c))]
                   \/ WriteCalBatch(c) /\ work'[c] = [pc |-> "cache", new |-> << >>]
                   \/ CacheRoot(c) /\ work'[c] = NoWork
                   \/ Crash /\ work'[c] = NoWork
<1>1. ASSUME NEW d \in Cals, NEW S \in SUBSET Ids, AnchorCalendar(d, S)
      PROVE  Goal
  <2>1. work' = [work EXCEPT ![d].pc = "broadcast"]
    BY <1>1 DEF AnchorCalendar
  <2>2. CASE d = c
    BY <1>1, <2>1, <2>2
  <2>3. CASE d # c
    BY <2>1, <2>3
  <2> QED BY <2>2, <2>3
<1>2. ASSUME NEW d \in Cals, BroadcastFails(d)
      PROVE  Goal
  <2>1. work' = [work EXCEPT ![d] = NoWork]
    BY <1>2 DEF BroadcastFails
  <2> QED BY <1>2, <2>1
<1>3. ASSUME NEW d \in Cals, GenerateCalBatch(d)
      PROVE  Goal
  <2>1. work' = [work EXCEPT ![d] = [pc |-> "write", new |-> Replaceable(CalProofs(d))]]
    BY <1>3 DEF GenerateCalBatch
  <2> QED BY <1>3, <2>1
<1>4. ASSUME NEW d \in Cals, WriteCalBatch(d)
      PROVE  Goal
  <2>1. work' = [work EXCEPT ![d] = [pc |-> "cache", new |-> << >>]]
    BY <1>4 DEF WriteCalBatch
  <2> QED BY <1>4, <2>1
<1>5. ASSUME NEW d \in Cals, CacheRoot(d)
      PROVE  Goal
  <2>1. work' = [work EXCEPT ![d] = NoWork]
    BY <1>5 DEF CacheRoot
  <2> QED BY <1>5, <2>1
<1>6. CASE Crash
  <2>1. work' = [d \in Cals |-> NoWork]
    BY <1>6 DEF Crash
  <2> QED BY <1>6, <2>1
<1>7. CASE work' = work
  BY <1>7
<1> QED
  BY <1>1, <1>2, <1>3, <1>4, <1>5, <1>6, <1>7
    DEF Next, vars, HashHandler, LnPaymentHandler, Index, DeleteCached, BeginTxMonitor,
        GenerateBtcBatch, WriteBtcBatch, StartPrune, PruneTable, Tick

\* The batch GenerateBtcBatch comes to.
BtcBatch(t) == IF GetBTCTxStateObjectByBtcHeadState(t) = {} THEN << >>
               ELSE Replaceable(BtcProofs(t))

LEMMA ConfirmMoves ==
    ASSUME TypeOK, [Next]_vars, NEW t \in Txs
    PROVE  \/ confirm'[t] = confirm[t]
           \/ \E S \in SUBSET Cals : BeginTxMonitor(t, S) /\ confirm'[t].pc = "waiting"
           \/ GenerateBtcBatch(t) /\ confirm'[t] = [pc |-> "write", new |-> BtcBatch(t)]
           \/ WriteBtcBatch(t) /\ confirm'[t] = [pc |-> "done", new |-> << >>]
           \/ Crash /\ confirm'[t] = [pc |-> "done", new |-> << >>]
<1> USE DEF TypeOK
<1> DEFINE Goal == \/ confirm'[t] = confirm[t]
                   \/ \E S \in SUBSET Cals : BeginTxMonitor(t, S) /\ confirm'[t].pc = "waiting"
                   \/ GenerateBtcBatch(t) /\ confirm'[t] = [pc |-> "write", new |-> BtcBatch(t)]
                   \/ WriteBtcBatch(t) /\ confirm'[t] = [pc |-> "done", new |-> << >>]
                   \/ Crash /\ confirm'[t] = [pc |-> "done", new |-> << >>]
<1>1. ASSUME NEW u \in Txs, NEW S \in SUBSET Cals, BeginTxMonitor(u, S)
      PROVE  Goal
  <2>1. confirm' = [confirm EXCEPT ![u].pc = "waiting"]
    BY <1>1 DEF BeginTxMonitor
  <2>2. CASE u = t
    BY <1>1, <2>1, <2>2
  <2>3. CASE u # t
    BY <2>1, <2>3
  <2> QED BY <2>2, <2>3
<1>2. ASSUME NEW u \in Txs, GenerateBtcBatch(u)
      PROVE  Goal
  <2>1. confirm' = [confirm EXCEPT ![u] = [pc |-> "write", new |-> BtcBatch(u)]]
    BY <1>2 DEF GenerateBtcBatch, BtcBatch
  <2> QED BY <1>2, <2>1
<1>3. ASSUME NEW u \in Txs, WriteBtcBatch(u)
      PROVE  Goal
  <2>1. confirm' = [confirm EXCEPT ![u] = [pc |-> "done", new |-> << >>]]
    BY <1>3 DEF WriteBtcBatch
  <2> QED BY <1>3, <2>1
<1>4. CASE Crash
  BY <1>4 DEF Crash
<1>5. CASE confirm' = confirm
  BY <1>5
<1> QED
  BY <1>1, <1>2, <1>3, <1>4, <1>5
    DEF Next, vars, HashHandler, LnPaymentHandler, AnchorCalendar, BroadcastFails,
        GenerateCalBatch, WriteCalBatch, CacheRoot, Index, DeleteCached, StartPrune,
        PruneTable, Tick

LEMMA ProofMoves ==
    ASSUME TypeOK, PruneSeq, [Next]_vars, NEW id \in Ids
    PROVE  \/ proofs'.proof[id] = proofs.proof[id]
           \/ PruneTable /\ id \in Snapshot(1) /\ proofs'.proof[id] = NoProof
           \/ \E c \in Cals : /\ WriteCalBatch(c) /\ id \in DOMAIN work[c].new
                              /\ proofs'.proof[id] = work[c].new[id]
           \/ \E t \in Txs : /\ WriteBtcBatch(t) /\ id \in DOMAIN confirm[t].new
                             /\ proofs'.proof[id] = confirm[t].new[id]
<1> DEFINE Goal == \/ proofs'.proof[id] = proofs.proof[id]
                   \/ PruneTable /\ id \in Snapshot(1) /\ proofs'.proof[id] = NoProof
                   \/ \E c \in Cals : /\ WriteCalBatch(c) /\ id \in DOMAIN work[c].new
                                      /\ proofs'.proof[id] = work[c].new[id]
                   \/ \E t \in Txs : /\ WriteBtcBatch(t) /\ id \in DOMAIN confirm[t].new
                                     /\ proofs'.proof[id] = confirm[t].new[id]
<1>1. CASE proofs' = proofs
  BY <1>1
<1>2. ASSUME NEW c \in Cals, WriteCalBatch(c)
      PROVE  Goal
  <2>1. BulkInsertProofs(work[c].new) /\ work[c].new \in Batches
    BY <1>2 DEF WriteCalBatch, TypeOK
  <2> QED BY <1>2, <2>1, BulkInsertProofsType
<1>3. ASSUME NEW t \in Txs, WriteBtcBatch(t)
      PROVE  Goal
  <2>1. BulkInsertProofs(confirm[t].new) /\ confirm[t].new \in Batches
    BY <1>3 DEF WriteBtcBatch, TypeOK
  <2> QED BY <1>3, <2>1, BulkInsertProofsType
<1>4. CASE PruneTable
  <2>1. CASE Len(prune) = 1
    <3>1. Snapshot(1) = prune[1]
      BY <2>1 DEF Snapshot
    <3> QED BY <1>4, <2>1, <3>1, PruneTakes
  <2>2. CASE Len(prune) # 1
    BY <1>4, <2>2, PruneTakes
  <2> QED BY <2>1, <2>2
<1> QED
  BY <1>1, <1>2, <1>3, <1>4
    DEF Next, vars, tables, HashHandler, LnPaymentHandler, AnchorCalendar, BroadcastFails,
        GenerateCalBatch, CacheRoot, Index, DeleteCached, BeginTxMonitor, GenerateBtcBatch,
        StartPrune, Tick, Crash

-----------------------------------------------------------------------------
(* What proofs say                                                         *)

LEMMA ProofsCoherentStep ==
    ASSUME TypeOK, TypeOK', PruneSeq, Histories, InHand, ProofsCoherent, [Next]_vars
    PROVE  ProofsCoherent'
<1>o. Onward
  BY OnwardStep
<1> SUFFICES ASSUME NEW id \in Ids, proofs'.proof[id] # NoProof
             PROVE  StillCoherent(id, proofs'.proof[id])
  BY DEF ProofsCoherent, StillCoherent
<1>t. /\ proofs.proof[id] \in Proofs
      /\ \A c \in Cals : \A i \in DOMAIN work[c].new : work[c].new[i] \in Proofs
      /\ \A t \in Txs : \A i \in DOMAIN confirm[t].new : confirm[t].new[i] \in Proofs
  BY BatchType DEF TypeOK
<1>1. CASE proofs'.proof[id] = proofs.proof[id]
  <2>1. Coherent(id, proofs.proof[id])
    BY <1>1 DEF ProofsCoherent, Coherent
  <2> QED BY <1>o, <1>t, <1>1, <2>1, CoherentKept
<1>2. ASSUME NEW c \in Cals, id \in DOMAIN work[c].new, proofs'.proof[id] = work[c].new[id]
      PROVE  StillCoherent(id, proofs'.proof[id])
  BY <1>o, <1>t, <1>2, CoherentKept DEF InHand
<1>3. ASSUME NEW t \in Txs, id \in DOMAIN confirm[t].new, proofs'.proof[id] = confirm[t].new[id]
      PROVE  StillCoherent(id, proofs'.proof[id])
  BY <1>o, <1>t, <1>3, CoherentKept DEF InHand
<1> QED BY <1>1, <1>2, <1>3, ProofMoves

LEMMA CalDataServedStep ==
    ASSUME TypeOK, PruneSeq, Histories, InHand, ProofsCoherent, CalDataServed, [Next]_vars
    PROVE  CalDataServed'
<1> USE DEF chain, tables, history
<1>o. Onward
  BY OnwardStep
<1>1. ASSUME NEW c \in Cals,
             c \in indexed \cup cached \/ c \in mishap.uncached \/ work[c].pc = "cache"
      PROVE  c \in indexed' \cup cached' \/ c \in mishap'.uncached \/ work'[c].pc = "cache"
  <2>1. CASE c \in indexed \/ c \in mishap.uncached
    BY <1>o, <2>1 DEF Onward
  <2>2. CASE c \in cached
    <3>1. cached' = cached \/ \E d \in Cals : CacheRoot(d) \/ DeleteCached(d)
      <4>1. ASSUME NEW d \in Cals, \/ BroadcastFails(d) \/ GenerateCalBatch(d)
                                   \/ WriteCalBatch(d) \/ Index(d)
            PROVE  cached' = cached
        BY <4>1 DEF BroadcastFails, GenerateCalBatch, WriteCalBatch, Index
      <4>2. ASSUME NEW d \in Cals, NEW S \in SUBSET Ids, AnchorCalendar(d, S)
            PROVE  cached' = cached
        BY <4>2 DEF AnchorCalendar
      <4>3. CASE Crash
        BY <4>3 DEF Crash
      <4> QED
        BY <4>1, <4>2, <4>3
          DEF Next, vars, HashHandler, LnPaymentHandler, BeginTxMonitor, GenerateBtcBatch,
              WriteBtcBatch, StartPrune, PruneTable, Tick
    <3>2. ASSUME NEW d \in Cals, CacheRoot(d) \/ DeleteCached(d)
          PROVE  c \in cached' \/ c \in indexed'
      BY <2>2, <3>2 DEF CacheRoot, DeleteCached
    <3> QED BY <2>2, <3>1, <3>2
  <2>3. CASE work[c].pc = "cache"
    <3>1. CASE work'[c] = work[c]
      BY <2>3, <3>1
    <3>2. CASE CacheRoot(c)
      BY <3>2 DEF CacheRoot
    <3>3. CASE Crash
      BY <2>3, <3>3 DEF Crash, TypeOK
    <3>4. \/ work'[c] = work[c] \/ CacheRoot(c) \/ Crash
      BY <2>3, WorkMoves DEF AnchorCalendar, BroadcastFails, GenerateCalBatch, WriteCalBatch
    <3> QED BY <3>1, <3>2, <3>3, <3>4
  <2> QED BY <1>1, <2>1, <2>2, <2>3
<1> SUFFICES ASSUME NEW id \in Ids, proofs'.proof[id] # NoProof
             PROVE  LET c == proofs'.proof[id].cal
                    IN  \/ c \in indexed' \cup cached' \/ c \in mishap'.uncached
                        \/ work'[c].pc = "cache"
  BY DEF CalDataServed, ProofHandler, CalDataHandler
<1>2. CASE proofs'.proof[id] = proofs.proof[id]
  <2>1. proofs.proof[id].cal \in Cals
    BY <1>2 DEF ProofsCoherent
  <2> QED BY <1>1, <1>2, <2>1 DEF CalDataServed, ProofHandler, CalDataHandler
<1>3. ASSUME NEW c \in Cals, WriteCalBatch(c), id \in DOMAIN work[c].new,
             proofs'.proof[id] = work[c].new[id]
      PROVE  proofs'.proof[id].cal = c /\ work'[c].pc = "cache"
  BY <1>3 DEF InHand, WriteCalBatch, TypeOK
<1>4. ASSUME NEW t \in Txs, id \in DOMAIN confirm[t].new, proofs'.proof[id] = confirm[t].new[id]
      PROVE  proofs'.proof[id].cal \in indexed'
  BY <1>4, <1>o DEF InHand, Onward
<1> QED BY <1>2, <1>3, <1>4, ProofMoves

LEMMA RacedStep ==
    ASSUME TypeOK, PruneSeq, Histories, Raced, [Next]_vars
    PROVE  Raced'
<1> USE DEF chain, tables, history
<1>a. mishap.contested \subseteq mishap'.contested
  BY OnwardStep DEF Onward
\* Who writes a proof that another holds too has both on record.
<1>b. ASSUME NEW w \in Writers, NEW o \in Writers \ {w}, mishap'.contested = mishap.contested \cup Contested(w),
             NEW id \in DOMAIN NewOf(w), id \in DOMAIN NewOf(o)
      PROVE  id \in mishap'.contested
  BY <1>b DEF Contested
<1>c. \A t \in Txs : t \notin Cals
  BY StoreAssumption
\* A batch held since before the step.
<1>d. ASSUME NEW o \in Writers, NEW id \in Ids, id \in DOMAIN NewOf(o), HasBtc(id) => id \in mishap.contested,
             HasBtc(id)', ~ (o \in Cals /\ WriteCalBatch(o)), ~ (o \in Txs /\ WriteBtcBatch(o))
      PROVE  id \in mishap'.contested
  <2>1. CASE proofs'.proof[id] = proofs.proof[id]
    BY <1>a, <1>d, <2>1 DEF HasBtc
  <2>2. CASE proofs'.proof[id] = NoProof
    BY <1>d, <2>2 DEF HasBtc, NoProof
  <2>3. ASSUME NEW c \in Cals, WriteCalBatch(c), id \in DOMAIN work[c].new
        PROVE  id \in mishap'.contested
    <3>1. c \in Writers /\ o \in Writers \ {c} /\ NewOf(c) = work[c].new
      BY <1>d, <2>3 DEF Writers, WriteCalBatch, NewOf
    <3>2. mishap'.contested = mishap.contested \cup Contested(c)
      BY <2>3 DEF WriteCalBatch, TypeOK
    <3> QED BY <1>b, <1>d, <2>3, <3>1, <3>2
  <2>4. ASSUME NEW t \in Txs, WriteBtcBatch(t), id \in DOMAIN confirm[t].new
        PROVE  id \in mishap'.contested
    <3>1. t \in Writers /\ o \in Writers \ {t} /\ NewOf(t) = confirm[t].new
      BY <1>c, <1>d, <2>4 DEF Writers, WriteBtcBatch, NewOf
    <3>2. mishap'.contested = mishap.contested \cup Contested(t)
      BY <2>4 DEF WriteBtcBatch, TypeOK
    <3> QED BY <1>b, <1>d, <2>4, <3>1, <3>2
  <2> QED BY <2>1, <2>2, <2>3, <2>4, ProofMoves
<1>t. /\ \A c \in Cals : DOMAIN work[c].new \subseteq Ids
      /\ \A t \in Txs : DOMAIN confirm[t].new \subseteq Ids
  BY BatchType DEF TypeOK
<1>1. ASSUME NEW c \in Cals, work'[c].pc = "write", NEW id \in DOMAIN work'[c].new, HasBtc(id)'
      PROVE  id \in mishap'.contested
  <2>1. CASE GenerateCalBatch(c)
    <3>1. work'[c].new = Replaceable(CalProofs(c)) /\ proofs' = proofs
      BY <2>1 DEF GenerateCalBatch, TypeOK
    <3>2. ~ HasBtc(id)
      BY <1>1, <3>1, CalProofsType, ReplaceableType
    <3> QED BY <1>1, <3>1, <3>2 DEF HasBtc
  <2>2. CASE work'[c] = work[c]
    <3>1. c \in Writers /\ NewOf(c) = work[c].new /\ id \in DOMAIN work[c].new
      BY <1>1, <2>2 DEF Writers, NewOf
    <3>2. ~ WriteCalBatch(c)
      BY <1>1 DEF WriteCalBatch, TypeOK
    <3>3. id \in Ids /\ (HasBtc(id) => id \in mishap.contested)
      BY <1>1, <1>t, <2>2, <3>1 DEF Raced
    <3> QED BY <1>1, <1>c, <1>d, <3>1, <3>2, <3>3
  <2>3. GenerateCalBatch(c) \/ work'[c] = work[c]
    <3>1. /\ work'[c] # NoWork /\ work'[c] # [pc |-> "cache", new |-> << >>]
          /\ work'[c].pc # "broadcast"
      BY <1>1 DEF NoWork
    <3> QED BY <3>1, WorkMoves
  <2> QED BY <2>1, <2>2, <2>3
<1>2. ASSUME NEW t \in Txs, confirm'[t].pc = "write", NEW id \in DOMAIN confirm'[t].new, HasBtc(id)'
      PROVE  id \in mishap'.contested
  <2>1. CASE GenerateBtcBatch(t) /\ confirm'[t] = [pc |-> "write", new |-> BtcBatch(t)]
    <3>1. BtcBatch(t) = Replaceable(BtcProofs(t)) /\ proofs' = proofs
      BY <1>2, <2>1, EmptyBatch DEF GenerateBtcBatch, BtcBatch
    <3>2. ~ HasBtc(id)
      <4>1. DOMAIN BtcProofs(t) \subseteq Ids /\ \A i \in DOMAIN BtcProofs(t) : BtcProofs(t)[i] \in Proofs
        BY BtcProofsType
      <4>2. id \in DOMAIN Replaceable(BtcProofs(t))
        BY <1>2, <2>1, <3>1
      <4> QED BY <4>1, <4>2, ReplaceableType
    <3> QED BY <1>2, <3>1, <3>2 DEF HasBtc
  <2>2. CASE confirm'[t] = confirm[t]
    <3>1. t \in Writers /\ NewOf(t) = confirm[t].new /\ id \in DOMAIN confirm[t].new
      BY <1>2, <1>c, <2>2 DEF Writers, NewOf
    <3>2. ~ WriteBtcBatch(t)
      BY <1>2 DEF WriteBtcBatch, TypeOK
    <3>3. id \in Ids /\ (HasBtc(id) => id \in mishap.contested)
      BY <1>2, <1>t, <2>2, <3>1 DEF Raced
    <3> QED BY <1>2, <1>c, <1>d, <3>1, <3>2, <3>3
  <2> QED BY <1>2, <2>1, <2>2, ConfirmMoves
<1> QED BY <1>1, <1>2 DEF Raced

-----------------------------------------------------------------------------
(* No hash is left without a proof                                         *)

\* Only AnchorCalendar makes aggregations, only BeginTxMonitor anchors.
LEMMA HistoryMoves ==
    ASSUME TypeOK, Histories, [Next]_vars
    PROVE  /\ \A c \in Cals : calAggs'[c] = calAggs[c] \/ \E S \in SUBSET Ids : AnchorCalendar(c, S)
           /\ \A t \in Txs : root'[t] = root[t] \/ \E S \in SUBSET Cals : BeginTxMonitor(t, S)
           /\ \A a \in Aggs : \/ drained'[a] = drained[a]
                              \/ \E c \in Cals, S \in SUBSET Ids :
                                    AnchorCalendar(c, S) /\ a \in calAggs'[c]
<1> USE DEF chain, tables, history
<1>1. CASE UNCHANGED <<drained, calAggs, root>>
  BY <1>1
<1>2. ASSUME NEW c \in Cals, NEW S \in SUBSET Ids, AnchorCalendar(c, S)
      PROVE  /\ \A d \in Cals : calAggs'[d] = calAggs[d] \/ d = c
             /\ root' = root
             /\ \A a \in Aggs : drained'[a] = drained[a] \/ a \in calAggs'[c]
  <2>1. PICK N \in SUBSET Aggs : Makes(c, N)
    BY <1>2, NewAggs
  <2>2. calAggs' = [calAggs EXCEPT ![c] = N] /\ \A a \in Aggs \ N : drained'[a] = drained[a]
    BY <2>1 DEF Makes
  <2>3. calAggs'[c] = N /\ \A d \in Cals \ {c} : calAggs'[d] = calAggs[d]
    BY <2>2 DEF TypeOK
  <2> QED BY <1>2, <2>2, <2>3 DEF AnchorCalendar
<1>3. ASSUME NEW t \in Txs, NEW S \in SUBSET Cals, BeginTxMonitor(t, S)
      PROVE  /\ UNCHANGED <<drained, calAggs>>
             /\ \A u \in Txs : root'[u] = root[u] \/ u = t
  <2>1. root' = [root EXCEPT ![t] = S] /\ UNCHANGED <<drained, calAggs>>
    BY <1>3 DEF BeginTxMonitor
  <2> QED BY <2>1 DEF TypeOK
<1>4. CASE \E c \in Cals, S \in SUBSET Ids : AnchorCalendar(c, S)
  BY <1>2, <1>4
<1>5. CASE \E t \in Txs, S \in SUBSET Cals : BeginTxMonitor(t, S)
  BY <1>3, <1>5
<1> QED
  BY <1>1, <1>4, <1>5
    DEF Next, vars, HashHandler, LnPaymentHandler, BroadcastFails, GenerateCalBatch,
        WriteCalBatch, CacheRoot, Index, DeleteCached, GenerateBtcBatch, WriteBtcBatch,
        StartPrune, PruneTable, Tick, Crash

\* A proof that is pruned is out of its day, if its hash was submitted once.
LEMMA PrunedIsAged ==
    ASSUME Snapshots, NEW id \in Snapshot(1) \cup Snapshot(2), Once(id), NEW a \in AggsOf(id)
    PROVE  ~ Young(a)
<1>1. PICK b \in AggsOf(id) : ~ Young(b)
  BY DEF Snapshots
<1>2. a = b
  BY OnceInOne
<1> QED BY <1>1, <1>2

LEMMA SettledStays ==
    ASSUME TypeOK, TypeOK', PruneSeq, Histories, Snapshots, InHand, [Next]_vars,
           NEW a \in Aggs, NEW id \in drained[a].ids, Settled(a, id)
    PROVE  Settled(a, id)'
<1>o. Onward
  BY OnwardStep
<1>1. id \in Ids /\ a \in Used /\ a \in AggsOf(id)
  BY DEF TypeOK, Used, AggsOf
<1>2. /\ Young(a)' => Young(a)
      /\ Once(id)' => Once(id)
      /\ mishap.lost \subseteq mishap'.lost
  BY <1>o, <1>1, OnwardFacts DEF Onward
<1>3. CASE proofs.proof[id] # NoProof
  <2>1. proofs'.proof[id] # NoProof \/ id \in Snapshot(1)
    <3>1. \A c \in Cals : id \in DOMAIN work[c].new => work[c].new[id].agg # 0
      BY DEF InHand, Coherent, Aggs
    <3>2. \A t \in Txs : id \in DOMAIN confirm[t].new => confirm[t].new[id].agg # 0
      BY DEF InHand, Coherent, Aggs
    <3>3. NoProof.agg = 0
      BY DEF NoProof
    <3> QED BY <1>1, <1>3, <3>1, <3>2, <3>3, ProofMoves
  <2>2. id \in Snapshot(1) /\ Once(id) => ~ Young(a)
    BY <1>1, PrunedIsAged
  <2> QED BY <1>2, <2>1, <2>2 DEF Settled
<1>4. CASE proofs.proof[id] = NoProof
  BY <1>2, <1>4 DEF Settled
<1> QED BY <1>3, <1>4

LEMMA ServedStep ==
    ASSUME TypeOK, TypeOK', PruneSeq, Histories, Snapshots, InHand, Served, [Next]_vars
    PROVE  Served'
<1>o. Onward
  BY OnwardStep
<1> SUFFICES ASSUME NEW c \in Cals, NEW a \in calAggs'[c], NEW id \in drained'[a].ids,
                    work'[c].pc \in {"write", "cache"}
             PROVE  /\ work'[c].pc = "write" => id \in DOMAIN work'[c].new \/ Settled(a, id)'
                    /\ work'[c].pc = "cache" => Settled(a, id)'
  BY DEF Served
<1>1. a \in calAggs[c] /\ a \in Aggs /\ drained'[a] = drained[a] /\ id \in drained[a].ids /\ id \in Ids
  <2>1. calAggs'[c] = calAggs[c]
    <3>1. \A S \in SUBSET Ids : AnchorCalendar(c, S) => work'[c].pc = "broadcast"
      BY DEF AnchorCalendar, TypeOK
    <3> QED BY <3>1, HistoryMoves
  <2>2. a \in Used
    BY <2>1 DEF Histories
  <2> QED BY <1>o, <2>1, <2>2 DEF Onward, Used, TypeOK
<1>2. Settled(a, id) => Settled(a, id)'
  BY <1>1, SettledStays
<1>3. CASE work'[c] = work[c]
  BY <1>1, <1>2, <1>3 DEF Served
<1>4. CASE GenerateCalBatch(c) /\ work'[c] = [pc |-> "write", new |-> Replaceable(CalProofs(c))]
  <2>1. id \in DOMAIN CalProofs(c)
    BY <1>1 DEF CalProofs
  <2>2. id \in DOMAIN Replaceable(CalProofs(c)) \/ HasBtc(id)
    BY <2>1, CalProofsType, ReplaceableType
  <2>3. HasBtc(id) => Settled(a, id)
    BY DEF HasBtc, Settled, NoProof
  <2> QED BY <1>2, <1>4, <2>2, <2>3
<1>5. CASE WriteCalBatch(c) /\ work'[c] = [pc |-> "cache", new |-> << >>]
  <2>1. id \in DOMAIN work[c].new \/ Settled(a, id)
    BY <1>1, <1>5 DEF WriteCalBatch, Served
  <2>2. ASSUME id \in DOMAIN work[c].new
        PROVE  Settled(a, id)'
    <3>1. BulkInsertProofs(work[c].new) /\ work[c].new \in Batches
      BY <1>5 DEF WriteCalBatch, TypeOK
    <3>2. proofs'.proof[id] = work[c].new[id]
      BY <1>1, <2>2, <3>1, BulkInsertProofsType
    <3>3. work[c].new[id].agg \in Aggs
      BY <2>2 DEF InHand, Coherent
    <3> QED BY <3>2, <3>3 DEF Settled, NoProof, Aggs
  <2> QED BY <1>2, <1>5, <2>1, <2>2
<1>6. \/ work'[c] = work[c]
      \/ GenerateCalBatch(c) /\ work'[c] = [pc |-> "write", new |-> Replaceable(CalProofs(c))]
      \/ WriteCalBatch(c) /\ work'[c] = [pc |-> "cache", new |-> << >>]
  <2>1. work'[c] # NoWork /\ work'[c].pc # "broadcast"
    BY DEF NoWork
  <2> QED BY <2>1, WorkMoves
<1> QED BY <1>3, <1>4, <1>5, <1>6

LEMMA HashAccountedStep ==
    ASSUME TypeOK, TypeOK', PruneSeq, Histories, Snapshots, InHand, Served, HashAccounted, [Next]_vars
    PROVE  HashAccounted'
<1>o. Onward
  BY OnwardStep
<1> DEFINE OnTheWay(a) == \E c \in Cals : a \in calAggs[c] /\ (work[c].pc # "idle" \/ c \in mishap.unsent)
<1> SUFFICES ASSUME NEW a \in Aggs, NEW id \in drained'[a].ids
             PROVE  Settled(a, id)' \/ OnTheWay(a)'
  BY DEF HashAccounted, Settled
<1>1. CASE drained'[a] = drained[a]
  <2>1. id \in drained[a].ids /\ (Settled(a, id) => Settled(a, id)')
    BY <1>1, SettledStays
  <2>2. Settled(a, id) \/ OnTheWay(a)
    BY <2>1 DEF HashAccounted, Settled
  <2>3. ASSUME NEW c \in Cals, a \in calAggs[c], work[c].pc # "idle" \/ c \in mishap.unsent
        PROVE  Settled(a, id)' \/ OnTheWay(a)'
    <3>0. a \in calAggs'[c] /\ mishap.unsent \subseteq mishap'.unsent
      BY <1>o, <2>3 DEF Onward
    <3>1. CASE c \in mishap.unsent
      BY <3>0, <3>1
    <3>2. CASE work[c].pc # "idle" /\ work'[c] = work[c]
      BY <3>0, <3>2
    <3>3. CASE work'[c].pc \in {"broadcast", "write", "cache"}
      BY <3>0, <3>3
    <3>4. CASE BroadcastFails(c)
      BY <3>0, <3>4 DEF BroadcastFails, TypeOK
    <3>5. CASE work[c].pc = "cache"
      BY <2>1, <2>3, <3>5 DEF Served
    <3>6. CASE work[c].pc \in {"broadcast", "write"} /\ Crash
      <4> DEFINE D == {d \in Cals : work[d].pc \in {"broadcast", "write"}}
                 L == UNION {drained[b].ids : b \in UNION {calAggs[d] : d \in D}}
      <4>1. mishap'.lost = mishap.lost \cup queued \cup L
        BY <3>6 DEF Crash, TypeOK
      <4>2. c \in D
        BY <3>6
      <4>3. id \in L
        BY <2>1, <2>3, <4>2
      <4> HIDE DEF L
      <4> QED BY <4>1, <4>3 DEF Settled
    <3>7. CacheRoot(c) => work[c].pc = "cache"
      BY DEF CacheRoot
    <3>8. work[c].pc \in {"idle", "broadcast", "write", "cache"}
      BY DEF TypeOK
    <3>9. \/ work'[c] = work[c] \/ work'[c].pc \in {"broadcast", "write", "cache"}
          \/ BroadcastFails(c) \/ CacheRoot(c) \/ Crash
      <4> DEFINE Busy == work'[c].pc \in {"broadcast", "write", "cache"}
      <4>1. \A b : work'[c] = [pc |-> "write", new |-> b] => Busy
        OBVIOUS
      <4>2. \A b : work'[c] = [pc |-> "cache", new |-> b] => Busy
        OBVIOUS
      <4>3. work'[c].pc = "broadcast" => Busy
        OBVIOUS
      <4> HIDE DEF Busy
      <4>4. \/ work'[c] = work[c] \/ Busy \/ BroadcastFails(c) \/ CacheRoot(c) \/ Crash
        BY <4>1, <4>2, <4>3, WorkMoves, Zenon
      <4> QED BY <4>4 DEF Busy
    <3> QED BY <2>3, <3>1, <3>2, <3>3, <3>4, <3>5, <3>6, <3>7, <3>8, <3>9
  <2> QED BY <2>1, <2>2, <2>3
<1>2. ASSUME NEW c \in Cals, NEW S \in SUBSET Ids, AnchorCalendar(c, S), a \in calAggs'[c]
      PROVE  OnTheWay(a)'
  BY <1>2 DEF AnchorCalendar, TypeOK
<1> QED BY <1>1, <1>2, HistoryMoves

-----------------------------------------------------------------------------
(* A confirmed anchor reaches every hash under it                          *)

\* A row by key goes only with a snapshot, when its key has an owner there.
LEMMA RowsLost ==
    ASSUME TypeOK, PruneSeq, [Next]_vars
    PROVE  /\ \A r \in agg.byKey : r \in agg'.byKey \/ \E o \in Snapshot(2) : <<r[1], o>> \in agg.byOwner
           /\ \A r \in cal.byKey : r \in cal'.byKey \/ \E o \in Snapshot(3) : <<r[1], o>> \in cal.byOwner
           /\ \A r \in anchor.byKey :
                 r \in anchor'.byKey \/ \E o \in Snapshot(4) : <<r[1], o>> \in anchor.byOwner
           /\ \A r \in btcTx.byKey :
                 r \in btcTx'.byKey \/ \E o \in Snapshot(5) : <<r[1], o>> \in btcTx.byOwner
<1> USE DEF chain, tables, history
<1>0. /\ agg \in Tables(Aggs, Ids) /\ cal \in Tables(Cals, Aggs)
      /\ anchor \in Tables(Txs, Cals) /\ btcTx \in Tables(Txs, Txs)
  BY DEF TypeOK
<1>1. CASE PruneTable
  <2>0. Len(prune) \in 1..5 /\ \A i \in 1..5 : Len(prune) = i => Snapshot(i) = prune[1]
    <3>1. Len(prune) \in 1..5
      BY <1>1, PruneTakes
    <3>2. \A i \in 1..5 : Len(prune) = i => Len(prune) >= i /\ Len(prune) + 1 - i = 1
      OBVIOUS
    <3> QED BY <3>1, <3>2 DEF Snapshot
  <2>1. \A r \in agg.byKey : r \in agg'.byKey \/ \E o \in Snapshot(2) : <<r[1], o>> \in agg.byOwner
    <3>1. CASE Len(prune) = 2
      <4>1. agg' = Without(agg, Snapshot(2))
        BY <1>1, <2>0, <3>1, PruneTakes
      <4> QED BY <1>0, <4>1, WithoutTable, TableRows
    <3> QED BY <1>1, <3>1, PruneTakes
  <2>2. \A r \in cal.byKey : r \in cal'.byKey \/ \E o \in Snapshot(3) : <<r[1], o>> \in cal.byOwner
    <3>1. CASE Len(prune) = 3
      <4>1. cal' = Without(cal, Snapshot(3))
        BY <1>1, <2>0, <3>1, PruneTakes
      <4> QED BY <1>0, <4>1, WithoutTable, TableRows
    <3> QED BY <1>1, <3>1, PruneTakes
  <2>3. \A r \in anchor.byKey :
           r \in anchor'.byKey \/ \E o \in Snapshot(4) : <<r[1], o>> \in anchor.byOwner
    <3>1. CASE Len(prune) = 4
      <4>1. anchor' = WithoutAnchors(Snapshot(4))
        BY <1>1, <2>0, <3>1, PruneTakes
      <4> QED BY <1>0, <4>1, WithoutAnchorsTable, TableRows
    <3> QED BY <1>1, <3>1, PruneTakes
  <2>4. \A r \in btcTx.byKey :
           r \in btcTx'.byKey \/ \E o \in Snapshot(5) : <<r[1], o>> \in btcTx.byOwner
    <3>1. CASE Len(prune) = 5
      <4>1. btcTx' = Without(btcTx, Snapshot(5))
        BY <1>1, <2>0, <3>1, PruneTakes
      <4> QED BY <1>0, <4>1, WithoutTable, TableRows
    <3> QED BY <1>1, <3>1, PruneTakes
  <2> QED BY <2>1, <2>2, <2>3, <2>4
<1>2. ASSUME NEW table, NEW rows
      PROVE  table.byKey \subseteq Insert(table, rows).byKey
  BY DEF Insert
<1>3. CASE ~ PruneTable
  <2>1. /\ agg' = agg \/ \E rows : agg' = Insert(agg, rows)
        /\ cal' = cal \/ \E rows : cal' = Insert(cal, rows)
        /\ anchor' = anchor \/ \E rows : anchor' = Insert(anchor, rows)
        /\ btcTx' = btcTx \/ \E rows : btcTx' = Insert(btcTx, rows)
    <3>1. CASE UNCHANGED <<agg, cal, anchor, btcTx>>
      BY <3>1
    <3>2. ASSUME NEW c \in Cals, NEW S \in SUBSET Ids, AnchorCalendar(c, S)
          PROVE  <2>1
      <4>1. \E rows : agg' = Insert(agg, rows)
        BY <3>2 DEF AnchorCalendar, BulkInsertAggState
      <4> QED BY <3>2, <4>1 DEF AnchorCalendar
    <3>3. ASSUME NEW c \in Cals, GenerateCalBatch(c)
          PROVE  <2>1
      <4>1. \E rows : cal' = Insert(cal, rows)
        BY <3>3 DEF GenerateCalBatch, BulkInsertCalState
      <4> QED BY <3>3, <4>1 DEF GenerateCalBatch
    <3>4. ASSUME NEW t \in Txs, NEW S \in SUBSET Cals, BeginTxMonitor(t, S)
          PROVE  <2>1
      <4>1. (\E rows : anchor' = Insert(anchor, rows)) /\ (\E rows : btcTx' = Insert(btcTx, rows))
        BY <3>4 DEF BeginTxMonitor, BulkInsertBtcAggState, BulkInsertBtcTxState
      <4> QED BY <3>4, <4>1 DEF BeginTxMonitor
    <3> QED
      BY <1>3, <3>1, <3>2, <3>3, <3>4
        DEF Next, vars, HashHandler, LnPaymentHandler, BroadcastFails, WriteCalBatch, CacheRoot,
            Index, DeleteCached, GenerateBtcBatch, WriteBtcBatch, StartPrune, Tick, Crash
  <2>2. /\ agg.byKey \subseteq agg'.byKey /\ cal.byKey \subseteq cal'.byKey
        /\ anchor.byKey \subseteq anchor'.byKey /\ btcTx.byKey \subseteq btcTx'.byKey
    BY <1>2, <2>1
  <2> QED BY <2>2
<1> QED BY <1>1, <1>3

\* RowsTrue by keys and owners.
LEMMA RowsSay ==
    ASSUME RowsTrue
    PROVE  /\ \A k, o : <<k, o>> \in agg.byOwner => o \in drained[k].ids
           /\ \A k, o : <<k, o>> \in cal.byOwner => o \in calAggs[k]
           /\ \A k, o : <<k, o>> \in anchor.byOwner => o \in root[k]
           /\ \A k, o : <<k, o>> \in btcTx.byOwner => k = o
<1>1. \A k, o : <<k, o>>[1] = k /\ <<k, o>>[2] = o
  OBVIOUS
<1> QED BY <1>1, Zenon DEF RowsTrue

LEMMA RowsThereStep ==
    ASSUME TypeOK, TypeOK', PruneSeq, Histories, RowsTrue, Snapshots, RowsThere, [Next]_vars
    PROVE  RowsThere'
<1>o. Onward
  BY OnwardStep
<1>f. /\ \A a \in Used : Clean(a)' => Clean(a)
      /\ \A a \in Used : Young(a)' => Young(a)
      /\ \A t \in Txs : /\ Under(t) \subseteq Used
                        /\ root[t] # {} => Under(t)' = Under(t)
      /\ \A c \in Cals : calAggs[c] \subseteq Used
  BY <1>o, OnwardFacts
<1>0. /\ agg \in Tables(Aggs, Ids) /\ cal \in Tables(Cals, Aggs)
      /\ anchor \in Tables(Txs, Cals) /\ btcTx \in Tables(Txs, Txs)
  BY DEF TypeOK
<1>p. \A k, o : <<k, o>>[1] = k /\ <<k, o>>[2] = o
  OBVIOUS
<1>1. ASSUME NEW a \in Aggs, Clean(a)', NEW id \in drained'[a].ids
      PROVE  <<a, id>> \in agg'.byKey
  <2>1. CASE a \in Used
    <3>1. Clean(a) /\ id \in drained[a].ids
      BY <1>1, <1>f, <1>o, <2>1 DEF Onward
    <3>2. <<a, id>> \in agg.byKey
      BY <3>1 DEF RowsThere
    <3>3. ASSUME NEW o \in Snapshot(2), <<a, o>> \in agg.byOwner
          PROVE  FALSE
      <4>1. o \in drained[a].ids
        BY <3>3, RowsSay
      <4>2. a \in AggsOf(o) /\ Once(o)
        BY <3>1, <4>1 DEF AggsOf, Clean
      <4>3. ~ Young(a)
        BY <4>2, PrunedIsAged
      <4> QED BY <3>1, <4>3 DEF Clean
    <3> QED BY <1>p, <3>2, <3>3, RowsLost
  <2>2. CASE a \notin Used
    <3>1. drained'[a] # drained[a]
      BY <1>1, <2>2 DEF Used
    <3>2. PICK c \in Cals, S \in SUBSET Ids : AnchorCalendar(c, S) /\ a \in calAggs'[c]
      BY <3>1, HistoryMoves
    <3>3. PICK N \in SUBSET Aggs : Makes(c, N)
      BY <3>2, NewAggs
    <3>4. a \in N /\ id \in Ids
      BY <1>1, <3>1, <3>3 DEF Makes, TypeOK
    <3>5. PICK rows \in SUBSET (Aggs \X Ids) :
             /\ agg' = Insert(agg, rows)
             /\ \A b \in Aggs, i \in Ids : <<b, i>> \in rows <=> b \in N /\ i \in drained'[b].ids
      BY <3>3 DEF Makes
    <3>6. <<a, id>> \in rows
      BY <1>1, <3>4, <3>5
    <3> QED BY <1>0, <3>5, <3>6, InsertTable
  <2> QED BY <2>1, <2>2
<1>2. ASSUME NEW c \in Cals, NEW a \in calAggs'[c], Clean(a)', ~ drained'[a].ids \subseteq mishap'.lost,
             work'[c].pc # "broadcast", c \notin mishap'.unsent
      PROVE  <<c, a>> \in cal'.byKey
  <2>1. calAggs'[c] = calAggs[c]
    <3>1. \A S \in SUBSET Ids : AnchorCalendar(c, S) => work'[c].pc = "broadcast"
      BY DEF AnchorCalendar, TypeOK
    <3> QED BY <1>2, <3>1, HistoryMoves
  <2>2. a \in calAggs[c] /\ a \in Used /\ a \in Aggs
    BY <1>2, <1>f, <2>1 DEF Used
  <2>3. /\ Clean(a) /\ drained'[a] = drained[a] /\ ~ drained[a].ids \subseteq mishap.lost
        /\ c \notin mishap.unsent
    BY <1>2, <1>f, <1>o, <2>2 DEF Onward
  <2>4. CASE work[c].pc # "broadcast"
    <3>1. <<c, a>> \in cal.byKey
      BY <2>2, <2>3, <2>4 DEF RowsThere
    <3>2. ASSUME NEW o \in Snapshot(3), <<c, o>> \in cal.byOwner
          PROVE  FALSE
      <4>1. o \in calAggs[c] /\ ~ Young(o)
        BY <3>2, RowsSay DEF Snapshots
      <4>2. drained[o].at = drained[a].at
        BY <2>2, <4>1 DEF Histories
      <4> QED BY <2>3, <4>1, <4>2 DEF Clean, Young
    <3> QED BY <1>p, <3>1, <3>2, RowsLost
  <2>5. CASE work[c].pc = "broadcast"
    <3>1. CASE GenerateCalBatch(c)
      <4>1. CreateCalStateMessage(c) \in SUBSET (Cals \X Aggs)
        BY DEF CreateCalStateMessage, GenerateCalendarTree, TypeOK
      <4>2. cal'.byKey = cal.byKey \cup CreateCalStateMessage(c)
        BY <1>0, <3>1, <4>1, InsertTable DEF GenerateCalBatch, BulkInsertCalState
      <4>3. <<c, a>> \in CreateCalStateMessage(c)
        BY <2>2 DEF CreateCalStateMessage, GenerateCalendarTree
      <4> QED BY <4>2, <4>3
    <3>2. CASE BroadcastFails(c)
      BY <1>2, <3>2 DEF BroadcastFails, TypeOK
    <3>3. CASE Crash
      <4> DEFINE D == {d \in Cals : work[d].pc \in {"broadcast", "write"}}
                 L == UNION {drained[b].ids : b \in UNION {calAggs[d] : d \in D}}
      <4>1. mishap'.lost = mishap.lost \cup queued \cup L
        BY <3>3 DEF Crash, TypeOK
      <4>2. c \in D
        BY <2>5
      <4>3. drained[a].ids \subseteq L
        BY <2>2, <4>2
      <4> HIDE DEF L
      <4> QED BY <1>2, <2>3, <4>1, <4>3
    <3>4. GenerateCalBatch(c) \/ BroadcastFails(c) \/ Crash
      <4>1. \A S : ~ AnchorCalendar(c, S)
        BY <2>5 DEF AnchorCalendar
      <4>2. ~ WriteCalBatch(c) /\ ~ CacheRoot(c) /\ work'[c] # work[c]
        BY <1>2, <2>5 DEF WriteCalBatch, CacheRoot
      <4> QED BY <4>1, <4>2, WorkMoves, Zenon
    <3> QED BY <3>1, <3>2, <3>3, <3>4
  <2> QED BY <2>4, <2>5
<1>3. ASSUME NEW t \in Txs, ~ Aged(Under(t))'
      PROVE  <<t, t>> \in btcTx'.byKey /\ \A c \in root'[t] : <<t, c>> \in anchor'.byKey
  <2>1. CASE root'[t] = root[t]
    <3>0. root[t] # {}
      BY <1>3, <2>1 DEF Aged, Under
    <3>1. ~ Aged(Under(t))
      BY <1>3, <1>f, <3>0 DEF Aged
    <3>2. <<t, t>> \in btcTx.byKey /\ \A c \in root[t] : <<t, c>> \in anchor.byKey
      BY <3>1 DEF RowsThere
    <3>3. ASSUME NEW o \in Snapshot(5), <<t, o>> \in btcTx.byOwner
          PROVE  FALSE
      <4>1. t = o
        BY <3>3, RowsSay
      <4> QED BY <3>1, <4>1 DEF Snapshots
    <3>4. ASSUME NEW o \in Snapshot(4), <<t, o>> \in anchor.byOwner
          PROVE  FALSE
      <4>1. o \in root[t]
        BY <3>4, RowsSay
      <4>2. PICK u \in Txs : o \in root[u] /\ Aged(Under(u))
        BY DEF Snapshots
      <4>3. u = t
        BY <4>1, <4>2 DEF Histories
      <4> QED BY <3>1, <4>2, <4>3
    <3>5. <<t, t>> \in btcTx'.byKey
      BY <1>p, <3>2, <3>3, RowsLost
    <3>6. \A c \in root[t] : <<t, c>> \in anchor'.byKey
      BY <1>p, <3>2, <3>4, RowsLost
    <3> QED BY <2>1, <3>5, <3>6
  <2>2. ASSUME NEW S \in SUBSET Cals, BeginTxMonitor(t, S)
        PROVE  <<t, t>> \in btcTx'.byKey /\ \A c \in root'[t] : <<t, c>> \in anchor'.byKey
    <3>1. /\ GenerateAnchorBtcTxState(t) \in SUBSET (Txs \X Txs)
          /\ PrepareBtcaStateData(t, S) \in SUBSET (Txs \X Cals)
      BY DEF GenerateAnchorBtcTxState, PrepareBtcaStateData
    <3>2. btcTx'.byKey = btcTx.byKey \cup GenerateAnchorBtcTxState(t)
      BY <1>0, <2>2, <3>1, InsertTable DEF BeginTxMonitor, BulkInsertBtcTxState
    <3>3. anchor'.byKey = anchor.byKey \cup PrepareBtcaStateData(t, S)
      BY <1>0, <2>2, <3>1, InsertTable DEF BeginTxMonitor, BulkInsertBtcAggState
    <3>4. root'[t] = S
      BY <2>2 DEF BeginTxMonitor, TypeOK
    <3> QED BY <3>2, <3>3, <3>4 DEF GenerateAnchorBtcTxState, PrepareBtcaStateData
  <2> QED BY <2>1, <2>2, HistoryMoves
<1> QED BY <1>1, <1>2, <1>3 DEF RowsThere

LEMMA BatchedStep ==
    ASSUME TypeOK, TypeOK', PruneSeq, RowsMarked, Histories, RowsTrue, Snapshots, InHand,
           RowsThere, Batched, [Next]_vars
    PROVE  Batched'
<1>o. Onward
  BY OnwardStep
<1> SUFFICES ASSUME NEW t \in Txs, confirm'[t].pc = "write", NEW a \in Under(t)', Clean(a)',
                    NEW id \in drained'[a].ids \ mishap'.lost
             PROVE  id \in DOMAIN confirm'[t].new \/ HasBtc(id)'
  BY DEF Batched
<1>1. root'[t] = root[t] /\ root[t] # {} /\ Under(t)' = Under(t)
  <2>1. \A S \in SUBSET Cals : BeginTxMonitor(t, S) => confirm'[t].pc = "waiting"
    BY DEF BeginTxMonitor, TypeOK
  <2>2. root'[t] = root[t]
    BY <2>1, HistoryMoves
  <2>3. root[t] # {}
    BY <2>2 DEF Under
  <2> QED BY <1>o, <2>2, <2>3, OnwardFacts
<1>2. /\ a \in Used /\ a \in Aggs /\ Clean(a) /\ a \in Under(t)
      /\ id \in drained[a].ids \ mishap.lost /\ id \in Ids
  <2>1. a \in Used
    BY <1>o, <1>1, OnwardFacts
  <2>2. drained'[a] = drained[a] /\ mishap.lost \subseteq mishap'.lost
    BY <1>o, <2>1 DEF Onward
  <2> QED BY <1>o, <1>1, <2>1, <2>2, OnwardFacts DEF Used, TypeOK
<1>3. PICK c \in root[t] : a \in calAggs[c]
  BY <1>2 DEF Under
<1>4. c \in Cals /\ c \in indexed /\ work[c].pc = "idle" /\ c \notin mishap.unsent
  BY <1>3 DEF Histories, TypeOK
<1>5. CASE GenerateBtcBatch(t) /\ confirm'[t] = [pc |-> "write", new |-> BtcBatch(t)]
  <2>1. <<a, id>> \in agg.byKey
    BY <1>2 DEF RowsThere
  <2>2. <<c, a>> \in cal.byKey
    <3>1. ~ drained[a].ids \subseteq mishap.lost
      BY <1>2
    <3> QED BY <1>2, <1>3, <1>4, <3>1 DEF RowsThere
  <2>3. <<t, t>> \in btcTx.byKey /\ <<t, c>> \in anchor.byKey
    <3>1. ~ Aged(Under(t))
      BY <1>2 DEF Aged, Clean
    <3> QED BY <1>3, <3>1 DEF RowsThere
  <2>4. id \in GetProofIdsByBtcTxId(t)
    BY <2>1, <2>2, <2>3, ProofIdsByRows
  <2>5. RowProofs(id, t) # {}
    <3>1. /\ <<a, id>> \in agg.byOwner /\ <<c, a>> \in cal.byOwner /\ <<t, c>> \in anchor.byOwner
      BY <2>1, <2>2, <2>3 DEF RowsMarked
    <3>2. /\ agg \in Tables(Aggs, Ids) /\ cal \in Tables(Cals, Aggs) /\ anchor \in Tables(Txs, Cals)
      BY DEF TypeOK
    <3>3. a \in GetAggStateObjectsByProofIds(id)
      BY <3>1, <3>2, TableRows DEF GetAggStateObjectsByProofIds
    <3>4. c \in GetCalStateObjectsByAggIds(a)
      BY <3>1, <3>2, TableRows DEF GetCalStateObjectsByAggIds
    <3>5. t \in GetAnchorBTCAggStateObjectsByCalIds(c)
      BY <3>1, <3>2, TableRows DEF GetAnchorBTCAggStateObjectsByCalIds
    <3>6. PICK r : r = <<a, c, t>>
      OBVIOUS
    <3>7. r \in Aggs \X Cals \X Txs /\ r[1] = a /\ r[2] = c /\ r[3] = t
      BY <1>2, <1>4, <3>6
    <3> QED BY <3>3, <3>4, <3>5, <3>7 DEF RowProofs
  <2>6. id \in DOMAIN BtcProofs(t)
    BY <2>4, <2>5 DEF BtcProofs
  <2>7. t \in GetBTCTxStateObjectByBtcHeadState(t)
    BY <2>3, TableRows DEF GetBTCTxStateObjectByBtcHeadState, TypeOK
  <2>8. confirm'[t].new = Replaceable(BtcProofs(t)) /\ proofs' = proofs
    BY <1>5, <2>7 DEF BtcBatch, GenerateBtcBatch, tables
  <2>9. id \in DOMAIN Replaceable(BtcProofs(t)) \/ HasBtc(id)
    <3>1. DOMAIN BtcProofs(t) \subseteq Ids /\ \A i \in DOMAIN BtcProofs(t) : BtcProofs(t)[i] \in Proofs
      BY BtcProofsType
    <3> QED BY <2>6, <3>1, ReplaceableType
  <2> QED BY <2>8, <2>9 DEF HasBtc
<1>6. CASE confirm'[t] = confirm[t]
  <2>1. id \in DOMAIN confirm[t].new \/ HasBtc(id)
    BY <1>2, <1>6 DEF Batched
  <2>2. ASSUME HasBtc(id)
        PROVE  HasBtc(id)'
    <3>0. Once(id) /\ a \in AggsOf(id) /\ Young(a)
      BY <1>2 DEF Clean, AggsOf
    <3>1. CASE proofs'.proof[id] = proofs.proof[id]
      BY <2>2, <3>1 DEF HasBtc
    <3>2. id \notin Snapshot(1)
      BY <3>0, PrunedIsAged
    <3>3. ASSUME NEW d \in Cals, WriteCalBatch(d), id \in DOMAIN work[d].new
          PROVE  FALSE
      <4> DEFINE b == work[d].new[id].agg
      <4>1. b \in Aggs /\ id \in drained[b].ids /\ b \in calAggs[d]
        BY <3>3 DEF InHand, Coherent
      <4>2. b \in AggsOf(id)
        BY <4>1 DEF AggsOf
      <4> HIDE DEF b
      <4>3. a = b
        BY <3>0, <4>2, OnceInOne
      <4>4. c = d
        BY <1>3, <1>4, <4>1, <4>3 DEF Histories
      <4> QED BY <1>4, <3>3, <4>4 DEF WriteCalBatch
    <3>4. ASSUME NEW u \in Txs, id \in DOMAIN confirm[u].new, proofs'.proof[id] = confirm[u].new[id]
          PROVE  HasBtc(id)'
      BY <3>4 DEF InHand, HasBtc
    <3> QED BY <1>2, <3>1, <3>2, <3>3, <3>4, ProofMoves
  <2> QED BY <1>6, <2>1, <2>2
<1>7. \/ confirm'[t] = confirm[t]
      \/ GenerateBtcBatch(t) /\ confirm'[t] = [pc |-> "write", new |-> BtcBatch(t)]
  <2>1. confirm'[t] # [pc |-> "done", new |-> << >>] /\ confirm'[t].pc # "waiting"
    OBVIOUS
  <2> QED BY <2>1, ConfirmMoves
<1> QED BY <1>5, <1>6, <1>7

-----------------------------------------------------------------------------
(* The theorems                                                            *)

\* The states before the first step satisfy the invariant.
LEMMA InitStoreInv == Init => StoreInv
<1> SUFFICES ASSUME Init PROVE StoreInv
  OBVIOUS
<1> USE StoreAssumption, EmptyBatch
<1>0. 0 \in Time /\ MaxAggs \in Nat /\ Never \in Time \cup {Never} /\ NoProof \in Proofs
  BY DEF Time, Proofs
<1>1. TypeOK /\ PruneSeq
  <2>1. /\ agg \in Tables(Aggs, Ids) /\ cal \in Tables(Cals, Aggs)
        /\ anchor \in Tables(Txs, Cals) /\ btcTx \in Tables(Txs, Txs)
    BY DEF Init, Empty, Tables
  <2>2. PruneSeq /\ Len(prune) <= 5
    BY DEF Init, PruneSeq
  <2>3. /\ work \in [Cals -> [pc : {"idle", "broadcast", "write", "cache"}, new : Batches]]
        /\ confirm \in [Txs -> [pc : {"none", "waiting", "write", "done"}, new : Batches]]
    BY DEF Init, NoWork, NoConfirm
  <2>4. proofs \in [proof : [Ids -> Proofs], created : [Ids -> Time \cup {Never}]]
    BY <1>0 DEF Init
  <2> QED BY <1>0, <2>1, <2>2, <2>3, <2>4 DEF Init, TypeOK
<1>2. RowsMarked /\ RowsTrue
  BY DEF Init, RowsMarked, RowsTrue, Empty
<1>3. /\ Used = {}
      /\ \A a \in Aggs : drained[a] = [ids |-> {}, at |-> 0]
      /\ \A c \in Cals : calAggs[c] = {}
      /\ \A t \in Txs : root[t] = {} /\ Under(t) = {}
  <2>1. \A a \in Aggs : drained[a] = [ids |-> {}, at |-> 0]
    BY DEF Init
  <2>2. \A c \in Cals : calAggs[c] = {}
    BY DEF Init
  <2>3. \A t \in Txs : root[t] = {}
    BY DEF Init
  <2> QED BY <2>1, <2>2, <2>3 DEF Used, Under
<1>4. Histories
  <2>1. 0 \in 0..MaxAggs /\ 1..0 = {}
    BY <1>0
  <2>2. \E n \in 0..MaxAggs : Used = 1..n
    BY <1>3, <2>1
  <2>3. now = 0 /\ indexed = {} /\ \A a \in Aggs : drained[a].at <= now
    BY <1>3 DEF Init
  <2> HIDE DEF Used
  <2> QED BY <1>3, <2>2, <2>3 DEF Histories
<1>5. Marks
  BY DEF Init, Marks, Empty
<1>6. Snapshots
  <2>1. \A i \in 1..5 : Snapshot(i) = {}
    BY DEF Init, Snapshot
  <2>2. /\ Snapshot(1) = {} /\ Snapshot(2) = {} /\ Snapshot(3) = {} /\ Snapshot(4) = {}
        /\ Snapshot(5) = {}
    BY <2>1
  <2> QED BY <2>2 DEF Snapshots
<1>7. InHand /\ Raced
  BY DEF Init, InHand, Raced, NoWork, NoConfirm
<1>8. ProofsCoherent /\ CalDataServed
  BY DEF Init, ProofsCoherent, CalDataServed, ProofHandler
<1>9. Served /\ HashAccounted
  BY <1>3 DEF Init, Served, HashAccounted
<1>10. RowsThere
  BY <1>3 DEF Init, RowsThere, Aged
<1>11. Batched
  BY <1>3 DEF Batched, Init, NoConfirm
<1> QED BY <1>1, <1>2, <1>4, <1>5, <1>6, <1>7, <1>8, <1>9, <1>10, <1>11 DEF StoreInv

LEMMA StoreInvStep == StoreInv /\ [Next]_vars => StoreInv'
<1> SUFFICES ASSUME StoreInv, [Next]_vars PROVE StoreInv'
  OBVIOUS
<1> USE DEF StoreInv
<1>1. TypeOK' /\ PruneSeq'
  BY TypeStep
<1>2. RowsMarked'
  BY RowsMarkedStep
<1>3. Histories'
  BY <1>1, HistoriesStep
<1>4. RowsTrue'
  BY <1>1, RowsTrueStep
<1>5. Marks'
  BY <1>1, <1>3, MarksStep
<1>6. Snapshots'
  BY <1>1, SnapshotsStep
<1>7. InHand'
  BY <1>1, InHandStep
<1>8. ProofsCoherent'
  BY <1>1, ProofsCoherentStep
<1>9. CalDataServed'
  BY CalDataServedStep
<1>10. Raced'
  BY RacedStep
<1>11. Served'
  BY <1>1, ServedStep
<1>12. HashAccounted'
  BY <1>1, HashAccountedStep
<1>13. RowsThere'
  BY <1>1, RowsThereStep
<1>14. Batched'
  BY <1>1, BatchedStep
<1> QED
  BY <1>1, <1>2, <1>3, <1>4, <1>5, <1>6, <1>7, <1>8, <1>9, <1>10, <1>11, <1>12, <1>13, <1>14

LEMMA StoreInvariant == Spec => []StoreInv
BY InitStoreInv, StoreInvStep, PTL DEF Spec

\* The tables, batches and snapshots are of the types chainpointdb.go:184-369
\* and anchor.go:36-101 give them.
THEOREM TypeCorrect == Spec => []TypeOK
<1>1. StoreInv => TypeOK
  BY DEF StoreInv
<1> QED BY <1>1, StoreInvariant, PTL

\* Inserting a row marks its owner, and pruning an owner takes its rows by key
\* as well, so no later prune misses one (chainpointdb.go:276-369).
THEOREM NoRowUnmarked == Spec => []RowsMarked
<1>1. StoreInv => RowsMarked
  BY DEF StoreInv
<1> QED BY <1>1, StoreInvariant, PTL

\* Whatever is pruned, restarted or submitted again between the looking up of
\* rows and the writing of a batch, the branches of a proof fit together
\* (anchor.go:85-98, bitcoinanchor.go:384-420).
THEOREM BranchesFit == Spec => []ProofsCoherent
<1>1. StoreInv => ProofsCoherent
  BY DEF StoreInv
<1> QED BY <1>1, StoreInvariant, PTL

\* The CAL a proof names is found at its address from the moment the proof can
\* be fetched, but for a restart between the two writes (anchor.go:68-70,
\* api.go:275-300, transactions.go:137-144).
THEOREM AddressAnswers == Spec => []CalDataServed
<1>1. StoreInv => CalDataServed
  BY DEF StoreInv
<1> QED BY <1>1, StoreInvariant, PTL

\* No hash taken out of the aggregator is forgotten between the steps of
\* AnchorCalendar, nor by PruneOldState within its day (anchor.go:36-101,
\* chainpointdb.go:270-369).
THEOREM EveryHashAccounted == Spec => []HashAccounted
<1>1. StoreInv => HashAccounted
  BY DEF StoreInv
<1> QED BY <1>1, StoreInvariant, PTL

\* BulkInsertProofs replaces no proof with a Bitcoin branch, but for the race of
\* two goroutines that both looked before either wrote (chainpointdb.go:187-199).
THEOREM BtcBranchStays == Spec => NeverDowngraded
<1>1. StoreInv /\ [Next]_vars =>
         [\A id \in Ids \ mishap'.contested :
             HasBtc(id) => proofs'.proof[id] \in {proofs.proof[id], NoProof}]_vars
  <2> SUFFICES ASSUME StoreInv, [Next]_vars, NEW id \in Ids \ mishap'.contested, HasBtc(id)
               PROVE  proofs'.proof[id] \in {proofs.proof[id], NoProof}
    OBVIOUS
  <2> USE DEF StoreInv
  <2>1. id \notin mishap.contested
    BY OnwardStep DEF Onward
  <2>2. \A c \in Cals : ~ (WriteCalBatch(c) /\ id \in DOMAIN work[c].new)
    BY <2>1 DEF Raced, WriteCalBatch
  <2>3. \A t \in Txs : ~ (WriteBtcBatch(t) /\ id \in DOMAIN confirm[t].new)
    BY <2>1 DEF Raced, WriteBtcBatch
  <2> QED BY <2>2, <2>3, ProofMoves
<1> QED BY <1>1, StoreInvariant, PTL DEF Spec, NeverDowngraded

\* A proof that was answered once is not pruned within a day of its aggregation,
\* although PruneOldState works from a snapshot taken before the proof may have
\* been written anew (chainpointdb.go:270-369, api.go:200-240).
THEOREM ProofStaysItsDay == Spec => ProofKept
<1>1. StoreInv /\ [Next]_vars =>
         [\A a \in Aggs : \A id \in drained[a].ids :
             Once(id) /\ Young(a) /\ ProofHandler(id) # NoProof => ProofHandler(id)' # NoProof]_vars
  <2> SUFFICES ASSUME StoreInv, [Next]_vars, NEW a \in Aggs, NEW id \in drained[a].ids,
                      Once(id), Young(a), proofs.proof[id] # NoProof
               PROVE  proofs'.proof[id] # NoProof
    BY DEF ProofHandler
  <2> USE DEF StoreInv
  <2>1. id \in Ids /\ a \in AggsOf(id)
    BY DEF TypeOK, AggsOf
  <2>2. id \notin Snapshot(1)
    BY <2>1, PrunedIsAged
  <2>3. /\ \A c \in Cals : id \in DOMAIN work[c].new => work[c].new[id].agg # 0
        /\ \A t \in Txs : id \in DOMAIN confirm[t].new => confirm[t].new[id].agg # 0
        /\ NoProof.agg = 0
    BY DEF InHand, Coherent, Aggs, NoProof
  <2> QED BY <2>1, <2>2, <2>3, ProofMoves
<1> QED BY <1>1, StoreInvariant, PTL DEF Spec, ProofKept

\* The rows GenerateBtcBatch needs, of all aggregations under the anchor, outlive
\* the prunes of their day, and nothing replaces what it found proved already
\* (chainpointdb.go:55-99, bitcoinanchor.go:349-424).
THEOREM AnchorReachesAll == Spec => EveryAnchoredProved
<1>1. StoreInv /\ [Next]_vars =>
         [\A t \in Txs : confirm[t].pc = "write" /\ confirm'[t].pc = "done" /\ UNCHANGED mishap.crashes
          => \A c \in root[t] : \A a \in calAggs[c] :
                 Young(a) /\ (\A id \in drained[a].ids : Once(id))
                     => \A id \in drained[a].ids \ mishap.lost : proofs'.proof[id].tx # NoTx]_vars
  <2> SUFFICES ASSUME StoreInv, [Next]_vars, NEW t \in Txs, confirm[t].pc = "write",
                      confirm'[t].pc = "done", UNCHANGED mishap.crashes,
                      NEW c \in root[t], NEW a \in calAggs[c], Clean(a),
                      NEW id \in drained[a].ids \ mishap.lost
               PROVE  proofs'.proof[id].tx # NoTx
    BY DEF Clean
  <2> USE DEF StoreInv
  <2>1. ~ Crash
    <3>1. mishap \in [crashes : 0..MaxCrashes, lost : SUBSET Ids, unsent : SUBSET Cals,
                      uncached : SUBSET Cals, contested : SUBSET Ids]
      BY DEF TypeOK
    <3>2. Crash => mishap'.crashes = mishap.crashes + 1
      BY <3>1 DEF Crash
    <3>3. mishap.crashes \in Nat
      BY <3>1, StoreAssumption
    <3> QED BY <3>2, <3>3
  <2>2. WriteBtcBatch(t)
    <3>1. confirm'[t] # confirm[t] /\ confirm'[t].pc # "waiting"
      OBVIOUS
    <3>2. ~ GenerateBtcBatch(t)
      BY DEF GenerateBtcBatch
    <3> QED BY <2>1, <3>1, <3>2, ConfirmMoves
  <2>3. a \in Under(t) /\ id \in Ids
    BY DEF Under, TypeOK
  <2>4. id \in DOMAIN confirm[t].new \/ HasBtc(id)
    BY <2>3 DEF Batched
  <2>5. BulkInsertProofs(confirm[t].new) /\ confirm[t].new \in Batches
    BY <2>2 DEF WriteBtcBatch, TypeOK
  <2> QED BY <2>3, <2>4, <2>5, BulkInsertProofsType DEF InHand, HasBtc
<1> QED BY <1>1, StoreInvariant, PTL DEF Spec, EveryAnchoredProved

=============================================================================
