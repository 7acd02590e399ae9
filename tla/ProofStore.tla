----------------------------- MODULE ProofStore -----------------------------
(***************************************************************************)
(* The proof database of one Core, from submitted hashes to pruned proofs: *)
(* HashHandler and LnPaymentHandler (abci/api.go), AnchorCalendar and      *)
(* GenerateCalBatch (abci/anchor.go), calendar/calendar.go, the tables of  *)
(* database/level/chainpointdb.go with PruneOldState, GenerateBtcBatch     *)
(* (anchor/bitcoin/bitcoinanchor.go) and the proof branches of             *)
(* proof/proof.go.                                                         *)
(*                                                                         *)
(* A hash is known by its proof ID, an aggregation by its position in the  *)
(* order the aggregator hands them out, an anchor by its Bitcoin           *)
(* transaction and the set of CALs its root commits to.  A table has rows  *)
(* <<key, owner>>, once by key and once by owner, and the time of each     *)
(* owner's last row.  Anchors cover disjoint CALs: module Confirm has the  *)
(* other case.  Rows are written in one step (module KVArray has the two   *)
(* of an array), a batch of proofs is checked in one and written in        *)
(* another, and each table is pruned in one.                               *)
(*                                                                         *)
(* The clock counts in fractions of a day, and moves only while no         *)
(* goroutine is at work: each takes minutes at most.                       *)
(***************************************************************************)
EXTENDS Integers, Sequences, FiniteSets, FiniteSetsExt

CONSTANTS
    Ids,        \* proof IDs
    Derived,    \* those that are the hash of what was paid for
    MaxAggs,    \* bound: aggregations explored
    Cals,       \* CALs this Core sends
    Txs,        \* Bitcoin transactions with an anchor
    Lifetime,   \* the 24 hours of PruneOldState
    MaxTime,    \* bound: time explored
    MaxCrashes, \* bound: restarts explored
    NoTx        \* the Bitcoin transaction of a proof without one

ASSUME StoreAssumption ==
    /\ MaxAggs \in Nat /\ Lifetime \in Nat /\ MaxTime \in Nat /\ MaxCrashes \in Nat
    /\ NoTx \notin Txs /\ Cals \cap Txs = {}
    /\ IsFiniteSet(Ids) /\ Derived \subseteq Ids

VARIABLES
    now,       \* the clock
    queued,    \* IDs of the items in the aggregator
    work,      \* the AnchorCalendar goroutine of each CAL
    indexed,   \* CALs in a block Tendermint has indexed
    cached,    \* CALs whose root is under their hash in the Cache
    confirm,   \* each anchor's way to GenerateBtcBatch
    agg,       \* table aggstate: aggregations by ID
    cal,       \* table calstate: CALs by aggregation
    anchor,    \* table anchorbtcaggstate: transaction of the root by CAL
    btcTx,     \* table btctxstate: Bitcoin transactions by root
    proofs,    \* table proof
    prune,     \* the PruneOldState goroutine
    drained,   \* history: the IDs of each aggregation and when it was made
    calAggs,   \* history: the aggregations of each CAL
    root,      \* history: the CALs of each anchor
    mishap     \* history: what restarts and failures cost

tables  == <<agg, cal, anchor, btcTx, proofs>>
history == <<drained, calAggs, root, mishap>>
chain   == <<indexed, cached>>
vars == <<now, queued, work, chain, confirm, tables, prune, history>>

Aggs == 1..MaxAggs
Never == -1
Time == 0..MaxTime
NoProof == [agg |-> 0, cal |-> "none", path |-> NoTx, tx |-> NoTx]
Proofs == [agg : Aggs, cal : Cals, path : Txs \cup {NoTx}, tx : Txs \cup {NoTx}]
          \cup {NoProof}

-----------------------------------------------------------------------------
\* The four tables of rows.
Empty(owners) == [byKey |-> {}, byOwner |-> {}, created |-> [o \in owners |-> Never]]

\* Set in the place of Append: one row is left under a key.
NotInsert(table, rows) ==
    [byKey   |-> {r \in table.byKey : \A n \in rows : n[1] # r[1]}
                 \cup {CHOOSE n \in {m \in rows : m[1] = r[1]} : TRUE : r \in rows},
     byOwner |-> table.byOwner \cup rows,
     created |-> [o \in DOMAIN table.created |->
                    IF \E r \in rows : r[2] = o THEN now ELSE table.created[o]]]

Insert(table, rows) ==
    [byKey   |-> table.byKey \cup rows,
     byOwner |-> table.byOwner \cup rows,
     created |-> [o \in DOMAIN table.created |->
                    IF \E r \in rows : r[2] = o THEN now ELSE table.created[o]]]

\* The owner is forgotten.
NotUnmark(table, owners) == [o \in DOMAIN table.created \ owners |-> table.created[o]]

Unmark(table, owners) ==
    [o \in DOMAIN table.created |-> IF o \in owners THEN Never ELSE table.created[o]]

KeysOf(table, owners) == {r[1] : r \in {b \in table.byOwner : b[2] \in owners}}

\* The entries by key are left.
NotWithout(table, owners) ==
    [byKey   |-> table.byKey,
     byOwner |-> {r \in table.byOwner : r[2] \notin owners},
     created |-> Unmark(table, owners)]

\* Pruning an owner deletes its rows and the whole entry of each of its keys.
Without(table, owners) ==
    [byKey   |-> {r \in table.byKey : r[1] \notin KeysOf(table, owners)},
     byOwner |-> {r \in table.byOwner : r[2] \notin owners},
     created |-> Unmark(table, owners)]

\* The key of the deletion in line 311 lacks its colon: these rows stay.
WithoutAnchors(owners) ==
    [Without(anchor, owners) EXCEPT !.byOwner = anchor.byOwner]

\* A day too early.
NotOld(created) == {o \in DOMAIN created : created[o] # Never /\ now >= created[o] + Lifetime}
Old(created) == {o \in DOMAIN created : created[o] # Never /\ now > created[o] + Lifetime}

ByKey(table, k) == {r[2] : r \in {f \in table.byKey : f[1] = k}}
ByOwner(table, o) == {r[1] : r \in {b \in table.byOwner : b[2] = o}}

BulkInsertAggState(rows) == agg' = Insert(agg, rows)
BulkInsertCalState(calStates) == cal' = Insert(cal, calStates)
BulkInsertBtcAggState(rows) == anchor' = Insert(anchor, rows)
BulkInsertBtcTxState(rows) == btcTx' = Insert(btcTx, rows)

GetAggStateObjectsByProofIds(id) == ByOwner(agg, id)
GetCalStateObjectsByAggIds(a) == ByOwner(cal, a)
GetAnchorBTCAggStateObjectsByCalIds(c) == ByOwner(anchor, c)
GetBTCTxStateObjectByBtcHeadState(t) == ByKey(btcTx, t)

-----------------------------------------------------------------------------
\* The table of proofs.
HasBtc(id) == proofs.proof[id].tx # NoTx

\* Every proof is written.
NotReplaceable(new) == new

\* BulkInsertProofs looks at the stored proof first: one with a Bitcoin branch
\* stays.
Replaceable(new) == [id \in {i \in DOMAIN new : ~HasBtc(i)} |-> new[id]]

\* Those it writes are marked with the time.
BulkInsertProofs(new) ==
    proofs' = [proof   |-> [id \in Ids |-> IF id \in DOMAIN new THEN new[id]
                                           ELSE proofs.proof[id]],
               created |-> [id \in Ids |-> IF id \in DOMAIN new THEN now
                                           ELSE proofs.created[id]]]

Writers == {w \in Cals : work[w].pc = "write"} \cup {t \in Txs : confirm[t].pc = "write"}
NewOf(w) == IF w \in Cals THEN work[w].new ELSE confirm[w].new

\* Proofs that two goroutines found replaceable at the same time.
Contested(w) == DOMAIN NewOf(w) \cap UNION {DOMAIN NewOf(o) : o \in Writers \ {w}}

-----------------------------------------------------------------------------
NoWork == [pc |-> "idle", new |-> << >>]
NoConfirm == [pc |-> "none", new |-> << >>]

Init ==
    /\ now = 0 /\ queued = {} /\ indexed = {} /\ cached = {}
    /\ work = [c \in Cals |-> NoWork]
    /\ confirm = [t \in Txs |-> NoConfirm]
    /\ agg = Empty(Ids) /\ cal = Empty(Aggs) /\ anchor = Empty(Cals) /\ btcTx = Empty(Txs)
    /\ proofs = [proof |-> [id \in Ids |-> NoProof], created |-> [id \in Ids |-> Never]]
    /\ prune = <<>>
    /\ drained = [a \in Aggs |-> [ids |-> {}, at |-> 0]]
    /\ calAggs = [c \in Cals |-> {}]
    /\ root = [t \in Txs |-> {}]
    /\ mishap = [crashes |-> 0, lost |-> {}, unsent |-> {}, uncached |-> {}, contested |-> {}]

AggsOf(id) == {a \in Aggs : id \in drained[a].ids}
Known == queued \cup UNION {drained[a].ids : a \in Aggs} \cup mishap.lost

\* HashHandler draws a new ID for every hash.
HashHandler(id) ==
    /\ id \notin Derived \cup Known
    /\ queued' = queued \cup {id}
    /\ UNCHANGED <<now, work, chain, confirm, tables, prune, history>>

\* LnPaymentHandler derives one from the hash: who pays twice submits it again.
LnPaymentHandler(id) ==
    /\ id \in Derived \ queued
    /\ queued' = queued \cup {id}
    /\ UNCHANGED <<now, work, chain, confirm, tables, prune, history>>

Used == {a \in Aggs : drained[a].ids # {}}
Fresh == Cardinality(Used) + 1

\* AnchorCalendar takes the items in one or two aggregations and stores them.
AnchorCalendar(c, S) ==
    /\ work[c].pc = "idle" /\ calAggs[c] = {}
    /\ queued # {} /\ S \subseteq queued /\ S # {}
    /\ LET two == queued \ S # {}
           new == IF two THEN {Fresh, Fresh + 1} ELSE {Fresh}
       IN  /\ new \subseteq Aggs
           /\ drained' = [a \in Aggs |->
                CASE a = Fresh -> [ids |-> S, at |-> now]
                  [] a = Fresh + 1 /\ two -> [ids |-> queued \ S, at |-> now]
                  [] OTHER -> drained[a]]
           /\ calAggs' = [calAggs EXCEPT ![c] = new]
           /\ BulkInsertAggState({<<Fresh, id>> : id \in S}
                                 \cup {<<Fresh + 1, id>> : id \in queued \ S})
    /\ queued' = {}
    /\ work' = [work EXCEPT ![c].pc = "broadcast"]
    /\ UNCHANGED <<now, chain, confirm, cal, anchor, btcTx, proofs, prune, root, mishap>>

\* A broadcast that fails, or that CheckTx refuses, ends the goroutine.
BroadcastFails(c) ==
    /\ work[c].pc = "broadcast"
    /\ work' = [work EXCEPT ![c] = NoWork]
    /\ mishap' = [mishap EXCEPT !.unsent = mishap.unsent \cup {c}]
    /\ UNCHANGED <<now, queued, chain, confirm, tables, prune, drained, calAggs, root>>

\* A calendar tree is known by its leaves, the aggregations.
GenerateCalendarTree(c) == calAggs[c]
CreateCalStateMessage(c) == {<<c, a>> : a \in GenerateCalendarTree(c)}

AddCalendarBranch(a, c) == [agg |-> a, cal |-> c, path |-> NoTx, tx |-> NoTx]

\* Only the last aggregation's states are kept.
NotCalProofs(c) ==
    [id \in drained[Max(calAggs[c])].ids |-> AddCalendarBranch(Max(calAggs[c]), c)]

\* GenerateCalBatch makes a proof of every item; of two for one ID the later
\* stays.
CalProofs(c) ==
    [id \in UNION {drained[a].ids : a \in calAggs[c]} |->
       AddCalendarBranch(Max(AggsOf(id) \cap calAggs[c]), c)]

\* Each aggregation gets its row of the calendar tree, then the proofs follow.
GenerateCalBatch(c) ==
    /\ work[c].pc = "broadcast"
    /\ BulkInsertCalState(CreateCalStateMessage(c))
    /\ work' = [work EXCEPT ![c] = [pc |-> "write", new |-> Replaceable(CalProofs(c))]]
    /\ UNCHANGED <<now, queued, chain, confirm, agg, anchor, btcTx, proofs, prune, history>>

WriteCalBatch(c) ==
    /\ work[c].pc = "write"
    /\ BulkInsertProofs(work[c].new)
    /\ work' = [work EXCEPT ![c] = [pc |-> "cache", new |-> << >>]]
    /\ mishap' = [mishap EXCEPT !.contested = mishap.contested \cup Contested(c)]
    /\ UNCHANGED <<now, queued, chain, confirm, agg, cal, anchor, btcTx, prune, drained,
                   calAggs, root>>

CacheRoot(c) ==
    /\ work[c].pc = "cache"
    /\ cached' = cached \cup {c}
    /\ work' = [work EXCEPT ![c] = NoWork]
    /\ UNCHANGED <<now, queued, indexed, confirm, tables, prune, history>>

\* The CAL was broadcast: a block with it is delivered and indexed.
Sent(c) == calAggs[c] # {} /\ c \notin mishap.unsent /\ work[c].pc # "broadcast"

Index(c) ==
    /\ Sent(c) /\ c \notin indexed
    /\ indexed' = indexed \cup {c}
    /\ UNCHANGED <<now, queued, work, cached, confirm, tables, prune, history>>

\* It does not wait for the block.
NotDeleteCached(c) ==
    /\ Sent(c) /\ c \in cached
    /\ cached' = cached \ {c}
    /\ UNCHANGED <<now, queued, work, indexed, confirm, tables, prune, history>>

\* The goroutine DeliverTx starts deletes the root a minute later.
DeleteCached(c) ==
    /\ c \in indexed /\ c \in cached
    /\ cached' = cached \ {c}
    /\ UNCHANGED <<now, queued, work, indexed, confirm, tables, prune, history>>

\* It has run long before an anchor or another day, unless a restart ended it.
MinutePassed == mishap.crashes = 0 => indexed \cap cached = {}

-----------------------------------------------------------------------------
\* The transaction's row under itself and, once by owner, under its root.
GenerateAnchorBtcTxState(t) == {<<t, t>>}

\* A row with the path of each CAL under the root.
PrepareBtcaStateData(t, S) == {<<t, c>> : c \in S}

\* BeginTxMonitor stores the anchor a delivered BTC-A tells of: the row of the
\* transaction and one for every CAL under its root.
BeginTxMonitor(t, S) ==
    /\ confirm[t].pc = "none" /\ root[t] = {}
    /\ S # {} /\ S \subseteq indexed \ UNION {root[o] : o \in Txs}
    /\ \A c \in S : work[c].pc = "idle"
    /\ MinutePassed
    /\ BulkInsertBtcTxState(GenerateAnchorBtcTxState(t))
    /\ BulkInsertBtcAggState(PrepareBtcaStateData(t, S))
    /\ root' = [root EXCEPT ![t] = S]
    /\ confirm' = [confirm EXCEPT ![t].pc = "waiting"]
    /\ UNCHANGED <<now, queued, work, chain, agg, cal, proofs, prune, drained, calAggs, mishap>>

\* The proofs of all anchors.
NotGetProofIdsByBtcTxId(t) ==
    UNION {ByKey(agg, a) : a \in UNION {ByKey(cal, c) : c \in Cals}}

GetProofIdsByBtcTxId(t) ==
    LET cals == UNION {ByKey(anchor, o) : o \in ByKey(btcTx, t)}
        aggs == UNION {ByKey(cal, c) : c \in cals}
    IN  UNION {ByKey(agg, a) : a \in aggs}

\* The path a CAL's row leads along, and the transaction that carries the root.
AddChainBranch(p, path, t) == [p EXCEPT !.path = path, !.tx = t]

\* One proof for each row of an ID whose aggregation, CAL and anchor are found.
RowProofs(id, t) ==
    {AddChainBranch(AddCalendarBranch(r[1], r[2]), r[3], t) :
        r \in {w \in Aggs \X Cals \X Txs :
                /\ w[1] \in GetAggStateObjectsByProofIds(id)
                /\ w[2] \in GetCalStateObjectsByAggIds(w[1])
                /\ w[3] \in GetAnchorBTCAggStateObjectsByCalIds(w[2])}}

\* Of several the first is written and keeps the others out.
BtcProofs(t) ==
    [id \in {i \in GetProofIdsByBtcTxId(t) : RowProofs(i, t) # {}} |->
       CHOOSE p \in RowProofs(id, t) : \A q \in RowProofs(id, t) : p.agg <= q.agg]

GenerateBtcBatch(t) ==
    /\ confirm[t].pc = "waiting"
    /\ confirm' = [confirm EXCEPT ![t] =
         [pc |-> "write", new |-> IF GetBTCTxStateObjectByBtcHeadState(t) = {} THEN << >>
                                  ELSE Replaceable(BtcProofs(t))]]
    /\ UNCHANGED <<now, queued, work, chain, tables, prune, history>>

WriteBtcBatch(t) ==
    /\ confirm[t].pc = "write"
    /\ BulkInsertProofs(confirm[t].new)
    /\ confirm' = [confirm EXCEPT ![t] = [pc |-> "done", new |-> << >>]]
    /\ mishap' = [mishap EXCEPT !.contested = mishap.contested \cup Contested(t)]
    /\ UNCHANGED <<now, queued, work, chain, agg, cal, anchor, btcTx, prune, drained,
                   calAggs, root>>

-----------------------------------------------------------------------------
\* PruneOldState opens its five iterators, each a snapshot, and works them off.
StartPrune ==
    LET old == <<Old(btcTx.created), Old(anchor.created), Old(cal.created),
                 Old(agg.created), Old(proofs.created)>>
    IN  /\ prune = <<>>
        /\ \E i \in 1..5 : old[i] # {}
        /\ prune' = old
        /\ UNCHANGED <<now, queued, work, chain, confirm, tables, history>>

\* What is left of prune is one snapshot for each table not yet done.
PruneBtcTx ==
    /\ Len(prune) = 5
    /\ btcTx' = Without(btcTx, Head(prune))
    /\ UNCHANGED <<agg, cal, anchor, proofs>>

PruneAnchors ==
    /\ Len(prune) = 4
    /\ anchor' = WithoutAnchors(Head(prune))
    /\ UNCHANGED <<agg, cal, btcTx, proofs>>

PruneCals ==
    /\ Len(prune) = 3
    /\ cal' = Without(cal, Head(prune))
    /\ UNCHANGED <<agg, anchor, btcTx, proofs>>

PruneAggs ==
    /\ Len(prune) = 2
    /\ agg' = Without(agg, Head(prune))
    /\ UNCHANGED <<cal, anchor, btcTx, proofs>>

PruneProofs ==
    /\ Len(prune) = 1
    /\ proofs' = [proof |-> [id \in Ids |-> IF id \in Head(prune) THEN NoProof
                                            ELSE proofs.proof[id]],
                  created |-> Unmark(proofs, Head(prune))]
    /\ UNCHANGED <<agg, cal, anchor, btcTx>>

PruneTable ==
    /\ PruneBtcTx \/ PruneAnchors \/ PruneCals \/ PruneAggs \/ PruneProofs
    /\ prune' = Tail(prune)
    /\ UNCHANGED <<now, queued, work, chain, confirm, history>>

Tick ==
    /\ now < MaxTime
    /\ prune = <<>> /\ Writers = {} /\ \A c \in Cals : work[c].pc = "idle"
    /\ MinutePassed
    /\ now' = now + 1
    /\ UNCHANGED <<queued, work, chain, confirm, tables, prune, history>>

\* A restart: what is not in LevelDB is gone.
Crash ==
    /\ mishap.crashes < MaxCrashes
    /\ queued # {} \/ prune # <<>> \/ Writers # {} \/ \E c \in Cals : work[c].pc # "idle"
    /\ mishap' = [mishap EXCEPT
         !.crashes = mishap.crashes + 1,
         !.lost = mishap.lost \cup queued
                    \cup UNION {drained[a].ids : a \in UNION {calAggs[c] :
                                   c \in {d \in Cals : work[d].pc \in {"broadcast", "write"}}}},
         !.uncached = mishap.uncached \cup {c \in Cals : work[c].pc = "cache"}]
    /\ queued' = {} /\ prune' = <<>>
    /\ work' = [c \in Cals |-> NoWork]
    /\ confirm' = [t \in Txs |-> IF confirm[t].pc = "write"
                                 THEN [pc |-> "done", new |-> << >>] ELSE confirm[t]]
    /\ UNCHANGED <<now, chain, tables, drained, calAggs, root>>

Next ==
    \/ \E id \in Ids : HashHandler(id) \/ LnPaymentHandler(id)
    \/ \E c \in Cals :
           \/ \E S \in SUBSET Ids : AnchorCalendar(c, S)
           \/ BroadcastFails(c)
           \/ GenerateCalBatch(c)
           \/ WriteCalBatch(c)
           \/ CacheRoot(c)
           \/ Index(c)
           \/ DeleteCached(c)
    \/ \E t \in Txs :
           \/ \E S \in SUBSET Cals : BeginTxMonitor(t, S)
           \/ GenerateBtcBatch(t)
           \/ WriteBtcBatch(t)
    \/ StartPrune
    \/ PruneTable
    \/ Tick
    \/ Crash

Spec == Init /\ [][Next]_vars

-----------------------------------------------------------------------------
Tables(keys, owners) ==
    [byKey : SUBSET (keys \X owners), byOwner : SUBSET (keys \X owners),
     created : [owners -> Time \cup {Never}]]
Batches == UNION {[S -> Proofs] : S \in SUBSET Ids}

\* Rows, marks and goroutines of the right kinds (chainpointdb.go:184-369,
\* anchor.go:36-101).
TypeOK ==
    /\ now \in Time /\ queued \subseteq Ids /\ indexed \subseteq Cals /\ cached \subseteq Cals
    /\ work \in [Cals -> [pc : {"idle", "broadcast", "write", "cache"}, new : Batches]]
    /\ confirm \in [Txs -> [pc : {"none", "waiting", "write", "done"}, new : Batches]]
    /\ agg \in Tables(Aggs, Ids) /\ cal \in Tables(Cals, Aggs)
    /\ anchor \in Tables(Txs, Cals) /\ btcTx \in Tables(Txs, Txs)
    /\ proofs \in [proof : [Ids -> Proofs], created : [Ids -> Time \cup {Never}]]
    /\ Len(prune) <= 5
    /\ drained \in [Aggs -> [ids : SUBSET Ids, at : Time]]
    /\ calAggs \in [Cals -> SUBSET Aggs] /\ root \in [Txs -> SUBSET Cals]
    /\ mishap \in [crashes : 0..MaxCrashes, lost : SUBSET Ids, unsent : SUBSET Cals,
                   uncached : SUBSET Cals, contested : SUBSET Ids]

\* What the API answers for a proof ID and for a CAL's address.
ProofHandler(id) == proofs.proof[id]
CalDataHandler(c) == c \in indexed \cup cached

Once(id) == Cardinality(AggsOf(id)) <= 1
Young(a) == now <= drained[a].at + Lifetime

\* A hash accepted by the API and submitted once is still to be aggregated, on
\* its way through AnchorCalendar, or has a proof for a day, unless a restart
\* lost it (aggregator.go:66) or the CAL was never sent (anchor.go:54).
HashAccounted ==
    \A a \in Aggs : \A id \in drained[a].ids :
        \/ proofs.proof[id] # NoProof
        \/ ~Young(a) \/ ~Once(id) \/ id \in mishap.lost
        \/ \E c \in Cals : a \in calAggs[c] /\ (work[c].pc # "idle" \/ c \in mishap.unsent)

\* The branches of a proof fit together: the path of the ID's own aggregation,
\* in the CAL it went into, under the root its Bitcoin transaction carries
\* (anchor.go:85-98, bitcoinanchor.go:384-420).
ProofsCoherent ==
    \A id \in Ids : LET p == proofs.proof[id] IN
        p # NoProof =>
            /\ p.agg \in Aggs /\ id \in drained[p.agg].ids
            /\ p.cal \in Cals /\ p.agg \in calAggs[p.cal]
            /\ p.tx # NoTx /\ Once(id) => p.path = p.tx /\ p.cal \in root[p.tx]

\* Every row is found by a later prune through its owner's mark, except those
\* line 311 leaves; a row by key has its owner's as well (chainpointdb.go:276-369).
RowsMarked ==
    /\ \A t \in {agg, cal, btcTx} : \A r \in t.byOwner : t.created[r[2]] # Never
    /\ \A t \in {agg, cal, anchor, btcTx} :
           t.byKey \subseteq {r \in t.byOwner : t.created[r[2]] # Never}

\* The address a proof names for its CAL answers: from Tendermint's index, or
\* until then from the Cache, which AnchorCalendar fills right after it wrote
\* the proof and DeliverTx empties (anchor.go:68-70, api.go:275-300,
\* transactions.go:137-144); a restart between the two leaves a gap.
CalDataServed ==
    \A id \in Ids : ProofHandler(id) # NoProof =>
        LET c == ProofHandler(id).cal
        IN  CalDataHandler(c) \/ c \in mishap.uncached \/ work[c].pc = "cache"

\* A proof with a Bitcoin branch is not replaced, neither by the cal proof of a
\* second payment nor by another anchor's, except by a goroutine that looked at
\* it before the branch was written (chainpointdb.go:187-199).
NeverDowngraded ==
    [][\A id \in Ids \ mishap'.contested :
          HasBtc(id) => proofs'.proof[id] \in {proofs.proof[id], NoProof}]_vars

\* What ProofHandler answers (api.go:200-240) stays there for a day: pruning
\* takes no proof of a hash submitted once whose aggregation is younger.
ProofKept ==
    [][\A a \in Aggs : \A id \in drained[a].ids :
          Once(id) /\ Young(a) /\ ProofHandler(id) # NoProof => ProofHandler(id)' # NoProof]_vars

\* A confirmed anchor reaches every hash under it: when GenerateBtcBatch has
\* written, all IDs of its CALs' aggregations have a Bitcoin branch, unless the
\* batch came after their day was over, a restart lost them or one of them was
\* submitted again (chainpointdb.go:55-99, bitcoinanchor.go:349-424).
EveryAnchoredProved ==
    [][\A t \in Txs : confirm[t].pc = "write" /\ confirm'[t].pc = "done" /\ UNCHANGED mishap.crashes
          => \A c \in root[t] : \A a \in calAggs[c] :
                 Young(a) /\ (\A id \in drained[a].ids : Once(id))
                     => \A id \in drained[a].ids \ mishap.lost : proofs'.proof[id].tx # NoTx]_vars
=============================================================================
