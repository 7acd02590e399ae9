--------------------------- MODULE ConfirmProofs ---------------------------
(***************************************************************************)
(* Confirm, for every set of anchors, CALs and goroutines, every depth of  *)
(* confirmation and set of events: Bitcoin branches speak of buried        *)
(* transactions only, no anchor is dropped without a mishap on record, and *)
(* the branches verify when no CAL lies under two roots.                   *)
(***************************************************************************)
EXTENDS Confirm, SequenceTheorems, TLAPS

-----------------------------------------------------------------------------
(* The inductive invariant                                                 *)

\* The height that the array, or a goroutine's copy of it, gives for a
\* transaction is that of its block.
Placed(e) == e.height # 0 => mined[e.tx] = e.height

\* No height runs ahead of Bitcoin.
Placement ==
    /\ lnHeight <= tip /\ btcHeight <= tip /\ saved <= tip
    /\ \A t \in Txs : mined[t] <= MaxTip
    /\ \A e \in confirmed : Placed(e)
    /\ \A s \in Scanners : \A e \in scan[s].rest : Placed(e)

Deep(t) == mined[t] # 0 /\ tip - mined[t] + 1 >= Confirmations

\* ProofsBuried, and the same of what ConfirmAnchor will write.
Buried ==
    /\ \A k \in confirming : k.tx \in Txs => Deep(k.tx)
    /\ \A c \in Cals : proofs[c] # NoProof =>
                          proofs[c].tx \in Txs /\ Deep(proofs[c].tx)

\* A transaction taken up was sent, with a root that is not empty.
TakenUp ==
    /\ \A m \in monitors : sent[m.tx] # {}
    /\ \A t \in txState : sent[t] # {}

HasRow(c, r) == \E i \in DOMAIN aggState[c] : aggState[c][i] = r

\* The rows of a root are those of all its CALs, and of no other.
Rows ==
    \A c \in Cals : \A r \in Roots : HasRow(c, r) =>
        c \in r /\ \A d \in r : HasRow(d, r)

ProofInv ==
    TypeOK /\ Placement /\ Buried /\ TakenUp /\ Rows /\ NoAnchorForgotten

\* ProofsVerify, inductive when no two roots share a CAL.
Verified ==
    \A c \in Cals : proofs[c] # NoProof =>
        c \in proofs[c].root /\ proofs[c].root = sent[proofs[c].tx]

DisjointRoots == \A r, q \in Roots : r = q \/ r \cap q = {}

-----------------------------------------------------------------------------
(* Types                                                                   *)

\* The states before the first step satisfy the invariant.
LEMMA InitProofInv == Init => ProofInv
<1> SUFFICES ASSUME Init PROVE ProofInv
  OBVIOUS
<1> USE ConfirmAssumption DEF Init
<1>1. TypeOK
  <2>1. \A s \in Scanners : scan[s] = Idle
    OBVIOUS
  <2>2. aggState \in [Cals -> Seq(Roots)]
    OBVIOUS
  <2>3. 0 \in 0..MaxTip
    OBVIOUS
  <2> QED
    BY <2>1, <2>2, <2>3 DEF TypeOK, Idle, NoProof, Entries, ScanStates, Branches
<1>2. Placement
  BY DEF Placement, Idle
<1>3. Buried /\ TakenUp /\ Rows /\ NoAnchorForgotten
  BY DEF Buried, TakenUp, Rows, HasRow, NoAnchorForgotten, NoProof
<1> QED
  BY <1>1, <1>2, <1>3 DEF ProofInv

\* What the steps of a goroutine make of its state.
LEMMA ScanMoves ==
    ASSUME NEW q \in ScanStates
    PROVE  /\ Idle \in ScanStates
           /\ [q EXCEPT !.pc = "info"] \in ScanStates
           /\ [q EXCEPT !.pc = "list"] \in ScanStates
           /\ \A e : [q EXCEPT !.rest = @ \ {e}] \in ScanStates
BY DEF ScanStates, Idle

LEMMA ConfirmerMoves ==
    ASSUME NEW k \in Confirmers
    PROVE  /\ [k EXCEPT !.pc = "wait"] \in Confirmers
           /\ [k EXCEPT !.pc = "batch"] \in Confirmers
           /\ [k EXCEPT !.pc = "send", !.round = @ + 1] \in Confirmers
<1>1. /\ [k EXCEPT !.pc = "wait"] \in Confirmers
      /\ [k EXCEPT !.pc = "batch"] \in Confirmers
  BY DEF Confirmers
<1>2. PICK n \in Nat : n = k.round + 1
  BY DEF Confirmers
<1>3. [k EXCEPT !.pc = "send", !.round = n] \in Confirmers
  BY DEF Confirmers
<1> QED
  BY <1>1, <1>2, <1>3

\* A search keeps the entries of the CONFIRMED array entries.
LEMMA SearchType ==
    ASSUME TypeOK, NEW s \in Scanners, MonitorBlocksForConfirmation(s)
    PROVE  confirmed' \in SUBSET Entries
<1>1. PICK last \in FirstBlock(s) - 1 .. scan[s].to :
        LET found == {e \in scan[s].rest : mined[e.tx] \in FirstBlock(s)..last}
        IN  confirmed' = (confirmed \ found) \cup
                {[tx |-> e.tx, height |-> mined[e.tx]] : e \in found}
  BY DEF MonitorBlocksForConfirmation
<1>2. scan[s].rest \subseteq Entries /\ confirmed \subseteq Entries
  BY DEF TypeOK, ScanStates
<1>3. \A e \in scan[s].rest :
         [tx |-> e.tx, height |-> mined[e.tx]] \in Entries
  BY <1>2 DEF TypeOK, Entries
<1> QED
  BY <1>1, <1>2, <1>3

\* A step keeps every variable in its type.
LEMMA TypeStep ==
    ASSUME TypeOK, Placement, [Next]_vars
    PROVE  TypeOK'
<1> USE ConfirmAssumption
    DEF TypeOK, bitcoin, tables, heights, btccVars
<1>1. ASSUME NEW t \in Txs, NEW r \in Roots, Send(t, r)
      PROVE  TypeOK'
  BY <1>1 DEF Send
<1>2. ASSUME NEW S \in SUBSET Txs, Mine(S)
      PROVE  TypeOK'
  BY <1>2 DEF Mine
<1>3. ASSUME NEW t \in Txs, DeliverBtcA(t)
      PROVE  TypeOK'
  BY <1>3 DEF DeliverBtcA
<1>4. ASSUME NEW t \in Txs, StoreTx(t)
      PROVE  TypeOK'
  BY <1>4 DEF StoreTx, Entries
<1>5. ASSUME NEW t \in Txs, StoreTree(t)
      PROVE  TypeOK'
  <2>1. \A c \in Cals : c \in sent[t] => sent[t] \in Roots
    OBVIOUS
  <2>2. \A c \in Cals : c \in sent[t] =>
           Append(aggState[c], sent[t]) \in Seq(Roots)
    BY <2>1, AppendProperties
  <2>3. aggState' \in [Cals -> Seq(Roots)]
    <3>1. CASE aggState' = [c \in Cals |-> IF c \in sent[t]
                                           THEN Append(aggState[c], sent[t])
                                           ELSE aggState[c]]
      BY <2>2, <3>1
    <3>2. CASE aggState' = aggState
      BY <3>2
    <3> QED
      BY <1>5, <3>1, <3>2 DEF StoreTree
  <2>4. forgotten' \in SUBSET Txs
    BY <1>5 DEF StoreTree
  <2> QED
    BY <1>5, <2>3, <2>4 DEF StoreTree
<1>6. ASSUME NEW t \in Txs, PeerConfirms(t)
      PROVE  TypeOK'
  <2>1. mined[t] \in 0..MaxTip
    BY DEF Placement
  <2>2. BtcC("peer", mined[t]) \in BtcCs
    BY <2>1 DEF BtcC, BtcCs
  <2> QED
    BY <1>6, <2>2 DEF PeerConfirms
<1>7. ASSUME NEW s \in Scanners, StartMonitors(s)
      PROVE  TypeOK'
  <2>1. [scan[s] EXCEPT !.pc = "info"] \in ScanStates
    BY ScanMoves
  <2> QED
    BY <1>7, <2>1 DEF StartMonitors
<1>8. ASSUME NEW s \in Scanners, BlockSyncMonitor(s)
      PROVE  TypeOK'
  <2>1. [pc |-> "blocks", from |-> btcHeight, to |-> tip,
         rest |-> {e \in confirmed : e.height = 0}] \in ScanStates
    BY DEF ScanStates
  <2>2. [scan[s] EXCEPT !.pc = "list"] \in ScanStates
    BY ScanMoves
  <2>3. scan' \in [Scanners -> ScanStates]
    BY <1>8, <2>1, <2>2 DEF BlockSyncMonitor
  <2>4. forgotten' \in SUBSET Txs
    BY <1>8 DEF BlockSyncMonitor, Passed
  <2>5. lnHeight' \in Nat /\ btcHeight' \in Nat
    BY <1>8 DEF BlockSyncMonitor
  <2> QED
    BY <1>8, <2>3, <2>4, <2>5 DEF BlockSyncMonitor
<1>9. ASSUME NEW s \in Scanners, MonitorBlocksForConfirmation(s)
      PROVE  TypeOK'
  <2>1. confirmed' \in SUBSET Entries
    BY <1>9, SearchType
  <2>2. [Idle EXCEPT !.pc = "list"] \in ScanStates
    BY DEF Idle, ScanStates
  <2>3. forgotten' \in SUBSET Txs /\ btcHeight' \in Nat
    BY <1>9 DEF MonitorBlocksForConfirmation, Overtaken, Passed
  <2> QED
    BY <1>9, <2>1, <2>2, <2>3 DEF MonitorBlocksForConfirmation
<1>10. ASSUME NEW s \in Scanners, ListConfirmed(s)
       PROVE  TypeOK'
  <2>1. /\ Idle \in ScanStates
        /\ [Idle EXCEPT !.pc = "confirm", !.rest = confirmed] \in ScanStates
    BY DEF Idle, ScanStates
  <2> QED
    BY <1>10, <2>1 DEF ListConfirmed
<1>11. ASSUME NEW s \in Scanners, NEW e \in scan[s].rest,
              MonitorConfirmedTx(s, e)
       PROVE  TypeOK'
  <2>1. /\ Idle \in ScanStates
        /\ [scan[s] EXCEPT !.rest = @ \ {e}] \in ScanStates
    BY ScanMoves
  <2> DEFINE q == [scan[s] EXCEPT !.rest = @ \ {e}]
  <2>2. scan' \in [Scanners -> ScanStates]
    <3>1. scan' = [scan EXCEPT ![s] = IF scan[s].rest = {e} THEN Idle ELSE q]
      BY <1>11 DEF MonitorConfirmedTx
    <3>2. q \in ScanStates
      BY <2>1
    <3> HIDE DEF q
    <3> QED
      BY <2>1, <3>1, <3>2
  <2>3. e.tx \in Txs /\ e.height \in Nat
    BY DEF Entries, ScanStates
  <2>4. e.height # 0 => e.height \in 0..MaxTip
    BY <2>3 DEF Placement, Placed
  <2>5. /\ e.height # 0 => Confirming(e.tx, e.height) \in Confirmers
        /\ Confirming(NoTx, 0) \in Confirmers
    BY <2>3, <2>4 DEF Confirming, Confirmers
  <2>6. /\ confirmed' \in SUBSET Entries
        /\ confirming' \in SUBSET Confirmers
        /\ forgotten' \in SUBSET Txs
    BY <1>11, <2>3, <2>5 DEF MonitorConfirmedTx
  <2> QED
    BY <1>11, <2>2, <2>6 DEF MonitorConfirmedTx
<1>12. ASSUME NEW k \in confirming, SendBtcC(k)
       PROVE  TypeOK'
  <2>1. [k EXCEPT !.pc = "wait"] \in Confirmers
    BY ConfirmerMoves
  <2>2. BtcC("self", k.head) \in BtcCs
    BY DEF BtcC, BtcCs, Confirmers
  <2> QED
    BY <1>12, <2>1, <2>2 DEF SendBtcC
<1>13. ASSUME NEW k \in confirming, FindBtcC(k)
       PROVE  TypeOK'
  <2>1. /\ [k EXCEPT !.pc = "batch"] \in Confirmers
        /\ [k EXCEPT !.pc = "send", !.round = @ + 1] \in Confirmers
    BY ConfirmerMoves
  <2> QED
    BY <1>13, <2>1 DEF FindBtcC
<1>14. ASSUME NEW k \in confirming, GenerateBtcBatch(k)
       PROVE  TypeOK'
  <2>1. k.tx \in Txs \cup {NoTx}
    BY DEF Confirmers
  <2>2. \A c \in CalsOf(k.tx) : PathOf(c) \in Roots
    BY DEF CalsOf, PathOf
  <2>3. \A c \in CalsOf(k.tx) :
           Upgrade(c, [tx |-> k.tx, root |-> PathOf(c)]) \in Branches
    BY <2>1, <2>2 DEF Upgrade, Branches, CalsOf
  <2>4. proofs' \in [Cals -> Branches]
    BY <1>14, <2>3 DEF GenerateBtcBatch
  <2>5. forgotten' \in SUBSET Txs
    BY <1>14, <2>1 DEF GenerateBtcBatch
  <2> QED
    BY <1>14, <2>4, <2>5 DEF GenerateBtcBatch
<1>15. ASSUME NEW m \in mempool, DeliverBtcC(m)
       PROVE  TypeOK'
  <2>1. m.head \in 0..MaxTip
    BY DEF BtcCs
  <2>2. latestBtcC' \in 0..MaxTip
    BY <1>15, <2>1 DEF DeliverBtcC
  <2>3. btccs[m.head] + 1 \in Nat
    BY <2>1
  <2>4. btccs' = btccs \/ btccs' = [btccs EXCEPT ![m.head] = @ + 1]
    BY <1>15 DEF DeliverBtcC
  <2>5. btccs' \in [0..MaxTip -> Nat]
    BY <2>3, <2>4
  <2>6. mempool' \in SUBSET BtcCs
    BY <1>15 DEF DeliverBtcC
  <2> QED
    BY <1>15, <2>2, <2>5, <2>6 DEF DeliverBtcC
<1>16. CASE Commit
  BY <1>16 DEF Commit
<1>17. CASE Crash
  <2>1. Idle \in ScanStates
    BY DEF Idle, ScanStates
  <2>2. scan' \in [Scanners -> ScanStates]
    BY <1>17, <2>1 DEF Crash
  <2>3. \A e \in Replaced : e \in Entries /\ e.tx \in Txs
    BY DEF Replaced, Entries, ScanStates
  <2>4. confirmed' \in SUBSET Entries /\ forgotten' \in SUBSET Txs
    BY <1>17, <2>3 DEF Crash
  <2> QED
    BY <1>17, <2>2, <2>4 DEF Crash
<1>18. CASE UNCHANGED vars
  BY <1>18 DEF vars
<1> QED
  BY <1>1, <1>2, <1>3, <1>4, <1>5, <1>6, <1>7, <1>8, <1>9, <1>10, <1>11,
     <1>12, <1>13, <1>14, <1>15, <1>16, <1>17, <1>18
  DEF Next, Scan, BeginTxMonitor, ConfirmAnchor

-----------------------------------------------------------------------------
(* Buried transactions                                                     *)

\* A step takes no height, in the state, in the CONFIRMED array or in a
\* goroutine's copy of it, beyond what Bitcoin has.
LEMMA PlacementStep ==
    ASSUME TypeOK, Placement, [Next]_vars
    PROVE  Placement'
<1> USE DEF Placement, bitcoin, tables, heights, btccVars
<1>1. CASE UNCHANGED <<tip, mined, heights, confirmed, scan>>
  BY <1>1 DEF Placed
<1>2. ASSUME NEW S \in SUBSET Txs, Mine(S)
      PROVE  Placement'
  <2>1. \A t \in Txs : mined[t] # 0 => mined'[t] = mined[t]
    BY <1>2 DEF Mine, TypeOK
  <2>2. \A t \in Txs : mined'[t] <= MaxTip
    BY <1>2, ConfirmAssumption DEF Mine, TypeOK
  <2>3. /\ \A e \in confirmed : e.tx \in Txs
        /\ \A s \in Scanners : \A e \in scan[s].rest : e.tx \in Txs
    BY DEF TypeOK, Entries, ScanStates
  <2>4. \A e : e.tx \in Txs /\ Placed(e) => Placed(e)'
    BY <2>1 DEF Placed
  <2>5. lnHeight <= tip' /\ btcHeight <= tip' /\ saved <= tip'
    BY <1>2 DEF Mine, TypeOK
  <2> QED
    BY <1>2, <2>2, <2>3, <2>4, <2>5 DEF Mine
<1>3. ASSUME NEW t \in Txs, StoreTx(t)
      PROVE  Placement'
  <2>1. \A e \in confirmed' :
           e \in confirmed \/ e = [tx |-> t, height |-> 0]
    BY <1>3 DEF StoreTx
  <2> QED
    BY <1>3, <2>1 DEF StoreTx, Placed
<1>4. ASSUME NEW s \in Scanners, StartMonitors(s)
      PROVE  Placement'
  <2>1. \A u \in Scanners : scan'[u].rest = scan[u].rest
    BY <1>4 DEF StartMonitors, TypeOK, ScanStates
  <2> QED
    BY <1>4, <2>1 DEF StartMonitors, Placed
<1>5. ASSUME NEW s \in Scanners, BlockSyncMonitor(s)
      PROVE  Placement'
  <2>1. \A u \in Scanners : scan'[u].rest \subseteq scan[u].rest \cup confirmed
    <3>1. scan \in [Scanners -> ScanStates]
      BY DEF TypeOK
    <3>2. CASE scan' = [scan EXCEPT ![s].pc = "list"]
      BY <3>1, <3>2 DEF ScanStates
    <3>3. CASE scan' = [scan EXCEPT ![s] =
                  [pc |-> "blocks", from |-> btcHeight, to |-> tip,
                   rest |-> {e \in confirmed : e.height = 0}]]
      BY <3>1, <3>3
    <3> QED
      BY <1>5, <3>2, <3>3 DEF BlockSyncMonitor
  <2>2. lnHeight' <= tip /\ btcHeight' <= tip
    BY <1>5 DEF BlockSyncMonitor, TypeOK
  <2>3. \A e : Placed(e) => Placed(e)'
    BY <1>5 DEF BlockSyncMonitor, Placed
  <2> QED
    BY <1>5, <2>1, <2>2, <2>3 DEF BlockSyncMonitor
<1>6. ASSUME NEW s \in Scanners, MonitorBlocksForConfirmation(s)
      PROVE  Placement'
  <2>1. \A e \in confirmed' :
           e \in confirmed \/ \E t : e = [tx |-> t, height |-> mined[t]]
    BY <1>6 DEF MonitorBlocksForConfirmation
  <2>2. \A e \in confirmed' : Placed(e)'
    BY <1>6, <2>1 DEF MonitorBlocksForConfirmation, Placed
  <2>3. \A u \in Scanners : scan'[u].rest \subseteq scan[u].rest
    BY <1>6 DEF MonitorBlocksForConfirmation, TypeOK, Idle
  <2>4. btcHeight' <= tip
    BY <1>6 DEF MonitorBlocksForConfirmation
  <2>5. \A e : Placed(e) => Placed(e)'
    BY <1>6 DEF MonitorBlocksForConfirmation, Placed
  <2> QED
    BY <1>6, <2>2, <2>3, <2>4, <2>5 DEF MonitorBlocksForConfirmation
<1>7. ASSUME NEW s \in Scanners, ListConfirmed(s)
      PROVE  Placement'
  <2>1. \A u \in Scanners : scan'[u].rest \subseteq scan[u].rest \cup confirmed
    BY <1>7 DEF ListConfirmed, TypeOK, Idle
  <2> QED
    BY <1>7, <2>1 DEF ListConfirmed, Placed
<1>8. ASSUME NEW s \in Scanners, NEW e \in scan[s].rest,
             MonitorConfirmedTx(s, e)
      PROVE  Placement'
  <2>1. \A u \in Scanners : scan'[u].rest \subseteq scan[u].rest
    BY <1>8 DEF MonitorConfirmedTx, TypeOK, Idle, ScanStates
  <2>2. confirmed' \subseteq confirmed
    BY <1>8 DEF MonitorConfirmedTx
  <2> QED
    BY <1>8, <2>1, <2>2 DEF MonitorConfirmedTx, Placed
<1>9. CASE Commit
  BY <1>9 DEF Commit, Placed
<1>10. CASE Crash
  <2>1. \A u \in Scanners : scan'[u].rest = {}
    BY <1>10 DEF Crash, Idle
  <2>2. confirmed' \subseteq confirmed
    BY <1>10 DEF Crash
  <2> QED
    BY <1>10, <2>1, <2>2 DEF Crash, Placed
<1> QED
  BY <1>1, <1>2, <1>3, <1>4, <1>5, <1>6, <1>7, <1>8, <1>9, <1>10
  DEF Next, Scan, BeginTxMonitor, ConfirmAnchor, vars, Send, DeliverBtcA,
      StoreTree, PeerConfirms, SendBtcC, FindBtcC, GenerateBtcBatch,
      DeliverBtcC

\* ConfirmAnchor is started, and writes branches, for buried transactions.
LEMMA BuriedStep ==
    ASSUME TypeOK, Placement, Buried, [Next]_vars
    PROVE  Buried'
<1> USE DEF Buried, bitcoin, tables, heights, btccVars
<1>1. CASE UNCHANGED <<tip, mined, confirming, proofs>>
  BY <1>1 DEF Deep
<1>2. ASSUME NEW S \in SUBSET Txs, Mine(S)
      PROVE  Buried'
  <2>1. \A t \in Txs : Deep(t) => Deep(t)'
    BY <1>2, ConfirmAssumption DEF Mine, TypeOK, Deep
  <2> QED
    BY <1>2, <2>1 DEF Mine
<1>3. ASSUME NEW s \in Scanners, NEW e \in scan[s].rest,
             MonitorConfirmedTx(s, e)
      PROVE  Buried'
  <2>1. e.tx \in Txs /\ e.height \in Nat
    BY DEF TypeOK, Entries, ScanStates
  <2>2. e.height # 0 /\ DeepEnough(e) => Deep(e.tx)
    <3> SUFFICES ASSUME e.height # 0, btcHeight - e.height + 1 >= Confirmations
                 PROVE  mined[e.tx] # 0 /\ tip - mined[e.tx] + 1 >= Confirmations
      BY DEF DeepEnough, Deep
    <3>1. mined[e.tx] = e.height /\ btcHeight <= tip
      BY DEF Placement, Placed
    <3>2. btcHeight \in Nat /\ tip \in Nat /\ Confirmations \in Nat
      BY ConfirmAssumption DEF TypeOK
    <3> QED BY <2>1, <3>1, <3>2
  <2>3. \A k \in confirming' :
           \/ k \in confirming
           \/ k.tx = e.tx /\ Deep(e.tx)
           \/ k.tx = NoTx
    BY <1>3, <2>2 DEF MonitorConfirmedTx, Confirming
  <2> QED
    BY <1>3, <2>3, ConfirmAssumption DEF MonitorConfirmedTx, Deep
<1>4. ASSUME NEW k \in confirming, SendBtcC(k)
      PROVE  Buried'
  <2>1. \A i \in confirming' : \E j \in confirming : i.tx = j.tx
    BY <1>4 DEF SendBtcC, TypeOK, Confirmers
  <2> QED
    BY <1>4, <2>1 DEF SendBtcC, Deep
<1>5. ASSUME NEW k \in confirming, FindBtcC(k)
      PROVE  Buried'
  <2>1. \A i \in confirming' : \E j \in confirming : i.tx = j.tx
    BY <1>5 DEF FindBtcC, TypeOK, Confirmers
  <2> QED
    BY <1>5, <2>1 DEF FindBtcC, Deep
<1>6. ASSUME NEW k \in confirming, GenerateBtcBatch(k)
      PROVE  Buried'
  <2>1. \A c \in CalsOf(k.tx) : k.tx \in Txs
    BY DEF CalsOf, TypeOK
  <2>2. \A c \in Cals :
           \/ proofs'[c] = proofs[c]
           \/ proofs'[c].tx = k.tx /\ c \in CalsOf(k.tx)
    <3> TAKE c \in Cals
    <3>1. CASE c \in CalsOf(k.tx)
      <4>1. proofs'[c] = Upgrade(c, [tx |-> k.tx, root |-> PathOf(c)])
        BY <1>6, <3>1 DEF GenerateBtcBatch
      <4> QED
        BY <3>1, <4>1 DEF Upgrade
    <3>2. CASE c \notin CalsOf(k.tx)
      <4>1. proofs'[c] = proofs[c]
        BY <1>6, <3>2 DEF GenerateBtcBatch
      <4> QED
        BY <4>1
    <3> QED
      BY <3>1, <3>2
  <2> QED
    BY <1>6, <2>1, <2>2 DEF GenerateBtcBatch, Deep
<1>7. CASE Crash
  BY <1>7 DEF Crash, Deep
<1> QED
  BY <1>1, <1>2, <1>3, <1>4, <1>5, <1>6, <1>7
  DEF Next, Scan, BeginTxMonitor, ConfirmAnchor, vars, Send, DeliverBtcA,
      StoreTx, StoreTree, PeerConfirms, StartMonitors, BlockSyncMonitor,
      MonitorBlocksForConfirmation, ListConfirmed, DeliverBtcC, Commit

-----------------------------------------------------------------------------
(* Rows and roots                                                          *)

\* Only transactions that were sent are delivered, stored and monitored.
LEMMA TakenUpStep ==
    ASSUME TypeOK, TakenUp, [Next]_vars
    PROVE  TakenUp'
<1> USE DEF TakenUp, bitcoin, tables, heights, btccVars
<1>1. CASE UNCHANGED <<sent, monitors, txState>>
  BY <1>1
<1>2. ASSUME NEW t \in Txs, NEW r \in Roots, Send(t, r)
      PROVE  TakenUp'
  <2>1. \A u \in Txs : sent[u] # {} => sent'[u] = sent[u]
    BY <1>2 DEF Send, TypeOK
  <2> QED
    BY <1>2, <2>1 DEF Send, TypeOK
<1>3. ASSUME NEW t \in Txs, DeliverBtcA(t)
      PROVE  TakenUp'
  BY <1>3 DEF DeliverBtcA
<1>4. ASSUME NEW t \in Txs, StoreTx(t)
      PROVE  TakenUp'
  <2>1. sent[t] # {}
    BY <1>4 DEF StoreTx
  <2> QED
    BY <1>4, <2>1 DEF StoreTx
<1>5. ASSUME NEW t \in Txs, StoreTree(t)
      PROVE  TakenUp'
  BY <1>5 DEF StoreTree
<1>6. CASE Crash
  BY <1>6 DEF Crash
<1> QED
  BY <1>1, <1>2, <1>3, <1>4, <1>5, <1>6
  DEF Next, Scan, BeginTxMonitor, ConfirmAnchor, vars, Mine, PeerConfirms,
      StartMonitors, BlockSyncMonitor, MonitorBlocksForConfirmation,
      ListConfirmed, MonitorConfirmedTx, SendBtcC, FindBtcC, GenerateBtcBatch,
      DeliverBtcC, Commit

\* The table gets the rows of a root for all of its CALs at once.
LEMMA RowsStep ==
    ASSUME TypeOK, Rows, [Next]_vars
    PROVE  Rows'
<1> USE DEF bitcoin, tables, heights, btccVars
<1>1. CASE UNCHANGED aggState
  BY <1>1 DEF Rows, HasRow
<1>2. ASSUME NEW t \in Txs, StoreTree(t)
      PROVE  Rows'
  <2>1. CASE aggState' = [c \in Cals |-> IF c \in sent[t]
                                       THEN Append(aggState[c], sent[t])
                                       ELSE aggState[c]]
    <3>1. aggState \in [Cals -> Seq(Roots)] /\ sent[t] \in Roots \cup {{}}
      BY DEF TypeOK
    <3>2. ASSUME NEW c \in Cals, NEW r \in Roots
          PROVE  HasRow(c, r)' <=> HasRow(c, r) \/ (c \in sent[t] /\ r = sent[t])
      <4>1. CASE c \in sent[t]
        <5>1. aggState[c] \in Seq(Roots) /\ sent[t] \in Roots
          BY <3>1, <4>1
        <5>2. aggState'[c] = Append(aggState[c], sent[t])
          BY <2>1, <4>1
        <5>3. Len(aggState[c]) \in Nat
          BY <5>1
        <5>4. /\ DOMAIN aggState'[c] = 1..Len(aggState[c]) + 1
              /\ \A i \in 1..Len(aggState[c]) : aggState'[c][i] = aggState[c][i]
              /\ aggState'[c][Len(aggState[c]) + 1] = sent[t]
          BY <5>1, <5>2, AppendProperties
        <5>5. DOMAIN aggState[c] = 1..Len(aggState[c])
          BY <5>1
        <5>6. \A i : i \in 1..Len(aggState[c]) + 1
                        <=> i \in 1..Len(aggState[c]) \/ i = Len(aggState[c]) + 1
          BY <5>3
        <5> HIDE DEF TypeOK
        <5> QED
          BY <4>1, <5>4, <5>5, <5>6, Zenon DEF HasRow
      <4>2. CASE c \notin sent[t]
        BY <2>1, <4>2 DEF HasRow
      <4> QED
        BY <4>1, <4>2
    <3>3. \A r \in Roots : r \subseteq Cals
      BY ConfirmAssumption
    <3> QED
      BY <3>2, <3>3 DEF Rows
  <2>2. CASE UNCHANGED aggState
    BY <2>2 DEF Rows, HasRow
  <2> QED
    BY <1>2, <2>1, <2>2 DEF StoreTree
<1> QED
  BY <1>1, <1>2
  DEF Next, Scan, BeginTxMonitor, ConfirmAnchor, vars, Send, Mine,
      DeliverBtcA, StoreTx, PeerConfirms, StartMonitors, BlockSyncMonitor,
      MonitorBlocksForConfirmation, ListConfirmed, MonitorConfirmedTx,
      SendBtcC, FindBtcC, GenerateBtcBatch, DeliverBtcC, Commit, Crash

-----------------------------------------------------------------------------
(* No anchor forgotten                                                     *)

\* A proof is never taken back.
LEMMA ProofsStay ==
    ASSUME TypeOK, [Next]_vars, NEW c \in Cals, proofs[c] # NoProof
    PROVE  proofs'[c] = proofs[c]
<1> USE DEF bitcoin, tables, heights, btccVars
<1>1. CASE UNCHANGED proofs
  BY <1>1
<1>2. ASSUME NEW k \in confirming, GenerateBtcBatch(k)
      PROVE  proofs'[c] = proofs[c]
  BY <1>2 DEF GenerateBtcBatch, Upgrade
<1> QED
  BY <1>1, <1>2
  DEF Next, Scan, BeginTxMonitor, ConfirmAnchor, vars, Send, Mine,
      DeliverBtcA, StoreTx, StoreTree, PeerConfirms, StartMonitors,
      BlockSyncMonitor, MonitorBlocksForConfirmation, ListConfirmed,
      MonitorConfirmedTx, SendBtcC, FindBtcC, DeliverBtcC, Commit, Crash

\* The root of a transaction is not changed once it is taken up.
LEMMA SentStays ==
    ASSUME TypeOK, [Next]_vars, NEW t \in Txs, sent[t] # {}
    PROVE  sent'[t] = sent[t]
<1> USE DEF bitcoin, tables, heights, btccVars
<1>1. CASE UNCHANGED sent
  BY <1>1
<1>2. ASSUME NEW u \in Txs, NEW r \in Roots, Send(u, r)
      PROVE  sent'[t] = sent[t]
  BY <1>2 DEF Send, TypeOK
<1> QED
  BY <1>1, <1>2
  DEF Next, Scan, BeginTxMonitor, ConfirmAnchor, vars, Mine,
      DeliverBtcA, StoreTx, StoreTree, PeerConfirms, StartMonitors,
      BlockSyncMonitor, MonitorBlocksForConfirmation, ListConfirmed,
      MonitorConfirmedTx, SendBtcC, FindBtcC, GenerateBtcBatch, DeliverBtcC,
      Commit, Crash

\* GenerateBtcBatch finds a path for every CAL of its root, or for none.
LEMMA AllOrNone ==
    ASSUME TypeOK, Rows, NEW t \in Txs, CalsOf(t) # {}
    PROVE  sent[t] \subseteq CalsOf(t)
<1>1. PICK c \in Cals : t \in txState /\ HasRow(c, sent[t])
  BY DEF CalsOf, HasRow
<1>2. sent[t] \in Roots
  <2>1. PICK i \in DOMAIN aggState[c] : aggState[c][i] = sent[t]
    BY <1>1 DEF HasRow
  <2>2. aggState[c] \in Seq(Roots)
    BY DEF TypeOK
  <2> QED
    BY <2>1, <2>2
<1>3. \A d \in sent[t] : d \in Cals /\ HasRow(d, sent[t])
  BY <1>1, <1>2, ConfirmAssumption DEF Rows
<1> QED
  BY <1>1, <1>3 DEF CalsOf, HasRow

\* What answers for a transaction.
InArray(t)    == \E e \in confirmed : e.tx = t
InGoroutine(t) == \E k \in confirming : k.tx = t

\* A step that takes a transaction from one of its places puts it in another
\* or records the mishap.
LEMMA ForgottenStep ==
    ASSUME TypeOK, TakenUp, Rows, NoAnchorForgotten, [Next]_vars
    PROVE  NoAnchorForgotten'
<1> USE DEF bitcoin, tables, heights, btccVars
<1> DEFINE Kept(t) == InArray(t) \/ InGoroutine(t) \/ Proved(t) \/ t \in forgotten
<1>0. \A t \in txState : t \in Txs /\ Kept(t)
  BY DEF NoAnchorForgotten, TypeOK, InArray, InGoroutine
<1>1. forgotten \subseteq forgotten'
  BY DEF Next, Scan, BeginTxMonitor, ConfirmAnchor, vars, Send, Mine,
      DeliverBtcA, StoreTx, StoreTree, PeerConfirms, StartMonitors,
      BlockSyncMonitor, MonitorBlocksForConfirmation, ListConfirmed,
      MonitorConfirmedTx, SendBtcC, FindBtcC, GenerateBtcBatch, DeliverBtcC,
      Commit, Crash
<1>2. \A t \in txState : Proved(t) => Proved(t)'
  <2>1. ASSUME NEW t \in txState, Proved(t)
        PROVE  Proved(t)'
    <3>1. t \in Txs /\ sent[t] # {} /\ sent[t] \subseteq Cals
      BY ConfirmAssumption DEF TypeOK, TakenUp
    <3>2. sent'[t] = sent[t]
      BY <3>1, SentStays
    <3>3. \A c \in sent[t] : proofs'[c] # NoProof
      BY <2>1, <3>1, ProofsStay DEF Proved
    <3> QED
      BY <3>2, <3>3 DEF Proved, NoProof
  <2> QED
    BY <2>1
<1> SUFFICES ASSUME NEW t \in txState', t \notin forgotten'
             PROVE  InArray(t)' \/ InGoroutine(t)' \/ Proved(t)'
  BY DEF NoAnchorForgotten, InArray, InGoroutine
<1>3. CASE UNCHANGED <<txState, confirmed, confirming>>
  BY <1>0, <1>1, <1>2, <1>3 DEF InArray, InGoroutine
<1>4. ASSUME NEW u \in Txs, StoreTx(u)
      PROVE  InArray(t)' \/ InGoroutine(t)' \/ Proved(t)'
  <2>1. CASE t = u
    <3>1. [tx |-> t, height |-> 0] \in confirmed'
      BY <1>4, <2>1 DEF StoreTx
    <3>2. [tx |-> t, height |-> 0].tx = t
      OBVIOUS
    <3> QED
      BY <3>1, <3>2 DEF InArray
  <2>2. CASE t # u
    BY <1>0, <1>1, <1>2, <1>4, <2>2 DEF StoreTx, InArray, InGoroutine
  <2> QED
    BY <2>1, <2>2
<1>5. ASSUME NEW s \in Scanners, MonitorBlocksForConfirmation(s)
      PROVE  InArray(t)' \/ InGoroutine(t)' \/ Proved(t)'
  <2>1. \A e \in confirmed : \E f \in confirmed' : f.tx = e.tx
    <3>1. PICK last \in FirstBlock(s) - 1 .. scan[s].to :
            LET found == {e \in scan[s].rest :
                             mined[e.tx] \in FirstBlock(s)..last}
            IN  confirmed' = (confirmed \ found) \cup
                    {[tx |-> e.tx, height |-> mined[e.tx]] : e \in found}
      BY <1>5 DEF MonitorBlocksForConfirmation
    <3> DEFINE found == {e \in scan[s].rest :
                            mined[e.tx] \in FirstBlock(s)..last}
    <3> TAKE e \in confirmed
    <3>2. CASE e \in found
      <4>1. [tx |-> e.tx, height |-> mined[e.tx]] \in confirmed'
        BY <3>1, <3>2
      <4>2. [tx |-> e.tx, height |-> mined[e.tx]].tx = e.tx
        OBVIOUS
      <4> QED
        BY <4>1, <4>2
    <3>3. CASE e \notin found
      <4>1. e \in confirmed'
        BY <3>1, <3>3
      <4> QED
        BY <4>1
    <3> QED
      BY <3>2, <3>3
  <2> QED
    BY <1>0, <1>1, <1>2, <1>5, <2>1
    DEF MonitorBlocksForConfirmation, InArray, InGoroutine
<1>6. ASSUME NEW s \in Scanners, NEW e \in scan[s].rest,
             MonitorConfirmedTx(s, e)
      PROVE  InArray(t)' \/ InGoroutine(t)' \/ Proved(t)'
  <2>1. confirming \subseteq confirming' /\ confirmed \ {e} \subseteq confirmed'
    BY <1>6 DEF MonitorConfirmedTx
  <2>2. \/ e \in confirmed => e \in confirmed'
        \/ Confirming(e.tx, e.height) \in confirming'
        \/ e.tx \in forgotten'
    BY <1>6 DEF MonitorConfirmedTx
  <2>3. t \in txState
    BY <1>6 DEF MonitorConfirmedTx
  <2> QED
    BY <1>0, <1>1, <1>2, <2>1, <2>2, <2>3 DEF InArray, InGoroutine, Confirming
<1>7. ASSUME NEW k \in confirming, SendBtcC(k) \/ FindBtcC(k)
      PROVE  InArray(t)' \/ InGoroutine(t)' \/ Proved(t)'
  <2>1. \A i \in confirming : \E j \in confirming' : i.tx = j.tx
    <3>1. PICK n \in confirming' : /\ n.tx = k.tx
                                    /\ confirming \ {k} \subseteq confirming'
      <4>1. /\ [k EXCEPT !.pc = "wait"].tx = k.tx
            /\ [k EXCEPT !.pc = "batch"].tx = k.tx
            /\ [k EXCEPT !.pc = "send", !.round = @ + 1].tx = k.tx
        BY DEF TypeOK, Confirmers
      <4>2. CASE SendBtcC(k)
        BY <4>1, <4>2 DEF SendBtcC
      <4>3. CASE FindBtcC(k)
        BY <4>1, <4>3 DEF FindBtcC
      <4> QED
        BY <1>7, <4>2, <4>3
    <3> QED
      BY <3>1
  <2>2. t \in txState /\ confirmed' = confirmed
    BY <1>7 DEF SendBtcC, FindBtcC
  <2> QED
    BY <1>0, <1>1, <1>2, <2>1, <2>2 DEF InArray, InGoroutine
<1>8. ASSUME NEW k \in confirming, GenerateBtcBatch(k)
      PROVE  InArray(t)' \/ InGoroutine(t)' \/ Proved(t)'
  <2>1. t \in txState /\ t \in Txs /\ t # NoTx
    BY <1>0, <1>8, ConfirmAssumption DEF GenerateBtcBatch
  <2>2. CASE k.tx = t
    <3>1. sent[t] \subseteq CalsOf(t)
      BY <1>8, <2>1, <2>2, AllOrNone DEF GenerateBtcBatch
    <3>2. \A c \in CalsOf(t) : proofs'[c] # NoProof
      <4>1. TAKE c \in CalsOf(t)
      <4>2. c \in Cals
        BY DEF CalsOf
      <4>3. proofs'[c] = Upgrade(c, [tx |-> t, root |-> PathOf(c)])
        BY <1>8, <2>2, <4>2 DEF GenerateBtcBatch
      <4> QED
        BY <2>1, <4>3 DEF Upgrade, NoProof
    <3>3. sent' = sent
      BY <1>8 DEF GenerateBtcBatch
    <3> QED
      BY <3>1, <3>2, <3>3 DEF Proved, NoProof
  <2>3. CASE k.tx # t
    BY <1>0, <1>1, <1>2, <1>8, <2>1, <2>3
    DEF GenerateBtcBatch, InArray, InGoroutine
  <2> QED
    BY <2>2, <2>3
<1>9. CASE Crash
  <2>1. t \in txState /\ t \in Txs
    BY <1>0, <1>9 DEF Crash
  <2>2. ~InGoroutine(t)
    BY <1>9, <2>1 DEF Crash, InGoroutine
  <2>3. \A e \in confirmed : e \in confirmed' \/ e.tx \in forgotten'
    BY <1>9 DEF Crash
  <2> QED
    BY <1>0, <1>1, <1>2, <2>1, <2>2, <2>3 DEF InArray
<1> QED
  BY <1>3, <1>4, <1>5, <1>6, <1>7, <1>8, <1>9
  DEF Next, Scan, BeginTxMonitor, ConfirmAnchor, vars, Send, Mine,
      DeliverBtcA, StoreTree, PeerConfirms, StartMonitors, BlockSyncMonitor,
      ListConfirmed, DeliverBtcC, Commit

-----------------------------------------------------------------------------
(* Paths                                                                   *)

\* With disjoint roots a CAL has rows of one root only, whichever is last.
LEMMA VerifiedStep ==
    ASSUME DisjointRoots, TypeOK, Buried, Rows, Verified, [Next]_vars
    PROVE  Verified'
<1> USE DEF bitcoin, tables, heights, btccVars
<1>1. CASE UNCHANGED <<proofs, sent>>
  BY <1>1 DEF Verified, NoProof
<1>2. ASSUME NEW t \in Txs, NEW r \in Roots, Send(t, r)
      PROVE  Verified'
  <2>1. \A c \in Cals : proofs[c] # NoProof =>
           sent'[proofs[c].tx] = sent[proofs[c].tx]
    BY <1>2 DEF Send, Verified, Buried, TypeOK
  <2> QED
    BY <1>2, <2>1 DEF Send, Verified, NoProof
<1>3. ASSUME NEW k \in confirming, GenerateBtcBatch(k)
      PROVE  Verified'
  <2> SUFFICES ASSUME NEW c \in Cals, proofs'[c] # NoProof
               PROVE  /\ c \in proofs'[c].root
                      /\ proofs'[c].root = sent[proofs'[c].tx]
    BY <1>3 DEF GenerateBtcBatch, Verified, NoProof
  <2>1. CASE proofs'[c] = proofs[c]
    BY <2>1 DEF Verified
  <2>2. CASE proofs'[c] # proofs[c]
    <3>1. /\ c \in CalsOf(k.tx)
          /\ proofs'[c] = Upgrade(c, [tx |-> k.tx, root |-> PathOf(c)])
      BY <1>3, <2>2 DEF GenerateBtcBatch
    <3>2. proofs'[c] = [tx |-> k.tx, root |-> PathOf(c)]
      BY <2>2, <3>1 DEF Upgrade
    <3>3. PICK i \in DOMAIN aggState[c] : aggState[c][i] = sent[k.tx]
      BY <3>1 DEF CalsOf
    <3>4. aggState[c] \in Seq(Roots)
      BY DEF TypeOK
    <3>5. Len(aggState[c]) \in DOMAIN aggState[c]
      BY <3>3, <3>4
    <3>6. /\ sent[k.tx] \in Roots /\ HasRow(c, sent[k.tx])
          /\ PathOf(c) \in Roots /\ HasRow(c, PathOf(c))
      BY <3>3, <3>4, <3>5 DEF HasRow, PathOf
    <3>7. c \in sent[k.tx] /\ c \in PathOf(c)
      BY <3>6 DEF Rows
    <3>8. PathOf(c) = sent[k.tx]
      BY <3>6, <3>7 DEF DisjointRoots
    <3> QED
      BY <3>2, <3>7, <3>8
  <2> QED
    BY <2>1, <2>2
<1> QED
  BY <1>1, <1>2, <1>3
  DEF Next, Scan, BeginTxMonitor, ConfirmAnchor, vars, Mine,
      DeliverBtcA, StoreTx, StoreTree, PeerConfirms, StartMonitors,
      BlockSyncMonitor, MonitorBlocksForConfirmation, ListConfirmed,
      MonitorConfirmedTx, SendBtcC, FindBtcC, DeliverBtcC, Commit, Crash

-----------------------------------------------------------------------------
(* The theorems                                                            *)

\* The parts are inductive together.
LEMMA Invariance == Spec => []ProofInv
<1>1. ProofInv /\ [Next]_vars => ProofInv'
  BY TypeStep, PlacementStep, BuriedStep, TakenUpStep, RowsStep, ForgottenStep
  DEF ProofInv
<1> QED
  BY InitProofInv, <1>1, PTL DEF Spec

\* The monitors, ConfirmAnchor, DeliverTx and a restart keep the application
\* state, the tables and the goroutines within their types.
THEOREM TypeCorrect == Spec => []TypeOK
<1>1. ProofInv => TypeOK
  BY DEF ProofInv
<1> QED
  BY Invariance, <1>1, PTL

\* GenerateBtcBatch writes a Bitcoin branch only for a transaction that is
\* buried under the confirmations, whatever stale scans, LND failures and
\* restarts do to BtcHeight and to the CONFIRMED array.
THEOREM OnlyBuried == Spec => []ProofsBuried
<1>1. ProofInv => ProofsBuried
  BY DEF ProofInv, Buried, Deep, ProofsBuried
<1> QED
  BY Invariance, <1>1, PTL

\* A transaction that BeginTxMonitor took up leaves the CONFIRMED array only
\* for ConfirmAnchor and ConfirmAnchor only with its proofs written, unless
\* one of the mishaps that "forgotten" records hit it.
THEOREM NothingForgotten == Spec => []NoAnchorForgotten
<1>1. ProofInv => NoAnchorForgotten
  BY DEF ProofInv
<1> QED
  BY Invariance, <1>1, PTL

\* When no CAL is anchored under two roots, every Bitcoin branch leads to the
\* root its transaction carries: GenerateBtcBatch's lookup by CAL is right as
\* long as ranges are not anchored twice.
THEOREM BranchesVerify ==
    ASSUME DisjointRoots
    PROVE  Spec => []ProofsVerify
<1>1. Init => Verified
  BY DEF Init, Verified
<1>2. ProofInv /\ Verified /\ [Next]_vars => Verified'
  BY VerifiedStep DEF ProofInv
<1>3. Verified => ProofsVerify
  BY DEF Verified, ProofsVerify
<1> QED
  BY Invariance, <1>1, <1>2, <1>3, PTL DEF Spec
=============================================================================
