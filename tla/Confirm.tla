------------------------------ MODULE Confirm ------------------------------
(***************************************************************************)
(* One Core following anchors from their BTC-A to the Bitcoin proofs:      *)
(* BeginTxMonitor, BlockSyncMonitor, MonitorBlocksForConfirmation,         *)
(* MonitorConfirmedTx, ConfirmAnchor and GenerateBtcBatch of               *)
(* anchor/bitcoin/bitcoinanchor.go, the tables of                          *)
(* database/level/chainpointdb.go they fill and read, and DeliverTx of a   *)
(* BTC-C in abci/transactions.go.                                          *)
(*                                                                         *)
(* A delivered BTC-A puts its Bitcoin transaction in the CONFIRMED array.  *)
(* The goroutine each EndBlock starts looks for it in the new Bitcoin      *)
(* blocks, waits for Confirmations blocks and starts ConfirmAnchor, which  *)
(* waits for a BTC-C of the block (sending one if elected) and then writes *)
(* the proofs of all CALs under the anchor.                                *)
(*                                                                         *)
(* A root is the set of CALs it was built from, a path in a proof the root *)
(* it leads to, and a Bitcoin block's Merkle root its height (0 for the    *)
(* empty message).  Cals are the CALs of this Core, which alone has proofs *)
(* of.  The Bitcoin chain and the other Cores are the environment.         *)
(***************************************************************************)
EXTENDS Integers, Sequences, FiniteSets

CONSTANTS
    Cals,           \* CALs of this Core that are anchored
    Roots,          \* sets of CALs that anchors commit to
    Txs,            \* Bitcoin transactions leaders send
    Scanners,       \* goroutines of EndBlock
    Confirmations,  \* the 6 blocks of MonitorConfirmedTx
    MaxGap,         \* the 36 blocks of BlockSyncMonitor
    Rounds,         \* turns of ConfirmAnchor's loop before its deadline
    MaxTip,         \* bound: Bitcoin blocks explored
    MaxBtcC,        \* bound: BTC-Cs accepted for one block
    NoTx,           \* the transaction of an empty message
    Events          \* what may happen beside an undisturbed run

AllEvents ==
    { "slow",       \* goroutines outlive the next block of their chain
      "crash",      \* the process stops and is restarted
      "rpc_error",  \* a transaction search fails
      "lnd_error",  \* LND does not answer
      "late_btca" } \* a transaction is mined before its BTC-A is delivered

ASSUME ConfirmAssumption ==
    /\ Roots \subseteq SUBSET Cals
    /\ Confirmations \in Nat \ {0} /\ MaxGap \in Nat /\ Rounds \in Nat
    /\ MaxTip \in Nat /\ MaxBtcC \in Nat
    /\ NoTx \notin Txs
    /\ Events \subseteq AllEvents

VARIABLES
    tip,         \* height of the Bitcoin chain
    mined,       \* block that holds each transaction, 0 when none does
    sent,        \* root of each transaction sent, {} when it is not sent
    delivered,   \* transactions whose BTC-A was delivered
    monitors,    \* goroutines running BeginTxMonitor
    confirmed,   \* the CONFIRMED array in LevelDB
    txState,     \* the table btctxstate: transactions it has a row of
    aggState,    \* the table anchorbtcaggstate_by_cal: roots of each CAL
    lnHeight,    \* state.LNState.BlockHeight
    btcHeight,   \* state.BtcHeight
    saved,       \* BtcHeight as Commit saved it last
    scan,        \* where each goroutine of EndBlock is
    confirming,  \* goroutines running ConfirmAnchor
    latestBtcC,  \* state.LatestBtccTx
    mempool,     \* BTC-C transactions not yet in a block
    btccs,       \* how often a BTC-C of each block was accepted
    proofs,      \* the table proof: the Bitcoin branch of each CAL's proofs
    forgotten    \* history: transactions a mishap took out of the process

bitcoin   == <<tip, mined, sent>>
tables    == <<txState, aggState, proofs>>
heights   == <<lnHeight, btcHeight, saved>>
btccVars  == <<latestBtcC, mempool, btccs>>
vars == <<bitcoin, delivered, monitors, confirmed, tables, heights, scan,
          confirming, btccVars, forgotten>>

NoProof == [tx |-> NoTx, root |-> {}]
Idle == [pc |-> "idle", from |-> 0, to |-> 0, rest |-> {}]

\* The Core has seen the tip before: BlockSyncMonitor's very first call only
\* takes the height over.
Init ==
    /\ tip = 1 /\ mined = [t \in Txs |-> 0] /\ sent = [t \in Txs |-> {}]
    /\ delivered = {} /\ monitors = {}
    /\ confirmed = {}
    /\ txState = {}
    /\ aggState = [c \in Cals |-> <<>>]
    /\ lnHeight = 1 /\ btcHeight = 1 /\ saved = 1
    /\ scan = [s \in Scanners |-> Idle]
    /\ confirming = {}
    /\ latestBtcC = 0 /\ mempool = {}
    /\ btccs = [h \in 0..MaxTip |-> 0]
    /\ proofs = [c \in Cals |-> NoProof]
    /\ forgotten = {}

-----------------------------------------------------------------------------
(* Bitcoin and the leaders                                                 *)

Send(t, r) ==
    /\ sent[t] = {}
    /\ sent' = [sent EXCEPT ![t] = r]
    /\ UNCHANGED <<tip, mined, delivered, monitors, confirmed, tables, heights,
                   scan, confirming, btccVars, forgotten>>

\* A block with the transactions S; the last blocks explored hold none, so
\* that each transaction can reach its confirmations.
Mine(S) ==
    /\ tip < MaxTip
    /\ S # {} => tip + Confirmations <= MaxTip
    /\ monitors = {} \/ "slow" \in Events
    /\ \A t \in S : /\ sent[t] # {} /\ mined[t] = 0
                    /\ t \in txState \/ "late_btca" \in Events
    /\ tip' = tip + 1
    /\ mined' = [t \in Txs |-> IF t \in S THEN tip + 1 ELSE mined[t]]
    /\ UNCHANGED <<sent, delivered, monitors, confirmed, tables, heights, scan,
                   confirming, btccVars, forgotten>>

-----------------------------------------------------------------------------
(* BeginTxMonitor                                                          *)

\* DeliverTx of the BTC-A starts the goroutine.
DeliverBtcA(t) ==
    /\ sent[t] # {} /\ t \notin delivered
    /\ delivered' = delivered \cup {t}
    /\ monitors' = monitors \cup {[tx |-> t, pc |-> "store"]}
    /\ UNCHANGED <<bitcoin, confirmed, tables, heights, scan, confirming,
                   btccVars, forgotten>>

\* BulkInsertBtcTxState and the entry in the CONFIRMED array.  A block before
\* the last one searched is never searched again.
StoreTx(t) ==
    /\ [tx |-> t, pc |-> "store"] \in monitors
    /\ monitors' = (monitors \ {[tx |-> t, pc |-> "store"]})
                      \cup {[tx |-> t, pc |-> "tree"]}
    /\ txState' = txState \cup {t}
    /\ confirmed' = confirmed \cup {[tx |-> t, height |-> 0]}
    /\ forgotten' = IF mined[t] \in 1..btcHeight - 1 THEN forgotten \cup {t}
                    ELSE forgotten
    /\ UNCHANGED <<bitcoin, delivered, aggState, proofs, heights, scan,
                   confirming, btccVars>>

\* The tree is built again from the calendar and its paths are stored.
StoreTree(t) ==
    /\ [tx |-> t, pc |-> "tree"] \in monitors
    /\ monitors' = monitors \ {[tx |-> t, pc |-> "tree"]}
    /\ \/ /\ aggState' = [c \in Cals |-> IF c \in sent[t]
                                         THEN Append(aggState[c], sent[t])
                                         ELSE aggState[c]]
          /\ UNCHANGED forgotten
       \/ /\ "rpc_error" \in Events
          /\ forgotten' = forgotten \cup {t}
          /\ UNCHANGED aggState
    /\ UNCHANGED <<bitcoin, delivered, confirmed, txState, proofs, heights,
                   scan, confirming, btccVars>>

-----------------------------------------------------------------------------
(* The goroutine of EndBlock: BlockSyncMonitor, then MonitorConfirmedTx.   *)
(* Each NotX is a mistake one could make in X.                             *)

StartMonitors(s) ==
    /\ scan[s] = Idle
    /\ (\A u \in Scanners : scan[u] = Idle) \/ "slow" \in Events
    /\ scan' = [scan EXCEPT ![s].pc = "info"]
    /\ UNCHANGED <<bitcoin, delivered, monitors, confirmed, tables, heights,
                   confirming, btccVars, forgotten>>

\* Transactions still without a block whose block lies before h.
Passed(h) ==
    {t \in Txs : /\ [tx |-> t, height |-> 0] \in confirmed
                 /\ mined[t] \in 1..h - 1}

\* GetInfo; then the CONFIRMED array is read for the search, unless there is
\* no new block or too many of them.
BlockSyncMonitor(s) ==
    /\ scan[s].pc = "info"
    /\ \/ /\ lnHeight' = tip
          /\ IF btcHeight # tip /\ tip - btcHeight < MaxGap
             THEN /\ scan' = [scan EXCEPT ![s] =
                        [pc |-> "blocks", from |-> btcHeight, to |-> tip,
                         rest |-> {e \in confirmed : e.height = 0}]]
                  /\ UNCHANGED <<btcHeight, forgotten>>
             ELSE /\ scan' = [scan EXCEPT ![s].pc = "list"]
                  /\ btcHeight' = tip
                  /\ forgotten' = IF btcHeight = tip THEN forgotten
                                  ELSE forgotten \cup Passed(tip)
       \/ /\ "lnd_error" \in Events
          /\ scan' = [scan EXCEPT ![s].pc = "list"]
          /\ UNCHANGED <<lnHeight, btcHeight, forgotten>>
    /\ UNCHANGED <<bitcoin, delivered, monitors, confirmed, tables, saved,
                   confirming, btccVars>>

\* First block of the search: the last one searched before, once more.
NotFirstBlock(s) == scan[s].from + 1
FirstBlock(s) == scan[s].from

\* Transactions the goroutine did not look for, or not far enough, when it
\* moves BtcHeight past their block.
Overtaken(s) ==
    {t \in Passed(lnHeight) :
        \/ [tx |-> t, height |-> 0] \notin scan[s].rest
        \/ mined[t] > scan[s].to}

\* The blocks up to the last, or up to the first that LND does not give.
\* BtcHeight becomes the height LND told last, to whichever goroutine.
MonitorBlocksForConfirmation(s) ==
    /\ scan[s].pc = "blocks"
    /\ \E last \in FirstBlock(s) - 1 .. scan[s].to :
         LET found == {e \in scan[s].rest : mined[e.tx] \in FirstBlock(s)..last}
         IN  /\ last = scan[s].to \/ "lnd_error" \in Events
             /\ confirmed' = (confirmed \ found) \cup
                   {[tx |-> e.tx, height |-> mined[e.tx]] : e \in found}
             /\ IF last = scan[s].to
                THEN /\ btcHeight' = lnHeight
                     /\ forgotten' = forgotten \cup Overtaken(s)
                ELSE UNCHANGED <<btcHeight, forgotten>>
    /\ scan' = [scan EXCEPT ![s] = [Idle EXCEPT !.pc = "list"]]
    /\ UNCHANGED <<bitcoin, delivered, monitors, tables, lnHeight, saved,
                   confirming, btccVars>>

\* MonitorConfirmedTx reads the array.
ListConfirmed(s) ==
    /\ scan[s].pc = "list"
    /\ scan' = [scan EXCEPT ![s] =
                  IF confirmed = {} THEN Idle
                  ELSE [Idle EXCEPT !.pc = "confirm", !.rest = confirmed]]
    /\ UNCHANGED <<bitcoin, delivered, monitors, confirmed, tables, heights,
                   confirming, btccVars, forgotten>>

NotDeepEnough(e) == btcHeight - e.height + 2 >= Confirmations
DeepEnough(e) == btcHeight - e.height + 1 >= Confirmations

\* go ConfirmAnchor
Confirming(t, h) == [tx |-> t, head |-> h, pc |-> "send", round |-> 1]

\* One entry.  When the block cannot be read the goroutine is started with an
\* empty message, and the entry deleted all the same.
MonitorConfirmedTx(s, e) ==
    /\ scan[s].pc = "confirm" /\ e \in scan[s].rest
    /\ scan' = [scan EXCEPT ![s] =
                  IF scan[s].rest = {e} THEN Idle
                  ELSE [scan[s] EXCEPT !.rest = @ \ {e}]]
    /\ IF e.height # 0 /\ DeepEnough(e)
       THEN /\ confirmed' = confirmed \ {e}
            /\ \/ /\ confirming' = confirming \cup {Confirming(e.tx, e.height)}
                  /\ UNCHANGED forgotten
               \/ /\ "lnd_error" \in Events
                  /\ confirming' = confirming \cup {Confirming(NoTx, 0)}
                  /\ forgotten' = forgotten \cup {e.tx}
       ELSE UNCHANGED <<confirmed, confirming, forgotten>>
    /\ UNCHANGED <<bitcoin, delivered, monitors, tables, heights, btccVars>>

-----------------------------------------------------------------------------
(* ConfirmAnchor                                                           *)

NotBtcC(core, h) == [core |-> core, head |-> h - 1]
BtcC(core, h) == [core |-> core, head |-> h]

\* "only start BTC-C leader election process if someone else hasn't"
SendBtcC(k) ==
    /\ k.pc = "send"
    /\ confirming' = (confirming \ {k}) \cup {[k EXCEPT !.pc = "wait"]}
    /\ \/ UNCHANGED mempool
       \/ /\ k.head # latestBtcC
          /\ mempool' = mempool \cup {BtcC("self", k.head)}
    /\ UNCHANGED <<bitcoin, delivered, monitors, confirmed, tables, heights,
                   scan, latestBtcC, btccs, forgotten>>

\* GetBTCCForBtcRoot after the sleep.
FindBtcC(k) ==
    /\ k.pc = "wait"
    /\ confirming' = (confirming \ {k}) \cup
         {IF btccs[k.head] > 0 \/ k.round = Rounds
          THEN [k EXCEPT !.pc = "batch"]
          ELSE [k EXCEPT !.pc = "send", !.round = @ + 1]}
    /\ UNCHANGED <<bitcoin, delivered, monitors, confirmed, tables, heights,
                   scan, btccVars, forgotten>>

\* GetProofIdsByBtcTxId: the CALs with a path to the transaction's root.
NotCalsOf(t) == {c \in Cals : t \in txState /\ aggState[c] # <<>>}
CalsOf(t) ==
    {c \in Cals : /\ t \in txState
                  /\ \E i \in DOMAIN aggState[c] : aggState[c][i] = sent[t]}

\* The lookup table keeps the last row of a CAL.
PathOf(c) == aggState[c][Len(aggState[c])]

\* BulkInsertProofs does not replace a proof with a Bitcoin branch.
NotUpgrade(c, p) == IF proofs[c] = NoProof THEN NoProof ELSE p
Upgrade(c, p) == IF proofs[c] = NoProof THEN p ELSE proofs[c]

\* Without rows for the root there is nothing to write, and nobody to come
\* back to it.
GenerateBtcBatch(k) ==
    /\ k.pc = "batch"
    /\ confirming' = confirming \ {k}
    /\ proofs' = [c \in Cals |->
          IF c \in CalsOf(k.tx)
          THEN Upgrade(c, [tx |-> k.tx, root |-> PathOf(c)])
          ELSE proofs[c]]
    /\ forgotten' = IF CalsOf(k.tx) = {} /\ k.tx # NoTx
                    THEN forgotten \cup {k.tx} ELSE forgotten
    /\ UNCHANGED <<bitcoin, delivered, monitors, confirmed, txState, aggState,
                   heights, scan, btccVars>>

\* A peer runs the same code on the same chains.
PeerConfirms(t) ==
    /\ mined[t] # 0 /\ tip - mined[t] + 1 >= Confirmations
    /\ mined[t] # latestBtcC
    /\ mempool' = mempool \cup {BtcC("peer", mined[t])}
    /\ UNCHANGED <<bitcoin, delivered, monitors, confirmed, tables, heights,
                   scan, confirming, latestBtcC, btccs, forgotten>>

\* DeliverTx: a BTC-C with the root of the last one is not accepted again.
DeliverBtcC(m) ==
    /\ btccs[m.head] < MaxBtcC
    /\ mempool' = mempool \ {m}
    /\ IF m.head = latestBtcC
       THEN UNCHANGED <<latestBtcC, btccs>>
       ELSE /\ latestBtcC' = m.head
            /\ btccs' = [btccs EXCEPT ![m.head] = @ + 1]
    /\ UNCHANGED <<bitcoin, delivered, monitors, confirmed, tables, heights,
                   scan, confirming, forgotten>>

-----------------------------------------------------------------------------
(* Commit and restart                                                      *)

Commit ==
    /\ saved' = btcHeight
    /\ UNCHANGED <<bitcoin, delivered, monitors, confirmed, tables, lnHeight,
                   btcHeight, scan, confirming, btccVars, forgotten>>

\* Entries a search is about to replace: deleted, then appended again.
Replaced ==
    UNION {{e \in scan[s].rest : mined[e.tx] \in scan[s].from..scan[s].to} :
              s \in {u \in Scanners : scan[u].pc = "blocks"}}

\* The goroutines are gone, one of them perhaps between deleting an entry of
\* the CONFIRMED array and appending it with its height; a BTC-A that is
\* replayed is not monitored.
Crash ==
    /\ "crash" \in Events
    /\ scan' = [s \in Scanners |-> Idle]
    /\ monitors' = {} /\ confirming' = {}
    /\ btcHeight' = saved
    /\ \E gone \in {{}} \cup {{e} : e \in Replaced} :
         /\ confirmed' = confirmed \ gone
         /\ forgotten' = forgotten \cup {m.tx : m \in monitors}
                \cup ({k.tx : k \in confirming} \cap Txs) \cup {e.tx : e \in gone}
    /\ UNCHANGED <<bitcoin, delivered, tables, lnHeight, saved, btccVars>>

-----------------------------------------------------------------------------
Scan(s) ==
    \/ StartMonitors(s) \/ BlockSyncMonitor(s) \/ MonitorBlocksForConfirmation(s)
    \/ ListConfirmed(s) \/ \E e \in scan[s].rest : MonitorConfirmedTx(s, e)

BeginTxMonitor(t) == StoreTx(t) \/ StoreTree(t)

ConfirmAnchor(k) == SendBtcC(k) \/ FindBtcC(k) \/ GenerateBtcBatch(k)

Next ==
    \/ \E t \in Txs : \E r \in Roots : Send(t, r)
    \/ \E S \in SUBSET Txs : Mine(S)
    \/ \E t \in Txs : DeliverBtcA(t) \/ BeginTxMonitor(t) \/ PeerConfirms(t)
    \/ \E s \in Scanners : Scan(s)
    \/ \E k \in confirming : ConfirmAnchor(k)
    \/ \E m \in mempool : DeliverBtcC(m)
    \/ Commit \/ Crash

Spec == Init /\ [][Next]_vars

\* Blocks keep coming on both chains and goroutines that can run do run; BTC-Cs
\* need not be sent or delivered.
Fairness ==
    /\ WF_vars(Mine({}))
    /\ \A t \in Txs : WF_vars(BeginTxMonitor(t))
    /\ \A s \in Scanners : WF_vars(Scan(s))
    /\ WF_vars(\E k \in confirming : ConfirmAnchor(k))

FairSpec == Spec /\ Fairness

-----------------------------------------------------------------------------
(* Properties                                                              *)

Entries == [tx : Txs, height : Nat]
ScanStates ==
    [pc : {"idle", "info", "blocks", "list", "confirm"},
     from : Nat, to : Nat, rest : SUBSET Entries]
Confirmers ==
    [tx : Txs \cup {NoTx}, head : 0..MaxTip,
     pc : {"send", "wait", "batch"}, round : Nat]
BtcCs == [core : {"self", "peer"}, head : 0..MaxTip]
Branches == [tx : Txs \cup {NoTx}, root : Roots \cup {{}}]

\* Every variable ranges over the states the code can build.
TypeOK ==
    /\ tip \in Nat /\ mined \in [Txs -> Nat]
    /\ sent \in [Txs -> Roots \cup {{}}]
    /\ delivered \in SUBSET Txs
    /\ monitors \in SUBSET [tx : Txs, pc : {"store", "tree"}]
    /\ confirmed \in SUBSET Entries
    /\ txState \in SUBSET Txs
    /\ aggState \in [Cals -> Seq(Roots)]
    /\ lnHeight \in Nat /\ btcHeight \in Nat /\ saved \in Nat
    /\ scan \in [Scanners -> ScanStates]
    /\ confirming \in SUBSET Confirmers
    /\ latestBtcC \in 0..MaxTip
    /\ mempool \in SUBSET BtcCs
    /\ btccs \in [0..MaxTip -> Nat]
    /\ proofs \in [Cals -> Branches]
    /\ forgotten \in SUBSET Txs

\* A Bitcoin branch is written only for a transaction that Bitcoin has
\* buried under the confirmations, whatever restarts, stale scans and LND
\* failures did to the heights in between.
ProofsBuried ==
    \A c \in Cals : proofs[c] # NoProof =>
        LET t == proofs[c].tx
        IN  mined[t] # 0 /\ tip - mined[t] + 1 >= Confirmations

\* "associate calendar merkle tree aggregations with corresponding btc merkle
\* tree": the path of a proof leads to the root its transaction carries.
ProofsVerify ==
    \A c \in Cals : proofs[c] # NoProof => proofs[c].root = sent[proofs[c].tx]

Proved(t) == \A c \in sent[t] : proofs[c] # NoProof

\* A transaction once taken up is in the CONFIRMED array, with a goroutine
\* that confirms it, or done, unless a mishap is on record: deleting an entry
\* and appending it again with its height never drops it.
NoAnchorForgotten ==
    \A t \in txState :
        \/ \E e \in confirmed : e.tx = t
        \/ \E k \in confirming : k.tx = t
        \/ Proved(t)
        \/ t \in forgotten

\* Every anchor that Bitcoin confirms gets its proofs, although BTC-Cs may
\* never come, unless a mishap is on record: a search or a restart that cut
\* the process short, or a block that the search had passed or skipped before
\* it knew of the transaction.
EventuallyProved ==
    \A t \in Txs : (t \in txState /\ mined[t] # 0)
                      ~> (Proved(t) \/ t \in forgotten)

=============================================================================
