----------------------------- MODULE CalAnchor -----------------------------
(***************************************************************************)
(* One Core anchoring the calendar to Bitcoin: abci/anchor.go              *)
(* (StartAnchoring), abci/transactions.go (DeliverTx), abci/abci.go        *)
(* (EndBlock, Commit, restart) and anchor/bitcoin/bitcoinanchor.go         *)
(* (AnchorToChain, BeginTxMonitor, MonitorFailedAnchor, ResetAnchor).      *)
(*                                                                         *)
(* Tendermint delivers transactions block by block.  Each CAL transaction  *)
(* gets the next TxInt.  Every AnchorInterval blocks EndBlock starts a     *)
(* goroutine AnchorToChain for the TxInts from BeginCalTxInt on; when it   *)
(* is done it leaves a CHECK entry in LevelDB and moves BeginCalTxInt up.  *)
(* The elected leader broadcasts a BTC-A transaction for the range; when   *)
(* it is delivered, the goroutine BeginTxMonitor removes the CHECK entry.  *)
(* A CHECK entry that is still there TimeoutBlocks later makes the         *)
(* goroutine MonitorFailedAnchor start the anchoring of its range again.   *)
(*                                                                         *)
(* The rest of the network is the environment: it decides what a block     *)
(* holds and whether an elected peer anchors.  A Merkle root stands for    *)
(* the set of TxInts it was built from, {} for the empty root.             *)
(***************************************************************************)
EXTENDS Integers, FiniteSets

CONSTANTS
    AnchorInterval,  \* config.AnchorInterval
    TimeoutBlocks,   \* the 10 calendar blocks of MonitorFailedAnchor
    MaxHeight,       \* bound: blocks explored
    MaxTxInt,        \* bound: transactions explored
    MaxJobs,         \* bound: concurrent goroutines of each kind
    Events           \* what may happen beside an undisturbed run

AllEvents ==
    { "other_tx",   \* blocks hold VAL, CHNGSTK, BTC-C and JWK transactions
      "slow",       \* goroutines started by a block outlive the next
      "crash",      \* the process stops (a panic included) and is restarted
      "no_leader",  \* a leader election returns no core
      "rpc_error",  \* a transaction search fails
      "btc_error",  \* LND cannot send the Bitcoin transaction
      "no_scan",    \* no Bitcoin height is known, or the read fails
      "overdue" }   \* 144 Bitcoin blocks pass while an entry waits

ASSUME CalAnchorAssumption ==
    /\ AnchorInterval \in Nat /\ TimeoutBlocks \in Nat
    /\ MaxHeight \in Nat /\ MaxTxInt \in Nat /\ MaxJobs \in Nat
    /\ Events \subseteq AllEvents

VARIABLES
    txInt,             \* state.TxInt
    height,            \* state.Height
    beginCalTxInt,     \* state.BeginCalTxInt
    latestCalTxInt,    \* state.LatestCalTxInt
    currentCalInts,    \* state.CurrentCalInts
    latestBtcaHeight,  \* state.LatestBtcaHeight
    chainSynced,       \* state.ChainSynced
    lastErrorCoreID,   \* state.LastErrorCoreID ("none" for the empty string)
    latestErrRoot,     \* state.LatestErrRoot
    phase,             \* DeliverTx ("deliver"), or between EndBlock and Commit
    cals,              \* TxInts of the CAL transactions delivered so far
    indexed,           \* those that a transaction search finds
    saved,             \* what Commit saved of the fields goroutines write
    inBlock,           \* what the BTC-A and BTC-E of this block set them to
    mempool,           \* BTC-A and BTC-E transactions not yet in a block
    btcas,             \* BTC-A transactions delivered
    anchorings,        \* goroutines running AnchorToChain
    monitors,          \* goroutines running BeginTxMonitor
    scans,             \* goroutines running MonitorFailedAnchor
    checks,            \* the CHECK array in LevelDB
    lost               \* history: CALs that a mishap left without an anchoring

appState   == <<txInt, height, latestCalTxInt, currentCalInts, chainSynced,
                lastErrorCoreID, latestErrRoot>>
marker     == <<beginCalTxInt, latestBtcaHeight>>
blockVars  == <<phase, cals, indexed, saved, inBlock>>
network    == <<mempool, btcas>>
goroutines == <<anchorings, monitors, scans>>
vars == <<appState, marker, blockVars, network, goroutines, checks, lost>>

-----------------------------------------------------------------------------
(* Helpers.  Each NotX is a mistake one could make in X; the runs show that *)
(* a property notices it.                                                  *)

\* CAL transactions of a range of TxInts (the end is exclusive).
CalsIn(start, end) == {c \in cals : start <= c /\ c < end}

\* GetTreeFromCalRange: the root over the CALs a search finds in the range.
Tree(start, end) == CalsIn(start, end) \cap indexed

\* No BTC-A and no BTC-E delivered since the last Commit.
EmptyBlock == [begin |-> -1, errRoot |-> {}]

\* ResetAnchor
NotResetAnchor(start) ==
    /\ beginCalTxInt' = start - 1
    /\ latestBtcaHeight' = -1
ResetAnchor(start) ==
    /\ beginCalTxInt' = start
    /\ latestBtcaHeight' = -1

-----------------------------------------------------------------------------
Init ==
    /\ txInt = 0 /\ height = 0
    /\ beginCalTxInt = 0 /\ latestCalTxInt = 0 /\ currentCalInts = 0
    /\ latestBtcaHeight = 0
    /\ chainSynced = FALSE
    /\ lastErrorCoreID = "none" /\ latestErrRoot = {}
    /\ phase = "deliver"
    /\ cals = {} /\ indexed = {}
    /\ saved = [begin |-> 0, btcaHeight |-> 0, errRoot |-> {}]
    /\ inBlock = EmptyBlock
    /\ mempool = {} /\ btcas = {}
    /\ anchorings = {} /\ monitors = {} /\ scans = {}
    /\ checks = {}
    /\ lost = {}

\* SyncMonitor finds that Tendermint no longer catches up (which it does not
\* do again before a restart).
SyncMonitor ==
    /\ ~chainSynced
    /\ chainSynced' = TRUE
    /\ UNCHANGED <<txInt, height, latestCalTxInt, currentCalInts,
                   lastErrorCoreID, latestErrRoot, marker, blockVars,
                   network, goroutines, checks, lost>>

-----------------------------------------------------------------------------
(* DeliverTx                                                               *)

DeliverCal ==
    /\ phase = "deliver" /\ txInt < MaxTxInt
    /\ txInt' = txInt + 1
    /\ latestCalTxInt' = txInt + 1
    /\ currentCalInts' = currentCalInts + 1
    /\ cals' = cals \cup {txInt + 1}
    /\ UNCHANGED <<height, chainSynced, lastErrorCoreID, latestErrRoot, marker,
                   phase, indexed, saved, inBlock, network, goroutines,
                   checks, lost>>

\* VAL, CHNGSTK, BTC-C and JWK transactions also take a TxInt.
DeliverOther ==
    /\ "other_tx" \in Events
    /\ phase = "deliver" /\ txInt < MaxTxInt
    /\ txInt' = txInt + 1
    /\ UNCHANGED <<height, latestCalTxInt, currentCalInts, chainSynced,
                   lastErrorCoreID, latestErrRoot, marker, blockVars,
                   network, goroutines, checks, lost>>

\* A synced Core monitors the transaction; one that catches up takes the
\* end of its range over.
DeliverBtcA(m) ==
    /\ phase = "deliver" /\ m.type = "BTC-A" /\ txInt < MaxTxInt
    /\ Cardinality(monitors) < MaxJobs
    /\ mempool' = mempool \ {m}
    /\ btcas' = btcas \cup {m}
    /\ txInt' = txInt + 1
    /\ latestBtcaHeight' = height + 1
    /\ inBlock' = [inBlock EXCEPT !.begin = m.end]
    /\ IF chainSynced
       THEN /\ monitors' = monitors \cup {m}
            /\ UNCHANGED <<beginCalTxInt, lost>>
       ELSE /\ beginCalTxInt' = m.end
            /\ lost' = lost \cup (CalsIn(beginCalTxInt, m.end) \ m.root)
            /\ UNCHANGED monitors
    /\ UNCHANGED <<height, latestCalTxInt, currentCalInts, chainSynced,
                   lastErrorCoreID, latestErrRoot, phase, cals, indexed, saved,
                   anchorings, scans, checks>>

DeliverBtcE(m) ==
    /\ phase = "deliver" /\ m.type = "BTC-E"
    /\ mempool' = mempool \ {m}
    /\ latestErrRoot' = m.root
    /\ lastErrorCoreID' = m.core
    /\ inBlock' = [inBlock EXCEPT !.errRoot = m.root]
    /\ UNCHANGED <<txInt, height, latestCalTxInt, currentCalInts, chainSynced,
                   marker, phase, cals, indexed, saved, btcas, goroutines,
                   checks, lost>>

-----------------------------------------------------------------------------
(* EndBlock and Commit                                                     *)

NewAnchoring(start, end, isRetry) ==
    [at |-> height, retry |-> isRetry, pc |-> "elect", start |-> start,
     end |-> end, root |-> {}, leader |-> FALSE]

\* StartAnchoring's range: "prevent current height, non-indexed cal roots
\* from being anchored".
NotAnchorEnd == latestCalTxInt + 1
AnchorEnd == latestCalTxInt - currentCalInts

AnchorDue ==
    /\ height - latestBtcaHeight > AnchorInterval
    /\ chainSynced
    /\ latestCalTxInt - beginCalTxInt > currentCalInts

\* StartAnchoring, then the goroutine that ends in MonitorFailedAnchor.
\* EndCalTxInt is written by the code and read by nobody.
EndBlock ==
    /\ phase = "deliver"
    /\ (anchorings = {} /\ scans = {}) \/ "slow" \in Events
    /\ Cardinality(anchorings) < MaxJobs /\ Cardinality(scans) < MaxJobs
    /\ phase' = "commit"
    /\ anchorings' = IF AnchorDue
                     THEN anchorings \cup
                          {NewAnchoring(beginCalTxInt, AnchorEnd, FALSE)}
                     ELSE anchorings
    /\ currentCalInts' = 0
    /\ scans' = IF chainSynced
                THEN scans \cup {[at |-> height, started |-> FALSE, rest |-> {}]}
                ELSE scans
    /\ UNCHANGED <<txInt, height, latestCalTxInt, chainSynced, lastErrorCoreID,
                   latestErrRoot, marker, cals, indexed, saved, inBlock,
                   network, monitors, checks, lost>>

\* Commit saves the state; Tendermint indexes the block's transactions.
Commit ==
    /\ phase = "commit" /\ height < MaxHeight
    /\ phase' = "deliver"
    /\ height' = height + 1
    /\ saved' = [begin |-> beginCalTxInt, btcaHeight |-> latestBtcaHeight,
                 errRoot |-> latestErrRoot]
    /\ indexed' = cals
    /\ inBlock' = EmptyBlock
    /\ UNCHANGED <<txInt, latestCalTxInt, currentCalInts, chainSynced,
                   lastErrorCoreID, latestErrRoot, marker, cals, network,
                   goroutines, checks, lost>>

-----------------------------------------------------------------------------
(* AnchorToChain, one step per call that another goroutine can race with   *)

Becomes(j, k) == anchorings' = (anchorings \ {j}) \cup {k}

\* An anchoring ends with an error.  The entry a retry was started for is
\* already gone.
GiveUp(j) ==
    /\ anchorings' = anchorings \ {j}
    /\ lost' = IF j.retry THEN lost \cup CalsIn(j.start, j.end) ELSE lost

\* ElectChainContributorAsLeader; the core of the last BTC-E is left out.
Elect(j) ==
    /\ j.pc = "elect"
    /\ \/ /\ \E me \in IF lastErrorCoreID = "self" THEN {FALSE} ELSE BOOLEAN :
               Becomes(j, [j EXCEPT !.pc = "tree", !.leader = me])
          /\ UNCHANGED lost
       \/ /\ "no_leader" \in Events
          /\ GiveUp(j)
    /\ UNCHANGED <<appState, marker, blockVars, network, monitors, scans,
                   checks>>

\* GetTreeFromCalRange, and the test for an empty tree.
BuildTree(j) ==
    /\ j.pc = "tree"
    /\ \/ /\ Tree(j.start, j.end) # {}
          /\ Becomes(j, [j EXCEPT !.pc = IF j.leader THEN "send" ELSE "check",
                                  !.root = Tree(j.start, j.end)])
          /\ latestErrRoot' = IF latestErrRoot = Tree(j.start, j.end)
                              THEN {} ELSE latestErrRoot
          /\ UNCHANGED lost
       \/ /\ Tree(j.start, j.end) = {} \/ "rpc_error" \in Events
          /\ GiveUp(j)
          /\ UNCHANGED latestErrRoot
    /\ UNCHANGED <<txInt, height, latestCalTxInt, currentCalInts, chainSynced,
                   lastErrorCoreID, marker, blockVars, network, monitors,
                   scans, checks>>

\* The transactions a Core broadcasts for the root r of the range of j.
BtcA(core, j, r) ==
    [type |-> "BTC-A", core |-> core, root |-> r, start |-> j.start, end |-> j.end]
BtcE(core, r) ==
    [type |-> "BTC-E", core |-> core, root |-> r, start |-> 0, end |-> 0]

\* SendBtcTx and the broadcasts.  After a failed SendBtcTx the empty BTC-A
\* that follows the BTC-E is rejected by CheckTx.  A failed broadcast panics.
SendBtcTx(j) ==
    /\ j.pc = "send"
    /\ \/ mempool' = mempool \cup {BtcA("self", j, j.root)}
       \/ "btc_error" \in Events /\ mempool' = mempool \cup {BtcE("self", j.root)}
    /\ Becomes(j, [j EXCEPT !.pc = "check"])
    /\ UNCHANGED <<appState, marker, blockVars, btcas, monitors, scans,
                   checks, lost>>

NotCheck(j) == [root |-> j.root, at |-> height, start |-> j.end - 1,
                end |-> j.end, leader |-> j.leader]
Check(j) == [root |-> j.root, at |-> height, start |-> j.start, end |-> j.end,
             leader |-> j.leader]

\* The CHECK entry, then the new beginning.
AppendCheck(j) ==
    /\ j.pc = "check"
    /\ checks' = checks \cup {Check(j)}
    /\ beginCalTxInt' = j.end
    /\ latestBtcaHeight' = height
    /\ anchorings' = anchorings \ {j}
    /\ lost' = lost \cup CalsIn(beginCalTxInt, j.start)
    /\ UNCHANGED <<appState, blockVars, network, monitors, scans>>

-----------------------------------------------------------------------------
(* The elected peer                                                        *)

\* A peer runs the same code on the same blocks: once elected for a range it
\* sends a BTC-A, a BTC-E or nothing.  It may have searched after the block
\* was indexed when this Core did not.
Awaited ==
    {j \in anchorings : j.pc \in {"tree", "check"} /\ ~j.leader}
        \cup {k \in checks : ~k.leader}

PeerAnchors(j) ==
    /\ \E r \in {Tree(j.start, j.end), CalsIn(j.start, j.end)} \ {{}} :
         \/ mempool' = mempool \cup {BtcA("peer", j, r)}
         \/ "btc_error" \in Events /\ mempool' = mempool \cup {BtcE("peer", r)}
    /\ UNCHANGED <<appState, marker, blockVars, btcas, goroutines, checks, lost>>

-----------------------------------------------------------------------------
(* BeginTxMonitor                                                          *)

\* FindAndRemoveBtcCheck: the entries for a root.
EntriesFor(root) == {k \in checks : k.root = root}

\* What else the monitor stores belongs to the confirmation of the anchor.
BeginTxMonitor(m) ==
    /\ monitors' = monitors \ {m}
    /\ checks' = checks \ EntriesFor(m.root)
    /\ lost' = lost \cup UNION {CalsIn(k.start, k.end) \ m.root :
                                   k \in EntriesFor(m.root)}
    /\ UNCHANGED <<appState, marker, blockVars, network, anchorings, scans>>

-----------------------------------------------------------------------------
(* MonitorFailedAnchor                                                     *)

\* The array is read once, then its entries are handled one by one.  Before
\* LND told a Bitcoin height, and when the read fails, the scan just returns.
StartScan(s) ==
    /\ ~s.started
    /\ \/ /\ checks = {} \/ "no_scan" \in Events
          /\ scans' = scans \ {s}
       \/ /\ checks # {}
          /\ scans' = (scans \ {s}) \cup
                      {[s EXCEPT !.started = TRUE, !.rest = checks]}
    /\ UNCHANGED <<appState, marker, blockVars, network, anchorings, monitors,
                   checks, lost>>

Handled(s, k) ==
    scans' = (scans \ {s}) \cup
             (IF s.rest = {k} THEN {}
              ELSE {[s EXCEPT !.rest = @ \ {k}]})

\* The code compares the entry's root, a hash, with the ID of a core.
ReportedFailed(k) == <<"root", k.root>> = <<"core", lastErrorCoreID>>

TimedOut(k) == height - k.at > TimeoutBlocks

\* An entry of the array as it was read: the goroutine may have been
\* overtaken by BeginTxMonitor or by another scan.
ScanCheck(s, k) ==
    /\ s.started /\ k \in s.rest
    /\ Handled(s, k)
    /\ IF ReportedFailed(k)
       THEN /\ checks' = checks \ {k}
            /\ ResetAnchor(k.start)
            /\ lost' = lost \cup CalsIn(beginCalTxInt, k.start)
            /\ UNCHANGED anchorings
       ELSE \/ /\ TimedOut(k)
               /\ checks' = checks \ {k}
               /\ IF beginCalTxInt >= k.end
                  THEN /\ Cardinality(anchorings) < MaxJobs
                       /\ anchorings' = anchorings \cup
                                        {NewAnchoring(k.start, k.end, TRUE)}
                       /\ UNCHANGED <<marker, lost>>
                  ELSE /\ ResetAnchor(k.start)
                       /\ lost' = lost \cup CalsIn(beginCalTxInt, k.start)
                       /\ UNCHANGED anchorings
            \/ /\ ~TimedOut(k)
               /\ UNCHANGED <<checks, marker, anchorings, lost>>
            \/ /\ "overdue" \in Events /\ ~TimedOut(k) /\ k \in checks
               /\ checks' = checks \ {k}
               /\ lost' = lost \cup CalsIn(k.start, k.end)
               /\ UNCHANGED <<marker, anchorings>>
    /\ UNCHANGED <<appState, blockVars, network, monitors>>

-----------------------------------------------------------------------------
(* Restart                                                                 *)

\* The process stops, loadState brings back what Commit saved last, and
\* Tendermint replays the unfinished block, now with ChainSynced false.
\* LevelDB keeps the CHECK array; every goroutine is gone.
Crash ==
    /\ "crash" \in Events
    /\ chainSynced
    /\ chainSynced' = FALSE
    /\ anchorings' = {} /\ monitors' = {} /\ scans' = {}
    /\ IF inBlock.begin = -1
       THEN beginCalTxInt' = saved.begin /\ latestBtcaHeight' = saved.btcaHeight
       ELSE beginCalTxInt' = inBlock.begin /\ latestBtcaHeight' = height + 1
    /\ latestErrRoot' = IF inBlock.errRoot = {} THEN saved.errRoot
                        ELSE inBlock.errRoot
    /\ lost' = lost \cup CalsIn(beginCalTxInt, beginCalTxInt')
                    \cup UNION {CalsIn(j.start, j.end) :
                                   j \in {i \in anchorings : i.retry}}
    /\ UNCHANGED <<txInt, height, latestCalTxInt, currentCalInts,
                   lastErrorCoreID, blockVars, network, checks>>

-----------------------------------------------------------------------------
Deliver ==
    \/ DeliverCal \/ DeliverOther
    \/ \E m \in mempool : DeliverBtcA(m) \/ DeliverBtcE(m)

AnchorToChain(j) == Elect(j) \/ BuildTree(j) \/ SendBtcTx(j) \/ AppendCheck(j)

MonitorFailedAnchor(s) == StartScan(s) \/ \E k \in s.rest : ScanCheck(s, k)

Next ==
    \/ SyncMonitor \/ Deliver \/ EndBlock \/ Commit \/ Crash
    \/ \E j \in anchorings : AnchorToChain(j)
    \/ \E j \in Awaited : PeerAnchors(j)
    \/ \E m \in monitors : BeginTxMonitor(m)
    \/ \E s \in scans : MonitorFailedAnchor(s)

Spec == Init /\ [][Next]_vars

-----------------------------------------------------------------------------
(* Properties                                                              *)

Anchorings ==
    [at : Nat, retry : BOOLEAN, pc : {"elect", "tree", "send", "check"},
     start : Nat, end : Nat, root : SUBSET Nat, leader : BOOLEAN]
CheckEntries ==
    [root : SUBSET Nat, at : Nat, start : Nat, end : Nat, leader : BOOLEAN]
Transactions ==
    [type : {"BTC-A", "BTC-E"}, core : {"self", "peer"}, root : SUBSET Nat,
     start : Nat, end : Nat]
Scans == [at : Nat, started : BOOLEAN, rest : SUBSET CheckEntries]

\* Every variable ranges over the states the code can build.
TypeOK ==
    /\ txInt \in Nat /\ height \in Nat
    /\ beginCalTxInt \in Nat /\ latestCalTxInt \in Nat
    /\ currentCalInts \in Nat
    /\ latestBtcaHeight \in Int
    /\ chainSynced \in BOOLEAN
    /\ lastErrorCoreID \in {"none", "self", "peer"}
    /\ latestErrRoot \in SUBSET Nat
    /\ phase \in {"deliver", "commit"}
    /\ cals \in SUBSET Nat /\ indexed \in SUBSET cals
    /\ saved \in [begin : Nat, btcaHeight : Int, errRoot : SUBSET Nat]
    /\ inBlock \in [begin : Int, errRoot : SUBSET Nat]
    /\ mempool \in SUBSET Transactions /\ btcas \in SUBSET Transactions
    /\ anchorings \in SUBSET Anchorings
    /\ monitors \in SUBSET btcas
    /\ scans \in SUBSET Scans
    /\ checks \in SUBSET CheckEntries
    /\ lost \in SUBSET cals

\* Every range an anchoring, a CHECK entry or a BTC-A speaks of is a range of
\* the calendar as it is, and so is the next one to be anchored: neither a
\* restart, a late BTC-A nor a reset moves BeginCalTxInt past the calendar.
MarkersOrdered ==
    /\ beginCalTxInt <= latestCalTxInt /\ latestCalTxInt <= txInt
    /\ saved.begin <= latestCalTxInt
    /\ currentCalInts <= latestCalTxInt
    /\ \A c \in cals : 0 < c /\ c <= latestCalTxInt
    /\ \A r \in anchorings \cup checks \cup btcas :
          r.start < r.end /\ r.end <= latestCalTxInt

InRange(c, r) == r.start <= c /\ c < r.end

\* Somebody is still answerable for the CAL transaction c: a CHECK entry
\* that will time out, an anchoring under way again, or a BTC-A.
Accounted(c) ==
    \/ \E k \in checks : InRange(c, k)
    \/ \E j \in anchorings : j.retry /\ InRange(c, j)
    \/ \E m \in btcas : c \in m.root

\* BeginCalTxInt promises that every CAL below it is taken care of.  Whatever
\* goroutines, restarts and failures do, the promise is broken only by the
\* mishaps that "lost" records: a retry that fails or dies, an entry dropped
\* as overdue, a reset undone by a restart or overtaken by an anchoring or by
\* a later reset, and a BTC-A whose root leaves out a CAL of its range.
Coverage == \A c \in cals : c < beginCalTxInt => Accounted(c) \/ c \in lost

\* Without such disturbances, and with an anchoring interval longer than the
\* timeout, the promise holds: also when leaders never send their BTC-A, or
\* report with a BTC-E that they cannot.
NoCalLost == \A c \in cals : c < beginCalTxInt => Accounted(c)

\* "prevent current height, non-indexed cal roots from being anchored": an
\* anchoring's range holds no CAL that its search could miss.
OnlyIndexedAnchored ==
    \A j \in anchorings : CalsIn(j.start, j.end) \subseteq indexed

\* A BTC-A commits to every CAL of its range, whichever Core built the tree;
\* otherwise the other Cores neither find their CHECK entry for its root nor
\* can build the proofs.
RootsComplete == \A m \in btcas : m.root = CalsIn(m.start, m.end)
=============================================================================
