-------------------------- MODULE CalAnchorProofs ---------------------------
(***************************************************************************)
(* CalAnchor, for every interval, timeout and set of events: the ranges    *)
(* stay within the calendar, and a CAL below BeginCalTxInt is accounted    *)
(* for unless one of the recorded mishaps hit it.  And for undisturbed     *)
(* runs: none is lost, every BTC-A covers its range, and no CAL lies under *)
(* two roots.                                                              *)
(***************************************************************************)
EXTENDS CalAnchor, TLAPS

-----------------------------------------------------------------------------
(* The inductive invariant                                                 *)

\* The range r lies within the calendar.
Within(r) == r.start < r.end /\ r.end <= latestCalTxInt

\* MarkersOrdered, and the same of what may become a marker later: the end
\* of a BTC-A in this block or in the mempool, an entry a scan has read.
Bounded ==
    /\ beginCalTxInt <= latestCalTxInt /\ latestCalTxInt <= txInt
    /\ saved.begin <= latestCalTxInt
    /\ inBlock.begin = -1 \/ inBlock.begin \in 0..latestCalTxInt
    /\ currentCalInts <= latestCalTxInt
    /\ \A c \in cals : 0 < c /\ c <= latestCalTxInt
    /\ \A j \in anchorings : Within(j)
    /\ \A k \in checks : Within(k)
    /\ \A s \in scans : \A k \in s.rest : Within(k)
    /\ \A m \in btcas : Within(m)
    /\ \A m \in mempool : m.type = "BTC-A" => Within(m)

ProofInv == TypeOK /\ Bounded /\ Coverage

-----------------------------------------------------------------------------
\* The states before the first step satisfy the invariant.
LEMMA InitProofInv == Init => ProofInv
<1> SUFFICES ASSUME Init PROVE ProofInv
  OBVIOUS
<1>1. TypeOK
  <2>1. saved \in [begin : Nat, btcaHeight : Int, errRoot : SUBSET Nat]
    BY DEF Init
  <2>2. inBlock \in [begin : Int, errRoot : SUBSET Nat]
    BY DEF Init, EmptyBlock
  <2> QED
    BY <2>1, <2>2 DEF Init, TypeOK
<1>2. Bounded
  BY DEF Init, EmptyBlock, Bounded
<1>3. Coverage
  BY DEF Init, Coverage
<1> QED
  BY <1>1, <1>2, <1>3 DEF ProofInv

\* What CalsIn returns.
LEMMA CalsInRange ==
    ASSUME NEW s, NEW e
    PROVE  /\ CalsIn(s, e) \subseteq cals
           /\ \A c : c \in CalsIn(s, e) <=> c \in cals /\ s <= c /\ c < e
BY DEF CalsIn

\* A scan that has started is one.
LEMMA ScanStarts ==
    ASSUME NEW s \in Scans, NEW rest \in SUBSET CheckEntries
    PROVE  [s EXCEPT !.started = TRUE, !.rest = rest] \in Scans
BY DEF Scans

\* One that has had its election is one.
LEMMA AnchoringElects ==
    ASSUME NEW j \in Anchorings, NEW me \in BOOLEAN
    PROVE  [j EXCEPT !.pc = "tree", !.leader = me] \in Anchorings
BY DEF Anchorings

\* A step keeps every variable in its type.
LEMMA TypeStep ==
    ASSUME TypeOK, Bounded, [Next]_vars
    PROVE  TypeOK'
<1> USE CalAnchorAssumption DEF TypeOK, Bounded, Within
<1>1. CASE SyncMonitor
  BY <1>1 DEF SyncMonitor, marker, blockVars, network, goroutines
<1>2. CASE DeliverCal
  BY <1>2 DEF DeliverCal, marker, network, goroutines
<1>3. CASE DeliverOther
  BY <1>3 DEF DeliverOther, marker, blockVars, network, goroutines
<1>4. ASSUME NEW m \in mempool, DeliverBtcA(m)
      PROVE  TypeOK'
  <2>1. m \in Transactions
    OBVIOUS
  <2>2. m.end \in Nat /\ m.root \in SUBSET Nat
    BY <2>1 DEF Transactions
  <2>3. inBlock' \in [begin : Int, errRoot : SUBSET Nat]
    BY <1>4, <2>2 DEF DeliverBtcA
  <2>4. lost' \in SUBSET cals
    BY <1>4, CalsInRange DEF DeliverBtcA
  <2> QED
    BY <1>4, <2>2, <2>3, <2>4 DEF DeliverBtcA
<1>5. ASSUME NEW m \in mempool, DeliverBtcE(m)
      PROVE  TypeOK'
  <2>1. m.core \in {"self", "peer"} /\ m.root \in SUBSET Nat
    BY DEF Transactions
  <2>2. inBlock' \in [begin : Int, errRoot : SUBSET Nat]
    BY <1>5, <2>1 DEF DeliverBtcE
  <2> QED
    BY <1>5, <2>1, <2>2 DEF DeliverBtcE, marker, goroutines
<1>6. CASE EndBlock
  <2>1. AnchorDue => AnchorEnd \in Nat
    BY DEF AnchorDue, AnchorEnd
  <2>2. AnchorDue => NewAnchoring(beginCalTxInt, AnchorEnd, FALSE) \in Anchorings
    BY <2>1 DEF NewAnchoring, Anchorings
  <2>3. anchorings' \in SUBSET Anchorings
    BY <1>6, <2>2 DEF EndBlock
  <2>4. [at |-> height, started |-> FALSE, rest |-> {}] \in Scans
    BY DEF Scans
  <2>5. scans' \in SUBSET Scans
    BY <1>6, <2>4 DEF EndBlock
  <2> QED
    BY <1>6, <2>3, <2>5 DEF EndBlock, marker, network
<1>7. CASE Commit
  BY <1>7 DEF Commit, EmptyBlock, marker, network, goroutines
<1>8. CASE Crash
  <2>1. beginCalTxInt' \in Nat /\ latestBtcaHeight' \in Int
    BY <1>8 DEF Crash
  <2>2. latestErrRoot' \in SUBSET Nat
    BY <1>8 DEF Crash
  <2>3. UNION {CalsIn(j.start, j.end) : j \in {i \in anchorings : i.retry}}
           \subseteq cals
    BY CalsInRange
  <2>4. CalsIn(beginCalTxInt, beginCalTxInt') \subseteq cals
    BY CalsInRange
  <2>5. lost' \in SUBSET cals
    BY <1>8, <2>3, <2>4 DEF Crash
  <2> QED
    BY <1>8, <2>1, <2>2, <2>5 DEF Crash, blockVars, network
<1>9. ASSUME NEW j \in anchorings, Elect(j)
      PROVE  TypeOK'
  <2>1. \A me \in BOOLEAN :
           [j EXCEPT !.pc = "tree", !.leader = me] \in Anchorings
    BY AnchoringElects
  <2>2. anchorings' \in SUBSET Anchorings
    BY <1>9, <2>1 DEF Elect, Becomes, GiveUp
  <2>3. lost' \in SUBSET cals
    BY <1>9, CalsInRange DEF Elect, GiveUp
  <2> QED
    BY <1>9, <2>2, <2>3 DEF Elect, appState, marker, blockVars, network
<1>10. ASSUME NEW j \in anchorings, BuildTree(j)
       PROVE  TypeOK'
  <2>1. Tree(j.start, j.end) \in SUBSET Nat
    BY CalsInRange DEF Tree
  <2>2. \A pc \in {"send", "check"} :
           [j EXCEPT !.pc = pc, !.root = Tree(j.start, j.end)] \in Anchorings
    BY <2>1 DEF Anchorings
  <2>3. anchorings' \in SUBSET Anchorings
    BY <1>10, <2>2 DEF BuildTree, Becomes, GiveUp
  <2>4. latestErrRoot' \in SUBSET Nat
    BY <1>10 DEF BuildTree
  <2>5. lost' \in SUBSET cals
    BY <1>10, CalsInRange DEF BuildTree, GiveUp
  <2> QED
    BY <1>10, <2>3, <2>4, <2>5 DEF BuildTree, marker, blockVars, network
<1>11. ASSUME NEW j \in anchorings, SendBtcTx(j)
       PROVE  TypeOK'
  <2>1. j \in Anchorings
    OBVIOUS
  <2>2. /\ BtcA("self", j, j.root) \in Transactions
        /\ BtcE("self", j.root) \in Transactions
    BY <2>1 DEF BtcA, BtcE, Transactions, Anchorings
  <2>3. [j EXCEPT !.pc = "check"] \in Anchorings
    BY <2>1 DEF Anchorings
  <2>4. mempool' \in SUBSET Transactions
    BY <1>11, <2>2 DEF SendBtcTx
  <2>5. anchorings' \in SUBSET Anchorings
    BY <1>11, <2>3 DEF SendBtcTx, Becomes
  <2> QED
    BY <1>11, <2>4, <2>5 DEF SendBtcTx, appState, marker, blockVars
<1>12. ASSUME NEW j \in anchorings, AppendCheck(j)
       PROVE  TypeOK'
  <2>1. j \in Anchorings
    OBVIOUS
  <2>2. Check(j) \in CheckEntries /\ j.end \in Nat
    BY <2>1 DEF Check, CheckEntries, Anchorings
  <2>3. lost' \in SUBSET cals
    BY <1>12, CalsInRange DEF AppendCheck
  <2> QED
    BY <1>12, <2>2, <2>3 DEF AppendCheck, appState, blockVars, network
<1>13. ASSUME NEW j \in Awaited, PeerAnchors(j)
       PROVE  TypeOK'
  <2>1. j.start \in Nat /\ j.end \in Nat
    BY DEF Awaited, Anchorings, CheckEntries
  <2>2. Tree(j.start, j.end) \in SUBSET Nat /\ CalsIn(j.start, j.end) \in SUBSET Nat
    BY CalsInRange DEF Tree
  <2>3. \A r \in SUBSET Nat : /\ BtcA("peer", j, r) \in Transactions
                              /\ BtcE("peer", r) \in Transactions
    BY <2>1 DEF BtcA, BtcE, Transactions
  <2>4. mempool' \in SUBSET Transactions
    BY <1>13, <2>2, <2>3 DEF PeerAnchors
  <2> QED
    BY <1>13, <2>4 DEF PeerAnchors, appState, marker, blockVars, goroutines
<1>14. ASSUME NEW m \in monitors, BeginTxMonitor(m)
       PROVE  TypeOK'
  <2>1. lost' \in SUBSET cals
    BY <1>14, CalsInRange DEF BeginTxMonitor
  <2> QED
    BY <1>14, <2>1 DEF BeginTxMonitor, appState, marker, blockVars, network
<1>15. ASSUME NEW s \in scans, StartScan(s)
       PROVE  TypeOK'
  <2>1. [s EXCEPT !.started = TRUE, !.rest = checks] \in Scans
    BY ScanStarts
  <2>2. scans' \in SUBSET Scans
    BY <1>15, <2>1 DEF StartScan
  <2> QED
    BY <1>15, <2>2 DEF StartScan, appState, marker, blockVars, network
<1>16. ASSUME NEW s \in scans, NEW k \in s.rest, ScanCheck(s, k)
       PROVE  TypeOK'
  <2>1. s \in Scans
    OBVIOUS
  <2>2. k \in CheckEntries
    BY <2>1 DEF Scans
  <2>3. [s EXCEPT !.rest = s.rest \ {k}] \in Scans
    BY <2>1 DEF Scans
  <2>4. scans' \in SUBSET Scans
    BY <1>16, <2>3 DEF ScanCheck, Handled
  <2>5. k.start \in Nat /\ k.end \in Nat
    BY <2>2 DEF CheckEntries
  <2>6. NewAnchoring(k.start, k.end, TRUE) \in Anchorings
    BY <2>5 DEF NewAnchoring, Anchorings
  <2>7. anchorings' \in SUBSET Anchorings
    BY <1>16, <2>6 DEF ScanCheck
  <2>8. beginCalTxInt' \in Nat /\ latestBtcaHeight' \in Int
    <3>1. ResetAnchor(k.start) \/ UNCHANGED marker
      BY <1>16 DEF ScanCheck
    <3> QED
      BY <3>1, <2>5 DEF ResetAnchor, marker
  <2>9. checks' \in SUBSET CheckEntries
    BY <1>16 DEF ScanCheck
  <2>10. lost' \in SUBSET cals
    BY <1>16, CalsInRange DEF ScanCheck
  <2> QED
    BY <1>16, <2>4, <2>7, <2>8, <2>9, <2>10
       DEF ScanCheck, appState, blockVars, network
<1>17. CASE UNCHANGED vars
  BY <1>17 DEF vars, appState, marker, blockVars, network, goroutines
<1> QED
  BY <1>1, <1>2, <1>3, <1>4, <1>5, <1>6, <1>7, <1>8, <1>9, <1>10, <1>11,
     <1>12, <1>13, <1>14, <1>15, <1>16, <1>17
     DEF Next, Deliver, AnchorToChain, MonitorFailedAnchor

-----------------------------------------------------------------------------
(* Ranges stay within the calendar                                         *)

\* The latest CAL never moves back, so what was within the calendar stays so.
LEMMA BoundedStep ==
    ASSUME TypeOK, Bounded, [Next]_vars
    PROVE  Bounded'
<1> USE CalAnchorAssumption DEF TypeOK, Bounded, Within
<1>1. CASE SyncMonitor
  BY <1>1 DEF SyncMonitor, marker, blockVars, network, goroutines
<1>2. CASE DeliverCal
  <2>1. latestCalTxInt' = txInt + 1 /\ txInt' = txInt + 1
    BY <1>2 DEF DeliverCal
  <2>2. latestCalTxInt < latestCalTxInt'
    BY <2>1
  <2>3. \A e \in Nat : e <= latestCalTxInt => e <= latestCalTxInt'
    BY <2>1, <2>2
  <2>4. \A s \in scans : s.rest \subseteq CheckEntries
    BY DEF Scans
  <2>5. \A j \in anchorings : j.start < j.end /\ j.end <= latestCalTxInt'
    BY <2>3 DEF Anchorings
  <2>6. \A k \in checks : k.start < k.end /\ k.end <= latestCalTxInt'
    BY <2>3 DEF CheckEntries
  <2>7. \A s \in scans : \A k \in s.rest :
           k.start < k.end /\ k.end <= latestCalTxInt'
    BY <2>3, <2>4 DEF CheckEntries
  <2>8. \A m \in Transactions :
           Within(m) => m.start < m.end /\ m.end <= latestCalTxInt'
    BY <2>3 DEF Transactions
  <2>9. \A c \in cals' : 0 < c /\ c <= latestCalTxInt'
    BY <1>2, <2>1, <2>2 DEF DeliverCal
  <2> QED
    BY <1>2, <2>1, <2>2, <2>5, <2>6, <2>7, <2>8, <2>9
       DEF DeliverCal, marker, network, goroutines
<1>3. CASE DeliverOther
  BY <1>3 DEF DeliverOther, marker, blockVars, network, goroutines
<1>4. ASSUME NEW m \in mempool, DeliverBtcA(m)
      PROVE  Bounded'
  <2>1. m.start \in Nat /\ m.end \in Nat
    BY DEF Transactions
  <2>2. Within(m)
    BY <1>4 DEF DeliverBtcA
  <2>3. inBlock'.begin = m.end
    BY <1>4 DEF DeliverBtcA
  <2> QED
    BY <1>4, <2>1, <2>2, <2>3 DEF DeliverBtcA
<1>5. ASSUME NEW m \in mempool, DeliverBtcE(m)
      PROVE  Bounded'
  <2>1. inBlock'.begin = inBlock.begin
    BY <1>5 DEF DeliverBtcE
  <2> QED
    BY <1>5, <2>1 DEF DeliverBtcE, marker, goroutines
<1>6. CASE EndBlock
  <2>1. AnchorDue => Within(NewAnchoring(beginCalTxInt, AnchorEnd, FALSE))
    BY DEF AnchorDue, AnchorEnd, NewAnchoring
  <2>2. \A j \in anchorings' : Within(j)
    BY <1>6, <2>1 DEF EndBlock
  <2>3. \A s \in scans' : \A k \in s.rest : Within(k)
    BY <1>6 DEF EndBlock
  <2>4. currentCalInts' = 0
    BY <1>6 DEF EndBlock
  <2>5. UNCHANGED <<txInt, latestCalTxInt, beginCalTxInt, saved, inBlock, cals,
                    checks, btcas, mempool>>
    BY <1>6 DEF EndBlock, marker, network
  <2> QED
    BY <2>2, <2>3, <2>4, <2>5
<1>7. CASE Commit
  BY <1>7 DEF Commit, EmptyBlock, marker, network, goroutines
<1>8. CASE Crash
  <2>1. beginCalTxInt' <= latestCalTxInt
    BY <1>8 DEF Crash
  <2>2. anchorings' = {} /\ scans' = {}
    BY <1>8 DEF Crash
  <2>3. UNCHANGED <<txInt, latestCalTxInt, currentCalInts, saved, inBlock, cals,
                    checks, btcas, mempool>>
    BY <1>8 DEF Crash, blockVars, network
  <2> QED
    BY <2>1, <2>2, <2>3
<1>9. ASSUME NEW j \in anchorings, Elect(j)
      PROVE  Bounded'
  <2>1. \A me \in BOOLEAN :
           /\ [j EXCEPT !.pc = "tree", !.leader = me].start = j.start
           /\ [j EXCEPT !.pc = "tree", !.leader = me].end = j.end
    BY DEF Anchorings
  <2>2. \A i \in anchorings' : Within(i)
    BY <1>9, <2>1 DEF Elect, Becomes, GiveUp
  <2> QED
    BY <1>9, <2>2 DEF Elect, appState, marker, blockVars, network
<1>10. ASSUME NEW j \in anchorings, BuildTree(j)
       PROVE  Bounded'
  <2> DEFINE next == [j EXCEPT !.pc = IF j.leader THEN "send" ELSE "check",
                               !.root = Tree(j.start, j.end)]
  <2>1. next.start = j.start /\ next.end = j.end
    BY DEF Anchorings
  <2>2. anchorings' \subseteq anchorings \cup {next}
    BY <1>10 DEF BuildTree, Becomes, GiveUp
  <2>3. \A i \in anchorings' : Within(i)
    BY <2>1, <2>2
  <2> QED
    BY <1>10, <2>3 DEF BuildTree, marker, blockVars, network
<1>11. ASSUME NEW j \in anchorings, SendBtcTx(j)
       PROVE  Bounded'
  <2>1. /\ [j EXCEPT !.pc = "check"].start = j.start
        /\ [j EXCEPT !.pc = "check"].end = j.end
    BY DEF Anchorings
  <2>2. \A i \in anchorings' : Within(i)
    BY <1>11, <2>1 DEF SendBtcTx, Becomes
  <2>3. \A m \in mempool' : m.type = "BTC-A" => Within(m)
    BY <1>11 DEF SendBtcTx, BtcA, BtcE
  <2> QED
    BY <1>11, <2>2, <2>3 DEF SendBtcTx, appState, marker, blockVars
<1>12. ASSUME NEW j \in anchorings, AppendCheck(j)
       PROVE  Bounded'
  <2>1. \A k \in checks' : Within(k)
    BY <1>12 DEF AppendCheck, Check
  <2> QED
    BY <1>12, <2>1 DEF AppendCheck, appState, blockVars, network
<1>13. ASSUME NEW j \in Awaited, PeerAnchors(j)
       PROVE  Bounded'
  <2>1. Within(j)
    BY DEF Awaited
  <2>2. \A m \in mempool' : m.type = "BTC-A" => Within(m)
    BY <1>13, <2>1 DEF PeerAnchors, BtcA, BtcE
  <2> QED
    BY <1>13, <2>2 DEF PeerAnchors, appState, marker, blockVars, goroutines
<1>14. ASSUME NEW m \in monitors, BeginTxMonitor(m)
       PROVE  Bounded'
  BY <1>14 DEF BeginTxMonitor, appState, marker, blockVars, network
<1>15. ASSUME NEW s \in scans, StartScan(s)
       PROVE  Bounded'
  <2>1. [s EXCEPT !.started = TRUE, !.rest = checks].rest = checks
    BY DEF Scans
  <2>2. \A t \in scans' : \A k \in t.rest : Within(k)
    BY <1>15, <2>1 DEF StartScan
  <2> QED
    BY <1>15, <2>2 DEF StartScan, appState, marker, blockVars, network
<1>16. ASSUME NEW s \in scans, NEW k \in s.rest, ScanCheck(s, k)
       PROVE  Bounded'
  <2>1. [s EXCEPT !.rest = s.rest \ {k}].rest = s.rest \ {k}
    BY DEF Scans
  <2>2. \A t \in scans' : \A l \in t.rest : Within(l)
    BY <1>16, <2>1 DEF ScanCheck, Handled
  <2>3. k.start \in Nat /\ k.end \in Nat
    BY DEF Scans, CheckEntries
  <2>4. \A j \in anchorings' : Within(j)
    BY <1>16 DEF ScanCheck, NewAnchoring
  <2>5. ResetAnchor(k.start) \/ UNCHANGED marker
    BY <1>16 DEF ScanCheck
  <2>6. beginCalTxInt' <= latestCalTxInt
    BY <2>3, <2>5 DEF ResetAnchor, marker
  <2>7. \A l \in checks' : Within(l)
    BY <1>16 DEF ScanCheck
  <2> QED
    BY <1>16, <2>2, <2>4, <2>6, <2>7
       DEF ScanCheck, appState, blockVars, network
<1>17. CASE UNCHANGED vars
  BY <1>17 DEF vars, appState, marker, blockVars, network, goroutines
<1> QED
  BY <1>1, <1>2, <1>3, <1>4, <1>5, <1>6, <1>7, <1>8, <1>9, <1>10, <1>11,
     <1>12, <1>13, <1>14, <1>15, <1>16, <1>17
     DEF Next, Deliver, AnchorToChain, MonitorFailedAnchor

-----------------------------------------------------------------------------
(* Who answers for a CAL                                                   *)

\* Somebody answers for c, or its loss is on record.
Answered(c) == Accounted(c) \/ c \in lost

\* A step that drops nobody keeps every answer.
LEMMA Kept ==
    ASSUME NEW c, Answered(c),
           checks \subseteq checks', btcas \subseteq btcas', lost \subseteq lost',
           \A j \in anchorings : j.retry => \E i \in anchorings' :
              i.retry /\ i.start = j.start /\ i.end = j.end
    PROVE  Answered(c)'
<1>1. CASE \E k \in checks : InRange(c, k)
  BY <1>1 DEF Answered, Accounted, InRange
<1>2. CASE \E j \in anchorings : j.retry /\ InRange(c, j)
  BY <1>2 DEF Answered, Accounted, InRange
<1>3. CASE (\E m \in btcas : c \in m.root) \/ c \in lost
  BY <1>3 DEF Answered, Accounted
<1> QED
  BY <1>1, <1>2, <1>3 DEF Answered, Accounted

\* A step keeps BeginCalTxInt's promise or puts the loss on record.
LEMMA CoverageStep ==
    ASSUME TypeOK, Bounded, Coverage, [Next]_vars
    PROVE  Coverage'
<1> SUFFICES ASSUME NEW c \in cals', c < beginCalTxInt'
             PROVE  Answered(c)'
  BY DEF Coverage, Answered
<1>c. c \in cals /\ c < beginCalTxInt => Answered(c)
  BY DEF Coverage, Answered
<1> USE CalAnchorAssumption
<1>1. ASSUME UNCHANGED <<cals, beginCalTxInt, checks, anchorings, lost>>,
             btcas \subseteq btcas'
      PROVE  Answered(c)'
  BY <1>c, <1>1, Kept
<1>2. CASE DeliverCal
  <2>1. UNCHANGED <<beginCalTxInt, checks, anchorings, lost, btcas>>
    BY <1>2 DEF DeliverCal, marker, network, goroutines
  <2>2. c # txInt + 1
    BY <2>1 DEF TypeOK, Bounded
  <2>3. c \in cals
    BY <1>2, <2>2 DEF DeliverCal
  <2> QED
    BY <1>c, <2>1, <2>3, Kept
<1>3. ASSUME NEW m \in mempool, DeliverBtcA(m)
      PROVE  Answered(c)'
  <2>1. UNCHANGED <<cals, checks, anchorings>> /\ btcas' = btcas \cup {m}
    BY <1>3 DEF DeliverBtcA
  <2>2. lost \subseteq lost'
    BY <1>3 DEF DeliverBtcA
  <2>3. CASE c < beginCalTxInt
    BY <1>c, <2>1, <2>2, <2>3, Kept
  <2>4. CASE ~(c < beginCalTxInt)
    <3>1. beginCalTxInt' = m.end
      BY <1>3, <2>4 DEF DeliverBtcA
    <3>2. lost' = lost \cup (CalsIn(beginCalTxInt, m.end) \ m.root)
      BY <1>3, <2>4 DEF DeliverBtcA
    <3>3. c \in CalsIn(beginCalTxInt, m.end)
      BY <2>1, <2>4, <3>1, CalsInRange DEF TypeOK
    <3>4. c \in m.root \/ c \in lost'
      BY <3>2, <3>3
    <3> QED
      BY <2>1, <3>4 DEF Answered, Accounted
  <2> QED
    BY <2>3, <2>4
<1>4. CASE EndBlock
  <2>1. /\ UNCHANGED <<cals, beginCalTxInt, checks, lost, btcas>>
        /\ anchorings \subseteq anchorings'
    BY <1>4 DEF EndBlock, marker, network
  <2> QED
    BY <1>c, <2>1, Kept
<1>5. CASE Crash
  <2>1. UNCHANGED <<cals, checks, btcas>>
    BY <1>5 DEF Crash, blockVars, network
  <2>2. lost' = lost \cup CalsIn(beginCalTxInt, beginCalTxInt')
                    \cup UNION {CalsIn(j.start, j.end) :
                                   j \in {i \in anchorings : i.retry}}
    BY <1>5 DEF Crash
  <2>3. CASE c < beginCalTxInt
    <3>1. CASE \E j \in anchorings : j.retry /\ InRange(c, j)
      <4>1. PICK j \in anchorings : j.retry /\ InRange(c, j)
        BY <3>1
      <4>2. c \in CalsIn(j.start, j.end)
        BY <2>1, <4>1, CalsInRange DEF InRange
      <4>3. c \in lost'
        BY <2>2, <4>1, <4>2
      <4> QED
        BY <4>3 DEF Answered
    <3>2. CASE ~\E j \in anchorings : j.retry /\ InRange(c, j)
      BY <1>c, <2>1, <2>2, <2>3, <3>2 DEF Answered, Accounted, InRange
    <3> QED
      BY <3>1, <3>2
  <2>4. CASE ~(c < beginCalTxInt)
    <3>0. beginCalTxInt' \in Int
      BY <1>5 DEF Crash, TypeOK
    <3>1. c \in CalsIn(beginCalTxInt, beginCalTxInt')
      BY <2>1, <2>4, CalsInRange DEF TypeOK
    <3> QED
      BY <2>2, <3>1 DEF Answered
  <2> QED
    BY <2>3, <2>4
<1>6. ASSUME NEW j \in anchorings, GiveUp(j),
             UNCHANGED <<cals, beginCalTxInt, checks, btcas>>
      PROVE  Answered(c)'
  <2>1. CASE j.retry /\ InRange(c, j)
    <3>1. c \in CalsIn(j.start, j.end)
      BY <1>6, <2>1, CalsInRange DEF InRange
    <3> QED
      BY <1>6, <2>1, <3>1 DEF GiveUp, Answered
  <2>2. CASE ~(j.retry /\ InRange(c, j))
    BY <1>c, <1>6, <2>2 DEF GiveUp, Answered, Accounted, InRange
  <2> QED
    BY <2>1, <2>2
<1>7. ASSUME NEW j \in anchorings, NEW i, Becomes(j, i),
             i.retry = j.retry, i.start = j.start, i.end = j.end,
             UNCHANGED <<cals, beginCalTxInt, checks, lost, btcas>>
      PROVE  Answered(c)'
  <2>1. \A g \in anchorings : g.retry => \E h \in anchorings' :
           h.retry /\ h.start = g.start /\ h.end = g.end
    BY <1>7 DEF Becomes
  <2> QED
    BY <1>c, <1>7, <2>1, Kept
<1>8. ASSUME NEW j \in anchorings, Elect(j)
      PROVE  Answered(c)'
  <2>1. UNCHANGED <<cals, beginCalTxInt, checks, btcas>>
    BY <1>8 DEF Elect, marker, blockVars, network
  <2>2. ASSUME NEW me \in BOOLEAN, UNCHANGED lost,
               Becomes(j, [j EXCEPT !.pc = "tree", !.leader = me])
        PROVE  Answered(c)'
    <3> DEFINE i == [j EXCEPT !.pc = "tree", !.leader = me]
    <3>1. i.retry = j.retry /\ i.start = j.start /\ i.end = j.end
      BY DEF TypeOK, Anchorings
    <3> QED
      BY <1>7, <2>1, <2>2, <3>1
  <2> QED
    BY <1>6, <1>8, <2>1, <2>2 DEF Elect
<1>9. ASSUME NEW j \in anchorings, BuildTree(j)
      PROVE  Answered(c)'
  <2>1. UNCHANGED <<cals, beginCalTxInt, checks, btcas>>
    BY <1>9 DEF BuildTree, marker, blockVars, network
  <2> DEFINE i == [j EXCEPT !.pc = IF j.leader THEN "send" ELSE "check",
                            !.root = Tree(j.start, j.end)]
  <2>2. i.retry = j.retry /\ i.start = j.start /\ i.end = j.end
    BY DEF TypeOK, Anchorings
  <2>3. (Becomes(j, i) /\ UNCHANGED lost) \/ GiveUp(j)
    BY <1>9 DEF BuildTree
  <2> QED
    BY <1>6, <1>7, <2>1, <2>2, <2>3
<1>10. ASSUME NEW j \in anchorings, SendBtcTx(j)
       PROVE  Answered(c)'
  <2> DEFINE i == [j EXCEPT !.pc = "check"]
  <2>1. i.retry = j.retry /\ i.start = j.start /\ i.end = j.end
    BY DEF TypeOK, Anchorings
  <2>2. Becomes(j, i) /\ UNCHANGED <<cals, beginCalTxInt, checks, lost, btcas>>
    BY <1>10 DEF SendBtcTx, marker, blockVars
  <2> QED
    BY <1>7, <2>1, <2>2
<1>11. ASSUME NEW j \in anchorings, AppendCheck(j)
       PROVE  Answered(c)'
  <2>1. /\ UNCHANGED <<cals, btcas>> /\ beginCalTxInt' = j.end
        /\ checks' = checks \cup {Check(j)}
        /\ anchorings' = anchorings \ {j}
        /\ lost' = lost \cup CalsIn(beginCalTxInt, j.start)
    BY <1>11 DEF AppendCheck, blockVars, network
  <2>2. c \in Nat /\ j.start \in Nat /\ j.end \in Nat /\ beginCalTxInt \in Nat
    BY <2>1 DEF TypeOK, Anchorings
  <2>3. InRange(c, j) => InRange(c, Check(j))
    BY DEF InRange, Check
  <2>4. CASE InRange(c, j)
    BY <2>1, <2>3, <2>4 DEF Answered, Accounted, InRange
  <2>5. CASE c < j.start /\ c < beginCalTxInt
    <3>1. ~InRange(c, j)
      BY <2>2, <2>5 DEF InRange
    <3> QED
      BY <1>c, <2>1, <2>5, <3>1 DEF Answered, Accounted, InRange
  <2>6. CASE c < j.start /\ ~(c < beginCalTxInt)
    <3>1. c \in CalsIn(beginCalTxInt, j.start)
      BY <2>1, <2>2, <2>6, CalsInRange
    <3> QED
      BY <2>1, <3>1 DEF Answered
  <2> QED
    BY <2>1, <2>2, <2>4, <2>5, <2>6 DEF InRange
<1>12. ASSUME NEW m \in monitors, BeginTxMonitor(m)
       PROVE  Answered(c)'
  <2>1. /\ UNCHANGED <<cals, beginCalTxInt, btcas, anchorings>>
        /\ checks' = checks \ EntriesFor(m.root)
        /\ lost' = lost \cup UNION {CalsIn(k.start, k.end) \ m.root :
                                       k \in EntriesFor(m.root)}
    BY <1>12 DEF BeginTxMonitor, marker, blockVars, network
  <2>2. m \in btcas
    BY DEF TypeOK
  <2>3. CASE \E k \in EntriesFor(m.root) : InRange(c, k)
    <3>1. PICK k \in EntriesFor(m.root) : InRange(c, k)
      BY <2>3
    <3>2. c \in CalsIn(k.start, k.end)
      BY <2>1, <3>1, CalsInRange DEF InRange
    <3>3. c \in m.root \/ c \in lost'
      BY <2>1, <3>1, <3>2
    <3> QED
      BY <2>1, <2>2, <3>3 DEF Answered, Accounted
  <2>4. CASE ~\E k \in EntriesFor(m.root) : InRange(c, k)
    BY <1>c, <2>1, <2>4 DEF Answered, Accounted, InRange
  <2> QED
    BY <2>3, <2>4
<1>13. ASSUME NEW s \in scans, NEW k \in s.rest, ScanCheck(s, k)
       PROVE  Answered(c)'
  <2>1. UNCHANGED <<cals, btcas>>
    BY <1>13 DEF ScanCheck, blockVars, network
  <2>2. k.start \in Nat /\ k.end \in Nat /\ c \in Nat /\ beginCalTxInt \in Nat
    BY <2>1 DEF TypeOK, Scans, CheckEntries
  <2>3. ASSUME checks' = checks \ {k}, beginCalTxInt' = k.start,
               lost' = lost \cup CalsIn(beginCalTxInt, k.start),
               UNCHANGED anchorings
        PROVE  Answered(c)'
    <3>1. ~InRange(c, k)
      BY <2>2, <2>3 DEF InRange
    <3>2. CASE c < beginCalTxInt
      BY <1>c, <2>1, <2>3, <3>1, <3>2 DEF Answered, Accounted, InRange
    <3>3. CASE ~(c < beginCalTxInt)
      BY <2>1, <2>2, <2>3, <3>3, CalsInRange DEF Answered
    <3> QED
      BY <3>2, <3>3
  <2>4. ASSUME checks' = checks \ {k}, UNCHANGED <<beginCalTxInt, lost>>,
               anchorings' = anchorings \cup {NewAnchoring(k.start, k.end, TRUE)}
        PROVE  Answered(c)'
    <3> DEFINE n == NewAnchoring(k.start, k.end, TRUE)
    <3>1. n.retry /\ n.start = k.start /\ n.end = k.end
      BY DEF NewAnchoring
    <3>2. CASE InRange(c, k)
      <4>1. InRange(c, n)
        BY <3>1, <3>2 DEF InRange
      <4> HIDE DEF n
      <4> QED
        BY <2>4, <3>1, <4>1 DEF n, Answered, Accounted, InRange
    <3>3. CASE ~InRange(c, k)
      <4> HIDE DEF n
      <4> QED
        BY <1>c, <2>1, <2>4, <3>3 DEF Answered, Accounted, InRange
    <3> QED
      BY <3>2, <3>3
  <2>5. ASSUME UNCHANGED <<checks, marker, anchorings, lost>>
        PROVE  Answered(c)'
    BY <1>1, <2>1, <2>5 DEF marker
  <2>6. ASSUME checks' = checks \ {k}, UNCHANGED <<marker, anchorings>>,
               lost' = lost \cup CalsIn(k.start, k.end)
        PROVE  Answered(c)'
    <3>1. CASE InRange(c, k)
      BY <2>1, <2>6, <3>1, CalsInRange DEF Answered, InRange
    <3>2. CASE ~InRange(c, k)
      BY <1>c, <2>1, <2>6, <3>2 DEF marker, Answered, Accounted, InRange
    <3> QED
      BY <3>1, <3>2
  <2> QED
    BY <1>13, <2>3, <2>4, <2>5, <2>6 DEF ScanCheck, ResetAnchor, marker
<1>14. CASE SyncMonitor
  BY <1>1, <1>14 DEF SyncMonitor, marker, blockVars, network, goroutines
<1>15. CASE DeliverOther
  BY <1>1, <1>15 DEF DeliverOther, marker, blockVars, network, goroutines
<1>16. ASSUME NEW m \in mempool, DeliverBtcE(m)
       PROVE  Answered(c)'
  BY <1>1, <1>16 DEF DeliverBtcE, marker, goroutines
<1>17. CASE Commit
  BY <1>1, <1>17 DEF Commit, marker, network, goroutines
<1>18. ASSUME NEW j \in Awaited, PeerAnchors(j)
       PROVE  Answered(c)'
  BY <1>1, <1>18 DEF PeerAnchors, marker, blockVars, goroutines
<1>19. ASSUME NEW s \in scans, StartScan(s)
       PROVE  Answered(c)'
  BY <1>1, <1>19 DEF StartScan, marker, blockVars, network
<1>20. CASE UNCHANGED vars
  BY <1>1, <1>20 DEF vars, marker, blockVars, network, goroutines
<1> QED
  BY <1>2, <1>3, <1>4, <1>5, <1>8, <1>9, <1>10, <1>11, <1>12, <1>13, <1>14,
     <1>15, <1>16, <1>17, <1>18, <1>19, <1>20
     DEF Next, Deliver, AnchorToChain, MonitorFailedAnchor

-----------------------------------------------------------------------------
(* The theorems                                                            *)

\* The three parts are inductive together.
LEMMA Invariance == Spec => []ProofInv
<1>1. ProofInv /\ [Next]_vars => ProofInv'
  BY TypeStep, BoundedStep, CoverageStep DEF ProofInv
<1> QED
  BY InitProofInv, <1>1, PTL DEF Spec

\* StartAnchoring, DeliverTx, AnchorToChain, the monitors and a restart keep
\* the application state and the goroutines within their types.
THEOREM TypeCorrect == Spec => []TypeOK
<1>1. ProofInv => TypeOK
  BY DEF ProofInv
<1> QED
  BY Invariance, <1>1, PTL

\* No reset, late BTC-A or restart moves BeginCalTxInt, or the range of an
\* anchoring, a CHECK entry or a BTC-A, out of the calendar.
THEOREM Ordered == Spec => []MarkersOrdered
<1>1. ProofInv => MarkersOrdered
  BY DEF ProofInv, Bounded, MarkersOrdered, Within
<1> QED
  BY Invariance, <1>1, PTL

\* Every CAL that BeginCalTxInt has passed is covered by a CHECK entry, a
\* retry or a BTC-A, unless one of the mishaps that "lost" records hit it:
\* there is no other way for the code to forget a CAL.
THEOREM Accountability == Spec => []Coverage
<1>1. ProofInv => Coverage
  BY DEF ProofInv
<1> QED
  BY Invariance, <1>1, PTL

-----------------------------------------------------------------------------
(* Undisturbed runs                                                        *)

\* Nothing but leaders that are silent or report failure, and an interval
\* longer than the timeout (config.go: 60 blocks; bitcoinanchor.go: 10).
Undisturbed == Events \subseteq {"btc_error"} /\ TimeoutBlocks < AnchorInterval

\* A Core that never was synced takes no part.
Asleep ==
    ~chainSynced => /\ mempool = {} /\ btcas = {} /\ anchorings = {}
                    /\ monitors = {} /\ scans = {} /\ checks = {}

\* CHECK entries, and those a scan has read and may act upon.
Entries == checks \cup UNION {s.rest : s \in scans}

\* Whatever speaks of a range has found, or will find, all of its CALs.
Whole(r) == CalsIn(r.start, r.end) \subseteq indexed
Rooted(r) == r.root = CalsIn(r.start, r.end) /\ r.root # {} /\ Whole(r)

Found(j) ==
    /\ Whole(j)
    /\ j.pc \in {"send", "check"} => Rooted(j)
    /\ j.retry => CalsIn(j.start, j.end) # {}

Trees ==
    /\ \A j \in anchorings : Found(j)
    /\ \A k \in Entries : Rooted(k)
    /\ \A m \in mempool : m.type = "BTC-A" => m.root = CalsIn(m.start, m.end)
    /\ RootsComplete

\* Either the next range is being anchored, or what is left of the last one
\* ends where BeginCalTxInt is.
OneRange ==
    \/ /\ \A j \in anchorings : j.retry /\ j.end = beginCalTxInt
       /\ \A k \in Entries : k.end = beginCalTxInt
    \/ /\ Entries = {}
       /\ \E j \in anchorings : anchorings = {j} /\ ~j.retry /\ j.start = beginCalTxInt

\* The height of the last EndBlock: its scan leaves no entry older than the
\* timeout, so none that is older than the interval is there at the next.
Ended == IF phase = "commit" THEN height ELSE height - 1

Dates ==
    /\ \A k \in checks : k.at <= latestBtcaHeight /\ k.at <= height
    /\ \A k \in checks : \/ Ended - k.at <= TimeoutBlocks
                         \/ \E s \in scans : ~s.started \/ k \in s.rest

\* In a block without BTC-A the last CALs are the ones CurrentCalInts counts.
Counted ==
    phase = "deliver" /\ latestBtcaHeight < height =>
        \A c \in cals \ indexed : c > txInt - currentCalInts /\ latestCalTxInt = txInt

Quiet == Asleep /\ Trees /\ OneRange /\ Dates /\ Counted /\ lost = {}

LEMMA QuietNever ==
    ASSUME Undisturbed
    PROVE  \A e \in {"other_tx", "slow", "crash", "no_leader", "rpc_error", "no_scan", "overdue"} :
              e \notin Events
BY DEF Undisturbed

\* The calendar grows at its end.
LEMMA Grows ==
    ASSUME TypeOK, [Next]_vars
    PROVE  /\ cals \subseteq cals' /\ indexed \subseteq indexed'
           /\ cals' \subseteq cals \cup {txInt + 1}
<1> USE DEF TypeOK, blockVars
<1>1. CASE DeliverCal BY <1>1 DEF DeliverCal
<1>2. CASE Commit BY <1>2 DEF Commit
<1>3. CASE SyncMonitor \/ DeliverOther \/ EndBlock \/ Crash
  BY <1>3 DEF SyncMonitor, DeliverOther, EndBlock, Crash
<1>4. ASSUME NEW m \in mempool, DeliverBtcA(m) \/ DeliverBtcE(m) PROVE UNCHANGED <<cals, indexed>>
  BY <1>4 DEF DeliverBtcA, DeliverBtcE
<1>5. ASSUME NEW j \in anchorings, AnchorToChain(j) PROVE UNCHANGED <<cals, indexed>>
  BY <1>5 DEF AnchorToChain, Elect, BuildTree, SendBtcTx, AppendCheck
<1>6. ASSUME NEW j \in Awaited, PeerAnchors(j) PROVE UNCHANGED <<cals, indexed>>
  BY <1>6 DEF PeerAnchors
<1>7. ASSUME NEW m \in monitors, BeginTxMonitor(m) PROVE UNCHANGED <<cals, indexed>>
  BY <1>7 DEF BeginTxMonitor
<1>8. ASSUME NEW s \in scans, MonitorFailedAnchor(s) PROVE UNCHANGED <<cals, indexed>>
  BY <1>8 DEF MonitorFailedAnchor, StartScan, ScanCheck
<1>9. CASE UNCHANGED vars BY <1>9 DEF vars
<1> QED BY <1>1, <1>2, <1>3, <1>4, <1>5, <1>6, <1>7, <1>8, <1>9 DEF Next, Deliver

\* So a range of the calendar keeps its CALs.
LEMMA RangeStays ==
    ASSUME TypeOK, Bounded, [Next]_vars, NEW s \in Nat, NEW e \in Nat, e <= latestCalTxInt
    PROVE  /\ CalsIn(s, e)' = CalsIn(s, e)
           /\ CalsIn(s, e) \subseteq indexed => CalsIn(s, e)' \subseteq indexed'
<1>1. /\ cals \subseteq cals' /\ indexed \subseteq indexed'
      /\ \A c \in cals' \ cals : ~(c < e)
  BY Grows DEF TypeOK, Bounded
<1>2. CalsIn(s, e)' = {c \in cals' : s <= c /\ c < e} BY DEF CalsIn
<1>3. CalsIn(s, e) = {c \in cals : s <= c /\ c < e} BY DEF CalsIn
<1> QED BY <1>1, <1>2, <1>3

LEMMA WholeStays ==
    ASSUME TypeOK, Bounded, [Next]_vars, NEW r, r.start \in Nat, r.end \in Nat,
           r.end <= latestCalTxInt
    PROVE  /\ CalsIn(r.start, r.end)' = CalsIn(r.start, r.end)
           /\ Whole(r) => Whole(r)'
           /\ Rooted(r) => Rooted(r)'
BY RangeStays DEF Whole, Rooted

\* The ranges are there.
LEMMA Ranges ==
    ASSUME TypeOK, Bounded
    PROVE  /\ \A j \in anchorings : j.start \in Nat /\ j.end \in Nat /\ Within(j)
           /\ \A k \in Entries : k.start \in Nat /\ k.end \in Nat /\ k.at \in Nat /\ Within(k)
           /\ \A m \in mempool : m.start \in Nat /\ m.end \in Nat
                                 /\ (m.type = "BTC-A" => Within(m))
           /\ \A m \in btcas : m.start \in Nat /\ m.end \in Nat /\ Within(m)
<1>1. \A j \in anchorings : j.start \in Nat /\ j.end \in Nat /\ Within(j)
  BY DEF TypeOK, Anchorings, Bounded
<1>2. \A k \in CheckEntries : k.start \in Nat /\ k.end \in Nat /\ k.at \in Nat
  BY DEF CheckEntries
<1>3. ASSUME NEW k \in Entries PROVE k \in CheckEntries /\ Within(k)
  <2>1. CASE k \in checks BY <2>1 DEF TypeOK, Bounded
  <2>2. CASE \E s \in scans : k \in s.rest BY <2>2 DEF TypeOK, Scans, Bounded
  <2> QED BY <1>3, <2>1, <2>2 DEF Entries
<1>4. \A m \in Transactions : m.start \in Nat /\ m.end \in Nat
  BY DEF Transactions
<1>5. \A m \in mempool : m \in Transactions /\ (m.type = "BTC-A" => Within(m))
  BY DEF TypeOK, Bounded
<1>6. \A m \in btcas : m \in Transactions /\ Within(m)
  BY DEF TypeOK, Bounded
<1> QED BY <1>1, <1>2, <1>3, <1>4, <1>5, <1>6

\* A scan leaves the markers alone: it starts the anchoring of an entry again,
\* or keeps it.
LEMMA ScanActs ==
    ASSUME Undisturbed, TypeOK, Bounded, OneRange,
           NEW s \in scans, NEW k \in s.rest, ScanCheck(s, k)
    PROVE  /\ UNCHANGED <<appState, marker, blockVars, network, monitors, lost>>
           /\ k \in Entries /\ k.end = beginCalTxInt
           /\ \A j \in anchorings : j.retry /\ j.end = beginCalTxInt
           /\ \A l \in Entries : l.end = beginCalTxInt
           /\ \/ /\ TimedOut(k) /\ checks' = checks \ {k}
                 /\ anchorings' = anchorings \cup {NewAnchoring(k.start, k.end, TRUE)}
              \/ ~TimedOut(k) /\ UNCHANGED <<checks, anchorings>>
<1>1. k \in Entries BY DEF Entries
<1>2. /\ \A j \in anchorings : j.retry /\ j.end = beginCalTxInt
      /\ \A l \in Entries : l.end = beginCalTxInt
  BY <1>1 DEF OneRange
<1>3. beginCalTxInt >= k.end /\ k.end \in Nat BY <1>1, <1>2, Ranges
<1>4. ~ReportedFailed(k) BY DEF ReportedFailed
<1>5. "overdue" \notin Events BY QuietNever
<1> QED BY <1>1, <1>2, <1>3, <1>4, <1>5 DEF ScanCheck

\* Entries are made by AppendCheck only.
LEMMA EntriesMade ==
    ASSUME TypeOK, Bounded, [Next]_vars
    PROVE  \/ Entries' \subseteq Entries
           \/ \E j \in anchorings : AppendCheck(j) /\ Entries' = Entries \cup {Check(j)}
<1> USE DEF TypeOK, goroutines
<1>1. ASSUME UNCHANGED scans, checks' \subseteq checks PROVE Entries' \subseteq Entries
  BY <1>1 DEF Entries
<1>2. CASE SyncMonitor \/ DeliverCal \/ DeliverOther \/ Commit
  BY <1>1, <1>2 DEF SyncMonitor, DeliverCal, DeliverOther, Commit
<1>3. ASSUME NEW m \in mempool, DeliverBtcA(m) \/ DeliverBtcE(m) PROVE Entries' \subseteq Entries
  BY <1>1, <1>3 DEF DeliverBtcA, DeliverBtcE
<1>4. CASE EndBlock
  <2> DEFINE new == [at |-> height, started |-> FALSE, rest |-> {}]
  <2>1. scans' \subseteq scans \cup {new} /\ checks' = checks BY <1>4 DEF EndBlock
  <2>2. new.rest = {} OBVIOUS
  <2> HIDE DEF new
  <2> QED BY <2>1, <2>2 DEF Entries
<1>5. CASE Crash BY <1>5 DEF Crash, Entries
<1>6. ASSUME NEW j \in anchorings, Elect(j) \/ BuildTree(j) \/ SendBtcTx(j)
      PROVE  Entries' \subseteq Entries
  BY <1>1, <1>6 DEF Elect, BuildTree, SendBtcTx
<1>7. ASSUME NEW j \in anchorings, AppendCheck(j) PROVE Entries' = Entries \cup {Check(j)}
  BY <1>7 DEF AppendCheck, Entries
<1>8. ASSUME NEW j \in Awaited, PeerAnchors(j) PROVE Entries' \subseteq Entries
  BY <1>1, <1>8 DEF PeerAnchors
<1>9. ASSUME NEW m \in monitors, BeginTxMonitor(m) PROVE Entries' \subseteq Entries
  BY <1>1, <1>9 DEF BeginTxMonitor
<1>10. ASSUME NEW s \in scans, StartScan(s) PROVE Entries' \subseteq Entries
  <2> DEFINE new == [s EXCEPT !.started = TRUE, !.rest = checks]
  <2>1. scans' \subseteq scans \cup {new} /\ checks' = checks BY <1>10 DEF StartScan
  <2>2. new.rest = checks BY DEF Scans
  <2> HIDE DEF new
  <2> QED BY <2>1, <2>2 DEF Entries
<1>11. ASSUME NEW s \in scans, NEW k \in s.rest, ScanCheck(s, k) PROVE Entries' \subseteq Entries
  <2> DEFINE new == [s EXCEPT !.rest = s.rest \ {k}]
  <2>1. scans' \subseteq scans \cup {new} /\ checks' \subseteq checks
    BY <1>11 DEF ScanCheck, Handled
  <2>2. new.rest \subseteq s.rest BY DEF Scans
  <2> HIDE DEF new
  <2> QED BY <2>1, <2>2 DEF Entries
<1>12. CASE UNCHANGED vars BY <1>1, <1>12 DEF vars
<1> QED
  BY <1>2, <1>3, <1>4, <1>5, <1>6, <1>7, <1>8, <1>9, <1>10, <1>11, <1>12
     DEF Next, Deliver, AnchorToChain, MonitorFailedAnchor

LEMMA AsleepStep ==
    ASSUME Undisturbed, TypeOK, Asleep, [Next]_vars
    PROVE  Asleep'
<1> SUFFICES ASSUME ~chainSynced'
             PROVE  /\ mempool' = {} /\ btcas' = {} /\ anchorings' = {}
                    /\ monitors' = {} /\ scans' = {} /\ checks' = {}
  BY DEF Asleep
<1>1. CASE chainSynced
  <2>1. UNCHANGED chainSynced \/ SyncMonitor
    <3>1. CASE DeliverCal \/ DeliverOther \/ EndBlock \/ Commit
      BY <3>1 DEF DeliverCal, DeliverOther, EndBlock, Commit
    <3>2. ASSUME NEW m \in mempool, DeliverBtcA(m) \/ DeliverBtcE(m) PROVE UNCHANGED chainSynced
      BY <3>2 DEF DeliverBtcA, DeliverBtcE
    <3>3. ASSUME NEW j \in anchorings, AnchorToChain(j) PROVE UNCHANGED chainSynced
      BY <3>3 DEF AnchorToChain, Elect, BuildTree, SendBtcTx, AppendCheck, appState
    <3>4. ASSUME NEW j \in Awaited, PeerAnchors(j) PROVE UNCHANGED chainSynced
      BY <3>4 DEF PeerAnchors, appState
    <3>5. ASSUME NEW m \in monitors, BeginTxMonitor(m) PROVE UNCHANGED chainSynced
      BY <3>5 DEF BeginTxMonitor, appState
    <3>6. ASSUME NEW s \in scans, MonitorFailedAnchor(s) PROVE UNCHANGED chainSynced
      BY <3>6 DEF MonitorFailedAnchor, StartScan, ScanCheck, appState
    <3>7. ~Crash BY QuietNever DEF Crash
    <3> QED BY <3>1, <3>2, <3>3, <3>4, <3>5, <3>6, <3>7 DEF Next, Deliver, vars, appState
  <2> QED BY <1>1, <2>1 DEF SyncMonitor
<1>2. CASE ~chainSynced
  <2>1. /\ mempool = {} /\ btcas = {} /\ anchorings = {}
        /\ monitors = {} /\ scans = {} /\ checks = {} /\ Awaited = {}
    BY <1>2 DEF Asleep, Awaited
  <2>2. CASE SyncMonitor BY <2>2 DEF SyncMonitor
  <2>3. CASE DeliverCal \/ DeliverOther \/ Commit
    BY <2>1, <2>3 DEF DeliverCal, DeliverOther, Commit, network, goroutines, blockVars
  <2>4. CASE EndBlock
    <3>1. ~AnchorDue BY <1>2 DEF AnchorDue
    <3> QED BY <1>2, <2>1, <2>4, <3>1 DEF EndBlock, network
  <2>5. ~Crash BY QuietNever DEF Crash
  <2>6. CASE UNCHANGED vars BY <2>1, <2>6 DEF vars, network, goroutines
  <2> QED BY <2>1, <2>2, <2>3, <2>4, <2>5, <2>6 DEF Next, Deliver
<1> QED BY <1>1, <1>2 DEF TypeOK

\* None of the mishaps occurs.
LEMMA LostStep ==
    ASSUME Undisturbed, TypeOK, Bounded, Quiet, [Next]_vars
    PROVE  lost' = {}
<1>0. lost = {} /\ Asleep /\ Trees /\ OneRange BY DEF Quiet
<1>1. ASSUME NEW m \in mempool, DeliverBtcA(m) PROVE lost' = {}
  <2>1. chainSynced BY <1>0 DEF Asleep
  <2> QED BY <1>0, <1>1, <2>1 DEF DeliverBtcA
<1>2. ASSUME NEW j \in anchorings, Elect(j) PROVE lost' = {}
  BY <1>0, <1>2, QuietNever DEF Elect
<1>3. ASSUME NEW j \in anchorings, BuildTree(j) PROVE lost' = {}
  <2>1. "rpc_error" \notin Events BY QuietNever
  <2>2. j.retry => Tree(j.start, j.end) # {} BY <1>0 DEF Trees, Found, Whole, Tree
  <2> QED BY <1>0, <1>3, <2>1, <2>2 DEF BuildTree, GiveUp
<1>4. ASSUME NEW j \in anchorings, AppendCheck(j) PROVE lost' = {}
  <2>1. j.start \in Nat /\ j.end \in Nat /\ j.start < j.end BY Ranges DEF Within
  <2>2. j.end = beginCalTxInt \/ j.start = beginCalTxInt BY <1>0 DEF OneRange
  <2>3. j.start <= beginCalTxInt /\ beginCalTxInt \in Nat BY <2>1, <2>2
  <2>4. CalsIn(beginCalTxInt, j.start) = {}
    <3>1. \A c \in cals : c \in Nat BY DEF TypeOK
    <3> QED BY <2>1, <2>3, <3>1 DEF CalsIn
  <2> QED BY <1>0, <1>4, <2>4 DEF AppendCheck
<1>5. ASSUME NEW m \in monitors, BeginTxMonitor(m) PROVE lost' = {}
  <2>1. \A k \in EntriesFor(m.root) : CalsIn(k.start, k.end) = m.root
    BY <1>0 DEF EntriesFor, Trees, Rooted, Entries
  <2> QED BY <1>0, <1>5, <2>1 DEF BeginTxMonitor
<1>6. ASSUME NEW s \in scans, NEW k \in s.rest, ScanCheck(s, k) PROVE lost' = {}
  BY <1>0, <1>6, ScanActs
<1>7. CASE SyncMonitor \/ DeliverCal \/ DeliverOther \/ EndBlock \/ Commit
  BY <1>0, <1>7 DEF SyncMonitor, DeliverCal, DeliverOther, EndBlock, Commit
<1>8. ASSUME NEW m \in mempool, DeliverBtcE(m) PROVE lost' = {}
  BY <1>0, <1>8 DEF DeliverBtcE
<1>9. ASSUME NEW j \in anchorings, SendBtcTx(j) PROVE lost' = {}
  BY <1>0, <1>9 DEF SendBtcTx
<1>10. ASSUME NEW j \in Awaited, PeerAnchors(j) PROVE lost' = {}
  BY <1>0, <1>10 DEF PeerAnchors
<1>11. ASSUME NEW s \in scans, StartScan(s) PROVE lost' = {}
  BY <1>0, <1>11 DEF StartScan
<1>12. ~Crash BY QuietNever DEF Crash
<1>13. CASE UNCHANGED vars BY <1>0, <1>13 DEF vars
<1> QED
  BY <1>1, <1>2, <1>3, <1>4, <1>5, <1>6, <1>7, <1>8, <1>9, <1>10, <1>11, <1>12, <1>13
     DEF Next, Deliver, AnchorToChain, MonitorFailedAnchor

\* When the next anchoring is due, the scan of the block before has taken every
\* entry up again or seen it removed.
LEMMA NothingDue ==
    ASSUME Undisturbed, TypeOK, Dates, EndBlock
    PROVE  anchorings = {} /\ scans = {} /\ (AnchorDue => checks = {} /\ latestBtcaHeight < height)
<1>1. anchorings = {} /\ scans = {} BY QuietNever DEF EndBlock
<1>2. ASSUME AnchorDue PROVE checks = {} /\ latestBtcaHeight < height
  <2>1. height - latestBtcaHeight > AnchorInterval /\ latestBtcaHeight \in Int /\ height \in Nat
    BY <1>2 DEF AnchorDue, TypeOK
  <2>2. AnchorInterval \in Nat /\ TimeoutBlocks \in Nat /\ TimeoutBlocks < AnchorInterval
    BY CalAnchorAssumption DEF Undisturbed
  <2>3. ASSUME NEW k \in checks PROVE FALSE
    <3>1. k.at \in Nat /\ k.at <= latestBtcaHeight BY DEF Dates, TypeOK, CheckEntries
    <3>2. (height - 1) - k.at <= TimeoutBlocks BY <1>1 DEF Dates, Ended, EndBlock
    <3> QED BY <2>1, <2>2, <3>1, <3>2
  <2> QED BY <2>1, <2>2, <2>3
<1> QED BY <1>1, <1>2

\* AnchorToChain keeps its range through its steps.
LEMMA Anchors ==
    ASSUME TypeOK, NEW j \in anchorings, Elect(j) \/ BuildTree(j) \/ SendBtcTx(j)
    PROVE  \/ anchorings' = anchorings \ {j}
           \/ \E i : /\ anchorings' = (anchorings \ {j}) \cup {i}
                     /\ i.retry = j.retry /\ i.start = j.start /\ i.end = j.end
<1>0. j \in Anchorings BY DEF TypeOK
<1>1. CASE Elect(j)
  <2>1. ASSUME NEW me \in BOOLEAN, Becomes(j, [j EXCEPT !.pc = "tree", !.leader = me])
        PROVE  \E i : /\ anchorings' = (anchorings \ {j}) \cup {i}
                      /\ i.retry = j.retry /\ i.start = j.start /\ i.end = j.end
    <3> DEFINE i == [j EXCEPT !.pc = "tree", !.leader = me]
    <3>1. i.retry = j.retry /\ i.start = j.start /\ i.end = j.end BY <1>0 DEF Anchorings
    <3>2. anchorings' = (anchorings \ {j}) \cup {i} BY <2>1 DEF Becomes
    <3> HIDE DEF i
    <3> QED BY <3>1, <3>2
  <2> QED BY <1>1, <2>1 DEF Elect, GiveUp
<1>2. CASE BuildTree(j)
  <2> DEFINE i == [j EXCEPT !.pc = IF j.leader THEN "send" ELSE "check",
                            !.root = Tree(j.start, j.end)]
  <2>1. i.retry = j.retry /\ i.start = j.start /\ i.end = j.end BY <1>0 DEF Anchorings
  <2>2. anchorings' = (anchorings \ {j}) \cup {i} \/ anchorings' = anchorings \ {j}
    BY <1>2 DEF BuildTree, Becomes, GiveUp
  <2> HIDE DEF i
  <2> QED BY <2>1, <2>2
<1>3. CASE SendBtcTx(j)
  <2> DEFINE i == [j EXCEPT !.pc = "check"]
  <2>1. i.retry = j.retry /\ i.start = j.start /\ i.end = j.end BY <1>0 DEF Anchorings
  <2>2. anchorings' = (anchorings \ {j}) \cup {i} BY <1>3 DEF SendBtcTx, Becomes
  <2> HIDE DEF i
  <2> QED BY <2>1, <2>2
<1> QED BY <1>1, <1>2, <1>3

LEMMA OneRangeStep ==
    ASSUME Undisturbed, TypeOK, Bounded, Quiet, [Next]_vars
    PROVE  OneRange'
<1>0. Asleep /\ OneRange /\ Dates BY DEF Quiet
<1>1. ASSUME UNCHANGED <<beginCalTxInt, anchorings>>, Entries' \subseteq Entries PROVE OneRange'
  <2>1. CASE /\ \A j \in anchorings : j.retry /\ j.end = beginCalTxInt
             /\ \A k \in Entries : k.end = beginCalTxInt
    BY <1>1, <2>1 DEF OneRange
  <2>2. CASE /\ Entries = {}
             /\ \E j \in anchorings : anchorings = {j} /\ ~j.retry /\ j.start = beginCalTxInt
    BY <1>1, <2>2 DEF OneRange
  <2> QED BY <1>0, <2>1, <2>2 DEF OneRange
<1>2. ASSUME NEW j \in anchorings, AppendCheck(j) PROVE OneRange'
  <2>1. beginCalTxInt' = j.end /\ anchorings' = anchorings \ {j} BY <1>2 DEF AppendCheck
  <2>2. Entries' = Entries \cup {Check(j)} BY <1>2 DEF AppendCheck, Entries
  <2>3. Check(j).end = j.end BY DEF Check
  <2>4. CASE /\ \A i \in anchorings : i.retry /\ i.end = beginCalTxInt
             /\ \A k \in Entries : k.end = beginCalTxInt
    <3>1. j.end = beginCalTxInt BY <2>4
    <3>2. \A i \in anchorings' : i.retry /\ i.end = beginCalTxInt' BY <2>1, <2>4, <3>1
    <3>3. \A k \in Entries' : k.end = beginCalTxInt' BY <2>1, <2>2, <2>3, <2>4, <3>1
    <3> QED BY <3>2, <3>3 DEF OneRange
  <2>5. CASE /\ Entries = {}
             /\ \E i \in anchorings : anchorings = {i} /\ ~i.retry /\ i.start = beginCalTxInt
    <3>1. anchorings' = {} BY <2>1, <2>5
    <3>2. \A k \in Entries' : k.end = beginCalTxInt' BY <2>1, <2>2, <2>3, <2>5
    <3> QED BY <3>1, <3>2 DEF OneRange
  <2> QED BY <1>0, <2>4, <2>5 DEF OneRange
<1>3. ASSUME ~\E j \in anchorings : AppendCheck(j) PROVE Entries' \subseteq Entries
  BY <1>3, EntriesMade
<1>4. ASSUME NEW j \in anchorings, Elect(j) \/ BuildTree(j) \/ SendBtcTx(j) PROVE OneRange'
  <2>1. beginCalTxInt' = beginCalTxInt /\ Entries' = Entries
    BY <1>4 DEF Elect, BuildTree, SendBtcTx, marker, Entries
  <2>2. CASE /\ \A i \in anchorings : i.retry /\ i.end = beginCalTxInt
             /\ \A k \in Entries : k.end = beginCalTxInt
    <3>1. \A i \in anchorings' : i.retry /\ i.end = beginCalTxInt' BY <1>4, <2>1, <2>2, Anchors
    <3> QED BY <2>1, <2>2, <3>1 DEF OneRange
  <2>3. CASE /\ Entries = {}
             /\ \E i \in anchorings : anchorings = {i} /\ ~i.retry /\ i.start = beginCalTxInt
    <3>1. anchorings = {j} /\ ~j.retry /\ j.start = beginCalTxInt BY <2>3
    <3>2. \/ anchorings' = {}
          \/ \E i : anchorings' = {i} /\ ~i.retry /\ i.start = beginCalTxInt
      BY <1>4, <3>1, Anchors
    <3> QED BY <2>1, <2>3, <3>2 DEF OneRange
  <2> QED BY <1>0, <2>2, <2>3 DEF OneRange
<1>5. CASE EndBlock
  <2>1. anchorings = {} /\ scans = {} /\ (AnchorDue => checks = {})
    BY <1>0, <1>5, NothingDue
  <2>2. beginCalTxInt' = beginCalTxInt /\ Entries' \subseteq Entries
    <3>1. \A j \in anchorings : ~AppendCheck(j) BY <2>1
    <3> QED BY <1>3, <1>5, <3>1 DEF EndBlock, marker
  <2>3. CASE ~AnchorDue BY <1>1, <1>5, <2>2, <2>3 DEF EndBlock
  <2>4. CASE AnchorDue
    <3> DEFINE new == NewAnchoring(beginCalTxInt, AnchorEnd, FALSE)
    <3>1. anchorings' = {new} BY <1>5, <2>1, <2>4 DEF EndBlock
    <3>2. ~new.retry /\ new.start = beginCalTxInt BY DEF NewAnchoring
    <3>3. Entries' = {} BY <2>1, <2>2, <2>4 DEF Entries
    <3> HIDE DEF new
    <3> QED BY <2>2, <3>1, <3>2, <3>3 DEF OneRange
  <2> QED BY <2>3, <2>4
<1>6. ASSUME NEW s \in scans, NEW k \in s.rest, ScanCheck(s, k) PROVE OneRange'
  <2>1. /\ beginCalTxInt' = beginCalTxInt /\ k.end = beginCalTxInt
        /\ \A j \in anchorings : j.retry /\ j.end = beginCalTxInt
        /\ \A l \in Entries : l.end = beginCalTxInt
        /\ anchorings' \subseteq anchorings \cup {NewAnchoring(k.start, k.end, TRUE)}
    BY <1>0, <1>6, ScanActs DEF marker
  <2>2. Entries' \subseteq Entries
    <3> DEFINE new == [s EXCEPT !.rest = s.rest \ {k}]
    <3>1. scans' \subseteq scans \cup {new} /\ checks' \subseteq checks
      BY <1>6 DEF ScanCheck, Handled
    <3>2. new.rest \subseteq s.rest BY DEF Scans, TypeOK
    <3> HIDE DEF new
    <3> QED BY <3>1, <3>2 DEF Entries
  <2>3. NewAnchoring(k.start, k.end, TRUE).retry /\ NewAnchoring(k.start, k.end, TRUE).end = k.end
    BY DEF NewAnchoring
  <2> QED BY <2>1, <2>2, <2>3 DEF OneRange
<1>7. ASSUME NEW m \in mempool, DeliverBtcA(m) PROVE OneRange'
  <2>1. chainSynced BY <1>0 DEF Asleep
  <2>2. UNCHANGED <<beginCalTxInt, anchorings, checks, scans>> BY <1>7, <2>1 DEF DeliverBtcA
  <2> QED BY <1>1, <2>2 DEF Entries
<1>8. CASE SyncMonitor \/ DeliverCal \/ DeliverOther \/ Commit
  BY <1>1, <1>8 DEF SyncMonitor, DeliverCal, DeliverOther, Commit, marker, goroutines, Entries
<1>9. ASSUME NEW m \in mempool, DeliverBtcE(m) PROVE OneRange'
  BY <1>1, <1>9 DEF DeliverBtcE, marker, goroutines, Entries
<1>10. ASSUME NEW j \in Awaited, PeerAnchors(j) PROVE OneRange'
  BY <1>1, <1>10 DEF PeerAnchors, marker, goroutines, Entries
<1>11. ASSUME NEW m \in monitors, BeginTxMonitor(m) PROVE OneRange'
  BY <1>1, <1>11 DEF BeginTxMonitor, marker, Entries
<1>12. ASSUME NEW s \in scans, StartScan(s) PROVE OneRange'
  <2>1. UNCHANGED <<beginCalTxInt, anchorings, checks>> BY <1>12 DEF StartScan, marker
  <2> DEFINE new == [s EXCEPT !.started = TRUE, !.rest = checks]
  <2>2. scans' \subseteq scans \cup {new} BY <1>12 DEF StartScan
  <2>3. new.rest = checks BY DEF Scans, TypeOK
  <2> HIDE DEF new
  <2>4. Entries' \subseteq Entries BY <2>1, <2>2, <2>3 DEF Entries
  <2> QED BY <1>1, <2>1, <2>4
<1>13. ~Crash BY QuietNever DEF Crash
<1>14. CASE UNCHANGED vars BY <1>1, <1>14 DEF vars, marker, goroutines, Entries
<1> QED
  BY <1>2, <1>4, <1>5, <1>6, <1>7, <1>8, <1>9, <1>10, <1>11, <1>12, <1>13, <1>14
     DEF Next, Deliver, AnchorToChain, MonitorFailedAnchor

LEMMA CountedStep ==
    ASSUME Undisturbed, TypeOK, Bounded, Quiet, [Next]_vars
    PROVE  Counted'
<1>0. Counted /\ Asleep /\ OneRange BY DEF Quiet
<1>1. ASSUME UNCHANGED <<phase, latestBtcaHeight, height, cals, indexed, txInt,
                         currentCalInts, latestCalTxInt>>
      PROVE  Counted'
  BY <1>0, <1>1 DEF Counted
<1>2. CASE DeliverCal
  <2>1. txInt' - currentCalInts' = txInt - currentCalInts /\ txInt + 1 > txInt - currentCalInts
    BY <1>2 DEF DeliverCal, TypeOK
  <2>2. latestCalTxInt' = txInt' /\ cals' = cals \cup {txInt + 1}
    BY <1>2 DEF DeliverCal
  <2>3. UNCHANGED <<phase, latestBtcaHeight, height, indexed>>
    BY <1>2 DEF DeliverCal, marker
  <2> QED BY <1>0, <2>1, <2>2, <2>3 DEF Counted
<1>3. ~DeliverOther BY QuietNever DEF DeliverOther
<1>4. ASSUME NEW m \in mempool, DeliverBtcA(m) PROVE Counted'
  BY <1>4 DEF DeliverBtcA, Counted, TypeOK
<1>5. ASSUME NEW j \in anchorings, AppendCheck(j) PROVE Counted'
  BY <1>5 DEF AppendCheck, Counted, TypeOK, appState
<1>6. CASE EndBlock BY <1>6 DEF EndBlock, Counted
<1>7. CASE Commit BY <1>7 DEF Commit, Counted
<1>8. ~Crash BY QuietNever DEF Crash
<1>9. ASSUME NEW j \in anchorings, Elect(j) \/ BuildTree(j) \/ SendBtcTx(j) PROVE Counted'
  BY <1>1, <1>9 DEF Elect, BuildTree, SendBtcTx, appState, marker, blockVars
<1>10. CASE SyncMonitor BY <1>1, <1>10 DEF SyncMonitor, marker, blockVars
<1>11. ASSUME NEW m \in mempool, DeliverBtcE(m) PROVE Counted'
  BY <1>1, <1>11 DEF DeliverBtcE, marker
<1>12. ASSUME NEW j \in Awaited, PeerAnchors(j) PROVE Counted'
  BY <1>1, <1>12 DEF PeerAnchors, appState, marker, blockVars
<1>13. ASSUME NEW m \in monitors, BeginTxMonitor(m) PROVE Counted'
  BY <1>1, <1>13 DEF BeginTxMonitor, appState, marker, blockVars
<1>14. ASSUME NEW s \in scans, StartScan(s) PROVE Counted'
  BY <1>1, <1>14 DEF StartScan, appState, marker, blockVars
<1>15. ASSUME NEW s \in scans, NEW k \in s.rest, ScanCheck(s, k) PROVE Counted'
  BY <1>0, <1>1, <1>15, ScanActs DEF appState, marker, blockVars
<1>16. CASE UNCHANGED vars BY <1>1, <1>16 DEF vars, appState, marker, blockVars
<1> QED
  BY <1>2, <1>3, <1>4, <1>5, <1>6, <1>7, <1>8, <1>9, <1>10, <1>11, <1>12, <1>13,
     <1>14, <1>15, <1>16
     DEF Next, Deliver, AnchorToChain, MonitorFailedAnchor

LEMMA DatesStep ==
    ASSUME Undisturbed, TypeOK, Bounded, Quiet, [Next]_vars
    PROVE  Dates'
<1>0. Dates /\ Asleep /\ OneRange BY DEF Quiet
<1>1. ASSUME UNCHANGED <<phase, height, scans>>, checks' \subseteq checks,
             latestBtcaHeight <= latestBtcaHeight'
      PROVE  Dates'
  <2>1. Ended' = Ended BY <1>1 DEF Ended
  <2>2. \A k \in checks : k.at \in Nat BY DEF TypeOK, CheckEntries
  <2>3. latestBtcaHeight' \in Int BY TypeStep DEF TypeOK
  <2>4. \A k \in checks' : k.at <= latestBtcaHeight' /\ k.at <= height'
    BY <1>0, <1>1, <2>2, <2>3 DEF Dates, TypeOK
  <2>5. \A k \in checks' : \/ Ended' - k.at <= TimeoutBlocks
                           \/ \E s \in scans' : ~s.started \/ k \in s.rest
    BY <1>0, <1>1, <2>1 DEF Dates
  <2> QED BY <2>4, <2>5 DEF Dates
<1>2. latestBtcaHeight <= latestBtcaHeight BY DEF TypeOK
<1>3. CASE EndBlock
  <2>1. UNCHANGED <<checks, height, latestBtcaHeight>> BY <1>3 DEF EndBlock, marker
  <2>2. ASSUME NEW k \in checks PROVE \E s \in scans' : ~s.started
    <3>1. chainSynced BY <1>0, <2>2 DEF Asleep
    <3> DEFINE new == [at |-> height, started |-> FALSE, rest |-> {}]
    <3>2. ~new.started OBVIOUS
    <3>3. new \in scans' BY <1>3, <3>1 DEF EndBlock
    <3> HIDE DEF new
    <3> QED BY <3>2, <3>3
  <2> QED BY <1>0, <2>1, <2>2 DEF Dates
<1>4. CASE Commit
  <2>1. Ended' = Ended BY <1>4 DEF Commit, Ended, TypeOK
  <2>2. UNCHANGED <<checks, scans, latestBtcaHeight>> /\ height' = height + 1
    BY <1>4 DEF Commit, marker, goroutines
  <2>3. \A k \in checks' : k.at <= latestBtcaHeight' /\ k.at <= height'
    BY <1>0, <2>2 DEF Dates, TypeOK, CheckEntries
  <2>4. \A k \in checks' : \/ Ended' - k.at <= TimeoutBlocks
                           \/ \E s \in scans' : ~s.started \/ k \in s.rest
    BY <1>0, <2>1, <2>2 DEF Dates
  <2> QED BY <2>3, <2>4 DEF Dates
<1>5. ASSUME NEW s \in scans, StartScan(s) PROVE Dates'
  <2>1. UNCHANGED <<checks, height, latestBtcaHeight, phase>>
    BY <1>5 DEF StartScan, appState, marker, blockVars
  <2>2. ASSUME NEW k \in checks PROVE \E t \in scans' : ~t.started \/ k \in t.rest
    <3> DEFINE new == [s EXCEPT !.started = TRUE, !.rest = checks]
    <3>1. "no_scan" \notin Events BY QuietNever
    <3>2. new.rest = checks BY DEF Scans, TypeOK
    <3>3. new \in scans' BY <1>5, <2>2, <3>1 DEF StartScan
    <3> HIDE DEF new
    <3> QED BY <3>2, <3>3
  <2> QED BY <1>0, <2>1, <2>2 DEF Dates
<1>6. ASSUME NEW s \in scans, NEW k \in s.rest, ScanCheck(s, k) PROVE Dates'
  <2>1. /\ UNCHANGED <<height, latestBtcaHeight, phase>>
        /\ \/ TimedOut(k) /\ checks' = checks \ {k}
           \/ ~TimedOut(k) /\ UNCHANGED checks
    BY <1>0, <1>6, ScanActs DEF appState, marker, blockVars
  <2>2. Ended' = Ended /\ Ended \in Int /\ Ended <= height
    BY <2>1 DEF Ended, TypeOK
  <2>3. \A l \in checks' : l.at <= latestBtcaHeight' /\ l.at <= height'
    BY <1>0, <2>1 DEF Dates
  <2>4. ASSUME NEW l \in checks'
        PROVE  \/ Ended' - l.at <= TimeoutBlocks
               \/ \E t \in scans' : ~t.started \/ l \in t.rest
    <3>1. l \in checks /\ l.at \in Nat BY <2>1 DEF TypeOK, CheckEntries
    <3>2. CASE l = k
      <4>1. ~TimedOut(k) BY <2>1, <2>4, <3>2
      <4>2. ~(height - l.at > TimeoutBlocks) BY <3>2, <4>1 DEF TimedOut
      <4>3. height \in Nat /\ TimeoutBlocks \in Nat BY CalAnchorAssumption DEF TypeOK
      <4> QED BY <2>2, <3>1, <4>2, <4>3
    <3>3. CASE l # k
      <4>1. CASE Ended - l.at <= TimeoutBlocks BY <2>2, <4>1
      <4>2. ASSUME NEW t \in scans, ~t.started \/ l \in t.rest
            PROVE  \E u \in scans' : ~u.started \/ l \in u.rest
        <5>1. CASE t # s
          <6>1. t \in scans' BY <1>6, <5>1 DEF ScanCheck, Handled
          <6> QED BY <4>2, <6>1
        <5>2. CASE t = s
          <6>1. l \in s.rest BY <1>6, <4>2, <5>2 DEF ScanCheck
          <6> DEFINE new == [s EXCEPT !.rest = s.rest \ {k}]
          <6>2. l \in new.rest BY <3>3, <6>1 DEF Scans, TypeOK
          <6>3. new \in scans' BY <1>6, <3>3, <6>1 DEF ScanCheck, Handled
          <6> HIDE DEF new
          <6> QED BY <6>2, <6>3
        <5> QED BY <5>1, <5>2
      <4> QED BY <1>0, <3>1, <4>1, <4>2 DEF Dates
    <3> QED BY <3>2, <3>3
  <2> QED BY <2>3, <2>4 DEF Dates
<1>7. ASSUME NEW j \in anchorings, AppendCheck(j) PROVE Dates'
  <2>1. /\ UNCHANGED <<height, phase, scans>> /\ latestBtcaHeight' = height
        /\ checks' = checks \cup {Check(j)}
    BY <1>7 DEF AppendCheck, appState, blockVars
  <2>2. Ended' = Ended /\ Ended \in Int /\ Ended <= height
    BY <2>1 DEF Ended, TypeOK
  <2>3. Check(j).at = height BY DEF Check
  <2>4. \A l \in checks' : l.at <= latestBtcaHeight' /\ l.at <= height'
    BY <1>0, <2>1, <2>3 DEF Dates, TypeOK
  <2>5. Ended' - Check(j).at <= TimeoutBlocks
    BY <2>2, <2>3, CalAnchorAssumption DEF TypeOK
  <2>6. \A l \in checks' : \/ Ended' - l.at <= TimeoutBlocks
                           \/ \E t \in scans' : ~t.started \/ l \in t.rest
    BY <1>0, <2>1, <2>2, <2>5 DEF Dates
  <2> QED BY <2>4, <2>6 DEF Dates
<1>8. ASSUME NEW m \in mempool, DeliverBtcA(m) PROVE Dates'
  <2>1. UNCHANGED <<phase, height, scans, checks>> /\ latestBtcaHeight' = height + 1
    BY <1>8 DEF DeliverBtcA
  <2>2. Ended' = Ended BY <2>1 DEF Ended
  <2>3. \A l \in checks' : l.at <= latestBtcaHeight' /\ l.at <= height'
    BY <1>0, <2>1 DEF Dates, TypeOK, CheckEntries
  <2> QED BY <1>0, <2>1, <2>2, <2>3 DEF Dates
<1>9. ~Crash BY QuietNever DEF Crash
<1>10. ASSUME NEW j \in anchorings, Elect(j) \/ BuildTree(j) \/ SendBtcTx(j) PROVE Dates'
  BY <1>1, <1>2, <1>10 DEF Elect, BuildTree, SendBtcTx, appState, marker, blockVars
<1>11. CASE SyncMonitor \/ DeliverCal \/ DeliverOther
  BY <1>1, <1>2, <1>11 DEF SyncMonitor, DeliverCal, DeliverOther, marker, blockVars, goroutines
<1>12. ASSUME NEW m \in mempool, DeliverBtcE(m) PROVE Dates'
  BY <1>1, <1>2, <1>12 DEF DeliverBtcE, marker, goroutines
<1>13. ASSUME NEW j \in Awaited, PeerAnchors(j) PROVE Dates'
  BY <1>1, <1>2, <1>13 DEF PeerAnchors, appState, marker, blockVars, goroutines
<1>14. ASSUME NEW m \in monitors, BeginTxMonitor(m) PROVE Dates'
  BY <1>1, <1>2, <1>14 DEF BeginTxMonitor, appState, marker, blockVars
<1>15. CASE UNCHANGED vars
  BY <1>1, <1>2, <1>15 DEF vars, appState, marker, blockVars, goroutines
<1> QED
  BY <1>3, <1>4, <1>5, <1>6, <1>7, <1>8, <1>9, <1>10, <1>11, <1>12, <1>13, <1>14, <1>15
     DEF Next, Deliver, AnchorToChain, MonitorFailedAnchor

\* What holds of a range goes on holding of it.
LEMMA TreesStay ==
    ASSUME TypeOK, Bounded, Trees, [Next]_vars
    PROVE  /\ \A j \in anchorings :
                 /\ CalsIn(j.start, j.end)' = CalsIn(j.start, j.end)
                 /\ Whole(j)'
                 /\ j.pc \in {"send", "check"} => Rooted(j)'
                 /\ j.retry => CalsIn(j.start, j.end)' # {}
           /\ \A k \in Entries : Rooted(k)'
           /\ \A m \in mempool : m.type = "BTC-A" => m.root = CalsIn(m.start, m.end)'
           /\ \A m \in btcas : m.root = CalsIn(m.start, m.end)'
<1>1. ASSUME NEW r, r.start \in Nat, r.end \in Nat, Within(r)
      PROVE  /\ CalsIn(r.start, r.end)' = CalsIn(r.start, r.end)
             /\ Whole(r) => Whole(r)'
             /\ Rooted(r) => Rooted(r)'
  BY <1>1, WholeStays DEF Within
<1>2. ASSUME NEW j \in anchorings
      PROVE  /\ CalsIn(j.start, j.end)' = CalsIn(j.start, j.end)
             /\ Whole(j)'
             /\ j.pc \in {"send", "check"} => Rooted(j)'
             /\ j.retry => CalsIn(j.start, j.end)' # {}
  BY <1>1, Ranges DEF Trees, Found
<1>3. ASSUME NEW k \in Entries PROVE Rooted(k)'
  BY <1>1, Ranges DEF Trees
<1>4. ASSUME NEW m \in mempool, m.type = "BTC-A" PROVE m.root = CalsIn(m.start, m.end)'
  BY <1>1, <1>4, Ranges DEF Trees
<1>5. ASSUME NEW m \in btcas PROVE m.root = CalsIn(m.start, m.end)'
  BY <1>1, Ranges DEF Trees, RootsComplete
<1> QED BY <1>2, <1>3, <1>4, <1>5

\* The anchoring that is due leaves out the CALs that are not yet indexed.
LEMMA DueIndexed ==
    ASSUME Undisturbed, TypeOK, Bounded, Quiet, EndBlock, AnchorDue
    PROVE  CalsIn(beginCalTxInt, AnchorEnd) \subseteq indexed
<1>1. latestBtcaHeight < height BY NothingDue DEF Quiet
<1>2. \A c \in cals \ indexed : c > txInt - currentCalInts /\ latestCalTxInt = txInt
  BY <1>1 DEF Quiet, Counted, EndBlock
<1>3. \A c \in cals \ indexed : ~(c < AnchorEnd)
  BY <1>2 DEF AnchorEnd, TypeOK
<1> QED BY <1>3 DEF CalsIn

\* The entries, read or not, were made by AppendCheck.
LEMMA EntriesRooted ==
    ASSUME TypeOK, Bounded, Trees, [Next]_vars
    PROVE  \A k \in Entries' : Rooted(k)'
<1>1. \A k \in Entries : Rooted(k)' BY TreesStay
<1>2. ASSUME NEW j \in anchorings, AppendCheck(j), Entries' = Entries \cup {Check(j)},
             NEW k \in Entries'
      PROVE  Rooted(k)'
  <2>1. CASE k \in Entries BY <1>1, <2>1
  <2>2. CASE k = Check(j)
    <3>1. Rooted(j)' BY <1>2, TreesStay DEF AppendCheck
    <3>2. /\ j.root = CalsIn(j.start, j.end)' /\ j.root # {}
          /\ CalsIn(j.start, j.end)' \subseteq indexed'
      BY <3>1 DEF Rooted, Whole
    <3>3. k.root = j.root /\ k.start = j.start /\ k.end = j.end BY <2>2 DEF Check
    <3> QED BY <3>2, <3>3 DEF Rooted, Whole
  <2> QED BY <1>2, <2>1, <2>2
<1> QED BY <1>1, <1>2, EntriesMade

\* Whoever is elected, the root it broadcasts is the range's.
LEMMA MempoolRooted ==
    ASSUME TypeOK, Bounded, Trees, [Next]_vars
    PROVE  \A m \in mempool' : m.type = "BTC-A" => m.root = CalsIn(m.start, m.end)'
<1>1. ASSUME mempool' \subseteq mempool
      PROVE  \A m \in mempool' : m.type = "BTC-A" => m.root = CalsIn(m.start, m.end)'
  BY <1>1, TreesStay
<1>2. ASSUME NEW core, NEW r, NEW j, r = CalsIn(j.start, j.end)',
             mempool' \subseteq mempool \cup {BtcA(core, j, r), BtcE(core, r)}
      PROVE  \A m \in mempool' : m.type = "BTC-A" => m.root = CalsIn(m.start, m.end)'
  <2> SUFFICES ASSUME NEW m \in mempool', m.type = "BTC-A"
               PROVE  m.root = CalsIn(m.start, m.end)'
    OBVIOUS
  <2>1. CASE m \in mempool BY <2>1, TreesStay
  <2>2. CASE m = BtcA(core, j, r)
    <3>1. m.root = r /\ m.start = j.start /\ m.end = j.end BY <2>2 DEF BtcA
    <3> QED BY <1>2, <3>1
  <2>3. m # BtcE(core, r) BY DEF BtcE
  <2> QED BY <1>2, <2>1, <2>2, <2>3
<1>3. ASSUME NEW j \in anchorings, SendBtcTx(j)
      PROVE  \A m \in mempool' : m.type = "BTC-A" => m.root = CalsIn(m.start, m.end)'
  <2>1. Rooted(j)' BY <1>3, TreesStay DEF SendBtcTx
  <2>2. j.root = CalsIn(j.start, j.end)' BY <2>1 DEF Rooted
  <2>3. mempool' \subseteq mempool \cup {BtcA("self", j, j.root), BtcE("self", j.root)}
    BY <1>3 DEF SendBtcTx
  <2> QED BY <1>2, <2>2, <2>3
<1>4. ASSUME NEW j \in Awaited, PeerAnchors(j)
      PROVE  \A m \in mempool' : m.type = "BTC-A" => m.root = CalsIn(m.start, m.end)'
  <2>1. Whole(j) /\ CalsIn(j.start, j.end)' = CalsIn(j.start, j.end)
    <3>1. CASE j \in anchorings BY <3>1, TreesStay DEF Trees, Found
    <3>2. CASE j \in checks
      <4>1. j \in Entries BY <3>2 DEF Entries
      <4>2. j.start \in Nat /\ j.end \in Nat /\ j.end <= latestCalTxInt
        BY <4>1, Ranges DEF Within
      <4> QED BY <4>1, <4>2, WholeStays DEF Trees, Rooted
    <3> QED BY <1>4, <3>1, <3>2 DEF Awaited
  <2>2. Tree(j.start, j.end) = CalsIn(j.start, j.end) BY <2>1 DEF Tree, Whole
  <2>3. PICK r \in {CalsIn(j.start, j.end)} :
           mempool' \subseteq mempool \cup {BtcA("peer", j, r), BtcE("peer", r)}
    BY <1>4, <2>2 DEF PeerAnchors
  <2> QED BY <1>2, <2>1, <2>3
<1>5. CASE SyncMonitor \/ DeliverCal \/ DeliverOther \/ EndBlock \/ Commit \/ Crash
  BY <1>1, <1>5 DEF SyncMonitor, DeliverCal, DeliverOther, EndBlock, Commit, Crash, network
<1>6. ASSUME NEW m \in mempool, DeliverBtcA(m) \/ DeliverBtcE(m)
      PROVE  \A l \in mempool' : l.type = "BTC-A" => l.root = CalsIn(l.start, l.end)'
  BY <1>1, <1>6 DEF DeliverBtcA, DeliverBtcE
<1>7. ASSUME NEW j \in anchorings, Elect(j) \/ BuildTree(j) \/ AppendCheck(j)
      PROVE  \A m \in mempool' : m.type = "BTC-A" => m.root = CalsIn(m.start, m.end)'
  BY <1>1, <1>7 DEF Elect, BuildTree, AppendCheck, network
<1>8. ASSUME NEW n \in monitors, BeginTxMonitor(n)
      PROVE  \A m \in mempool' : m.type = "BTC-A" => m.root = CalsIn(m.start, m.end)'
  BY <1>1, <1>8 DEF BeginTxMonitor, network
<1>9. ASSUME NEW s \in scans, MonitorFailedAnchor(s)
      PROVE  \A m \in mempool' : m.type = "BTC-A" => m.root = CalsIn(m.start, m.end)'
  BY <1>1, <1>9 DEF MonitorFailedAnchor, StartScan, ScanCheck, network
<1>10. CASE UNCHANGED vars BY <1>1, <1>10 DEF vars, network
<1> QED
  BY <1>3, <1>4, <1>5, <1>6, <1>7, <1>8, <1>9, <1>10 DEF Next, Deliver, AnchorToChain

\* An anchoring starts, goes on and is started again with such a range.
LEMMA AnchoringsFound ==
    ASSUME Undisturbed, TypeOK, Bounded, Quiet, [Next]_vars
    PROVE  \A j \in anchorings' : Found(j)'
<1>0. Trees /\ Asleep /\ OneRange BY DEF Quiet
<1>1. \A j \in anchorings : Found(j)' BY <1>0, TreesStay DEF Found
<1>2. ASSUME NEW j \in anchorings, Elect(j) \/ SendBtcTx(j), NEW i \in anchorings'
      PROVE  Found(i)'
  <2>0. j \in Anchorings BY DEF TypeOK
  <2>1. CASE i \in anchorings BY <1>1, <2>1
  <2>2. CASE i \notin anchorings
    <3>1. PICK me \in BOOLEAN : \/ i = [j EXCEPT !.pc = "tree", !.leader = me]
                                \/ j.pc = "send" /\ i = [j EXCEPT !.pc = "check"]
      BY <1>2, <2>2 DEF Elect, SendBtcTx, Becomes, GiveUp
    <3>2. /\ i.retry = j.retry /\ i.start = j.start /\ i.end = j.end /\ i.root = j.root
          /\ i.pc = "tree" \/ (j.pc = "send" /\ i.pc = "check")
      BY <2>0, <3>1 DEF Anchorings
    <3>3. Found(j)' BY <1>1
    <3> QED BY <3>2, <3>3 DEF Found, Whole, Rooted
  <2> QED BY <2>1, <2>2
<1>3. ASSUME NEW j \in anchorings, BuildTree(j), NEW i \in anchorings'
      PROVE  Found(i)'
  <2>0. j \in Anchorings BY DEF TypeOK
  <2>1. CASE i \in anchorings BY <1>1, <2>1
  <2>2. CASE i \notin anchorings
    <3>1. /\ i = [j EXCEPT !.pc = IF j.leader THEN "send" ELSE "check",
                           !.root = Tree(j.start, j.end)]
          /\ Tree(j.start, j.end) # {}
      BY <1>3, <2>2 DEF BuildTree, Becomes, GiveUp
    <3>2. i.retry = j.retry /\ i.start = j.start /\ i.end = j.end /\ i.root = Tree(j.start, j.end)
      BY <2>0, <3>1 DEF Anchorings
    <3>3. Tree(j.start, j.end) = CalsIn(j.start, j.end)' /\ Whole(j)'
      BY <1>0, TreesStay DEF Tree, Trees, Found, Whole
    <3> QED BY <3>1, <3>2, <3>3 DEF Found, Whole, Rooted
  <2> QED BY <2>1, <2>2
<1>4. CASE EndBlock
  <2>1. UNCHANGED <<cals, indexed>> BY <1>4 DEF EndBlock
  <2> SUFFICES ASSUME NEW i \in anchorings', i \notin anchorings PROVE Found(i)'
    BY <1>1
  <2>2. AnchorDue /\ i = NewAnchoring(beginCalTxInt, AnchorEnd, FALSE)
    BY <1>4 DEF EndBlock
  <2>3. ~i.retry /\ i.pc = "elect" /\ i.start = beginCalTxInt /\ i.end = AnchorEnd
    BY <2>2 DEF NewAnchoring
  <2>4. CalsIn(i.start, i.end) \subseteq indexed BY <1>4, <2>2, <2>3, DueIndexed
  <2>5. CalsIn(i.start, i.end)' = CalsIn(i.start, i.end) BY <2>1 DEF CalsIn
  <2> QED BY <2>1, <2>3, <2>4, <2>5 DEF Found, Whole
<1>5. ASSUME NEW s \in scans, NEW k \in s.rest, ScanCheck(s, k), NEW i \in anchorings'
      PROVE  Found(i)'
  <2>1. CASE i \in anchorings BY <1>1, <2>1
  <2>2. CASE i \notin anchorings
    <3>0. \/ anchorings' = anchorings \cup {NewAnchoring(k.start, k.end, TRUE)}
          \/ anchorings' = anchorings
      BY <1>0, <1>5, ScanActs
    <3>1. i = NewAnchoring(k.start, k.end, TRUE) BY <1>5, <2>2, <3>0
    <3>2. i.pc = "elect" /\ i.start = k.start /\ i.end = k.end BY <3>1 DEF NewAnchoring
    <3>3. Rooted(k)' BY <1>0, TreesStay DEF Entries
    <3> QED BY <3>2, <3>3 DEF Found, Whole, Rooted
  <2> QED BY <2>1, <2>2
<1>6. ASSUME anchorings' \subseteq anchorings PROVE \A j \in anchorings' : Found(j)'
  BY <1>1, <1>6
<1>7. CASE SyncMonitor \/ DeliverCal \/ DeliverOther \/ Commit
  BY <1>6, <1>7 DEF SyncMonitor, DeliverCal, DeliverOther, Commit, goroutines
<1>8. ASSUME NEW m \in mempool, DeliverBtcA(m) \/ DeliverBtcE(m) PROVE anchorings' \subseteq anchorings
  BY <1>8 DEF DeliverBtcA, DeliverBtcE, goroutines
<1>9. ASSUME NEW j \in anchorings, AppendCheck(j) PROVE anchorings' \subseteq anchorings
  BY <1>9 DEF AppendCheck
<1>10. ASSUME NEW j \in Awaited, PeerAnchors(j) PROVE anchorings' \subseteq anchorings
  BY <1>10 DEF PeerAnchors, goroutines
<1>11. ASSUME NEW m \in monitors, BeginTxMonitor(m) PROVE anchorings' \subseteq anchorings
  BY <1>11 DEF BeginTxMonitor
<1>12. ASSUME NEW s \in scans, StartScan(s) PROVE anchorings' \subseteq anchorings
  BY <1>12 DEF StartScan
<1>13. ~Crash BY QuietNever DEF Crash
<1>14. CASE UNCHANGED vars BY <1>6, <1>14 DEF vars, goroutines
<1> QED
  BY <1>2, <1>3, <1>4, <1>5, <1>6, <1>7, <1>8, <1>9, <1>10, <1>11, <1>12, <1>13, <1>14
     DEF Next, Deliver, AnchorToChain, MonitorFailedAnchor

LEMMA TreesStep ==
    ASSUME Undisturbed, TypeOK, Bounded, Quiet, [Next]_vars
    PROVE  Trees'
<1>0. Trees /\ Asleep BY DEF Quiet
<1>1. \A j \in anchorings' : Found(j)' BY AnchoringsFound
<1>2. \A k \in Entries' : Rooted(k)' BY <1>0, EntriesRooted
<1>3. \A m \in mempool' : m.type = "BTC-A" => m.root = CalsIn(m.start, m.end)'
  BY <1>0, MempoolRooted
<1>4. \A m \in btcas' : m.root = CalsIn(m.start, m.end)'
  <2>1. ASSUME NEW m \in mempool, DeliverBtcA(m), NEW l \in btcas'
        PROVE  l.root = CalsIn(l.start, l.end)'
    <3>1. l \in btcas \/ (l = m /\ m.type = "BTC-A") BY <2>1 DEF DeliverBtcA
    <3> QED BY <1>0, <3>1, TreesStay
  <2>2. ASSUME ~\E m \in mempool : DeliverBtcA(m) PROVE btcas' = btcas
    <3>1. CASE SyncMonitor \/ DeliverCal \/ DeliverOther \/ EndBlock \/ Commit \/ Crash
      BY <3>1 DEF SyncMonitor, DeliverCal, DeliverOther, EndBlock, Commit, Crash, network
    <3>2. ASSUME NEW m \in mempool, DeliverBtcE(m) PROVE btcas' = btcas
      BY <3>2 DEF DeliverBtcE
    <3>3. ASSUME NEW j \in anchorings, AnchorToChain(j) PROVE btcas' = btcas
      BY <3>3 DEF AnchorToChain, Elect, BuildTree, SendBtcTx, AppendCheck, network
    <3>4. ASSUME NEW j \in Awaited, PeerAnchors(j) PROVE btcas' = btcas
      BY <3>4 DEF PeerAnchors
    <3>5. ASSUME NEW m \in monitors, BeginTxMonitor(m) PROVE btcas' = btcas
      BY <3>5 DEF BeginTxMonitor, network
    <3>6. ASSUME NEW s \in scans, MonitorFailedAnchor(s) PROVE btcas' = btcas
      BY <3>6 DEF MonitorFailedAnchor, StartScan, ScanCheck, network
    <3> QED BY <2>2, <3>1, <3>2, <3>3, <3>4, <3>5, <3>6 DEF Next, Deliver, vars, network
  <2>3. ASSUME btcas' = btcas PROVE \A m \in btcas' : m.root = CalsIn(m.start, m.end)'
    BY <1>0, <2>3, TreesStay
  <2> QED BY <2>1, <2>2, <2>3
<1> QED BY <1>1, <1>2, <1>3, <1>4 DEF Trees, RootsComplete

LEMMA InitQuiet == Init => Quiet
<1> SUFFICES ASSUME Init PROVE Quiet
  OBVIOUS
<1>1. Entries = {} BY DEF Init, Entries
<1>2. Asleep /\ Dates /\ Counted BY DEF Init, Asleep, Dates, Counted
<1>3. Trees /\ OneRange BY <1>1 DEF Init, Trees, RootsComplete, OneRange
<1> QED BY <1>2, <1>3 DEF Init, Quiet

\* No mishap is recorded, and the parts of Quiet are inductive together.
LEMMA QuietInvariance ==
    ASSUME Undisturbed
    PROVE  Spec => [](ProofInv /\ Quiet)
<1>1. Init => ProofInv /\ Quiet
  BY InitProofInv, InitQuiet
<1>2. ProofInv /\ Quiet /\ [Next]_vars => (ProofInv /\ Quiet)'
  <2> SUFFICES ASSUME ProofInv, Quiet, [Next]_vars PROVE ProofInv' /\ Quiet'
    OBVIOUS
  <2>1. TypeOK /\ Bounded /\ Coverage BY DEF ProofInv
  <2>2. ProofInv' BY <2>1, TypeStep, BoundedStep, CoverageStep DEF ProofInv
  <2>3. Asleep' BY <2>1, AsleepStep DEF Quiet
  <2>4. Trees' BY <2>1, TreesStep
  <2>5. OneRange' BY <2>1, OneRangeStep
  <2>6. Dates' /\ Counted' BY <2>1, DatesStep, CountedStep
  <2>7. lost' = {} BY <2>1, LostStep
  <2> QED BY <2>2, <2>3, <2>4, <2>5, <2>6, <2>7 DEF Quiet
<1> QED
  BY <1>1, <1>2, PTL DEF Spec

\* With leaders that are silent or report failure as the only disturbance,
\* every CAL that BeginCalTxInt has passed keeps a CHECK entry, an anchoring
\* of its range under way again, or a BTC-A: StartAnchoring, AnchorToChain and
\* MonitorFailedAnchor forget none by themselves.
THEOREM NothingLost == Undisturbed => (Spec => []NoCalLost)
<1> SUFFICES ASSUME Undisturbed PROVE Spec => []NoCalLost
  OBVIOUS
<1>1. ProofInv /\ Quiet => NoCalLost
  BY DEF ProofInv, Coverage, Quiet, NoCalLost
<1> QED
  BY QuietInvariance, <1>1, PTL

\* StartAnchoring's range leaves out the CALs of the current block, and only
\* they are not yet indexed: the search of an anchoring misses no CAL.
THEOREM SearchesComplete == Undisturbed => (Spec => []OnlyIndexedAnchored)
<1> SUFFICES ASSUME Undisturbed PROVE Spec => []OnlyIndexedAnchored
  OBVIOUS
<1>1. ProofInv /\ Quiet => OnlyIndexedAnchored
  BY DEF Quiet, Trees, Found, Whole, OnlyIndexedAnchored
<1> QED
  BY QuietInvariance, <1>1, PTL

\* So the root of a BTC-A, whichever Core was elected to build the tree, is
\* the root over all CALs of its range.
THEOREM WholeRanges == Undisturbed => (Spec => []RootsComplete)
<1> SUFFICES ASSUME Undisturbed PROVE Spec => []RootsComplete
  OBVIOUS
<1>1. ProofInv /\ Quiet => RootsComplete
  BY DEF Quiet, Trees
<1> QED
  BY QuietInvariance, <1>1, PTL

-----------------------------------------------------------------------------
(* One root for each CAL                                                   *)

\* The BTC-A transactions, in a block or still on the way.
Sent == btcas \cup {m \in mempool : m.type = "BTC-A"}

\* The ranges that anything speaks of.
Span(r) == <<r.start, r.end>>
Spans == {Span(r) : r \in anchorings \cup Entries \cup Sent}

\* Two ranges are one or have no CAL in common, and those that end after
\* BeginCalTxInt are the range that is being anchored.
Separate ==
    /\ \A p, q \in Spans : p = q \/ p[2] <= q[1] \/ q[2] <= p[1]
    /\ \A p \in Spans : \/ p[2] <= beginCalTxInt
                        \/ \E j \in anchorings : ~j.retry /\ p = Span(j)

\* The empty root is never broadcast.
Filled == \A m \in Sent : m.root # {}

\* A BTC-A is broadcast for an anchoring or an entry.
LEMMA SentMade ==
    ASSUME TypeOK, Trees, [Next]_vars
    PROVE  \A m \in Sent' : \/ m \in Sent
                            \/ /\ m.root # {}
                               /\ \E r \in anchorings \cup Entries : Span(m) = Span(r)
<1> DEFINE Known(m) == \/ m \in Sent
                       \/ /\ m.root # {}
                          /\ \E r \in anchorings \cup Entries : Span(m) = Span(r)
<1> SUFFICES \A m \in Sent' : Known(m)
  OBVIOUS
<1>1. ASSUME btcas' = btcas, mempool' = mempool PROVE \A m \in Sent' : Known(m)
  BY <1>1 DEF Sent
<1>2. ASSUME NEW core, NEW r, r # {}, NEW j \in anchorings \cup Entries, btcas' = btcas,
             mempool' \subseteq mempool \cup {BtcA(core, j, r), BtcE(core, r)}
      PROVE  \A m \in Sent' : Known(m)
  <2> SUFFICES ASSUME NEW m \in Sent', m \notin Sent PROVE Known(m)
    OBVIOUS
  <2>1. m.type = "BTC-A" /\ m \in {BtcA(core, j, r), BtcE(core, r)} BY <1>2 DEF Sent
  <2>2. m = BtcA(core, j, r) BY <2>1 DEF BtcE
  <2>3. m.root = r /\ Span(m) = Span(j) BY <2>2 DEF BtcA, Span
  <2> QED BY <1>2, <2>3
<1>3. ASSUME NEW n \in mempool, DeliverBtcA(n) \/ DeliverBtcE(n)
      PROVE  \A m \in Sent' : Known(m)
  <2>1. btcas' \subseteq Sent /\ mempool' \subseteq mempool
    BY <1>3 DEF DeliverBtcA, DeliverBtcE, Sent
  <2> QED BY <2>1 DEF Sent
<1>4. ASSUME NEW j \in anchorings, SendBtcTx(j) PROVE \A m \in Sent' : Known(m)
  <2>1. j.root # {} BY <1>4 DEF SendBtcTx, Trees, Found, Rooted
  <2>2. /\ mempool' \subseteq mempool \cup {BtcA("self", j, j.root), BtcE("self", j.root)}
        /\ btcas' = btcas
    BY <1>4 DEF SendBtcTx
  <2> HIDE DEF Known
  <2> QED BY <1>2, <2>1, <2>2
<1>5. ASSUME NEW j \in Awaited, PeerAnchors(j) PROVE \A m \in Sent' : Known(m)
  <2>1. j \in anchorings \cup Entries BY DEF Awaited, Entries
  <2>2. PICK r : /\ r # {} /\ btcas' = btcas
                 /\ mempool' \subseteq mempool \cup {BtcA("peer", j, r), BtcE("peer", r)}
    BY <1>5 DEF PeerAnchors
  <2> HIDE DEF Known
  <2> QED BY <1>2, <2>1, <2>2
<1> HIDE DEF Known
<1>6. CASE SyncMonitor \/ DeliverCal \/ DeliverOther \/ EndBlock \/ Commit \/ Crash
  BY <1>1, <1>6 DEF SyncMonitor, DeliverCal, DeliverOther, EndBlock, Commit, Crash, network
<1>7. ASSUME NEW j \in anchorings, Elect(j) \/ BuildTree(j) \/ AppendCheck(j)
      PROVE  \A m \in Sent' : Known(m)
  BY <1>1, <1>7 DEF Elect, BuildTree, AppendCheck, network
<1>8. ASSUME NEW n \in monitors, BeginTxMonitor(n) PROVE \A m \in Sent' : Known(m)
  BY <1>1, <1>8 DEF BeginTxMonitor, network
<1>9. ASSUME NEW s \in scans, MonitorFailedAnchor(s) PROVE \A m \in Sent' : Known(m)
  BY <1>1, <1>9 DEF MonitorFailedAnchor, StartScan, ScanCheck, network
<1>10. CASE UNCHANGED vars BY <1>1, <1>10 DEF vars, network
<1> QED
  BY <1>3, <1>4, <1>5, <1>6, <1>7, <1>8, <1>9, <1>10 DEF Next, Deliver, AnchorToChain

\* An anchoring starts with the next range, or with that of an entry.
LEMMA AnchoringsMade ==
    ASSUME Undisturbed, TypeOK, Bounded, OneRange, [Next]_vars
    PROVE  \A i \in anchorings' :
              \/ \E r \in anchorings \cup Entries : Span(i) = Span(r)
              \/ EndBlock /\ AnchorDue /\ i = NewAnchoring(beginCalTxInt, AnchorEnd, FALSE)
<1> DEFINE Known(i) ==
      \/ \E r \in anchorings \cup Entries : Span(i) = Span(r)
      \/ EndBlock /\ AnchorDue /\ i = NewAnchoring(beginCalTxInt, AnchorEnd, FALSE)
<1> SUFFICES \A i \in anchorings' : Known(i)
  OBVIOUS
<1>1. ASSUME anchorings' \subseteq anchorings PROVE \A i \in anchorings' : Known(i)
  BY <1>1
<1>2. ASSUME NEW j \in anchorings, Elect(j) \/ BuildTree(j) \/ SendBtcTx(j)
      PROVE  \A i \in anchorings' : Known(i)
  BY <1>2, Anchors DEF Span
<1>3. CASE EndBlock
  BY <1>3 DEF EndBlock
<1>4. ASSUME NEW s \in scans, NEW k \in s.rest, ScanCheck(s, k)
      PROVE  \A i \in anchorings' : Known(i)
  <2>1. /\ k \in Entries
        /\ anchorings' \subseteq anchorings \cup {NewAnchoring(k.start, k.end, TRUE)}
    BY <1>4, ScanActs
  <2>2. Span(NewAnchoring(k.start, k.end, TRUE)) = Span(k) BY DEF NewAnchoring, Span
  <2> QED BY <2>1, <2>2
<1> HIDE DEF Known
<1>5. CASE SyncMonitor \/ DeliverCal \/ DeliverOther \/ Commit \/ Crash
  BY <1>1, <1>5 DEF SyncMonitor, DeliverCal, DeliverOther, Commit, Crash, goroutines
<1>6. ASSUME NEW m \in mempool, DeliverBtcA(m) \/ DeliverBtcE(m)
      PROVE  \A i \in anchorings' : Known(i)
  BY <1>1, <1>6 DEF DeliverBtcA, DeliverBtcE, goroutines
<1>7. ASSUME NEW j \in anchorings, AppendCheck(j) PROVE \A i \in anchorings' : Known(i)
  BY <1>1, <1>7 DEF AppendCheck
<1>8. ASSUME NEW j \in Awaited, PeerAnchors(j) PROVE \A i \in anchorings' : Known(i)
  BY <1>1, <1>8 DEF PeerAnchors, goroutines
<1>9. ASSUME NEW m \in monitors, BeginTxMonitor(m) PROVE \A i \in anchorings' : Known(i)
  BY <1>1, <1>9 DEF BeginTxMonitor
<1>10. ASSUME NEW s \in scans, StartScan(s) PROVE \A i \in anchorings' : Known(i)
  BY <1>1, <1>10 DEF StartScan
<1>11. CASE UNCHANGED vars BY <1>1, <1>11 DEF vars, goroutines
<1> QED
  BY <1>2, <1>3, <1>4, <1>5, <1>6, <1>7, <1>8, <1>9, <1>10, <1>11
     DEF Next, Deliver, AnchorToChain, MonitorFailedAnchor

\* So the ranges stay as they are, but for the one that is due.
LEMMA SpansMade ==
    ASSUME Undisturbed, TypeOK, Bounded, Trees, OneRange, [Next]_vars
    PROVE  \A p \in Spans' : \/ p \in Spans
                             \/ EndBlock /\ AnchorDue /\ p = <<beginCalTxInt, AnchorEnd>>
<1>1. \A r \in anchorings \cup Entries : Span(r) \in Spans BY DEF Spans
<1>2. ASSUME NEW i \in anchorings'
      PROVE  \/ Span(i) \in Spans
             \/ EndBlock /\ AnchorDue /\ Span(i) = <<beginCalTxInt, AnchorEnd>>
  <2>1. Span(NewAnchoring(beginCalTxInt, AnchorEnd, FALSE)) = <<beginCalTxInt, AnchorEnd>>
    BY DEF NewAnchoring, Span
  <2> QED BY <1>1, <2>1, AnchoringsMade
<1>3. ASSUME NEW k \in Entries' PROVE Span(k) \in Spans
  <2>1. \A j \in anchorings : Span(Check(j)) = Span(j) BY DEF Check, Span
  <2>2. k \in Entries \/ \E j \in anchorings : k = Check(j) BY EntriesMade
  <2> QED BY <1>1, <2>1, <2>2
<1>4. ASSUME NEW m \in Sent' PROVE Span(m) \in Spans
  <2>1. m \in Sent => Span(m) \in Spans BY DEF Spans
  <2> QED BY <1>1, <2>1, SentMade
<1>5. ASSUME NEW p \in Spans'
      PROVE  \E r \in anchorings' \cup Entries' \cup Sent' : p = Span(r)
  BY DEF Spans, Span
<1> QED BY <1>2, <1>3, <1>4, <1>5

\* A span is one of numbers.
LEMMA SpanEnds ==
    ASSUME TypeOK, Bounded, NEW p \in Spans
    PROVE  p[1] \in Nat /\ p[2] \in Nat
<1>1. PICK r \in anchorings \cup Entries \cup Sent : p = Span(r) BY DEF Spans
<1>2. r.start \in Nat /\ r.end \in Nat BY Ranges DEF Sent
<1> QED BY <1>1, <1>2 DEF Span

\* An anchoring of the next range that ends without an entry had no CAL, so
\* nobody broadcast a BTC-A for it.
LEMMA NextStays ==
    ASSUME Undisturbed, TypeOK, Bounded, Quiet, Separate, Filled, [Next]_vars,
           NEW p \in Spans, NEW j \in anchorings, ~j.retry, p = Span(j), p \in Spans'
    PROVE  \/ p[2] <= beginCalTxInt'
           \/ \E i \in anchorings' : ~i.retry /\ p = Span(i)
<1>0. Trees /\ OneRange /\ Asleep /\ Dates BY DEF Quiet
<1>1. anchorings = {j} /\ Entries = {} /\ j.start = beginCalTxInt BY <1>0 DEF OneRange
<1>2. CASE anchorings \subseteq anchorings' BY <1>2
<1>3. CASE AppendCheck(j)
  <2>1. beginCalTxInt' = j.end /\ j.end \in Nat BY <1>3, Ranges DEF AppendCheck
  <2> QED BY <2>1 DEF Span
<1>4. CASE Elect(j) \/ BuildTree(j) \/ SendBtcTx(j)
  <2>1. CASE anchorings' = {}
    <3>1. CalsIn(j.start, j.end) = {}
      <4>1. "no_leader" \notin Events /\ "rpc_error" \notin Events BY QuietNever
      <4>2. BuildTree(j) /\ Tree(j.start, j.end) = {}
        BY <1>4, <2>1, <4>1 DEF Elect, BuildTree, SendBtcTx, Becomes
      <4> QED BY <1>0, <4>2 DEF Trees, Found, Whole, Tree
    <3>2. Entries' = {}
      <4>1. UNCHANGED <<checks, scans>> BY <1>4 DEF Elect, BuildTree, SendBtcTx
      <4> QED BY <1>1, <4>1 DEF Entries
    <3>3. PICK m \in Sent' : p = Span(m) BY <2>1, <3>2 DEF Spans, Span
    <3>4. m \in Sent
      <4>1. UNCHANGED network
        BY <1>4, <2>1 DEF Elect, BuildTree, SendBtcTx, Becomes
      <4> QED BY <4>1 DEF network, Sent
    <3>5. m.start = j.start /\ m.end = j.end BY <3>3 DEF Span
    <3>6. m.root = CalsIn(m.start, m.end) /\ m.root # {}
      BY <1>0, <3>4 DEF Trees, RootsComplete, Sent, Filled
    <3> QED BY <3>1, <3>5, <3>6
  <2>2. ASSUME NEW i, anchorings' = (anchorings \ {j}) \cup {i},
               i.retry = j.retry, i.start = j.start, i.end = j.end
        PROVE  \E l \in anchorings' : ~l.retry /\ p = Span(l)
    BY <2>2 DEF Span
  <2> QED BY <1>1, <1>4, <2>1, <2>2, Anchors
<1>5. CASE SyncMonitor \/ DeliverCal \/ DeliverOther \/ Commit \/ EndBlock
  BY <1>2, <1>5 DEF SyncMonitor, DeliverCal, DeliverOther, Commit, EndBlock, goroutines
<1>6. ~Crash BY QuietNever DEF Crash
<1>7. ASSUME NEW m \in mempool, DeliverBtcA(m) \/ DeliverBtcE(m)
      PROVE  anchorings \subseteq anchorings'
  BY <1>7 DEF DeliverBtcA, DeliverBtcE, goroutines
<1>8. ASSUME NEW i \in Awaited, PeerAnchors(i) PROVE anchorings \subseteq anchorings'
  BY <1>8 DEF PeerAnchors, goroutines
<1>9. ASSUME NEW m \in monitors, BeginTxMonitor(m) PROVE anchorings \subseteq anchorings'
  BY <1>9 DEF BeginTxMonitor
<1>10. ASSUME NEW s \in scans, MonitorFailedAnchor(s) PROVE anchorings \subseteq anchorings'
  BY <1>10 DEF MonitorFailedAnchor, StartScan, ScanCheck
<1>11. CASE UNCHANGED vars BY <1>2, <1>11 DEF vars, goroutines
<1> QED
  BY <1>1, <1>2, <1>3, <1>4, <1>5, <1>6, <1>7, <1>8, <1>9, <1>10, <1>11
     DEF Next, Deliver, AnchorToChain

\* BeginCalTxInt never moves back.
LEMMA MarkerRises ==
    ASSUME Undisturbed, TypeOK, Bounded, Quiet, [Next]_vars
    PROVE  beginCalTxInt' \in Nat /\ beginCalTxInt <= beginCalTxInt'
<1> USE DEF TypeOK, marker
<1>0. OneRange /\ Asleep BY DEF Quiet
<1>1. ASSUME NEW j \in anchorings, AppendCheck(j)
      PROVE  beginCalTxInt' \in Nat /\ beginCalTxInt <= beginCalTxInt'
  <2>1. j.start \in Nat /\ j.end \in Nat /\ j.start < j.end BY Ranges DEF Within
  <2>2. j.end = beginCalTxInt \/ j.start = beginCalTxInt BY <1>0 DEF OneRange
  <2> QED BY <1>1, <2>1, <2>2 DEF AppendCheck
<1>2. CASE beginCalTxInt' = beginCalTxInt BY <1>2
<1>3. CASE SyncMonitor \/ DeliverCal \/ DeliverOther \/ Commit \/ EndBlock
  BY <1>2, <1>3 DEF SyncMonitor, DeliverCal, DeliverOther, Commit, EndBlock
<1>4. ~Crash BY QuietNever DEF Crash
<1>5. ASSUME NEW m \in mempool, DeliverBtcA(m) \/ DeliverBtcE(m)
      PROVE  beginCalTxInt' = beginCalTxInt
  <2>1. chainSynced BY <1>0 DEF Asleep
  <2> QED BY <1>5, <2>1 DEF DeliverBtcA, DeliverBtcE
<1>6. ASSUME NEW j \in anchorings, Elect(j) \/ BuildTree(j) \/ SendBtcTx(j)
      PROVE  beginCalTxInt' = beginCalTxInt
  BY <1>6 DEF Elect, BuildTree, SendBtcTx
<1>7. ASSUME NEW i \in Awaited, PeerAnchors(i) PROVE beginCalTxInt' = beginCalTxInt
  BY <1>7 DEF PeerAnchors
<1>8. ASSUME NEW m \in monitors, BeginTxMonitor(m) PROVE beginCalTxInt' = beginCalTxInt
  BY <1>8 DEF BeginTxMonitor
<1>9. ASSUME NEW s \in scans, MonitorFailedAnchor(s) PROVE beginCalTxInt' = beginCalTxInt
  BY <1>0, <1>9, ScanActs DEF MonitorFailedAnchor, StartScan
<1>10. CASE UNCHANGED vars BY <1>2, <1>10 DEF vars
<1> QED
  BY <1>1, <1>2, <1>3, <1>4, <1>5, <1>6, <1>7, <1>8, <1>9, <1>10
     DEF Next, Deliver, AnchorToChain

LEMMA SeparateStep ==
    ASSUME Undisturbed, TypeOK, Bounded, Quiet, Separate, Filled, [Next]_vars
    PROVE  Separate'
<1>0. Trees /\ OneRange /\ Asleep /\ Dates BY DEF Quiet
<1>1. beginCalTxInt \in Nat /\ beginCalTxInt' \in Nat /\ beginCalTxInt <= beginCalTxInt'
  BY MarkerRises DEF TypeOK
<1>2. ASSUME NEW p \in Spans', p \notin Spans
      PROVE  /\ EndBlock /\ AnchorDue /\ p = <<beginCalTxInt, AnchorEnd>>
             /\ \A q \in Spans : q[2] <= beginCalTxInt
  <2>1. EndBlock /\ AnchorDue /\ p = <<beginCalTxInt, AnchorEnd>>
    BY <1>0, <1>2, SpansMade
  <2>2. anchorings = {} BY <1>0, <2>1, NothingDue
  <2> QED BY <2>1, <2>2 DEF Separate
<1>3. ASSUME NEW p \in Spans', NEW q \in Spans'
      PROVE  p = q \/ p[2] <= q[1] \/ q[2] <= p[1]
  <2>1. CASE p \in Spans /\ q \in Spans BY <2>1 DEF Separate
  <2>2. CASE p \in Spans /\ q \notin Spans BY <1>2, <2>2
  <2>3. CASE p \notin Spans /\ q \in Spans BY <1>2, <2>3
  <2>4. CASE p \notin Spans /\ q \notin Spans BY <1>2, <2>4
  <2> QED BY <2>1, <2>2, <2>3, <2>4
<1>4. ASSUME NEW p \in Spans'
      PROVE  \/ p[2] <= beginCalTxInt'
             \/ \E i \in anchorings' : ~i.retry /\ p = Span(i)
  <2>1. CASE p \in Spans /\ p[2] <= beginCalTxInt
    <3>1. p[2] \in Nat BY <2>1, SpanEnds
    <3> QED BY <1>1, <2>1, <3>1
  <2>2. CASE p \in Spans /\ \E j \in anchorings : ~j.retry /\ p = Span(j)
    BY <2>2, NextStays
  <2>3. CASE p \notin Spans
    <3> DEFINE new == NewAnchoring(beginCalTxInt, AnchorEnd, FALSE)
    <3>1. ~new.retry /\ Span(new) = <<beginCalTxInt, AnchorEnd>> BY DEF NewAnchoring, Span
    <3>2. new \in anchorings' BY <1>2, <2>3 DEF EndBlock
    <3> HIDE DEF new
    <3> QED BY <1>2, <2>3, <3>1, <3>2
  <2> QED BY <2>1, <2>2, <2>3 DEF Separate
<1>5. \A i : Span(i)' = Span(i) BY DEF Span
<1> QED BY <1>3, <1>4 DEF Separate, Span

\* In an undisturbed run the ranges never overlap.
LEMMA SeparateInvariance ==
    ASSUME Undisturbed
    PROVE  Spec => [](Quiet /\ Separate /\ Filled)
<1>1. Init => Separate /\ Filled
  <2> SUFFICES ASSUME Init PROVE Separate /\ Filled
    OBVIOUS
  <2>1. Entries = {} /\ Sent = {} BY DEF Init, Entries, Sent
  <2> QED BY <2>1 DEF Init, Separate, Filled, Spans
<1>2. /\ ProofInv /\ Quiet /\ (Separate /\ Filled) /\ [Next]_vars
      => (Separate /\ Filled)'
  <2> SUFFICES ASSUME ProofInv, Quiet, Separate, Filled, [Next]_vars
               PROVE  Separate' /\ Filled'
    OBVIOUS
  <2>1. TypeOK /\ Bounded BY DEF ProofInv
  <2>2. Filled' BY <2>1, SentMade DEF Quiet, Filled
  <2> QED BY <2>1, <2>2, SeparateStep
<1> QED
  BY QuietInvariance, <1>1, <1>2, PTL DEF Spec

\* No CAL lies under two roots.
RootsApart == \A m, n \in btcas : m.root = n.root \/ m.root \cap n.root = {}

\* In an undisturbed run the elections, retries and BeginCalTxInt see to it
\* that the BTC-As for a CAL all have one root, however many Cores broadcast
\* one: then ConfirmAnchor's proofs verify (DisjointRoots of ConfirmProofs).
THEOREM OneRootEach == Undisturbed => (Spec => []RootsApart)
<1> SUFFICES ASSUME Undisturbed PROVE Spec => []RootsApart
  OBVIOUS
<1>1. ProofInv /\ Quiet /\ Separate => RootsApart
  <2> SUFFICES ASSUME ProofInv, Quiet, Separate, NEW m \in btcas, NEW n \in btcas
               PROVE  m.root = n.root \/ m.root \cap n.root = {}
    BY DEF RootsApart
  <2>1. /\ m.start \in Nat /\ m.end \in Nat /\ n.start \in Nat /\ n.end \in Nat
        /\ \A c \in cals : c \in Nat
    BY Ranges DEF ProofInv, TypeOK
  <2>2. m.root = CalsIn(m.start, m.end) /\ n.root = CalsIn(n.start, n.end)
    BY DEF Quiet, Trees, RootsComplete
  <2>3. Span(m) \in Spans /\ Span(n) \in Spans BY DEF Spans, Sent
  <2>4. \/ m.start = n.start /\ m.end = n.end
        \/ m.end <= n.start
        \/ n.end <= m.start
    BY <2>3 DEF Separate, Span
  <2>5. \A c \in Nat : ~(m.end <= n.start /\ c < m.end /\ n.start <= c)
    BY <2>1
  <2>6. \A c \in Nat : ~(n.end <= m.start /\ c < n.end /\ m.start <= c)
    BY <2>1
  <2> QED BY <2>1, <2>2, <2>4, <2>5, <2>6 DEF CalsIn
<1> QED
  BY Invariance, SeparateInvariance, <1>1, PTL

\* In an undisturbed run MonitorFailedAnchor anchors what timed out again and
\* never resets BeginCalTxInt: no range is left open for a second root.
THEOREM NeverReset == Undisturbed => (Spec => [][beginCalTxInt <= beginCalTxInt']_vars)
<1> SUFFICES ASSUME Undisturbed PROVE Spec => [][beginCalTxInt <= beginCalTxInt']_vars
  OBVIOUS
<1>1. ProofInv /\ Quiet /\ [Next]_vars => [beginCalTxInt <= beginCalTxInt']_vars
  BY MarkerRises DEF ProofInv
<1> QED
  BY QuietInvariance, <1>1, PTL DEF Spec
=============================================================================
