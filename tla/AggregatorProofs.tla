-------------------------- MODULE AggregatorProofs --------------------------
(***************************************************************************)
(* Aggregator, for any number of items, workers and calls and any batch    *)
(* size: the mutex protects the drain, no item is duplicated or lost, and  *)
(* the goroutines implement the abstract pool.                             *)
(***************************************************************************)
EXTENDS Aggregator, FiniteSetTheorems, TLAPS

-----------------------------------------------------------------------------
(* The inductive invariant                                                 *)

\* Who may be where, and what the places that are out of use hold.
Control ==
    /\ loopPc \in {"make", "wait"} <=> restartMutex = Loop
    /\ \A c \in Callers : callerPc[c] = "drain" <=> restartMutex = c
    /\ loopPc # "wait" => \A w \in Workers : workerPc[w] = "done"
    /\ \A w \in Workers : workerPc[w] = "done" => slice[w] = {}
    /\ \A w \in Workers : workerPc[w] = "process" => slice[w] # {}
    /\ \A c \in Callers : callerPc[c] # "drain" => got[c] = {}
    /\ \A c \in Callers : callerPc[c] = "drain" =>
                             left[c] = Cardinality(aggregations)
    /\ loopPc = "init" => hashItems = {} /\ aggregations = {}

\* ExactlyOnce item by item.
Apart ==
    /\ \A h \in hashItems : h \notin delivered /\ h \notin dropped
    /\ \A h \in delivered : h \notin dropped
    /\ \A w \in Workers : \A h \in slice[w] :
          h \notin hashItems /\ h \notin delivered /\ h \notin dropped
    /\ \A b \in aggregations : \A h \in b :
          /\ h \notin hashItems /\ h \notin delivered /\ h \notin dropped
          /\ \A w \in Workers : h \notin slice[w]
    /\ \A c \in Callers : \A h \in got[c] :
          /\ h \notin hashItems /\ h \notin delivered /\ h \notin dropped
          /\ \A w \in Workers : h \notin slice[w]
          /\ \A b \in aggregations : h \notin b
    /\ \A v, w \in Workers : \A h \in slice[v] : h \in slice[w] => v = w
    /\ \A a, b \in aggregations : \A h \in a : h \in b => a = b
    /\ \A c, d \in Callers : \A h \in got[c] : h \in got[d] => c = d

\* An item is in one of the places.
Held(h) ==
    \/ h \in hashItems \/ h \in delivered \/ h \in dropped
    \/ \E w \in Workers : h \in slice[w]
    \/ \E b \in aggregations : h \in b
    \/ \E c \in Callers : h \in got[c]

\* NothingVanishes item by item.
Covered == \A h \in Hashes : h \in submitted <=> Held(h)

ProofInv == TypeOK /\ Control /\ Apart /\ Covered

-----------------------------------------------------------------------------
(* Type correctness and control                                            *)

\* The queue of aggregations is finite, so reading its length is defined.
LEMMA FiniteQueues ==
    ASSUME TypeOK
    PROVE  /\ IsFiniteSet(aggregations)
           /\ Cardinality(aggregations) \in Nat
           /\ \A S \in SUBSET Hashes : IsFiniteSet(S)
<1>1. IsFiniteSet(Hashes)
  BY AggregatorAssumption
<1>2. IsFiniteSet(SUBSET Hashes)
  BY <1>1, FS_SUBSET
<1>3. aggregations \in SUBSET (SUBSET Hashes)
  BY DEF TypeOK, Batches
<1>4. IsFiniteSet(aggregations)
  BY <1>2, <1>3, FS_Subset
<1>5. \A S \in SUBSET Hashes : IsFiniteSet(S)
  BY <1>1, FS_Subset
<1> QED
  BY <1>4, <1>5, FS_CardinalityType

\* The states before the first step satisfy the invariant.
LEMMA InitProofInv == Init => ProofInv
<1> SUFFICES ASSUME Init PROVE ProofInv
  OBVIOUS
<1>1. TypeOK
  BY DEF Init, TypeOK, LoopPcs, WorkerPcs, CallerPcs
<1>2. Control
  BY AggregatorAssumption DEF Init, Control
<1>3. Apart
  BY DEF Init, Apart
<1>4. Covered
  BY DEF Init, Covered, Held
<1> QED
  BY <1>1, <1>2, <1>3, <1>4 DEF ProofInv

\* A step keeps every variable in its type and RestartMutex in one hand.
LEMMA ControlStep ==
    ASSUME TypeOK, Control, [Next]_vars
    PROVE  TypeOK' /\ Control'
<1> USE DEF TypeOK, Control, LoopPcs, WorkerPcs, CallerPcs, Batches
<1>0. /\ Cardinality(aggregations) \in Nat
      /\ IsFiniteSet(aggregations)
      /\ \A S \in SUBSET Hashes : IsFiniteSet(S)
  BY FiniteQueues
<1>1. ASSUME NEW h \in Hashes, AddHashItem(h)
      PROVE  TypeOK' /\ Control'
  BY <1>1 DEF AddHashItem, loopVars, workerVars, callerVars
<1>2. CASE MakeQueues
  BY <1>2, AggregatorAssumption, FS_EmptySet
     DEF MakeQueues, workerVars, callerVars, history
<1>3. CASE LoopLock
  BY <1>3, AggregatorAssumption
     DEF LoopLock, queueVars, workerVars, callerVars, history
<1>4. CASE StartWorkers
  BY <1>4, AggregatorAssumption
     DEF StartWorkers, queueVars, callerVars, history
<1>5. CASE LoopUnlock
  BY <1>5, AggregatorAssumption
     DEF LoopUnlock, AllDone, Unlock, queueVars, workerVars, callerVars, history
<1>6. CASE LoopSleep
  BY <1>6 DEF LoopSleep, queueVars, workerVars, callerVars, history
<1>7. ASSUME NEW w \in Workers, ForConsume(w)
      PROVE  TypeOK' /\ Control'
  BY <1>7 DEF ForConsume, Goto, queueVars, loopVars, callerVars, history
<1>8. ASSUME NEW w \in Workers, Select(w)
      PROVE  TypeOK' /\ Control'
  <2>1. TypeOK'
    BY <1>8 DEF Select, Goto, Stopped, queueVars, callerVars, history
  <2>2. Control'
    BY <1>8 DEF Select, Goto, Stopped, queueVars, callerVars, history
  <2> QED BY <2>1, <2>2
<1>9. ASSUME NEW w \in Workers, HeadHashItem(w)
      PROVE  TypeOK' /\ Control'
  BY <1>9, <1>0, AggregatorAssumption
     DEF HeadHashItem, Goto, loopVars, callerVars, history
<1>10. ASSUME NEW w \in Workers, ProcessAggregation(w)
       PROVE  TypeOK' /\ Control'
  BY <1>10, AggregatorAssumption
     DEF ProcessAggregation, Goto, EmptySlice, loopVars, callerVars, history
<1>11. ASSUME NEW w \in Workers, FinalAggregation(w)
       PROVE  TypeOK' /\ Control'
  BY <1>11, AggregatorAssumption
     DEF FinalAggregation, Goto, HasItems, EmptySlice, loopVars, callerVars
<1>12. ASSUME NEW c \in Callers, Call(c)
       PROVE  TypeOK' /\ Control'
  BY <1>12, AggregatorAssumption
     DEF Call, queueVars, loopVars, workerVars, history
<1>13. ASSUME NEW c \in Callers, CloseTempStop(c)
       PROVE  TypeOK' /\ Control'
  BY <1>13, AggregatorAssumption
     DEF CloseTempStop, queueVars, workerVars, history
<1>14. ASSUME NEW c \in Callers, CallerLock(c)
       PROVE  TypeOK' /\ Control'
  BY <1>14, <1>0, AggregatorAssumption
     DEF CallerLock, QueueLen, queueVars, workerVars, history
<1>15. ASSUME NEW c \in Callers, Drain(c)
       PROVE  TypeOK' /\ Control'
  <2>1. CASE left[c] = 0
    BY <1>15, <2>1, AggregatorAssumption
       DEF Drain, Return, Unlock, workerVars
  <2>2. CASE left[c] # 0
    <3>1. aggregations # {}
      BY <1>15, <2>2, FS_EmptySet DEF Drain
    <3>2. PICK b \in aggregations :
             /\ Dequeue(b)
             /\ got' = [got EXCEPT ![c] = @ \cup b]
             /\ left' = [left EXCEPT ![c] = @ - 1]
             /\ UNCHANGED <<restartMutex, callerPc, delivered>>
      BY <1>15, <2>2, <3>1 DEF Drain
    <3>3. Cardinality(aggregations') = Cardinality(aggregations) - 1
      BY <3>2, <1>0, FS_RemoveElement DEF Dequeue
    <3>4. \A d \in Callers : d # c => callerPc[d] # "drain"
      BY <1>15 DEF Drain
    <3>5. left'[c] \in Nat /\ left'[c] = Cardinality(aggregations')
      BY <1>15, <2>2, <3>2, <3>3 DEF Drain
    <3> QED
      BY <1>15, <3>2, <3>4, <3>5 DEF Drain, Dequeue, workerVars
  <2> QED
    BY <2>1, <2>2
<1>16. CASE UNCHANGED vars
  BY <1>16 DEF vars, queueVars, loopVars, workerVars, callerVars, history
<1> QED
  BY <1>1, <1>2, <1>3, <1>4, <1>5, <1>6, <1>7, <1>8, <1>9, <1>10, <1>11,
     <1>12, <1>13, <1>14, <1>15, <1>16
     DEF Next, LoopStep, WorkerStep, CallerStep

-----------------------------------------------------------------------------
(* Exactly once, and none lost                                             *)

\* A step moves an item out of one place into one other.
LEMMA ApartStep ==
    ASSUME ProofInv, [Next]_vars
    PROVE  Apart' /\ Covered'
<1> USE DEF ProofInv, TypeOK, Control, Apart, Covered, Held, Batches
<1>1. ASSUME NEW h \in Hashes, AddHashItem(h)
      PROVE  Apart' /\ Covered'
  BY <1>1 DEF AddHashItem, loopVars, workerVars, callerVars
<1>2. CASE MakeQueues
  BY <1>2 DEF MakeQueues, workerVars, callerVars, history
<1>3. CASE LoopLock
  BY <1>3 DEF LoopLock, queueVars, workerVars, callerVars, history
<1>4. CASE StartWorkers
  BY <1>4 DEF StartWorkers, queueVars, callerVars, history
<1>5. CASE LoopUnlock
  BY <1>5 DEF LoopUnlock, queueVars, workerVars, callerVars, history
<1>6. CASE LoopSleep
  BY <1>6 DEF LoopSleep, queueVars, workerVars, callerVars, history
<1>7. ASSUME NEW w \in Workers, ForConsume(w)
      PROVE  Apart' /\ Covered'
  BY <1>7 DEF ForConsume, queueVars, loopVars, callerVars, history
<1>8. ASSUME NEW w \in Workers, Select(w)
      PROVE  Apart' /\ Covered'
  BY <1>8 DEF Select, queueVars, callerVars, history
<1>9. ASSUME NEW w \in Workers, HeadHashItem(w)
      PROVE  Apart' /\ Covered'
  <2>1. CASE hashItems = {}
    BY <1>9, <2>1 DEF HeadHashItem, loopVars, callerVars, history
  <2>2. CASE hashItems # {}
    <3>1. PICK h \in hashItems :
             /\ hashItems' = hashItems \ {h}
             /\ slice' = [slice EXCEPT ![w] = @ \cup {h}]
      BY <1>9, <2>2 DEF HeadHashItem
    <3>2. Apart'
      BY <1>9, <3>1 DEF HeadHashItem, callerVars, history
    <3>3. Covered'
      BY <1>9, <3>1 DEF HeadHashItem, callerVars, history
    <3> QED
      BY <3>2, <3>3
  <2> QED
    BY <2>1, <2>2
<1>10. ASSUME NEW w \in Workers, ProcessAggregation(w)
       PROVE  Apart' /\ Covered'
  <2>1. CASE UNCHANGED <<aggregations, slice>>
    BY <1>10, <2>1 DEF ProcessAggregation, callerVars, history
  <2>2. CASE /\ aggregations' = aggregations \cup {slice[w]}
             /\ EmptySlice(w)
    <3>1. Apart'
      BY <1>10, <2>2 DEF ProcessAggregation, EmptySlice, callerVars, history
    <3>2. Covered'
      BY <1>10, <2>2 DEF ProcessAggregation, EmptySlice, callerVars, history
    <3> QED
      BY <3>1, <3>2
  <2> QED
    BY <1>10, <2>1, <2>2 DEF ProcessAggregation
<1>11. ASSUME NEW w \in Workers, FinalAggregation(w)
       PROVE  Apart' /\ Covered'
  <2>1. CASE ~HasItems(w)
    BY <1>11, <2>1 DEF FinalAggregation, HasItems, EmptySlice, callerVars
  <2>2. CASE /\ aggregations' = aggregations \cup {slice[w]}
             /\ UNCHANGED dropped
    BY <1>11, <2>2 DEF FinalAggregation, EmptySlice, callerVars
  <2>3. CASE /\ dropped' = dropped \cup slice[w]
             /\ UNCHANGED aggregations
    BY <1>11, <2>3 DEF FinalAggregation, EmptySlice, callerVars
  <2> QED
    BY <1>11, <2>1, <2>2, <2>3 DEF FinalAggregation
<1>12. ASSUME NEW c \in Callers, Call(c)
       PROVE  Apart' /\ Covered'
  BY <1>12 DEF Call, queueVars, workerVars, history
<1>13. ASSUME NEW c \in Callers, CloseTempStop(c)
       PROVE  Apart' /\ Covered'
  BY <1>13 DEF CloseTempStop, queueVars, workerVars, history
<1>14. ASSUME NEW c \in Callers, CallerLock(c)
       PROVE  Apart' /\ Covered'
  BY <1>14 DEF CallerLock, queueVars, workerVars, history
<1>15. ASSUME NEW c \in Callers, Drain(c)
       PROVE  Apart' /\ Covered'
  <2>1. CASE Return(c) /\ UNCHANGED aggregations
    BY <1>15, <2>1 DEF Drain, Return, workerVars
  <2>2. CASE \E b \in aggregations :
               /\ Dequeue(b)
               /\ got' = [got EXCEPT ![c] = @ \cup b]
               /\ UNCHANGED delivered
    BY <1>15, <2>2 DEF Drain, Dequeue, workerVars
  <2> QED
    BY <1>15, <2>1, <2>2 DEF Drain
<1>16. CASE UNCHANGED vars
  BY <1>16 DEF vars, queueVars, loopVars, workerVars, callerVars, history
<1> QED
  BY <1>1, <1>2, <1>3, <1>4, <1>5, <1>6, <1>7, <1>8, <1>9, <1>10, <1>11,
     <1>12, <1>13, <1>14, <1>15, <1>16
     DEF Next, LoopStep, WorkerStep, CallerStep

\* The strengthening holds in every reachable state.
LEMMA Invariance == Spec => []ProofInv
<1>1. Init => ProofInv
  BY InitProofInv
<1>2. ProofInv /\ [Next]_vars => ProofInv'
  BY ControlStep, ApartStep DEF ProofInv
<1> QED
  BY <1>1, <1>2, PTL DEF Spec

-----------------------------------------------------------------------------
(* The properties the runs check                                           *)

\* Type correctness of the aggregator.
THEOREM TypeCorrect == Spec => []TypeOK
<1>1. ProofInv => TypeOK
  BY DEF ProofInv
<1> QED
  BY <1>1, Invariance, PTL

\* However flushes, drains and restarts interleave, no hash item is ever in
\* two batches or handed to two calendar anchorings.
THEOREM NoDuplicates == Spec => []ExactlyOnce
<1>1. ProofInv => ExactlyOnce
  <2> SUFFICES ASSUME ProofInv PROVE ExactlyOnce
    OBVIOUS
  <2> USE DEF ProofInv, Apart, InSlices, InBatches, InCalls
  <2>1. hashItems \cap (InSlices \cup InBatches \cup InCalls
                       \cup delivered \cup dropped) = {}
    OBVIOUS
  <2>2. InSlices \cap (InBatches \cup InCalls \cup delivered \cup dropped) = {}
    OBVIOUS
  <2>3. InBatches \cap (InCalls \cup delivered \cup dropped) = {}
    OBVIOUS
  <2>4. InCalls \cap (delivered \cup dropped) = {} /\ delivered \cap dropped = {}
    OBVIOUS
  <2> QED
    BY <2>1, <2>2, <2>3, <2>4 DEF ExactlyOnce
<1> QED
  BY <1>1, Invariance, PTL

\* Every accepted hash item is in one of the places: restarting the workers
\* throws no item away.
THEOREM NoLoss == Spec => []NothingVanishes
<1>1. ProofInv => NothingVanishes
  <2> SUFFICES ASSUME ProofInv PROVE NothingVanishes
    OBVIOUS
  <2>1. UNION Places = hashItems \cup InSlices \cup InBatches \cup InCalls
                       \cup delivered \cup dropped
    BY DEF Places
  <2>2. \A h \in Hashes : h \in submitted <=> h \in UNION Places
    BY <2>1 DEF ProofInv, Covered, Held, InSlices, InBatches, InCalls
  <2>3. UNION Places \in SUBSET Hashes
    BY <2>1 DEF ProofInv, TypeOK, Batches, InSlices, InBatches, InCalls
  <2> QED
    BY <2>2, <2>3 DEF NothingVanishes, ProofInv, TypeOK
<1> QED
  BY <1>1, Invariance, PTL

\* AggregateAndReset: while a call drains the queue of aggregations no worker
\* runs, so the length it read stays right.
THEOREM DrainSafe == Spec => []DrainUndisturbed
<1>1. ProofInv => DrainUndisturbed
  BY AggregatorAssumption DEF ProofInv, TypeOK, Control, DrainUndisturbed
<1> QED
  BY <1>1, Invariance, PTL

\* RestartMutex: its holder is inside the section the mutex guards, so neither
\* the loop nor a call leaves it locked behind.
THEOREM MutexSafe == Spec => []MutexHeldInside
<1>1. ProofInv => MutexHeldInside
  BY AggregatorAssumption DEF ProofInv, TypeOK, Control, MutexHeldInside
<1> QED
  BY <1>1, Invariance, PTL

-----------------------------------------------------------------------------
(* Refinement                                                              *)

Pending == hashItems \cup InSlices \cup InBatches \cup InCalls

\* The effects a step can have on the pool.
Quiet ==
    /\ \A h : h \in Pending' <=> h \in Pending
    /\ UNCHANGED <<delivered, dropped>>

Settled(S) ==
    /\ S \subseteq Pending
    /\ Pending' = Pending \ S
    /\ \/ delivered' = delivered \cup S /\ UNCHANGED dropped
       \/ dropped' = dropped \cup S /\ UNCHANGED delivered

Accepted(h) ==
    /\ h \notin Pending \cup delivered \cup dropped
    /\ Pending' = Pending \cup {h}
    /\ UNCHANGED <<delivered, dropped>>

PoolEffect ==
    \/ Quiet
    \/ \E h \in Hashes : Accepted(h)
    \/ \E S \in SUBSET Pending : Settled(S)

\* Each action of the aggregator is one of these.
LEMMA PoolStep ==
    ASSUME ProofInv, [Next]_vars
    PROVE  PoolEffect
<1> USE DEF ProofInv, TypeOK, Control, Apart
<1>0. /\ \A h : h \in Pending <=> \/ h \in hashItems
                                  \/ \E w \in Workers : h \in slice[w]
                                  \/ \E b \in aggregations : h \in b
                                  \/ \E c \in Callers : h \in got[c]
      /\ \A h : h \in Pending' <=> \/ h \in hashItems'
                                   \/ \E w \in Workers : h \in slice'[w]
                                   \/ \E b \in aggregations' : h \in b
                                   \/ \E c \in Callers : h \in got'[c]
  BY DEF Pending, InSlices, InBatches, InCalls
<1>1. ASSUME NEW h \in Hashes, AddHashItem(h)
      PROVE  PoolEffect
  <2>1. h \notin Pending \cup delivered \cup dropped
    BY <1>1, <1>0 DEF AddHashItem, Covered, Held
  <2>2. Pending' = Pending \cup {h}
    BY <1>1, <1>0 DEF AddHashItem, workerVars, callerVars
  <2> QED
    BY <1>1, <2>1, <2>2 DEF AddHashItem, PoolEffect, Accepted
<1>2. CASE MakeQueues
  <2>1. \A h : h \in Pending' <=> h \in Pending
    BY <1>2, <1>0 DEF MakeQueues, workerVars, callerVars
  <2> QED
    BY <1>2, <2>1 DEF MakeQueues, history, PoolEffect, Quiet
<1>3. CASE UNCHANGED <<queueVars, slice, got, history>>
  <2>1. \A h : h \in Pending' <=> h \in Pending
    BY <1>3, <1>0 DEF queueVars
  <2> QED
    BY <1>3, <2>1 DEF history, PoolEffect, Quiet
<1>4. CASE StartWorkers
  <2>1. \A h : h \in Pending' <=> h \in Pending
    BY <1>4, <1>0 DEF StartWorkers, queueVars, callerVars
  <2> QED
    BY <1>4, <2>1 DEF StartWorkers, history, PoolEffect, Quiet
<1>5. ASSUME NEW w \in Workers, HeadHashItem(w)
      PROVE  PoolEffect
  <2>1. \A h : h \in Pending' <=> h \in Pending
    BY <1>5, <1>0 DEF HeadHashItem, callerVars
  <2> QED
    BY <1>5, <2>1 DEF HeadHashItem, history, PoolEffect, Quiet
<1>6. ASSUME NEW w \in Workers, ProcessAggregation(w)
      PROVE  PoolEffect
  <2>1. \A h : h \in Pending' <=> h \in Pending
    BY <1>6, <1>0 DEF ProcessAggregation, EmptySlice, callerVars
  <2> QED
    BY <1>6, <2>1 DEF ProcessAggregation, history, PoolEffect, Quiet
<1>7. ASSUME NEW w \in Workers, FinalAggregation(w)
      PROVE  PoolEffect
  <2>1. CASE UNCHANGED dropped
    <3>1. \A h : h \in Pending' <=> h \in Pending
      BY <1>7, <2>1, <1>0
         DEF FinalAggregation, HasItems, EmptySlice, callerVars
    <3> QED
      BY <1>7, <2>1, <3>1 DEF FinalAggregation, PoolEffect, Quiet
  <2>2. CASE dropped' = dropped \cup slice[w] /\ UNCHANGED aggregations
    <3>1. Pending' = Pending \ slice[w]
      BY <1>7, <2>2, <1>0 DEF FinalAggregation, EmptySlice, callerVars
    <3>2. slice[w] \in SUBSET Pending
      BY <1>0
    <3> QED
      BY <1>7, <2>2, <3>1, <3>2 DEF FinalAggregation, PoolEffect, Settled
  <2> QED
    BY <1>7, <2>1, <2>2 DEF FinalAggregation
<1>8. ASSUME NEW c \in Callers, Drain(c)
      PROVE  PoolEffect
  <2>1. CASE Return(c) /\ UNCHANGED aggregations
    <3>1. Pending' = Pending \ got[c]
      BY <1>8, <2>1, <1>0 DEF Drain, Return, workerVars
    <3>2. got[c] \in SUBSET Pending
      BY <1>0
    <3> QED
      BY <1>8, <2>1, <3>1, <3>2 DEF Drain, Return, PoolEffect, Settled
  <2>2. CASE /\ \E b \in aggregations :
                  /\ Dequeue(b)
                  /\ got' = [got EXCEPT ![c] = @ \cup b]
             /\ UNCHANGED delivered
    <3>1. \A h : h \in Pending' <=> h \in Pending
      BY <1>8, <2>2, <1>0 DEF Drain, Dequeue, workerVars
    <3> QED
      BY <1>8, <2>2, <3>1 DEF Drain, PoolEffect, Quiet
  <2> QED
    BY <1>8, <2>1, <2>2 DEF Drain
<1> QED
  BY <1>1, <1>2, <1>3, <1>4, <1>5, <1>6, <1>7, <1>8
     DEF Next, LoopStep, WorkerStep, CallerStep, LoopLock, LoopUnlock,
         LoopSleep, ForConsume, Select, Call, CloseTempStop, CallerLock,
         vars, queueVars, loopVars, workerVars, callerVars, history

\* The goroutines implement the abstract pool: an item is accepted once, and
\* leaves once, with the batch it was put in.
THEOREM Refinement == Spec => ImplementsPool
<1>1. Init => Pool!PoolInit
  BY DEF Init, Pool!PoolInit, InSlices, InBatches, InCalls
<1>2. ASSUME ProofInv, [Next]_vars
      PROVE  [Pool!PoolNext]_(Pool!poolVars)
  <2>1. PoolEffect
    BY <1>2, PoolStep
  <2>2. CASE Quiet
    <3>1. Pending' = Pending
      BY <2>2, SetExtensionality DEF Quiet
    <3> QED
      BY <2>2, <3>1 DEF Quiet, Pending, Pool!poolVars
  <2>3. ASSUME NEW h \in Hashes, Accepted(h)
        PROVE  Pool!PoolNext
    BY <2>3 DEF Accepted, Pending, Pool!PoolNext, Pool!Submit, Pool!Known
  <2>4. ASSUME NEW S \in SUBSET Pending, Settled(S)
        PROVE  [Pool!PoolNext]_(Pool!poolVars)
    <3>1. CASE S = {}
      <4>1. UNCHANGED <<Pending, delivered, dropped>>
        BY <2>4, <3>1 DEF Settled
      <4> QED
        BY <4>1 DEF Pending, Pool!poolVars
    <3>2. CASE S # {}
      <4>1. Pool!Settle(S)
        BY <2>4 DEF Settled, Pending, Pool!Settle, Pool!Deliver, Pool!Drop
      <4>2. S \in (SUBSET (hashItems \cup InSlices \cup InBatches \cup InCalls))
                  \ {{}}
        BY <3>2 DEF Pending
      <4> QED
        BY <4>1, <4>2 DEF Pool!PoolNext
    <3> QED
      BY <3>1, <3>2
  <2> QED
    BY <2>1, <2>2, <2>3, <2>4 DEF PoolEffect
<1> QED
  BY <1>1, <1>2, Invariance, PTL DEF Spec, ImplementsPool, Pool!PoolSpec
=============================================================================
