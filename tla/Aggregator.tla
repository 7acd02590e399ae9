----------------------------- MODULE Aggregator -----------------------------
(***************************************************************************)
(* aggregator/aggregator.go: the goroutines that turn hash items submitted *)
(* to the API into aggregations (Merkle batches), and the calls of         *)
(* AggregateAndReset that hand the aggregations over to AnchorCalendar,    *)
(* one goroutine per block.                                                *)
(*                                                                         *)
(* Three kinds of process share the structure:                             *)
(*   - the loop of StartAggregation, which takes RestartMutex, makes a new *)
(*     TempStop channel, starts the workers, waits for all of them, gives  *)
(*     the mutex back and sleeps;                                          *)
(*   - the workers, which move items from the queue HashItems to a slice   *)
(*     of their own and from there, in batches, to the queue Aggregations; *)
(*   - the callers, which close TempStop, take the mutex and drain         *)
(*     Aggregations.                                                       *)
(*                                                                         *)
(* A hash item is an element of Hashes (each has a proof_id of its own); a *)
(* slice is the set of its items and a queue the set of its entries, since *)
(* no property depends on the order in which a queue gives them out.  A    *)
(* batch stands for its aggregation: ProcessAggregation's tree and proofs  *)
(* are data.                                                               *)
(***************************************************************************)
EXTENDS Naturals, FiniteSets

CONSTANTS
    Hashes,      \* hash items the API may submit
    Workers,     \* AGGREGATION_THREADS goroutines
    Callers,     \* goroutines running AnchorCalendar
    BatchSize,   \* HASHES_PER_MERKLE_TREE
    NoOne, Loop  \* the mutex is free, or held by StartAggregation

ASSUME AggregatorAssumption ==
    /\ IsFiniteSet(Hashes)
    /\ BatchSize \in Nat
    /\ Loop \notin Callers /\ NoOne \notin Callers /\ Loop # NoOne

VARIABLES
    hashItems,     \* HashItems, the input queue
    aggregations,  \* Aggregations, the output queue: a set of batches
    restartMutex,  \* the holder of RestartMutex
    starving,      \* calls the mutex was withheld from once (see LoopLock)
    tempStop,      \* the channel TempStop
    consume,       \* the variable the workers of one round share
    loopPc,        \* where StartAggregation is
    workerPc,      \* where each worker goroutine is
    slice,         \* msgStructSlice of each worker
    callerPc,      \* where each call of AggregateAndReset is
    left,          \* queueLen - i of each draining call
    got,           \* items in the local variable aggregations of each call
    submitted,     \* history: every item AddHashItem accepted
    delivered,     \* history: items AggregateAndReset returned
    dropped        \* history: items of a final batch that was not enqueued

queueVars  == <<hashItems, aggregations>>
loopVars   == <<restartMutex, starving, tempStop, consume, loopPc>>
workerVars == <<workerPc, slice>>
callerVars == <<callerPc, left, got>>
history    == <<submitted, delivered, dropped>>
vars == <<queueVars, loopVars, workerVars, callerVars, history>>

Batches == (SUBSET Hashes) \ {{}}

LoopPcs   == {"init", "lock", "make", "wait", "sleep"}
WorkerPcs == {"done", "for", "select", "head", "process", "final"}
CallerPcs == {"idle", "close", "lock", "drain"}

Init ==
    /\ hashItems = {} /\ aggregations = {}
    /\ restartMutex = NoOne /\ starving = {}
    /\ tempStop = "nil" /\ consume = FALSE
    /\ loopPc = "init"
    /\ workerPc = [w \in Workers |-> "done"]
    /\ slice = [w \in Workers |-> {}]
    /\ callerPc = [c \in Callers |-> "idle"]
    /\ left = [c \in Callers |-> 0]
    /\ got = [c \in Callers |-> {}]
    /\ submitted = {} /\ delivered = {} /\ dropped = {}

-----------------------------------------------------------------------------
(* Statements that several actions share.  Each NotX is a mistake one could *)
(* make in X; the runs show that a property notices it.                    *)

\* WaitGroup.Wait() returns.
NotAllDone == TRUE
AllDone == \A w \in Workers : workerPc[w] = "done"

\* case <-aggregator.TempStop
NotStopped == FALSE
Stopped == tempStop = "closed"

\* len(msgStructSlice) > 0
NotHasItems(w) == TRUE
HasItems(w) == slice[w] # {}

\* msgStructSlice = make([]types.HashItem, 0), or the goroutine's end
NotEmptySlice(w) == UNCHANGED slice
EmptySlice(w) == slice' = [slice EXCEPT ![w] = {}]

\* RestartMutex.Unlock()
NotUnlock == UNCHANGED restartMutex
Unlock == restartMutex' = NoOne

\* queueLen, read once before the loop that drains
NotQueueLen == IF aggregations = {} THEN 0 ELSE Cardinality(aggregations) - 1
QueueLen == Cardinality(aggregations)

\* Aggregations.Dequeue() of the entry b
NotDequeue(b) == UNCHANGED aggregations
Dequeue(b) == aggregations' = aggregations \ {b}

-----------------------------------------------------------------------------
(* The API                                                                 *)

\* The queue exists once StartAggregation made it; before that the call
\* panics in the request's own goroutine and changes nothing.
AddHashItem(h) ==
    /\ loopPc # "init"
    /\ h \notin submitted
    /\ hashItems' = hashItems \cup {h}
    /\ submitted' = submitted \cup {h}
    /\ UNCHANGED <<aggregations, loopVars, workerVars, callerVars,
                   delivered, dropped>>

-----------------------------------------------------------------------------
(* StartAggregation                                                        *)

MakeQueues ==
    /\ loopPc = "init"
    /\ loopPc' = "lock"
    /\ hashItems' = {} /\ aggregations' = {}
    /\ UNCHANGED <<restartMutex, starving, tempStop, consume, workerVars,
                   callerVars, history>>

\* A goroutine that finds sync.Mutex free takes it even when others have
\* waited longer, but a waiter overtaken once (and asleep for a millisecond)
\* makes the mutex pass straight to the waiters.
LoopLock ==
    /\ loopPc = "lock"
    /\ restartMutex = NoOne /\ starving = {}
    /\ restartMutex' = Loop
    /\ starving' = {c \in Callers : callerPc[c] = "lock"}
    /\ loopPc' = "make"
    /\ UNCHANGED <<queueVars, tempStop, consume, workerVars, callerVars,
                   history>>

\* make(chan), consume := true and the go statements.  A worker that has
\* not been scheduled yet is one that has not taken its first step.
StartWorkers ==
    /\ loopPc = "make"
    /\ tempStop' = "open"
    /\ consume' = TRUE
    /\ workerPc' = [w \in Workers |-> "for"]
    /\ slice' = [w \in Workers |-> {}]
    /\ loopPc' = "wait"
    /\ UNCHANGED <<queueVars, restartMutex, starving, callerVars, history>>

\* WaitGroup.Wait(), then the mutex is given back.
LoopUnlock ==
    /\ loopPc = "wait"
    /\ AllDone
    /\ Unlock
    /\ loopPc' = "sleep"
    /\ UNCHANGED <<queueVars, starving, tempStop, consume, workerVars, callerVars,
                   history>>

LoopSleep ==
    /\ loopPc = "sleep"
    /\ loopPc' = "lock"
    /\ UNCHANGED <<queueVars, restartMutex, starving, tempStop, consume,
                   workerVars, callerVars, history>>

-----------------------------------------------------------------------------
(* The workers                                                             *)

Goto(w, pc) == workerPc' = [workerPc EXCEPT ![w] = pc]

\* "for consume": the read races with the other workers' writes, so a worker
\* may still see TRUE after one of them wrote FALSE.
ForConsume(w) ==
    /\ workerPc[w] = "for"
    /\ \/ Goto(w, "select")
       \/ ~consume /\ Goto(w, "final")
    /\ UNCHANGED <<queueVars, loopVars, slice, callerVars, history>>

\* A worker that wrote consume = false itself reads false next.
Select(w) ==
    /\ workerPc[w] = "select"
    /\ IF Stopped
       THEN consume' = FALSE /\ Goto(w, "final")
       ELSE Goto(w, "head") /\ UNCHANGED consume
    /\ UNCHANGED <<queueVars, restartMutex, starving, tempStop, loopPc, slice,
                   callerVars, history>>

\* HeadHashItem gives an empty item when there is none, which is skipped.
HeadHashItem(w) ==
    /\ workerPc[w] = "head"
    /\ IF hashItems = {}
       THEN Goto(w, "for") /\ UNCHANGED <<hashItems, slice>>
       ELSE \E h \in hashItems :
              /\ hashItems' = hashItems \ {h}
              /\ slice' = [slice EXCEPT ![w] = @ \cup {h}]
              /\ Goto(w, IF Cardinality(slice'[w]) > BatchSize
                         THEN "process" ELSE "for")
    /\ UNCHANGED <<aggregations, loopVars, callerVars, history>>

\* ProcessAggregation of a full slice; when no ULID can be drawn it returns
\* an empty aggregation and the slice is kept for the next round.
ProcessAggregation(w) ==
    /\ workerPc[w] = "process"
    /\ \/ /\ aggregations' = aggregations \cup {slice[w]}
          /\ EmptySlice(w)
       \/ UNCHANGED <<aggregations, slice>>
    /\ Goto(w, "for")
    /\ UNCHANGED <<hashItems, loopVars, callerVars, history>>

\* After the loop: the rest of the slice, then WaitGroup.Done().  The slice
\* dies with the goroutine whether or not its batch was enqueued.
FinalAggregation(w) ==
    /\ workerPc[w] = "final"
    /\ IF HasItems(w)
       THEN \/ /\ aggregations' = aggregations \cup {slice[w]}
               /\ UNCHANGED dropped
            \/ /\ dropped' = dropped \cup slice[w]
               /\ UNCHANGED aggregations
       ELSE UNCHANGED <<aggregations, dropped>>
    /\ EmptySlice(w)
    /\ Goto(w, "done")
    /\ UNCHANGED <<hashItems, loopVars, callerVars, submitted, delivered>>

-----------------------------------------------------------------------------
(* AggregateAndReset                                                       *)

\* AnchorCalendar is started for every block, whatever became of the call
\* for the block before.
Call(c) ==
    /\ callerPc[c] = "idle"
    /\ callerPc' = [callerPc EXCEPT ![c] = "close"]
    /\ UNCHANGED <<queueVars, loopVars, workerVars, left, got, history>>

\* Closing a nil or a closed channel panics; the deferred recover makes the
\* call return no aggregations.
CloseTempStop(c) ==
    /\ callerPc[c] = "close"
    /\ IF tempStop = "open"
       THEN /\ tempStop' = "closed"
            /\ callerPc' = [callerPc EXCEPT ![c] = "lock"]
       ELSE /\ callerPc' = [callerPc EXCEPT ![c] = "idle"]
            /\ UNCHANGED tempStop
    /\ UNCHANGED <<queueVars, restartMutex, starving, consume, loopPc,
                   workerVars, left, got, history>>

\* RestartMutex.Lock() and the two reads of the queue's length.
CallerLock(c) ==
    /\ callerPc[c] = "lock"
    /\ restartMutex = NoOne
    /\ starving = {} \/ c \in starving
    /\ restartMutex' = c
    /\ starving' = starving \ {c}
    /\ left' = [left EXCEPT ![c] = QueueLen]
    /\ callerPc' = [callerPc EXCEPT ![c] = "drain"]
    /\ UNCHANGED <<queueVars, tempStop, consume, loopPc, workerVars, got,
                   history>>

Return(c) ==
    /\ callerPc' = [callerPc EXCEPT ![c] = "idle"]
    /\ delivered' = delivered \cup got[c]
    /\ got' = [got EXCEPT ![c] = {}]

\* One turn of the loop over queueLen, or its end.  Finding the queue empty
\* before queueLen entries were taken returns WITHOUT unlocking.
Drain(c) ==
    /\ callerPc[c] = "drain"
    /\ IF left[c] = 0
       THEN /\ Unlock
            /\ Return(c)
            /\ UNCHANGED <<aggregations, left>>
       ELSE IF aggregations = {}
            THEN /\ Return(c)
                 /\ left' = [left EXCEPT ![c] = 0]
                 /\ UNCHANGED <<aggregations, restartMutex>>
            ELSE \E b \in aggregations :
                 /\ Dequeue(b)
                 /\ got' = [got EXCEPT ![c] = @ \cup b]
                 /\ left' = [left EXCEPT ![c] = @ - 1]
                 /\ UNCHANGED <<restartMutex, callerPc, delivered>>
    /\ UNCHANGED <<hashItems, starving, tempStop, consume, loopPc, workerVars,
                   submitted, dropped>>

-----------------------------------------------------------------------------
LoopStep == MakeQueues \/ LoopLock \/ StartWorkers \/ LoopUnlock \/ LoopSleep

WorkerStep(w) ==
    \/ ForConsume(w) \/ Select(w) \/ HeadHashItem(w)
    \/ ProcessAggregation(w) \/ FinalAggregation(w)

CallerStep(c) == Call(c) \/ CloseTempStop(c) \/ CallerLock(c) \/ Drain(c)

Next ==
    \/ \E h \in Hashes : AddHashItem(h)
    \/ LoopStep
    \/ \E w \in Workers : WorkerStep(w)
    \/ \E c \in Callers : CallerStep(c)

\* Goroutines that can run do run, a call is made for every block, and no
\* goroutine waiting for the mutex is passed over for ever.
Fairness ==
    /\ WF_vars(LoopStep) /\ SF_vars(LoopLock)
    /\ \A w \in Workers : WF_vars(WorkerStep(w))
    /\ \A c \in Callers : WF_vars(CallerStep(c)) /\ SF_vars(CallerLock(c))

\* Calls come once per block, seconds or minutes apart, and a worker looks
\* at the queue within microseconds: the workers are not stopped before they
\* looked at it in every round there is.
WorkersLook == []<>(\E w \in Workers : workerPc[w] = "head")

Spec == Init /\ [][Next]_vars

FairSpec == Spec /\ Fairness /\ WorkersLook

-----------------------------------------------------------------------------
(* Properties                                                              *)

\* Every variable ranges over the states the code can build.
TypeOK ==
    /\ hashItems \in SUBSET Hashes
    /\ aggregations \in SUBSET Batches
    /\ restartMutex \in Callers \cup {NoOne, Loop}
    /\ starving \in SUBSET Callers
    /\ tempStop \in {"nil", "open", "closed"}
    /\ consume \in BOOLEAN
    /\ loopPc \in LoopPcs
    /\ workerPc \in [Workers -> WorkerPcs]
    /\ slice \in [Workers -> SUBSET Hashes]
    /\ callerPc \in [Callers -> CallerPcs]
    /\ left \in [Callers -> Nat]
    /\ got \in [Callers -> SUBSET Hashes]
    /\ submitted \in SUBSET Hashes
    /\ delivered \in SUBSET Hashes
    /\ dropped \in SUBSET Hashes

InSlices  == UNION {slice[w] : w \in Workers}
InBatches == UNION aggregations
InCalls   == UNION {got[c] : c \in Callers}

\* Where an accepted item can be on its way from AddHashItem to the return
\* of AggregateAndReset.
Places == {hashItems, InSlices, InBatches, InCalls, delivered, dropped}

\* No item is in two places, in two slices, in two batches or in two calls:
\* draining, flushing and restarting the workers never duplicates one.
ExactlyOnce ==
    /\ hashItems \cap (InSlices \cup InBatches \cup InCalls
                       \cup delivered \cup dropped) = {}
    /\ InSlices \cap (InBatches \cup InCalls \cup delivered \cup dropped) = {}
    /\ InBatches \cap (InCalls \cup delivered \cup dropped) = {}
    /\ InCalls \cap (delivered \cup dropped) = {}
    /\ delivered \cap dropped = {}
    /\ \A v, w \in Workers : v # w => slice[v] \cap slice[w] = {}
    /\ \A a, b \in aggregations : a # b => a \cap b = {}
    /\ \A c, d \in Callers : c # d => got[c] \cap got[d] = {}

\* No accepted item vanishes: StartAggregation throws the slices of finished
\* workers away, and they are empty by then.
NothingVanishes == submitted = UNION Places

\* AggregateAndReset drains between two rounds of workers: nobody can enqueue
\* between its reading of the queue's length and its last Dequeue, so the
\* early return that would keep RestartMutex locked is never taken.
DrainUndisturbed ==
    \A c \in Callers : callerPc[c] = "drain" =>
        /\ restartMutex = c
        /\ \A w \in Workers : workerPc[w] = "done"
        /\ left[c] = Cardinality(aggregations)

\* RestartMutex is held only by a process inside its critical section.
MutexHeldInside ==
    /\ restartMutex = Loop => loopPc \in {"make", "wait"}
    /\ \A c \in Callers : restartMutex = c => callerPc[c] = "drain"

Pool == INSTANCE HashPool
        WITH pending <- hashItems \cup InSlices \cup InBatches \cup InCalls

\* The aggregator implements the abstract pool: each item is handed over
\* exactly once or given up, in steps that touch nothing else.
ImplementsPool == Pool!PoolSpec

\* Every accepted item is eventually handed over (or given up for want of a
\* ULID), however calls, restarts of the workers and submissions interleave.
EventuallySettled == Pool!PoolLive

\* Every call of AggregateAndReset returns, although it waits for workers to
\* notice the channel it closed.
CallsReturn ==
    \A c \in Callers : callerPc[c] = "lock" ~> callerPc[c] = "idle"
=============================================================================
