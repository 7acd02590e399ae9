------------------------------ MODULE HashPool ------------------------------
(***************************************************************************)
(* What the aggregator promises its callers, without threads, queues or    *)
(* locks: a submitted hash item is pending until it is handed over to one  *)
(* calendar anchoring exactly once, or given up because no aggregation     *)
(* identifier could be drawn for its batch.                                *)
(***************************************************************************)
CONSTANT Hashes

VARIABLES pending, delivered, dropped

poolVars == <<pending, delivered, dropped>>

PoolInit == pending = {} /\ delivered = {} /\ dropped = {}

Known == pending \cup delivered \cup dropped

Submit(h) ==
    /\ h \notin Known
    /\ pending' = pending \cup {h}
    /\ UNCHANGED <<delivered, dropped>>

\* One call of AggregateAndReset returns the batches it drained.
Deliver(S) ==
    /\ pending' = pending \ S
    /\ delivered' = delivered \cup S
    /\ UNCHANGED dropped

\* A final batch for which ProcessAggregation fails.
Drop(S) ==
    /\ pending' = pending \ S
    /\ dropped' = dropped \cup S
    /\ UNCHANGED delivered

Settle(S) == Deliver(S) \/ Drop(S)

PoolNext ==
    \/ \E h \in Hashes : Submit(h)
    \/ \E S \in (SUBSET pending) \ {{}} : Settle(S)

PoolSpec == PoolInit /\ [][PoolNext]_poolVars

\* No item stays pending for ever.
PoolLive == \A h \in Hashes : h \in pending ~> h \in delivered \cup dropped
=============================================================================
