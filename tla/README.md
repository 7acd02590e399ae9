# Chainpoint Core in TLA+

Chainpoint Core is a Tendermint application. Clients submit hashes to a Core
over HTTP; each Core aggregates its hashes into Merkle trees once per block,
anchors the trees' roots to the shared chain (the *calendar*) with CAL
transactions, and the Cores together anchor ranges of the calendar to Bitcoin
with BTC-A (anchored) and BTC-C (confirmed) transactions. From what is stored
on the way each Core builds two kinds of proof: a cal proof and a btc proof.

The directory holds specifications of the parts of this process that run
concurrently or have to survive failures, TLC configurations that check them
on small instances, and proofs about them that TLAPS checks for all instances.

    tlc -workers 2 -config Aggregator.cfg Aggregator
    tlapm AggregatorProofs.tla

## 1. Inventory

Paths are relative to `src/`.

| Component | State it keeps | Operations | Talks to |
|---|---|---|---|
| **Aggregator** `aggregator/aggregator.go` | queue of hash items, queue of finished aggregations, `RestartMutex`, `TempStop` | `AddHashItem`, `StartAggregation` (endless loop), its workers, `AggregateAndReset` | HTTP API (producer), `AnchorCalendar` (consumer) |
| **Calendar anchoring** `abci/anchor.go`, `calendar/`, `proof/` | none of its own; writes aggstate, calstate, proof tables | `AnchorCalendar`, `GenerateCalBatch` | Aggregator, RPC, database |
| **Bitcoin anchoring** `anchor/bitcoin/bitcoinanchor.go` | `BeginCalTxInt`, `LatestBtcaHeight`, `BtcHeight`, the arrays CHECK and CONFIRMED in LevelDB | `AnchorToChain`, `BeginTxMonitor`, `MonitorFailedAnchor`, `ResetAnchor`, `BlockSyncMonitor`, `MonitorConfirmedTx`, `ConfirmAnchor`, `GenerateBtcBatch` | each as a goroutine started from a block; LND, RPC, election, database |
| **ABCI application** `abci/abci.go`, `transactions.go`, `polling.go` | the application state saved by `Commit` | `CheckTx`, `DeliverTx`, `BeginBlock`, `EndBlock`, `Commit`, `SyncMonitor` | starts the goroutines above, shares its state with them without a lock |
| **Proof database** `database/level/chainpointdb.go` | tables aggstate, calstate, anchorbtcaggstate, btctxstate, proof | bulk inserts, lookups, `PruneOldState` | key-value cache |
| **Key-value cache** `database/level/cache.go` | LevelDB; arrays as JSON values | `Get`, `Set`, `Append`, `Del`, `GetArray` | every goroutine |
| **Leader election** `leaderelection/tmleader.go` | none (the last polled status and validators) | `ElectValidatorAsLeader`, `ElectChainContributorAsLeader` | Bitcoin anchoring, beacon, fee |
| **Rate limiter** `txratelimiter/validation.go` | token buckets and counters per public key, saved with the application state | `Validate`, `RateLimitUpdate`, `UpdateAcceptTx`, `IncrementSuccessAnchor` | `CheckTx`, `DeliverTx` |
| **Validator votes** `abci/validators.go` | the validators' keys in the database, the updates of the block, the pending vote | `CheckVoteValidator`, `execValidatorTx`, `updateValidator` | Tendermint |
| **Core identities** `abci/stakingidentity.go` | public keys (in memory), LN URIs and `JWKStaked` (saved) | `SetStake`, `StakeIdentity`, `SendIdentity`, `LoadIdentity`, `VerifyIdentity`, `SaveIdentity` | `CheckTx`, rewards |
| **RPC client** `tendermintrpc/` | none | searches, broadcasts | Tendermint |
| **HTTP API, ULIDs, beacon, fee, analytics, configuration** | none or trivial | requests, library calls | - |

### What is hard here, and what would make it right

* **Aggregator.** Two kinds of goroutine share two queues, and the consumer
  stops the producers by closing a channel the loop may not have made yet.
  Right when each accepted hash is handed to exactly one block, nothing is
  lost when workers are restarted, nobody drains while workers still enqueue,
  and each call returns.
* **Anchoring of ranges.** `BeginCalTxInt` is written by blocks, by goroutines
  of earlier blocks, by failure monitors and by restarts. Right when no CAL
  below it is left without somebody answerable for it, when ranges hold what
  a search can find, and when a BTC-A commits to its whole range.
* **Confirmation.** Entries wander through an array that is read, changed and
  written by overlapping goroutines while Bitcoin grows, LND fails and the
  process restarts. Right when proofs are written only for buried
  transactions and verify, when no entry is dropped, and when each anchor that
  Bitcoin confirms ends in proofs.
* **Key-value arrays.** `Append` and `Del` read, change and write back without
  a lock. Right when calls that do not overlap are steps on a list, and when
  overlapping ones at least never multiply an entry.
* **Proof store.** Five tables with two indexes each are filled by goroutines
  of several blocks and pruned by one that works on snapshots. Right when each
  accepted hash gets a proof whose branches fit together, when a proof is only
  ever extended, and when pruning takes rows a day old and all of them.
* **Admission.** `CheckTx` runs at any time beside the calls of a block, writes
  the records `Commit` saves, and a restart repeats blocks over a database that
  `updateValidator` already changed. Right when no peer exceeds its rate, when
  Cores that restart end with the others' validators, and when an agreed vote
  passes.
* **Identities and election.** A Core reads old declarations from the index
  while blocks deliver new ones; what it counts, whom it elects and whether it
  declares itself depend on the result. Right when Cores with the same blocks
  come to the same answers, and when nobody waits for ever.

The file `PROJECT.json` lists each hazard at its line with the properties that
cover it, and every component with what is left out of it.

## 2. Modules

    HashPool ----------- what the aggregator promises
       ^ implements
    Aggregator --------- aggregator.go            <- AggregatorProofs
    ProofStore --------- hash -> cal proof -> btc proof, and its pruning
                                                  <- ProofStoreProofs
    CalAnchor ---------- calendar -> BTC-A        <- CalAnchorProofs
    Confirm ------------ BTC-A -> btc proofs      <- ConfirmProofs
    ListStore ---------- what callers of the array methods rely on
       ^ implements (keys with exclusive callers)
    KVArray ------------ Append, Del, GetArray    <- KVArrayProofs
    Admission ---------- CheckTx, rate limits, votes  <- AdmissionProofs
    Identity ----------- keys, staking, election, TxInt <- IdentityProofs,
                                                     ElectionProofs
    MCConfirm, MCProofStore, MCAdmission, MCIdentity: constants and symmetry
    for TLC

`PROJECT.json`, "map", names the lines behind each definition.

### HashPool and Aggregator

`Aggregator` has one process for the loop of `StartAggregation`, one per
worker and one per overlapping call of `AggregateAndReset` (`StartAnchoring`
starts one goroutine per block). A step goes from one access of shared state
to the next: `Select` is the worker's select on `TempStop`, `HeadHashItem` one
take from the queue, `CallerLock` the lock and the read of the queue's length,
`Dequeue` one removal. A hash item is a model value, a queue a set (its order
decides nothing here), an aggregation the set of its items. `left` and `got`
are the caller's local length and slice. A double close or a close of the nil
channel panics in the code and is recovered there (`CloseTempStop` then changes
nothing). `consume` is shared by the workers of a round without
synchronisation; a worker sees the change when the model pleases.

`HashPool` is the specification a caller sees: an item is pending, then handed
over or (no ULID) dropped. `ImplementsPool` maps the items in the queue, the
workers' slices, the finished batches and the calls to `pending`.

### CalAnchor

One Core and the chain. `Deliver...` are the cases of `updateStateFromTx`,
`EndBlock` contains `StartAnchoring`, `Commit` saves and indexes. Between them
run `AnchorToChain` (four steps: `Elect`, `BuildTree`, `SendBtcTx`,
`AppendCheck`, one for each access to shared state or to the network),
`BeginTxMonitor` and `MonitorFailedAnchor` (a read of the CHECK array, then one
step per entry). A root is the set of CALs its tree was built from.
`PeerAnchors` is another Core elected for the same range: it runs the same
code, possibly searching after the block was indexed. `lost` is a history
variable with the CALs that a mishap named there left uncovered. `Crash`
restores what `Commit` saved and replays the open block unsynced.

### Confirm

One Core from delivered BTC-A to btc proof. `StoreTx` and `StoreTree` are the
two halves of `BeginTxMonitor`; `BlockSyncMonitor`,
`MonitorBlocksForConfirmation`, `ListConfirmed` and `MonitorConfirmedTx` the
goroutine of `EndBlock`; `SendBtcC`, `FindBtcC`, `GenerateBtcBatch` are
`ConfirmAnchor`. A Bitcoin block is its height, a block's Merkle root too, a
path the root it leads to. `DeliverBtcC` is the BTC-C case of `DeliverTx`.
`forgotten` is a history variable: transactions that a crash, a failed search,
an LND error or a passed block took out of the process.

### ListStore and KVArray

`CalAnchor` and `Confirm` change the CHECK and CONFIRMED arrays in one step. In
the code a call of `Append` or `Del` is two calls of LevelDB: `GetArray`, then
(`SetArray` in the model) a write of the changed copy. `KVArray` lets several
goroutines do this at once, and a restart take place in between. For the keys in
`Exclusive`, which never have two callers at once, `AtomicLists` says that the
arrays implement `ListStore`, where additions and removals are single steps.
For the other keys it does not hold; what is left there is `NeverMultiplied`.

### ProofStore

One Core's way of a hash: `HashHandler` and `LnPaymentHandler` submit it (the
second derives the proof ID from the hash, so that paying twice submits one ID
twice), `AnchorCalendar` stores the aggregations and broadcasts the CAL,
`GenerateCalBatch`, `WriteCalBatch` and `CacheRoot` are what follows a broadcast,
`Index` and `DeleteCached` what the block brings about. `BeginTxMonitor`,
`GenerateBtcBatch` and `WriteBtcBatch` extend the proofs by an anchor. A table is
a set of rows found by key, the same found by owner, and each owner's
`...Created` mark. `StartPrune` takes the five snapshots of `PruneOldState`,
`Prune...` works one off each; `WithoutAnchors` has the missing colon of line 311.
A batch is checked against the stored proofs in one step and written in another,
where the code does so proof by proof: a larger window for the same race, which
`contested` records. The histories `drained`, `calAggs` and `root` keep what the
properties compare the tables with, `mishap` what restarts and failures cost.

### Admission

One Core's `CheckTx` with the rate limiter, and the part of a block's calls that
touches its records or the validators. `validateTx` is one step, as `CheckTx` is
one call: `Accepted` is its verdict, `Validated` the record it stores. A token
bucket counts in units of 1/`PerBlocks`, so the float32 of the code becomes a
whole number. `validators` are those `SetStake` fetched once after the start;
`vals` are the database's keys, changed by `updateValidator` at once; `saved` is
what `Commit` wrote. `Crash` keeps the decided block in `redo` and delivers it
again. The history `chain.once` holds the validators and updates that a Core has
which delivers each transaction of the open block once.

### Identity

Several Cores and one chain. A block is one transaction, delivered with its
commit (`DeliverTx`); the steps within a block are `Admission`'s. The goroutines
of `NewAnchorApplication` are the rest: `SyncMonitor` with `SetStake`, `ListJWKs`
and `LoadIdentity` (one key at a time, from a list of places in the chain),
`CheckStake`, `StakeIdentity` and
`SendIdentity`. A restart empties the keys in memory, keeps `LnUris`, and may
come with another key. `txInt` is the counter by which `CalAnchor` searches;
the elections are operators over what the Core knows.

## 3. Runs

| Run | Shows |
|---|---|
| `aggregator` | Two workers, two calls, three items, batches of one: `ExactlyOnce`, `NothingVanishes`, `DrainUndisturbed`, `MutexHeldInside`, the refinement `ImplementsPool`, and under fairness `EventuallySettled` and `CallsReturn`. |
| `calanchor_disturbed` | All disturbances except failed payments: `MarkersOrdered`, and `Coverage`: a CAL that `BeginCalTxInt` passed is covered by a CHECK entry, a retry or a BTC-A unless a recorded mishap hit it. |
| `calanchor_undisturbed` | Leaders that stay silent or report failure, nothing else: no CAL is lost (`NoCalLost`), ranges are indexed, BTC-As commit to their whole range. |
| `confirm` | Two overlapping scans: each anchor that Bitcoin confirms ends in proofs (`EventuallyProved`), also when no BTC-C ever comes. |
| `confirm_disturbed` | All disturbances, two anchors of disjoint ranges: `ProofsBuried`, `ProofsVerify`, `NoAnchorForgotten`. |
| `kvarray` | Two goroutines, two arrays, restarts: `AtomicLists` for the array whose callers exclude each other, `NeverMultiplied` for both. |
| `proofstore` | Two hashes, two CALs, two anchors, one restart, a day's end: `HashAccounted`, `ProofsCoherent`, `CalDataServed`, `RowsMarked`; steps only extend proofs (`NeverDowngraded`), keep them a day (`ProofKept`) and reach every hash of an anchor (`EveryAnchoredProved`). |
| `admission` | Two blocks, a vote, identities, confirmations, a restart: `WithinRate`, `KeysRecorded`, `SameValidators`. |
| `identity` | A validator and a newcomer, a restart with or without a new key: `KeysCurrent`, `SameTxInt`, `StakedDeclared`, `SameLeader`, and under fairness `EventuallyDeclared`. |
| `calanchor_other_tx` | *Violated*: `OnlyIndexedAnchored` once other transactions lie between CALs of a block. |
| `confirm_reanchored` | *Violated*: `ProofsVerify` when a CAL lies under two anchors. |
| `vote` | *Violated*: `AgreedValAccepted`, a VAL agreed upon for a candidate with declared keys. |

The violated runs check what a comment or a log line in the source says;
`PROJECT.json`, "findings", quotes it and explains the trace.

Each of the history variables that weaken a property (`lost`, `forgotten`,
`mishap`, `raced`, `early`) names a mishap that TLC shows to be possible: without
the exception the property fails. So they also say what the code does not do:

* `Coverage`: a retry whose search fails leaves its range to nobody, and one that
  ends late moves `BeginCalTxInt` back over ranges anchored since;
* `HashAccounted`: hashes of a CAL that could not be sent, or of a process that
  stopped before the proofs were written, get no proof;
* `CalDataServed`: a restart between proof and Cache leaves an address that does
  not answer until the CAL is indexed;
* `KeysCurrent`: `LoadIdentity` may put an older key over a newer one;
* `SameTxInt`: a Core that is synced before its keys are loaded skips
  transactions the others count;
* `StakedDeclared`: a Core whose former declaration comes through after a restart
  with another key believes itself declared;
* `SameValidators`: a replayed removal returns no validator update.

### Bounds

* `aggregator`: two workers and two callers make every pairwise race; three
  items with batches of one fill both workers and leave one queued. The
  behaviour of the code depends on the batch only through "full or not".
* `calanchor_*`: `MaxHeight` blocks and `MaxTxInt` transactions end the run (so
  deadlock is not checked there). `TimeoutBlocks` and `AnchorInterval` are
  scaled from 10 and 60 to 0 or 1. Two blocks with timeout 0 are enough for an
  anchoring, a retry of it and an overlapping later one; five blocks with
  interval 1 for two periods with a timeout between them. `MaxJobs` bounds the
  goroutines of each kind at two. `MaxTxInt` 5 is at least one CAL per block
  beside a BTC-A of each period.
* `confirm*`: `Confirmations` 2 for 6 and `MaxGap` 3 for 36, in the order of
  the code's numbers. The tip goes from 1 to 4, which holds a skip by the gap,
  a block with a transaction and its confirmation. `Mine` puts no transaction
  in the last blocks, so that each can reach its confirmations.
  `Rounds` 1 or 2 for the deadline of five minutes (four turns of 70 s).
  `MaxBtcC` bounds the repetitions of a BTC-C. `confirm_disturbed` treats
  transactions and CALs as symmetric: `Roots` does not tell them apart.
* `kvarray`: an array has at most two entries of each value (`MaxAppends`), so
  that duplicates occur; a third goroutine adds no new overlap of two calls.
* `proofstore`: two aggregations suffice for the two a CAL may hold and for one
  ID in two of them; `Lifetime` 0 and `MaxTime` 1 are "within the day" and "after
  it". CALs and transactions are symmetric. Deadlock is not checked: the run
  ends when the second day is over and its rows are pruned.
* `admission`: one token per two blocks makes a bucket run dry and recover;
  heights 3 to 5 are two blocks behind the height `SetStake` waits for; three
  transactions, one restart and two calls of `CheckTx` fit a charge on each side
  of a restart. `vote` needs another block for the validators to be known. The
  bounds end the run, so deadlock is not checked.
* `identity`: `MaxLen` 5 blocks hold both Cores' declarations, a changed one, a
  CAL and one more; one restart hits either Core at any step. The election's
  seed is 0 or 1, all lists of two. The run ends when everything is declared.

### Fairness

* `Aggregator`: `WF` on the loop, the workers and the calls, since Go runs
  goroutines that can run; `SF` on taking the mutex, since a Go mutex in
  starvation mode (after 1 ms) goes to the one that waited longest. The
  variable `starving` models that mode. `WorkersLook` says that workers look
  at the queue infinitely often: a call comes once per block, a look takes
  microseconds. Without it the calls could stop every worker before its first
  look, for ever.
* `Confirm`: `WF` on Bitcoin's next block, on the monitors, on each scan
  goroutine and on `ConfirmAnchor`. None on sending, delivering or answering
  BTC-Cs: the code gives up on them at its deadline.
* `Identity`: `WF` on each goroutine's step, since they sleep and repeat, and on
  each transaction's way into a block: Tendermint proposes what a validator's
  `CheckTx` lets in, and `StakeIdentity` sends a JWK again every minute.
  `ChannelsOpen` is fair because `StakeIdentity` asks for the channel in every
  turn. Restarts are not fair; `BroadcastCal` neither.
* `CalAnchor`, `KVArray`, `ProofStore` and `Admission` state safety only.

## 4. Proofs

`AggregatorProofs` (any sets of items, workers and callers, any batch size,
from `AggregatorAssumption`). The inductive invariant
`ProofInv == TypeOK /\ Control /\ Apart /\ Covered`: `Control` ties program
counters to the mutex, says that slices, batches in hand and `left` are what
the pc promises; `Apart` is `ExactlyOnce` item by item (two slices cannot
share an item, because an item taken from the queue leaves it); `Covered` is
`NothingVanishes` item by item. `DrainUndisturbed` needs all of `Control`: the
loop holds the mutex while workers run, so a caller that has it finds them
`done`. Theorems `TypeCorrect`, `NoDuplicates`, `NoLoss`, `DrainSafe`,
`MutexSafe`, `Refinement` (each action is a pool step or a stutter).

`CalAnchorProofs` (any interval, timeout, bounds and set of events, from
`CalAnchorAssumption`). The invariant is `TypeOK /\ Bounded /\ Coverage`, where
`Bounded` extends `MarkersOrdered` to everything that may later become the
marker: the ranges in scans, monitors, the mempool, and what the open block
would replay. `Coverage` is inductive only with the history `lost`. The lemma
`Kept` says that a step that removes no covering entry and moves the marker
back or not at all keeps it; each remaining action shows which `Accounted`
disjunct takes over. Theorems `TypeCorrect`, `Ordered`, `Accountability`.

What an undisturbed run promises, `NoCalLost`, `OnlyIndexedAnchored` and
`RootsComplete`, is proved under the hypothesis `Undisturbed`: of all events only
leaders that are silent or send a BTC-E, and `TimeoutBlocks < AnchorInterval` (10
and 60 in the code). The invariant `Quiet` says why nothing overtakes anything
there. The scan of each block starts every entry again that is too old or leaves
it young (`Dates`), so when the next range is due, one interval later, no entry is
left (`NothingDue`): either one new range is being anchored or what is left of the
last one ends at `BeginCalTxInt` (`OneRange`), and no scan resets the marker. In a
block without a BTC-A the CALs still to be indexed are the last `CurrentCalInts`
ones (`Counted`), so `StartAnchoring`'s range has only indexed CALs and every tree
built from it, by this Core or a peer, at once or again, is over all of them
(`Trees`). Theorems `NothingLost`, `SearchesComplete`, `WholeRanges`.

Two BTC-As for one CAL then carry one root (`OneRootEach`), although the Core, its
peers and the retries all broadcast their own. `Separate` says that the ranges in
play, of anchorings, entries and BTC-As on the way or delivered, are equal or
apart, and that one that ends after `BeginCalTxInt` is the range being anchored; a
new range begins at the marker, and the marker only rises (`NeverReset`: the reset
in `MonitorFailedAnchor` is not taken). An anchoring that ends without an entry
would leave its BTC-As behind to overlap the next range; it ends so only when its
range has no CAL, and then nobody has broadcast a root for it (`Filled`). These two
theorems state no property of a run: they connect the modules.

`ConfirmProofs` (any sets of anchors, CALs and goroutines, any depth of
confirmation, gap, bounds and set of events, from `ConfirmAssumption`). The
inductive invariant is
`TypeOK /\ Placement /\ Buried /\ TakenUp /\ Rows /\ NoAnchorForgotten`.
`ProofsBuried` is not inductive: a branch is written by a goroutine that was
started from a copy of the CONFIRMED array with a `BtcHeight` that restarts and
overlapping scans moved. `Placement` says that no height in the state, the array
or a copy of it runs ahead of Bitcoin, `Buried` carries the depth through
`ConfirmAnchor`. `NoAnchorForgotten` needs `Rows` (the table holds the rows of a
root for all of its CALs or for none, so `GenerateBtcBatch` writes all proofs or
records the mishap) and `TakenUp`. Theorems `TypeCorrect`, `OnlyBuried`,
`NothingForgotten`, and `BranchesVerify`: `ProofsVerify` under the hypothesis
`DisjointRoots`, that no CAL lies under two roots, which is what the run
`confirm_reanchored` violates and, for the BTC-As of an undisturbed calendar,
`OneRootEach` of `CalAnchorProofs` proves.

`KVArrayProofs` (any keys, values and goroutines). `Refinement`: the invariant
adds to `TypeOK` that callers of an exclusive key exclude one another (`Apart`)
and that the copy of a call about to write such a key still equals the array
(`Fresh`): nobody else can have written it. Then `SetArray` is an `AppendTo` or a
`RemoveFrom`, `DelKey` a `Clear`, everything else a stutter. `NeverMultiplied`
holds for all keys, also those whose callers overwrite one another, but is not
inductive: a call writes what it read some steps ago. `Room` counts the calls of
`Append` that have not read yet as if their entries were there; `Promised` says
the same of the array that any call is about to write. An `Append` moves one from
the first count to the second as it reads, and what is written later promises no
more than was asked for, whoever wrote in between. Theorems `TypeCorrect`,
`Refinement`, `NoneMultiplied`.

`ProofStoreProofs` (any hashes, CALs, transactions, lifetime and bounds, from
`StoreAssumption`). The inductive invariant `StoreInv` has four layers, each of
which makes the next one inductive. What the tables say was: the histories only
grow and go in order (`Histories`), a row stands for a membership in them
(`RowsTrue`), a mark is never older than what it stands for (`Marks`), and so a
snapshot of `PruneOldState`, however old, holds only what is out of its day
(`Snapshots`). What is in hand: batches between look-up and write are coherent
(`InHand`), and where a proof got a Bitcoin branch since the look-up, the race is
on record (`Raced`). Who is still to write: hashes of a batch are in it or settled
(`Served`). What an anchor will find: within the day the rows of an aggregation
are all there (`RowsThere`), so the batch holds each of its hashes (`Batched`).
Theorems `TypeCorrect`, `NoRowUnmarked`, `BranchesFit`, `AddressAnswers`,
`EveryHashAccounted` and, for steps, `BtcBranchStays`, `ProofStaysItsDay`,
`AnchorReachesAll`: everything the run `proofstore` checks.

`AdmissionProofs` (any Cores, keys, rates, votes and bounds, from
`AdmissionAssumption`). `WithinRate` speaks of pairs of admissions and follows
from an account (`Budget`): what was admitted from one admission until now, with
the tokens at hand, is no more than the rate and the restarts since allow. A
charge moves one token from one side to the other, a block adds as much to both,
a restart adds a bucket. The account needs that no record is written back as the
zero value (`AllRated`), for `Validate` would treat one as full. `ValidatorsAgree`
compares a Core that restarted inside a block with one that did not: the database
holds for each Core the last vote of the block, or the last of what was delivered
twice, and both agree when nothing is left in `redo` (`LastVotes`); the updates are
compared by their number (`Pace`), which a replayed removal falsifies, the
exception of `SameValidators`. Theorems `TypeCorrect`, `RecordThere`, `RateHolds`,
`ValidatorsAgree`.

`IdentityProofs` (any Cores, keys, founders, validators and bounds, from
`IdentityAssumption`). `KeysCurrent` speaks of Cores that are done; `Book` says
what holds while `LoadIdentity` is under way: the last JWK of a Core among those
still to be set declares its current key, and a Core that has none there is known
by its current key already. This is kept by a block that arrives meanwhile unless
it contradicts the list (`raced`), and by each key set because the earliest is set
first. `Ordered` ties the goroutines together (staking waits for `AppReady`, that
for the sync, and a Core synced before its keys are loaded is in `early`); from
both follow that a Core not on record counts every block (`Counted`) and that
`CheckStake` compares its key with its current declaration. Theorems `TypeCorrect`,
`KeysKnown`, `CountsAgree`, `StakeDeclares`.

`ElectionProofs` (any Cores, keys, order of IDs and blacklisted Core). The
elections take the first of their inputs from a Go map or Tendermint's list, so
`Identity` defines the set of leaders over all orders these may have, and
`SameLeader` says that two Cores have one leader between them. The place of an ID
in a sorted list is the number of IDs below it plus one; places rise with the rank
(`PlacesRise`) and all are taken (`PlacesTaken`), so a sorted order exists, and
whatever `Sort` returns has each ID at its place (`AtItsPlace`, `Sorted`), so there
is only one (`OneOrder`), without induction over the lists. (`Sort` is defined by
that order, not with `SortSeq` of module TLC, which tlapm does not unfold.) By
`Book` of `IdentityProofs` the two Cores know the same keys, and by `Asked` a Core
that is ready has asked for the validators. Theorems `AnySeed`, for every integer
as the seed, and `LeadersAgree`, for the seeds of the run.

Only model-checked: liveness (`EventuallySettled`, `CallsReturn`,
`EventuallyProved`, `EventuallyDeclared`), which is out of the prover's reach.
Every invariant, action property and refinement of the passing runs is a theorem
(`ProofsVerify` under `DisjointRoots`; the undisturbed three of `CalAnchor` under
`Undisturbed`, which is the setting their runs check).

## 5. Left out

* Merkle trees and paths: a root is the set it commits to, so a wrong path is
  visible only as a path to the wrong root. `CheckAnchor` and `ConstructProof`
  change no state.
* Errors of LevelDB itself. `CalAnchor` and `Confirm` take `Append` and `Del` as
  atomic (apart from a crash between the two calls that replace an entry);
  `KVArray` says when that is justified.
* Bitcoin reorganisations, and the `test` mode of elections.
* The wallet: a payment whose BTC-A could not be broadcast; `AnchorReward`'s
  payment; amounts of stake, so CHNGSTK is only admitted or not.
* `Query`'s peer filter, `BeaconMonitor` and `FeeMonitor` (a leader broadcasts a
  value nobody here depends on), status pages, parsing, configuration.
* `ElectPeerAsLeader` and the migrations, which nothing calls.
* The library behind `ElectLeaders`: a function of the list and the seed.
* `MonitorFailedAnchor`'s early restart after a BTC-E (line 524 compares a root
  with a Core ID, so it never happens; `CalAnchor` models it so), and the
  repetition of BTC-Cs of alternating blocks (`transactions.go:180` knows the last
  one only; `Confirm` models it so). No property of a run is about them.

## 6. Plan

1. Done: all modules of section 2 and the proofs of section 4.
2. Next: `CalAnchor` and `Confirm` share the root of a BTC-A; a module that has
   both would show the path from a CAL to its Bitcoin branch across restarts in
   one model. What is left out of the ABCI application (section 5) is mostly I/O.
