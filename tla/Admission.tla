------------------------------- MODULE Admission -------------------------------
(***************************************************************************)
(* What one Core lets into its mempool and what it makes of validator      *)
(* votes: validateTx (CheckTx) with the rate limiter of txratelimiter, the *)
(* records it keeps per public key, and the VAL transactions that change   *)
(* the validator set (abci/validators.go), across blocks and restarts.     *)
(*                                                                         *)
(* CheckTx runs whenever a transaction arrives, also between the calls of  *)
(* a block; its records are part of the state that Commit saves.  The      *)
(* tokens of a bucket are counted in units of 1/PerBlocks, which makes the *)
(* float32 of the code a whole number.                                     *)
(***************************************************************************)
EXTENDS Integers, Sequences, FiniteSets

CONSTANTS
    Cores,              \* IDs of the Cores, also the candidates of a VAL
    Self,               \* app.ID
    KeysOf,             \* the public keys a Core may declare, one at a time
    Uris,               \* Lightning URIs
    Allowed, PerBlocks, \* AllowedRate and PerBlocks of each type of Types
    ProposedVal,        \* config.ProposedVal: the vote this Core was started with
    Criteria,           \* SUCCESSFUL_ANCHOR_CRITERIA + 10 per validator
    Testnet,            \* config.BitcoinNetwork == "testnet"
    ExemptId,           \* the candidate validateTx lets pass by its ID
    FirstValidators,    \* the validators of the genesis block
    FirstHeight, MaxHeight, MaxChecks, MaxCrashes, MaxDelivered,  \* bounds
    NoKey, NoRecord, NoUri, NoVal

Types == {"CAL", "BTC-A", "BTC-C", "FEE"}   \* the types with a bucket
Keys  == UNION {KeysOf[c] : c \in Cores}
Votes == [id : Cores, power : {0, 1}]
Record == [rated : BOOLEAN, anchors : Nat, changes : Nat, bucket : [Types -> Int],
           check : [Types -> Nat], seen : [Types -> Nat]]

ASSUME AdmissionAssumption ==
    /\ Self \in Cores /\ FirstValidators \subseteq Cores
    /\ \A c, d \in Cores : c # d => KeysOf[c] \cap KeysOf[d] = {}
    /\ \A t \in Types : Allowed[t] \in Nat \ {0} /\ PerBlocks[t] \in Nat \ {0}
    /\ ProposedVal \in [vote : Votes, height : Nat] \cup {NoVal}
    /\ {Criteria, FirstHeight, MaxHeight, MaxChecks, MaxCrashes, MaxDelivered} \subseteq Nat
    /\ Testnet \in BOOLEAN
    /\ NoKey \notin Keys /\ NoUri \notin Uris /\ NoRecord \notin Record

VARIABLES
    height, synced, validators, pending,    \* state.Height, ChainSynced, Validators; PendingValidator
    keys, uris, records,                    \* CoreKeys, LnUris, TxValidation
    vals, updates,                          \* the keys "val:..." of the database; ValUpdates
    phase, block, redo,                     \* the open block, what a restart has to deliver again
    saved,                                  \* what the last Commit wrote
    chain, admitted, restarts, checks, delivered   \* history: see below

vars == <<height, synced, validators, pending, keys, uris, records, vals, updates, phase,
          block, redo, saved, chain, admitted, restarts, checks, delivered>>
history   == <<chain, admitted, restarts, checks, delivered>>
blockVars == <<vals, updates, phase, block, redo, saved>>

-----------------------------------------------------------------------------
(* txratelimiter/validation.go *)

NewTxValidation ==
    [rated |-> TRUE, anchors |-> 0, changes |-> 0,
     bucket |-> [t \in Types |-> 0], check |-> [t \in Types |-> 0], seen |-> [t \in Types |-> 0]]

(* A record that is missing is read as the zero value: its rates are 0/0,   *)
(* and a bucket of NaN is never below one.                                  *)
GetValidationRecord(c) ==
    IF records[keys[c]] = NoRecord THEN [NewTxValidation EXCEPT !.rated = FALSE]
                                   ELSE records[keys[c]]

SetValidationRecord(c, r) ==
    IF keys[c] = NoKey THEN records ELSE [records EXCEPT ![keys[c]] = r]

Least(m, n) == IF m < n THEN m ELSE n

(* Without the cap a Core saves up tokens while it is silent.               *)
NotRateLimitUpdate(r, t) ==
    [r EXCEPT !.check[t] = height,
              !.bucket[t] = IF r.rated THEN @ + (height - r.check[t]) * Allowed[t] ELSE @]

RateLimitUpdate(r, t) ==
    [r EXCEPT !.check[t] = height,
              !.bucket[t] = IF r.rated THEN Least(@ + (height - r.check[t]) * Allowed[t],
                                                  Allowed[t] * PerBlocks[t])
                                       ELSE @]

IsHabitualViolator(r, t) == r.rated /\ r.bucket[t] < PerBlocks[t]

NotUpdateAcceptTx(r, t) == [r EXCEPT !.seen[t] = height]   \* takes no token

UpdateAcceptTx(r, t) == [r EXCEPT !.bucket[t] = @ - PerBlocks[t], !.seen[t] = height]

IncrementSuccessAnchor(c) ==
    IF keys[c] = NoKey THEN records
    ELSE SetValidationRecord(c, [GetValidationRecord(c) EXCEPT !.anchors = @ + 1])

IsValidator(c) == c \in validators

(* Whether Validate takes a token of the bucket.                            *)
Charged(tx, r) ==
    CASE tx.type = "CAL"   -> ~IsHabitualViolator(r, "CAL")
      [] tx.type = "BTC-A" -> ~IsHabitualViolator(r, "BTC-A") \/ IsValidator(tx.core)
      [] tx.type = "BTC-C" -> ~(IsHabitualViolator(r, "BTC-C") \/ IsValidator(tx.core))
      [] tx.type = "FEE"   -> ~IsHabitualViolator(r, "FEE") /\ tx.sound
      [] OTHER             -> FALSE

(* The record Validate stores: a CAL is noted as seen in any case, a JWK    *)
(* with another URI than the known one is counted.                          *)
Validated(tx) ==
    LET r == IF tx.type \in Types THEN RateLimitUpdate(GetValidationRecord(tx.core), tx.type)
                                  ELSE GetValidationRecord(tx.core)
    IN IF Charged(tx, r) THEN UpdateAcceptTx(r, tx.type)
       ELSE CASE tx.type = "CAL" -> [r EXCEPT !.seen["CAL"] = height]
              [] tx.type = "JWK" -> IF uris[tx.core] \notin {NoUri, tx.uri}
                                    THEN [r EXCEPT !.changes = @ + 1] ELSE r
              [] OTHER           -> r

(* Validate's verdict.  CHNGSTK has no case of its own there.               *)
Valid(tx) ==
    IF keys[tx.core] = NoKey THEN tx.type = "JWK"
    ELSE \/ tx.type \in {"VAL", "CAL", "BTC-E", "BTC-C", "JWK"}
         \/ Charged(tx, RateLimitUpdate(GetValidationRecord(tx.core), tx.type))

-----------------------------------------------------------------------------
(* abci/transactions.go *)

(* Lines 75-83.  The record is judged when looking it up FAILED, so that it *)
(* is always the empty one.                                                 *)
GoodCandidate(v) ==
    /\ keys[v.id] = NoKey
    /\ v.power <= 0 \/ NewTxValidation.anchors > Criteria \/ Testnet

ValAccepted(v) ==
    IsValidator(Self) => (GoodCandidate(v) /\ pending = v) \/ v.id = ExemptId

(* The rest of validateTx.  tx.sound stands for the parts of the data that  *)
(* are checked elsewhere: CheckAnchor of a BTC-A, the minimum of a FEE, the *)
(* stake of a CHNGSTK, and VerifyIdentity of a JWK (module Identity).       *)
Acceptable(tx) ==
    CASE tx.type = "VAL"                         -> ValAccepted(tx.vote)
      [] tx.type \in {"BTC-A", "CHNGSTK", "JWK"} -> tx.sound
      [] OTHER                                   -> TRUE

(* Only a known Core's transaction can be verified; JWK is not signed.      *)
Known(tx) == ~synced \/ keys[tx.core] # NoKey \/ tx.type = "JWK"

Accepted(tx) ==
    /\ Known(tx) /\ Acceptable(tx)
    /\ synced => Valid(tx) \/ tx.core = Self

Limited(tx) ==      \* whether only the limiter can let it in
    synced /\ tx.type \in {"BTC-A", "FEE"} /\ tx.core # Self /\ ~IsValidator(tx.core)

validateTx(tx) ==
    /\ checks < MaxChecks /\ checks' = checks + 1
    /\ records' = IF synced /\ keys[tx.core] # NoKey
                  THEN SetValidationRecord(tx.core, Validated(tx)) ELSE records
    /\ admitted' = IF Limited(tx) /\ Accepted(tx)
                   THEN [admitted EXCEPT ![keys[tx.core]][tx.type] =
                             Append(@, [at |-> height, restarts |-> restarts])]
                   ELSE admitted
    /\ UNCHANGED <<height, synced, validators, pending, keys, uris, blockVars, chain, restarts, delivered>>

CheckTx ==
    \E c \in Cores :
        \/ \E t \in Types \cup {"BTC-E", "CHNGSTK"}, s \in BOOLEAN :
                validateTx([type |-> t, core |-> c, sound |-> s])
        \/ \E v \in Votes : validateTx([type |-> "VAL", core |-> c, vote |-> v])
        \/ \E u \in Uris, s \in BOOLEAN :
                validateTx([type |-> "JWK", core |-> c, uri |-> u, sound |-> s])

-----------------------------------------------------------------------------
(* abci/validators.go, and what DeliverTx makes of the other types here *)

(* The database and the updates of the block after one validator update.    *)
updateValidator(v, s) ==
    IF v.power = 0 /\ v.id \notin s.vals THEN s
    ELSE [vals    |-> IF v.power = 0 THEN s.vals \ {v.id} ELSE s.vals \cup {v.id},
          updates |-> Append(s.updates, v)]

execValidatorTx(v) ==
    LET s == updateValidator(v, [vals |-> vals, updates |-> updates])
    IN vals' = s.vals /\ updates' = s.updates

(* Without a record for a new key.                                          *)
NotSetIdentity(c, k, u) ==
    /\ keys' = [keys EXCEPT ![c] = k] /\ records' = records
    /\ uris' = [uris EXCEPT ![c] = u]

(* SetIdentity: the key, a record for it if there is none, the URI.         *)
SetIdentity(c, k, u) ==
    /\ keys' = [keys EXCEPT ![c] = k]
    /\ records' = IF records[k] = NoRecord THEN [records EXCEPT ![k] = NewTxValidation]
                                           ELSE records
    /\ uris' = [uris EXCEPT ![c] = u]

NotBeginBlock ==    \* keeps the updates of the block before
    /\ phase = "between" /\ height < MaxHeight
    /\ phase' = "open"
    /\ UNCHANGED <<height, synced, validators, pending, keys, uris, records, vals, updates,
                   block, redo, saved, history>>

BeginBlock ==
    /\ phase = "between" /\ height < MaxHeight
    /\ phase' = "open" /\ updates' = <<>>
    /\ UNCHANGED <<height, synced, validators, pending, keys, uris, records, vals, block,
                   redo, saved, history>>

(* The transactions of a block are decided: a restart delivers them again.  *)
(* chain.once is what a Core makes of them that delivers each of them once. *)
Delivered(tx) ==
    /\ phase = "open"
    /\ IF redo = <<>>
       THEN /\ delivered < MaxDelivered /\ delivered' = delivered + 1
            /\ block' = Append(block, tx) /\ UNCHANGED redo
            /\ chain' = IF tx.type = "VAL"
                        THEN [chain EXCEPT !.once = updateValidator(tx.vote, chain.once)]
                        ELSE chain
       ELSE /\ tx = Head(redo) /\ redo' = Tail(redo)
            /\ UNCHANGED <<block, delivered, chain>>

DeliverTx ==
    \/ \E v \in Votes : /\ Delivered([type |-> "VAL", vote |-> v]) /\ execValidatorTx(v)
                        /\ UNCHANGED <<height, synced, validators, pending, keys, uris, records,
                                       phase, saved, admitted, restarts, checks>>
    \/ \E c \in Cores, u \in Uris : \E k \in KeysOf[c] :
            /\ Delivered([type |-> "JWK", core |-> c, key |-> k, uri |-> u])
            /\ SetIdentity(c, k, u)
            /\ UNCHANGED <<height, synced, validators, pending, vals, updates, phase, saved,
                           admitted, restarts, checks>>
    \/ \E c \in Cores : /\ Delivered([type |-> "BTC-C", core |-> c])
                        /\ records' = IncrementSuccessAnchor(c)
                        /\ UNCHANGED <<height, synced, validators, pending, keys, uris, vals,
                                       updates, phase, saved, admitted, restarts, checks>>

(* CheckVoteValidator, the last step of EndBlock, which returns updates.    *)
EndBlock ==
    /\ phase = "open" /\ redo = <<>>
    /\ phase' = "ended"
    /\ pending' = IF ProposedVal # NoVal /\ ProposedVal.height = height
                  THEN ProposedVal.vote ELSE pending
    /\ UNCHANGED <<height, synced, validators, keys, uris, records, vals, updates, block, redo,
                   saved, history>>

Commit ==
    /\ phase = "ended"
    /\ phase' = "between" /\ height' = height + 1
    /\ saved' = [height |-> height', records |-> records, uris |-> uris]
    /\ chain' = [vals |-> chain.once.vals, replayed |-> FALSE,
                 once |-> [vals |-> chain.once.vals, updates |-> <<>>],
                 keys |-> [c \in Cores |-> IF keys[c] = NoKey THEN chain.keys[c] ELSE keys[c]]]
    /\ block' = <<>>
    /\ UNCHANGED <<synced, validators, pending, keys, uris, records, vals, updates, redo,
                   admitted, restarts, checks, delivered>>

(* A restart: the keys, the validators and the pending vote were only in    *)
(* memory, the validators' keys of the database were written at once.       *)
Crash ==
    /\ restarts < MaxCrashes /\ restarts' = restarts + 1
    /\ height' = saved.height /\ records' = saved.records /\ uris' = saved.uris
    /\ synced' = FALSE /\ validators' = {} /\ pending' = NoVal
    /\ keys' = [c \in Cores |-> NoKey]
    /\ phase' = "between" /\ redo' = block /\ updates' = <<>>
    /\ chain' = [chain EXCEPT !.replayed = chain.replayed \/ phase # "between"]
    /\ UNCHANGED <<vals, block, saved, admitted, checks, delivered>>

(* LoadIdentity (as one step here, see module Identity): the declared keys. *)
LoadIdentity ==
    /\ \E c \in Cores : keys[c] = NoKey /\ chain.keys[c] # NoKey
    /\ keys' = [c \in Cores |-> IF keys[c] = NoKey THEN chain.keys[c] ELSE keys[c]]
    /\ records' = [k \in Keys |->
           IF records[k] = NoRecord /\ \E c \in Cores : chain.keys[c] = k
           THEN NewTxValidation ELSE records[k]]
    /\ UNCHANGED <<height, synced, validators, pending, uris, blockVars, history>>

(* SyncMonitor, once the chain has no block left for this Core to replay.   *)
SyncMonitor ==
    /\ ~synced /\ phase = "between" /\ redo = <<>>
    /\ synced' = TRUE
    /\ UNCHANGED <<height, validators, pending, keys, uris, records, blockVars, history>>

(* SetStake runs once after a start and asks for the validators.            *)
SetStake ==
    /\ synced /\ height > 2 /\ validators = {} /\ chain.vals # {}
    /\ validators' = chain.vals
    /\ UNCHANGED <<height, synced, pending, keys, uris, records, blockVars, history>>

Init ==
    /\ height = FirstHeight /\ synced = FALSE /\ validators = {} /\ pending = NoVal
    /\ keys = [c \in Cores |-> NoKey] /\ uris = [c \in Cores |-> NoUri]
    /\ records = [k \in Keys |-> NoRecord]
    /\ vals = FirstValidators /\ updates = <<>>     \* InitChain
    /\ phase = "between" /\ block = <<>> /\ redo = <<>>
    /\ saved = [height |-> height, records |-> records, uris |-> uris]
    /\ chain = [vals |-> vals, keys |-> keys, replayed |-> FALSE,
                once |-> [vals |-> vals, updates |-> <<>>]]
    /\ admitted = [k \in Keys |-> [t \in {"BTC-A", "FEE"} |-> <<>>]]
    /\ restarts = 0 /\ checks = 0 /\ delivered = 0

Next == \/ CheckTx \/ BeginBlock \/ DeliverTx \/ EndBlock \/ Commit
        \/ Crash \/ LoadIdentity \/ SyncMonitor \/ SetStake

Spec == Init /\ [][Next]_vars

-----------------------------------------------------------------------------
(* Properties.  History: chain (the validators before the open block, after *)
(* it, the keys, and whether the block was delivered before), admitted (by  *)
(* key and type, the heights of the peers' transactions that had to pass    *)
(* the limiter), restarts.                                                  *)

Records == [Keys -> Record \cup {NoRecord}]

(* Types, and that a bucket never holds more than AllowedRate tokens.       *)
TypeOK ==
    /\ height \in Nat /\ synced \in BOOLEAN /\ validators \subseteq Cores
    /\ pending \in Votes \cup {NoVal}
    /\ keys \in [Cores -> Keys \cup {NoKey}] /\ uris \in [Cores -> Uris \cup {NoUri}]
    /\ records \in Records /\ vals \subseteq Cores /\ updates \in Seq(Votes)
    /\ phase \in {"between", "open", "ended"}
    /\ \A k \in Keys, t \in Types : records[k] # NoRecord =>
           records[k].bucket[t] <= Allowed[t] * PerBlocks[t] /\ records[k].check[t] <= height

(* RateLimitUpdate and UpdateAcceptTx: between two admissions of a key that *)
(* had to pass the limiter there lie at most AllowedRate of them, and one   *)
(* more for each PerBlocks / AllowedRate blocks; a restart, which forgets   *)
(* what was charged since the last Commit, adds another AllowedRate.        *)
WithinRate ==
    \A k \in Keys, t \in {"BTC-A", "FEE"} :
        LET s == admitted[k][t] IN
        \A i, j \in DOMAIN s : i < j =>
            (j - i + 1) * PerBlocks[t] <=
                Allowed[t] * (PerBlocks[t] * (1 + s[j].restarts - s[i].restarts)
                              + s[j].at - s[i].at)

(* SetIdentity before any CheckTx: the limiter never works on the empty     *)
(* record, whose bucket would be 0/0 tokens and never run dry.              *)
KeysRecorded ==
    \A c \in Cores : keys[c] # NoKey => /\ records[keys[c]] # NoRecord
                                        /\ records[keys[c]].rated

(* updateValidator writes the database at once, before Commit: a block that *)
(* a restart delivers again ends with the validators of a Core that did not *)
(* restart, and EndBlock returns the same updates, unless the block removes *)
(* a validator (which the database no longer holds the second time).        *)
SameValidators ==
    phase = "ended" =>
        /\ vals = chain.once.vals
        /\ \/ updates = chain.once.updates
           \/ chain.replayed /\ \E i \in DOMAIN block :
                  block[i].type = "VAL" /\ block[i].vote.power = 0

(* docs/Operator.md:65: a VAL that all validators were started with         *)
(* (ProposedVal) is accepted by them, if it removes a validator or promotes *)
(* a Core with enough confirmed anchors.                                    *)
AgreedValAccepted ==
    \A c \in validators, v \in Votes :
        LET tx == [type |-> "VAL", core |-> c, vote |-> v] IN
        /\ pending = v /\ Self \in validators /\ Known(tx)
        /\ \/ v.power = 0 \/ Testnet
           \/ keys[v.id] # NoKey /\ GetValidationRecord(v.id).anchors > Criteria
        => Accepted(tx)

=============================================================================
