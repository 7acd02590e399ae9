------------------------------- MODULE Identity --------------------------------
(***************************************************************************)
(* How the Cores learn each other's public keys, and what depends on them  *)
(* (abci/stakingidentity.go, polling.go, leaderelection): a Core declares  *)
(* its key with a JWK transaction once its stake is in place, every Core   *)
(* notes the keys as it delivers the chain and reads them from its own     *)
(* index after a restart, and a synced Core counts (TxInt) only            *)
(* transactions it can verify.                                             *)
(*                                                                         *)
(* A block is one transaction, delivered and committed in one step; module *)
(* Admission has the steps inside a block.  A Core may be restarted with   *)
(* another key; its Lightning URI stays the same.                          *)
(***************************************************************************)
EXTENDS Integers, Sequences, FiniteSets, SequencesExt

CONSTANTS
    Cores, Validators,      \* IDs; the validators of the chain
    Founders,               \* the Cores that have declared their keys at first
    KeysOf, FirstKey,       \* keys a Core may be configured with, over time, and at first
    Rank,                   \* an order of the IDs (sort.Strings)
    ReadyHeight,            \* the height AppReady waits for
    MaxLen, MaxCals, MaxRestarts,   \* bounds
    NoKey

Keys == UNION {KeysOf[c] : c \in Cores}
JWK(c, k) == [type |-> "JWK", core |-> c, key |-> k]
CAL(c, k) == [type |-> "CAL", core |-> c, key |-> k]
Txs == [type : {"JWK", "CAL"}, core : Cores, key : Keys]

ASSUME IdentityAssumption ==
    /\ IsFiniteSet(Cores)
    /\ Validators \subseteq Cores /\ Validators # {} /\ Founders \subseteq Cores
    /\ \A c \in Cores : FirstKey[c] \in KeysOf[c]
    /\ \A c, d \in Cores : c # d => Rank[c] # Rank[d] /\ KeysOf[c] \cap KeysOf[d] = {}
    /\ Rank \in [Cores -> Int]
    /\ {ReadyHeight, MaxLen, MaxCals, MaxRestarts} \subseteq Nat
    /\ NoKey \notin Keys

VARIABLES
    chain, sent,                \* the blocks; broadcast transactions
    myKey, pos, txInt,          \* config.ECPrivateKey; Height; TxInt
    keys, uris, validators,     \* CoreKeys, LnUris, Validators (empty until SetStake)
    synced, ready,              \* ChainSynced, AppReady
    staked, amValidator,        \* JWKStaked, AmValidator
    channels,                   \* funded Lightning channels to the validators
    load, list, stake,          \* LoadIdentity's step and list; StakeIdentity's step
    restarts, born, rekeyed, early, raced   \* history: see below

vars == <<chain, sent, myKey, pos, txInt, keys, uris, validators, synced, ready,
          staked, amValidator, channels, load, list, stake, restarts, born, rekeyed, early,
          raced>>
net     == <<chain, sent>>
ledger  == <<myKey, pos, txInt>>
book    == <<keys, uris>>
status  == <<synced, ready>>
staking == <<staked, amValidator, channels>>
loading == <<load, list>>
history == <<restarts, born, rekeyed, early, raced>>

Set(f, i, v) == [f EXCEPT ![i] = v]

-----------------------------------------------------------------------------
(* leaderelection/tmleader.go *)

IsValidator(i, c) == c \in validators[i]
AmValidator(i)    == IsValidator(i, i)

(* ElectLeaders of the library, for one leader: the seed picks an index.    *)
ElectLeaders(sorted, seed) ==
    IF sorted = <<>> THEN NoKey ELSE sorted[(seed % Len(sorted)) + 1]

(* sort.Strings and sort.Slice, on IDs, each of which occurs once.          *)
Sort(ids, rank) ==
    LET D == DOMAIN ids
        order == CHOOSE o \in [D -> D] :
                    \A x, y \in D : x < y => rank[ids[o[x]]] < rank[ids[o[y]]]
    IN [x \in D |-> ids[order[x]]]

(* The Cores but one are the keys of a Go map, which come in any order, and *)
(* so are sorted first: the leaders there may be.                           *)
NotElectChainContributorAsLeader(cores, blacklisted, seed) ==
    {ElectLeaders(ids, seed) : ids \in SetToSeqs(cores \ {blacklisted})}

ElectChainContributorAsLeader(cores, blacklisted, seed) ==
    {ElectLeaders(Sort(ids, Rank), seed) : ids \in SetToSeqs(cores \ {blacklisted})}

GetSortedValidatorList(ids) == Sort(ids, [c \in Cores |-> -Rank[c]])

Allowed(ids, blacklisted) == SelectSeq(ids, LAMBDA c : c # blacklisted)

(* The validators come in the order in which Tendermint lists them.         *)
ElectValidatorAsLeader(vals, blacklisted, seed) ==
    {ElectLeaders(Allowed(GetSortedValidatorList(ids), blacklisted), seed) :
        ids \in SetToSeqs(vals)}

(* The cores with a transaction in the last 128 blocks: up to that height   *)
(* every known Core, because a height never set is 0.                       *)
GetLastNSubmitters(i) == {c \in Cores : keys[i][c] # NoKey}

-----------------------------------------------------------------------------
(* CheckTx at the validator p that may propose: Validate's signature check  *)
(* and, for a JWK, VerifyIdentity.                                          *)

VerifyIdentity(p, tx) ==
    LET exists == keys[p][tx.core] # NoKey IN
    \/ p = tx.core \/ ~synced[p]
    \/ amValidator[p] /\ IsValidator(p, tx.core)
    \/ ~exists /\ (amValidator[p] => channels[tx.core])

CheckTx(p, tx) ==
    IF tx.type = "JWK" THEN VerifyIdentity(p, tx) ELSE synced[p] => keys[p][tx.core] = tx.key

(* The validator p accepts tx and proposes the next block.  (A p that is    *)
(* behind the chain stands for one that accepted tx some blocks ago.)       *)
Propose(p, tx) ==
    /\ tx \in sent /\ CheckTx(p, tx) /\ Len(chain) < MaxLen
    /\ sent' = sent \ {tx} /\ chain' = Append(chain, tx)
    /\ UNCHANGED <<ledger, book, validators, status, staking, loading, stake, history>>

BroadcastCal(c) ==
    /\ ready[c]
    /\ Cardinality({tx \in sent : tx.type = "CAL"})
         + Cardinality({n \in DOMAIN chain : chain[n].type = "CAL"}) < MaxCals
    /\ sent' = sent \cup {CAL(c, myKey[c])}
    /\ UNCHANGED <<chain, ledger, book, validators, status, staking, loading, stake,
                   history>>

-----------------------------------------------------------------------------
(* DeliverTx and Commit of the next block at Core i *)

Outdates(tx, n) == chain[n].core = tx.core /\ chain[n].key # tx.key

NotDecodeTxAndVerifySig(i, tx) == keys[i][tx.core] = tx.key     \* asks a JWK for a known key

DecodeTxAndVerifySig(i, tx) == tx.type = "JWK" \/ keys[i][tx.core] = tx.key

SetIdentity(i, tx) ==
    /\ keys' = Set(keys, i, Set(keys[i], tx.core, tx.key))
    /\ uris' = Set(uris, i, uris[i] \cup {tx.core})

(* A tx that a synced Core cannot verify is an empty one: no TxInt.         *)
DeliverTx(i) ==
    /\ pos[i] < Len(chain)
    /\ LET tx == chain[pos[i] + 1]
           counted == synced[i] => DecodeTxAndVerifySig(i, tx)
       IN /\ txInt' = Set(txInt, i, IF counted THEN txInt[i] + 1 ELSE txInt[i])
          /\ IF tx.type = "JWK" THEN SetIdentity(i, tx) ELSE UNCHANGED book
          /\ staked' = Set(staked, i, staked[i] \/ tx = JWK(i, tx.key))  \* SaveIdentity
          /\ raced' = IF tx.type = "JWK" /\ \E n \in list[i] : Outdates(tx, n)
                      THEN raced \cup {i} ELSE raced
    /\ pos' = Set(pos, i, pos[i] + 1)
    /\ UNCHANGED <<net, myKey, validators, status, amValidator, channels, loading, stake, restarts,
                   born, rekeyed, early>>

-----------------------------------------------------------------------------
(* The goroutines NewAnchorApplication starts *)

(* SetStake, which spins until the Core is ready, asks for the validators.  *)
SetStake(i) == validators' = IF ready'[i] THEN Set(validators, i, Validators) ELSE validators

(* polling.go: a Core is synced when it has the blocks its node knows of    *)
(* (Tendermint does not go back to catching up).                            *)
SyncMonitor(i) ==
    /\ synced' = Set(synced, i, synced[i] \/ pos[i] = Len(chain))
    /\ ready' = Set(ready, i, ready[i] \/ (synced'[i] /\ pos[i] >= ReadyHeight))
    /\ SetStake(i)
    /\ early' = IF synced'[i] /\ load[i] # "done" THEN early \cup {i} ELSE early
    /\ status' # status
    /\ UNCHANGED <<net, ledger, book, staking, loading, stake, restarts, born, rekeyed, raced>>

(* GetAllJWKs: the JWKs of the first n blocks, as the places in the chain    *)
(* where they are.                                                          *)
GetAllJWKs(n) == {m \in 1 .. n : chain[m].type = "JWK"}

(* The key the last of these JWKs declares for c.                           *)
LastKey(c, places) ==
    LET own == {m \in places : chain[m].core = c}
    IN IF own = {} THEN NoKey ELSE chain[Max(own)].key

NotNextJWK(places) == Max(places)     \* the latest first

NextJWK(places) == Min(places)

NotListJWKs(i) ==    \* does not see that there is nothing to set
    /\ load[i] = "start"
    /\ load' = Set(load, i, "set") /\ list' = Set(list, i, GetAllJWKs(pos[i]))
    /\ UNCHANGED <<net, ledger, book, validators, status, staking, stake, history>>

ListJWKs(i) ==
    /\ load[i] = "start"
    /\ \E n \in {pos[i] - 1, pos[i]} \cap Nat :
          LET found == GetAllJWKs(n) IN
          /\ list' = Set(list, i, found)
          /\ load' = Set(load, i, IF found = {} THEN "done" ELSE "set")
          /\ raced' = IF \E c \in Cores : LastKey(c, found) # LastKey(c, GetAllJWKs(pos[i]))
                      THEN raced \cup {i} ELSE raced
    /\ UNCHANGED <<net, ledger, book, validators, status, staking, stake, restarts, born,
                   rekeyed, early>>

LoadIdentity(i) ==
    /\ load[i] = "set"
    /\ LET next == NextJWK(list[i]) IN
          /\ SetIdentity(i, chain[next])
          /\ list' = Set(list, i, list[i] \ {next})
          /\ load' = Set(load, i, IF list[i] = {next} THEN "done" ELSE "set")
    /\ UNCHANGED <<net, ledger, validators, status, staking, stake, history>>

NotCheckStake(i) ==     \* goes by JWKStaked alone
    /\ stake[i] = "wait" /\ ready[i]
    /\ stake' = Set(stake, i, "loop")
    /\ UNCHANGED <<net, ledger, book, validators, status, staking, loading, history>>

(* StakeIdentity, in front of its loop: another key than the declared one.  *)
CheckStake(i) ==
    /\ stake[i] = "wait" /\ ready[i]
    /\ staked' = Set(staked, i, staked[i] /\ keys[i][i] \in {NoKey, myKey[i]})
    /\ stake' = Set(stake, i, "loop")
    /\ UNCHANGED <<net, ledger, book, validators, status, amValidator, channels, loading,
                   history>>

NotStakeIdentity(i) ==      \* waits for the URIs of all Cores
    /\ stake[i] = "loop" /\ ~staked[i]
    /\ amValidator' = Set(amValidator, i, AmValidator(i))
    /\ AmValidator(i) \/ Cores \subseteq uris[i]
    /\ stake' = Set(stake, i, "send")
    /\ UNCHANGED <<net, ledger, book, validators, status, staked, channels, loading, history>>

(* One turn: a Core that is not a validator needs every validator's URI.    *)
StakeIdentity(i) ==
    /\ stake[i] = "loop" /\ ~staked[i]
    /\ amValidator' = Set(amValidator, i, AmValidator(i))
    /\ AmValidator(i) \/ validators[i] \subseteq uris[i]
    /\ stake' = Set(stake, i, "send")
    /\ UNCHANGED <<net, ledger, book, validators, status, staked, channels, loading, history>>

ChannelsOpen(i) ==      \* external: the channels asked for are funded
    /\ stake[i] = "send" /\ ~AmValidator(i) /\ ~channels[i]
    /\ channels' = Set(channels, i, TRUE)
    /\ UNCHANGED <<net, ledger, book, validators, status, staked, amValidator, loading, stake,
                   history>>

SendIdentity(i) ==
    /\ stake[i] = "send"
    /\ stake' = Set(stake, i, "loop")
    /\ sent' = sent \cup {JWK(i, myKey[i])}
    /\ JWK(i, myKey[i]) \notin sent \cup ToSet(SubSeq(chain, pos[i] + 1, Len(chain)))
                                \* sending again what is on its way changes nothing
    /\ UNCHANGED <<chain, ledger, book, validators, status, staking, loading, history>>

(* A restart, with the same key or another one.                             *)
Restart(i) ==
    /\ restarts < MaxRestarts /\ restarts' = restarts + 1
    /\ \E k \in KeysOf[i] : myKey' = Set(myKey, i, k)
    /\ keys' = Set(keys, i, [c \in Cores |-> NoKey])
    /\ validators' = Set(validators, i, {})
    /\ synced' = Set(synced, i, FALSE) /\ ready' = Set(ready, i, FALSE)
    /\ \E s \in {staked[i], LastKey(i, GetAllJWKs(pos[i])) # NoKey} :  \* as last saved
          staked' = Set(staked, i, s)
    /\ load' = Set(load, i, "start") /\ list' = Set(list, i, {}) /\ stake' = Set(stake, i, "wait")
    /\ born' = Set(born, i, pos[i])
    /\ rekeyed' = IF myKey' # myKey THEN rekeyed \cup {i} ELSE rekeyed
    /\ early' = early \cup (raced \cap {i}) /\ raced' = raced \ {i}
    /\ UNCHANGED <<net, pos, txInt, uris, amValidator, channels>>

(* Founders have declared their keys and run; the others are about to join. *)
Init ==
    /\ chain = SetToSeq({JWK(c, FirstKey[c]) : c \in Founders}) /\ sent = {}
    /\ myKey = [c \in Cores |-> FirstKey[c]]
    /\ pos = [i \in Cores |-> IF i \in Founders THEN Len(chain) ELSE 0] /\ txInt = pos
    /\ keys = [i \in Cores |-> [c \in Cores |->
                  IF {i, c} \subseteq Founders THEN FirstKey[c] ELSE NoKey]]
    /\ uris = [i \in Cores |-> IF i \in Founders THEN Founders ELSE {}]
    /\ validators = [i \in Cores |-> IF i \in Founders THEN Validators ELSE {}]
    /\ synced = [i \in Cores |-> i \in Founders]
    /\ ready = synced /\ staked = synced /\ channels = synced
    /\ amValidator = [i \in Cores |-> i \in Founders \cap Validators]
    /\ load = [i \in Cores |-> IF i \in Founders THEN "done" ELSE "start"]
    /\ stake = [i \in Cores |-> IF i \in Founders THEN "loop" ELSE "wait"]
    /\ list = [i \in Cores |-> {}]
    /\ restarts = 0 /\ born = pos /\ rekeyed = {} /\ early = {} /\ raced = {}

CoreStep(i) ==
    \/ DeliverTx(i) \/ SyncMonitor(i) \/ ListJWKs(i) \/ LoadIdentity(i)
    \/ CheckStake(i) \/ StakeIdentity(i) \/ ChannelsOpen(i) \/ SendIdentity(i)

Next == \/ \E i \in Cores : CoreStep(i) \/ BroadcastCal(i) \/ Restart(i)
        \/ \E tx \in Txs, p \in Validators : Propose(p, tx)

(* Every goroutine runs on, and a transaction some validator accepts gets   *)
(* into a block: StakeIdentity sends a JWK again every minute.              *)
Fairness ==
    /\ \A i \in Cores :
          /\ WF_vars(DeliverTx(i))    /\ WF_vars(SyncMonitor(i))
          /\ WF_vars(ListJWKs(i))     /\ WF_vars(LoadIdentity(i)) /\ WF_vars(CheckStake(i))
          /\ WF_vars(StakeIdentity(i)) /\ WF_vars(ChannelsOpen(i)) /\ WF_vars(SendIdentity(i))
    /\ \A tx \in Txs : WF_vars(\E p \in Validators : Propose(p, tx))

Spec == Init /\ [][Next]_vars /\ Fairness

-----------------------------------------------------------------------------
(* Properties.  History: born (the blocks a Core had at its last restart),  *)
(* rekeyed (Cores restarted with another key), early (Cores that were       *)
(* synced before LoadIdentity was done, or had raced before a restart),     *)
(* raced (Cores whose list of JWKs was behind the blocks they delivered).   *)

KeyOf == [Cores -> Keys \cup {NoKey}]

TypeOK ==
    /\ chain \in Seq(Txs) /\ sent \subseteq Txs
    /\ myKey \in [Cores -> Keys] /\ pos \in [Cores -> Nat] /\ txInt \in [Cores -> Nat]
    /\ keys \in [Cores -> KeyOf] /\ uris \in [Cores -> SUBSET Cores]
    /\ validators \in [Cores -> {{}, Validators}]
    /\ {synced, ready, staked, amValidator, channels} \subseteq [Cores -> BOOLEAN]
    /\ load \in [Cores -> {"start", "set", "done"}] /\ list \in [Cores -> SUBSET DOMAIN chain]
    /\ stake \in [Cores -> {"wait", "loop", "send"}]
    /\ \A i \in Cores : /\ txInt[i] <= pos[i] /\ pos[i] <= Len(chain)
                        /\ load[i] = "set" <=> list[i] # {}

(* LoadIdentity against DeliverTx: when the list is through, a Core knows   *)
(* of every other the key declared last in the blocks it has, unless a      *)
(* block or the index overtook the list.                                    *)
KeysCurrent ==
    \A i \in Cores : load[i] = "done" /\ i \notin raced =>
        \A c \in Cores : keys[i][c] = LastKey(c, GetAllJWKs(pos[i]))

Verifiable(n) ==
    chain[n].type = "JWK" \/ chain[n].key = LastKey(chain[n].core, GetAllJWKs(n - 1))

(* transactions.go:115-119: TxInt, by which CALs are searched, is the same  *)
(* number on every Core after the same blocks, although synced Cores verify *)
(* and others do not; as long as no transaction outlived its key and the    *)
(* Cores had their keys when they were synced.                              *)
SameTxInt ==
    (\A n \in DOMAIN chain : Verifiable(n)) =>
        \A i, j \in Cores \ (early \cup raced) : pos[i] = pos[j] => txInt[i] = txInt[j]

(* StakeIdentity against LoadIdentity and SaveIdentity (which looks at the  *)
(* Kid only): a Core that goes without staking has declared the key it is   *)
(* configured with, unless it looked before its keys were loaded or a       *)
(* declaration of another key of its own was delivered since its start.     *)
StakedDeclared ==
    \A i \in Cores : staked[i] /\ stake[i] # "wait" =>
        \/ LastKey(i, GetAllJWKs(pos[i])) = myKey[i]
        \/ i \in early \cup raced
        \/ \E n \in born[i] + 1 .. pos[i] :
              chain[n].type = "JWK" /\ chain[n].core = i /\ chain[n].key # myKey[i]

(* tmleader.go: two Cores that have the same blocks and poll the same seed  *)
(* elect the same leader, although one of them delivered the JWKs, the      *)
(* other read them from its index after a restart, and their maps (or       *)
(* Tendermint) list the IDs in any order; a Core whose list of JWKs was     *)
(* incomplete may elect another.                                            *)
Contributors(i, b, seed) == ElectChainContributorAsLeader(GetLastNSubmitters(i), b, seed)
Leaders(i, b, seed) == ElectValidatorAsLeader(validators[i], b, seed)

SameLeader ==
    \A i, j \in Cores \ raced :
        i # j /\ pos[i] = pos[j] /\ load[i] = "done" /\ load[j] = "done" =>
            \A b \in Cores \cup {NoKey}, seed \in {0, 1} :
                /\ Cardinality(Contributors(i, b, seed) \cup Contributors(j, b, seed)) = 1
                /\ ready[i] /\ ready[j] =>
                       Cardinality(Leaders(i, b, seed) \cup Leaders(j, b, seed)) = 1

(* StakeIdentity, VerifyIdentity, LoadIdentity: no two of them wait for     *)
(* each other; every Core that keeps its key gets it known to all others,   *)
(* apart from those whose list of JWKs was incomplete.                      *)
EventuallyDeclared ==
    \A i \in Cores : <>(i \in rekeyed \/ \A j \in Cores : keys[j][i] = myKey[i] \/ j \in raced)

=============================================================================
