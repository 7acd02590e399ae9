------------------------------ MODULE KVArray ------------------------------
(***************************************************************************)
(* The arrays KVStore keeps as one JSON value per key                      *)
(* (database/level/cache.go): Append and Del read the array, change their  *)
(* copy and write it back, without a lock between the two calls of         *)
(* LevelDB.  Their users are goroutines: AnchorToChain, BeginTxMonitor and *)
(* MonitorFailedAnchor for CHECK_BTC_TX_IDS, BeginTxMonitor,               *)
(* MonitorBlocksForConfirmation and MonitorConfirmedTx for CONFIRMED.      *)
(*                                                                         *)
(* A process that stops loses its goroutines and keeps the database.       *)
(* CalAnchor and Confirm change these arrays in one step; AtomicLists says *)
(* what entitles them to.                                                  *)
(***************************************************************************)
EXTENDS Naturals, Sequences, FiniteSets, SequencesExt

CONSTANTS
    Keys,        \* keys an array is kept under
    Values,      \* entries, as JSON texts
    Goroutines,  \* callers
    Exclusive,   \* keys that never have two callers at once
    MaxAppends   \* bound: calls of Append explored for one key and value

ASSUME KVAssumption == Exclusive \subseteq Keys /\ MaxAppends \in Nat

VARIABLES
    array,     \* the database: the array under each key
    call,      \* the call each goroutine is in
    appended   \* history: how often Append began for each key and value

vars == <<array, call, appended>>

NoCall == [pc |-> "idle"]
Calls(pc) == [pc : {pc}, do : {"append", "del"}, key : Keys, value : Values]
Reading == Calls("read")
Writing == [pc : {"write"}, do : {"append", "del"}, key : Keys, value : Values,
            copy : Seq(Values)]

Init ==
    /\ array = [k \in Keys |-> <<>>]
    /\ call = [g \in Goroutines |-> NoCall]
    /\ appended = [k \in Keys |-> [v \in Values |-> 0]]

Uses(g, k) == call[g] # NoCall /\ call[g].key = k

MayUse(g, k) == k \in Exclusive => \A o \in Goroutines \ {g} : ~Uses(o, k)

Begin(g, do, k, v) ==
    /\ call[g] = NoCall
    /\ MayUse(g, k)
    /\ call' = [call EXCEPT ![g] = [pc |-> "read", do |-> do, key |-> k, value |-> v]]
    /\ array' = array

BeginAppend(g, k, v) ==
    /\ appended[k][v] < MaxAppends
    /\ Begin(g, "append", k, v)
    /\ appended' = [appended EXCEPT ![k] = [appended[k] EXCEPT ![v] = appended[k][v] + 1]]

BeginDel(g, k, v) == Begin(g, "del", k, v) /\ UNCHANGED appended

\* The error of GetArray is not looked at.
NotGetArray(g) ==
    /\ call[g].pc = "read"
    /\ \E c \in {<<>>, array[call[g].key]} :
           call' = [call EXCEPT ![g] =
             [pc |-> "write", do |-> call[g].do, key |-> call[g].key,
              value |-> call[g].value, copy |-> c]]
    /\ UNCHANGED <<array, appended>>

GetArray(g) ==
    /\ call[g].pc = "read"
    /\ call' = [call EXCEPT ![g] =
         [pc |-> "write", do |-> call[g].do, key |-> call[g].key,
          value |-> call[g].value, copy |-> array[call[g].key]]]
    /\ UNCHANGED <<array, appended>>

\* Append adds at the end; Del leaves its loop at the first equal entry.
Changed(c) ==
    IF c.do = "append" THEN Append(c.copy, c.value) ELSE RemoveFirst(c.copy, c.value)

\* A call whose Set reported an error is repeated although it took effect.
NotSetArray(g) ==
    /\ call[g].pc = "write"
    /\ array' = [array EXCEPT ![call[g].key] = Changed(call[g])]
    /\ call' \in {[call EXCEPT ![g] = NoCall],
                 [call EXCEPT ![g] = [pc |-> "read", do |-> call[g].do,
                                      key |-> call[g].key, value |-> call[g].value]]}
    /\ UNCHANGED appended

SetArray(g) ==
    /\ call[g].pc = "write"
    /\ array' = [array EXCEPT ![call[g].key] = Changed(call[g])]
    /\ call' = [call EXCEPT ![g] = NoCall]
    /\ UNCHANGED appended

\* A deleted key is not read as an empty array again.
NotDelKey(g, k) ==
    /\ call[g] = NoCall
    /\ array' = [o \in DOMAIN array \ {k} |-> array[o]]
    /\ UNCHANGED <<call, appended>>

\* Del with an empty value: one call of LevelDB.
DelKey(g, k) ==
    /\ call[g] = NoCall
    /\ MayUse(g, k)
    /\ array' = [array EXCEPT ![k] = <<>>]
    /\ UNCHANGED <<call, appended>>

Crash ==
    /\ call' = [g \in Goroutines |-> NoCall]
    /\ UNCHANGED <<array, appended>>

Next ==
    \/ \E g \in Goroutines :
           \/ \E k \in Keys : \E v \in Values : BeginAppend(g, k, v) \/ BeginDel(g, k, v)
           \/ GetArray(g)
           \/ SetArray(g)
           \/ \E k \in Keys : DelKey(g, k)
    \/ Crash

Spec == Init /\ [][Next]_vars

-----------------------------------------------------------------------------
\* Arrays hold entries and a goroutine's call has its arguments
\* (database/level/cache.go:28-95).
TypeOK ==
    /\ array \in [Keys -> Seq(Values)]
    /\ call \in [Goroutines -> {NoCall} \cup Reading \cup Writing]
    /\ appended \in [Keys -> [Values -> Nat]]

\* Under a key that never has two callers at once, the read and the write of
\* Append and Del (cache.go:44-56, 75-95) amount to one step on a list, in
\* spite of restarts between them.
Lists == INSTANCE ListStore WITH Keys <- Exclusive, list <- [k \in Exclusive |-> array[k]]
AtomicLists == Lists!ListSpec

Positions(s, v) == {i \in DOMAIN s : s[i] = v}
Count(s, v) == Cardinality(Positions(s, v))

\* Calls that overlap lose entries and bring deleted ones back, but they never
\* multiply one: an array holds a value at most as often as Append was called
\* for it (cache.go:45, 79), so that a Bitcoin transaction is not followed, nor
\* a failed anchor repeated, more often than it was recorded.
NeverMultiplied ==
    \A k \in Keys, v \in Values : Count(array[k], v) <= appended[k][v]
=============================================================================
