--------------------------- MODULE KVArrayProofs ---------------------------
(***************************************************************************)
(* Proofs about KVArray, for any keys, entries and callers: the types,     *)
(* that the arrays of keys with exclusive callers implement ListStore, and *)
(* that no array holds an entry more often than it was appended.           *)
(*                                                                         *)
(* The refinement needs that a call between its read and its write still   *)
(* holds the array as it is (Fresh), which needs that no second call is    *)
(* in progress on the same key (Apart).  The count of an entry also has to *)
(* provide for the calls in progress (Room, Promised).                     *)
(***************************************************************************)
EXTENDS KVArray, FiniteSetTheorems, WellFoundedInduction, SequenceTheorems, TLAPS

LEMMA RecordTypes ==
    /\ \A r \in Reading : r.pc = "read" /\ r.do \in {"append", "del"}
                          /\ r.key \in Keys /\ r.value \in Values
    /\ \A r \in Writing : r.pc = "write" /\ r.do \in {"append", "del"}
                          /\ r.key \in Keys /\ r.value \in Values /\ r.copy \in Seq(Values)
    /\ NoCall.pc = "idle"
BY DEF Reading, Writing, Calls, NoCall

\* A set of naturals has a least element.
LEMMA LeastElement ==
    ASSUME NEW T, T \subseteq Nat, T # {}
    PROVE  Min(T) \in T /\ \A y \in T : Min(T) <= y
<1>1. \E x \in T : \A y \in T : ~ (<<y, x>> \in OpToRel(<, Nat))
  BY NatLessThanWellFounded, WFMin, Zenon
<1>2. \A x, y \in Nat : <<y, x>> \in OpToRel(<, Nat) <=> y < x
  BY SMT DEF OpToRel
<1>3. \A x, y \in Nat : ~ (y < x) => x <= y
  BY SMT
<1>4. \E x \in T : \A y \in T : x <= y
  BY <1>1, <1>2, <1>3, Zenon
<1> QED BY <1>4, Zenon DEF Min

\* Leaving out the first equal entry leaves a list (SequencesExt).
LEMMA RemoveType ==
    ASSUME NEW s \in Seq(Values), NEW v
    PROVE  RemoveFirst(s, v) \in Seq(Values)
<1> DEFINE I == {i \in 1..Len(s) : s[i] = v}
<1>1. CASE ~ \E i \in 1..Len(s) : s[i] = v
  BY <1>1 DEF RemoveFirst
<1>2. CASE \E i \in 1..Len(s) : s[i] = v
  <2>1. RemoveFirst(s, v) = RemoveAt(s, Min(I))
    BY <1>2, SMT DEF RemoveFirst, SelectInSeq
  <2>2. Min(I) \in 1..Len(s)
    <3>1. I \subseteq Nat /\ I # {} /\ I \subseteq 1..Len(s)
      BY <1>2
    <3> HIDE DEF I
    <3> QED BY <3>1, LeastElement
  <2>3. SubSeq(s, 1, Min(I) - 1) \in Seq(Values) /\ SubSeq(s, Min(I) + 1, Len(s)) \in Seq(Values)
    <3>1. Len(s) \in Nat
      OBVIOUS
    <3> HIDE DEF I
    <3> QED BY <2>2, <3>1, SMT
  <2> QED BY <2>1, <2>3 DEF RemoveAt
<1> QED BY <1>1, <1>2

-----------------------------------------------------------------------------
\* The records calls are in, as the actions build them.
LEMMA CallMembership ==
    ASSUME NEW k \in Keys, NEW v \in Values, NEW do \in {"append", "del"},
           NEW c \in Seq(Values)
    PROVE  /\ [pc |-> "read", do |-> do, key |-> k, value |-> v] \in Reading
           /\ [pc |-> "write", do |-> do, key |-> k, value |-> v, copy |-> c] \in Writing
BY DEF Reading, Writing, Calls

LEMMA Reads ==
    ASSUME NEW c \in {NoCall} \cup Reading \cup Writing
    PROVE  /\ c.pc = "read" => c \in Reading
           /\ c.pc = "write" => c \in Writing
           /\ c = NoCall <=> c.pc = "idle"
BY RecordTypes

LEMMA ChangedType ==
    ASSUME NEW c \in Writing
    PROVE  Changed(c) \in Seq(Values)
BY RecordTypes, RemoveType DEF Changed

LEMMA TypeStep ==
    ASSUME TypeOK, [Next]_vars
    PROVE  TypeOK'
<1> USE DEF TypeOK
<1>1. ASSUME NEW g \in Goroutines, NEW k \in Keys, NEW v \in Values, BeginAppend(g, k, v)
      PROVE  TypeOK'
  <2>1. [pc |-> "read", do |-> "append", key |-> k, value |-> v] \in Reading
    BY CallMembership, EmptySeq
  <2> QED BY <1>1, <2>1 DEF BeginAppend, Begin
<1>2. ASSUME NEW g \in Goroutines, NEW k \in Keys, NEW v \in Values, BeginDel(g, k, v)
      PROVE  TypeOK'
  <2>1. [pc |-> "read", do |-> "del", key |-> k, value |-> v] \in Reading
    BY CallMembership, EmptySeq
  <2> QED BY <1>2, <2>1 DEF BeginDel, Begin
<1>3. ASSUME NEW g \in Goroutines, GetArray(g)
      PROVE  TypeOK'
  <2>1. call[g] \in Reading
    BY <1>3, Reads DEF GetArray
  <2>2. [pc |-> "write", do |-> call[g].do, key |-> call[g].key, value |-> call[g].value,
         copy |-> array[call[g].key]] \in Writing
    BY <2>1, RecordTypes, CallMembership
  <2> QED BY <1>3, <2>2 DEF GetArray
<1>4. ASSUME NEW g \in Goroutines, SetArray(g)
      PROVE  TypeOK'
  <2>1. call[g] \in Writing
    BY <1>4, Reads DEF SetArray
  <2>2. Changed(call[g]) \in Seq(Values)
    BY <2>1, ChangedType
  <2> QED BY <1>4, <2>1, <2>2 DEF SetArray
<1>5. ASSUME NEW g \in Goroutines, NEW k \in Keys, DelKey(g, k)
      PROVE  TypeOK'
  BY <1>5 DEF DelKey
<1>6. CASE Crash
  BY <1>6 DEF Crash
<1>7. CASE UNCHANGED vars
  BY <1>7 DEF vars
<1> QED BY <1>1, <1>2, <1>3, <1>4, <1>5, <1>6, <1>7 DEF Next

\* Whatever the callers do, an array stays a list of entries
\* (database/level/cache.go:28-95).
THEOREM TypeCorrect == Spec => []TypeOK
<1>1. Init => TypeOK
  BY DEF Init, TypeOK
<1>2. TypeOK /\ [Next]_vars => TypeOK'
  BY TypeStep
<1> QED BY <1>1, <1>2, PTL DEF Spec

-----------------------------------------------------------------------------
\* No two calls use one exclusive key, and a copy is what the database holds.
Apart ==
    \A g, o \in Goroutines :
        g # o /\ call[g].pc # "idle" /\ call[o].pc # "idle" /\ call[g].key \in Exclusive
            => call[o].key # call[g].key

Fresh ==
    \A g \in Goroutines :
        call[g].pc = "write" /\ call[g].key \in Exclusive
            => call[g].copy = array[call[g].key]

RefinementInv == TypeOK /\ Apart /\ Fresh

LEMMA ApartStep ==
    ASSUME TypeOK, Apart, [Next]_vars
    PROVE  Apart'
<1> USE DEF TypeOK, Apart
<1>0. \A g \in Goroutines, k \in Keys : Uses(g, k) <=> call[g].pc # "idle" /\ call[g].key = k
  BY Reads DEF Uses
<1>1. ASSUME NEW g \in Goroutines, NEW k \in Keys, NEW v \in Values,
             BeginAppend(g, k, v) \/ BeginDel(g, k, v)
      PROVE  Apart'
  <2>1. PICK do : Begin(g, do, k, v)
    BY <1>1 DEF BeginAppend, BeginDel
  <2>2. k \in Exclusive => \A o \in Goroutines \ {g} : ~ (call[o].pc # "idle" /\ call[o].key = k)
    BY <2>1, <1>0 DEF Begin, MayUse
  <2>3. /\ call'[g].key = k
        /\ \A o \in Goroutines \ {g} : call'[o] = call[o]
    BY <2>1 DEF Begin
  <2> QED BY <2>2, <2>3
<1>2. ASSUME NEW g \in Goroutines, GetArray(g)
      PROVE  Apart'
  <2>1. /\ call[g].pc # "idle"
        /\ call'[g].key = call[g].key
        /\ \A o \in Goroutines \ {g} : call'[o] = call[o]
    BY <1>2 DEF GetArray
  <2>2. \A o \in Goroutines : /\ call'[o].pc # "idle" => call[o].pc # "idle"
                              /\ call'[o].key = call[o].key
    BY <2>1
  <2> QED BY <2>2
<1>3. ASSUME NEW g \in Goroutines, SetArray(g)
      PROVE  Apart'
  BY <1>3, RecordTypes DEF SetArray
<1>4. ASSUME NEW g \in Goroutines, NEW k \in Keys, DelKey(g, k)
      PROVE  Apart'
  BY <1>4 DEF DelKey
<1>5. CASE Crash
  BY <1>5, RecordTypes DEF Crash
<1>6. CASE UNCHANGED vars
  BY <1>6 DEF vars
<1> QED BY <1>1, <1>2, <1>3, <1>4, <1>5, <1>6 DEF Next

LEMMA FreshStep ==
    ASSUME RefinementInv, [Next]_vars
    PROVE  Fresh'
<1> USE DEF RefinementInv, TypeOK, Fresh
<1>0. \A g \in Goroutines, k \in Keys : Uses(g, k) <=> call[g].pc # "idle" /\ call[g].key = k
  BY Reads DEF Uses
<1>1. ASSUME NEW g \in Goroutines, NEW k \in Keys, NEW v \in Values,
             BeginAppend(g, k, v) \/ BeginDel(g, k, v)
      PROVE  Fresh'
  <2>1. PICK do : Begin(g, do, k, v)
    BY <1>1 DEF BeginAppend, BeginDel
  <2>2. /\ call'[g].pc = "read" /\ array' = array
        /\ \A o \in Goroutines \ {g} : call'[o] = call[o]
    BY <2>1 DEF Begin
  <2> QED BY <2>2
<1>2. ASSUME NEW g \in Goroutines, GetArray(g)
      PROVE  Fresh'
  BY <1>2 DEF GetArray
<1>3. ASSUME NEW g \in Goroutines, SetArray(g)
      PROVE  Fresh'
  <2> SUFFICES ASSUME NEW o \in Goroutines, call'[o].pc = "write", call'[o].key \in Exclusive
               PROVE  call'[o].copy = array'[call'[o].key]
    OBVIOUS
  <2>1. o # g /\ call'[o] = call[o]
    BY <1>3, RecordTypes DEF SetArray
  <2>2. call[g].key # call[o].key
    BY <1>3, <2>1 DEF SetArray, Apart
  <2>3. call[o].key \in Keys
    BY <2>1, Reads, RecordTypes
  <2> QED BY <1>3, <2>1, <2>2, <2>3 DEF SetArray
<1>4. ASSUME NEW g \in Goroutines, NEW k \in Keys, DelKey(g, k)
      PROVE  Fresh'
  <2> SUFFICES ASSUME NEW o \in Goroutines, call'[o].pc = "write", call'[o].key \in Exclusive
               PROVE  call'[o].copy = array'[call'[o].key]
    OBVIOUS
  <2>1. call' = call /\ call[o].key \in Keys
    BY <1>4, Reads, RecordTypes DEF DelKey
  <2>2. call[o].key # k
    <3>1. o # g
      BY <1>4, <2>1, RecordTypes DEF DelKey
    <3> QED BY <1>4, <1>0, <2>1, <3>1 DEF DelKey, MayUse
  <2> QED BY <1>4, <2>1, <2>2 DEF DelKey
<1>5. CASE Crash
  BY <1>5, RecordTypes DEF Crash
<1>6. CASE UNCHANGED vars
  BY <1>6 DEF vars
<1> QED BY <1>1, <1>2, <1>3, <1>4, <1>5, <1>6 DEF Next

\* SequencesExt as ListStore sees it.
LEMMA SameRemoval == \A s, v : RemoveFirst(s, v) = Lists!RemoveFirst(s, v)
BY Zenon DEF RemoveFirst, RemoveAt, SelectInSeq, Min,
             Lists!RemoveFirst, Lists!RemoveAt, Lists!SelectInSeq, Lists!Min

ListOf == [k \in Exclusive |-> array[k]]

LEMMA ListStep ==
    ASSUME RefinementInv, [Next]_vars
    PROVE  [Lists!ListNext]_ListOf
<1> USE KVAssumption DEF RefinementInv, TypeOK, ListOf
<1>1. ASSUME NEW g \in Goroutines, NEW k \in Keys, NEW v \in Values,
             BeginAppend(g, k, v) \/ BeginDel(g, k, v)
      PROVE  UNCHANGED ListOf
  BY <1>1 DEF BeginAppend, BeginDel, Begin
<1>2. ASSUME NEW g \in Goroutines, GetArray(g)
      PROVE  UNCHANGED ListOf
  BY <1>2 DEF GetArray
<1>3. ASSUME NEW g \in Goroutines, SetArray(g)
      PROVE  [Lists!ListNext]_ListOf
  <2>1. call[g] \in Writing
    BY <1>3, Reads DEF SetArray
  <2>2. PICK key \in Keys, val \in Values : key = call[g].key /\ val = call[g].value
    BY <2>1, RecordTypes
  <2>3. array' = [array EXCEPT ![key] = Changed(call[g])]
    BY <1>3, <2>2 DEF SetArray
  <2>4. CASE key \notin Exclusive
    BY <2>3, <2>4
  <2>5. CASE key \in Exclusive
    <3>1. call[g].copy = array[key] /\ [k \in Exclusive |-> array[k]][key] = array[key]
      BY <1>3, <2>2, <2>5 DEF SetArray, Fresh
    <3>2. [k \in Exclusive |-> array'[k]]
            = [[k \in Exclusive |-> array[k]] EXCEPT ![key] = Changed(call[g])]
      BY <2>3, <2>5
    <3>3. CASE call[g].do = "append"
      <4>1. Changed(call[g]) = Append([k \in Exclusive |-> array[k]][key], val)
        BY <2>2, <3>1, <3>3 DEF Changed
      <4>2. Lists!AppendTo(key, val)
        BY <3>2, <4>1, Zenon DEF Lists!AppendTo
      <4> QED BY <2>2, <2>5, <4>2 DEF Lists!ListNext
    <3>4. CASE call[g].do = "del"
      <4>1. Changed(call[g]) = RemoveFirst([k \in Exclusive |-> array[k]][key], val)
        BY <2>2, <3>1, <3>4 DEF Changed
      <4>2. Lists!RemoveFrom(key, val)
        BY <3>2, <4>1, SameRemoval, Zenon DEF Lists!RemoveFrom
      <4> QED BY <2>2, <2>5, <4>2 DEF Lists!ListNext
    <3> QED BY <2>1, RecordTypes, <3>3, <3>4
  <2> QED BY <2>4, <2>5
<1>4. ASSUME NEW g \in Goroutines, NEW k \in Keys, DelKey(g, k)
      PROVE  [Lists!ListNext]_ListOf
  <2>1. CASE k \notin Exclusive
    BY <1>4, <2>1 DEF DelKey
  <2>2. CASE k \in Exclusive
    <3>1. Lists!Clear(k)
      BY <1>4, <2>2 DEF DelKey, Lists!Clear
    <3> QED BY <2>2, <3>1 DEF Lists!ListNext
  <2> QED BY <2>1, <2>2
<1>5. CASE Crash
  BY <1>5 DEF Crash
<1>6. CASE UNCHANGED vars
  BY <1>6 DEF vars
<1> QED BY <1>1, <1>2, <1>3, <1>4, <1>5, <1>6 DEF Next

\* Append and Del amount to single steps on a list wherever their callers
\* exclude each other (cache.go:44-56, 75-95).
THEOREM Refinement == Spec => AtomicLists
<1>1. Init => RefinementInv
  BY RecordTypes DEF Init, RefinementInv, TypeOK, Apart, Fresh
<1>2. RefinementInv /\ [Next]_vars => RefinementInv'
  BY TypeStep, ApartStep, FreshStep DEF RefinementInv
<1>3. Init => Lists!ListInit
  BY KVAssumption DEF Init, Lists!ListInit
<1>4. RefinementInv /\ [Next]_vars => [Lists!ListNext]_ListOf
  BY ListStep
<1> QED BY <1>1, <1>2, <1>3, <1>4, PTL DEF Spec, AtomicLists, Lists!ListSpec, ListOf

-----------------------------------------------------------------------------
(* No entry is multiplied                                                  *)

\* A list holds an entry a finite number of times.
LEMMA CountType ==
    ASSUME NEW s \in Seq(Values), NEW v
    PROVE  /\ IsFiniteSet(Positions(s, v)) /\ Count(s, v) \in Nat
           /\ Positions(s, v) = {i \in 1..Len(s) : s[i] = v}
<1>1. Len(s) \in Nat /\ DOMAIN s = 1..Len(s)
  OBVIOUS
<1>2. IsFiniteSet(1..Len(s))
  BY <1>1, FS_Interval
<1>3. IsFiniteSet(Positions(s, v))
  BY <1>1, <1>2, FS_Subset DEF Positions
<1> QED BY <1>1, <1>3, FS_CardinalityType DEF Positions, Count

\* Append adds its entry once.
LEMMA CountAppend ==
    ASSUME NEW s \in Seq(Values), NEW x \in Values, NEW v
    PROVE  Count(Append(s, x), v) = Count(s, v) + (IF x = v THEN 1 ELSE 0)
<1> DEFINE n == Len(s) + 1
           t == Append(s, x)
<1>1. n \in Nat /\ n \notin 1..Len(s) /\ 1..n = (1..Len(s)) \cup {n}
  OBVIOUS
<1>2. t \in Seq(Values) /\ Len(t) = n /\ t[n] = x /\ \A i \in 1..Len(s) : t[i] = s[i]
  OBVIOUS
<1> HIDE DEF n, t
<1>3. Positions(t, v) = {i \in 1..n : t[i] = v}
  BY <1>2, CountType
<1>4. Positions(s, v) = {i \in 1..Len(s) : s[i] = v} /\ IsFiniteSet(Positions(s, v))
  BY CountType
<1>5. n \notin Positions(s, v)
  BY <1>1, <1>4
<1>6. CASE x = v
  <2>1. Positions(t, v) = Positions(s, v) \cup {n}
    BY <1>1, <1>2, <1>3, <1>4, <1>6
  <2>2. Cardinality(Positions(s, v) \cup {n}) = Cardinality(Positions(s, v)) + 1
    BY <1>4, <1>5, FS_AddElement
  <2> QED BY <1>6, <2>1, <2>2 DEF Count, t
<1>7. CASE x # v
  <2>1. Positions(t, v) = Positions(s, v)
    BY <1>1, <1>2, <1>3, <1>4, <1>7
  <2> QED BY <1>7, <2>1, CountType DEF Count, t
<1> QED BY <1>6, <1>7

\* Del's loop copies the other entries in their order.
LEMMA RemovedAt ==
    ASSUME NEW s \in Seq(Values), NEW p \in 1..Len(s)
    PROVE  /\ RemoveAt(s, p) \in Seq(Values) /\ Len(RemoveAt(s, p)) = Len(s) - 1
           /\ \A i \in 1..(Len(s) - 1) :
                 RemoveAt(s, p)[i] = IF i < p THEN s[i] ELSE s[i + 1]
<1>1. Len(s) \in Nat
  OBVIOUS
<1> DEFINE a == SubSeq(s, 1, p - 1)
           b == SubSeq(s, p + 1, Len(s))
<1>2. /\ a \in Seq(Values) /\ Len(a) = p - 1
      /\ \A i \in 1..(p - 1) : a[i] = s[i]
  BY <1>1
<1>3. /\ b \in Seq(Values) /\ Len(b) = Len(s) - p
      /\ \A i \in 1..(Len(s) - p) : b[i] = s[p + i]
  BY <1>1
<1> HIDE DEF a, b
<1>4. /\ a \o b \in Seq(Values) /\ Len(a \o b) = Len(s) - 1
      /\ \A i \in 1..(Len(s) - 1) :
            (a \o b)[i] = IF i < p THEN a[i] ELSE b[i - (p - 1)]
  <2>1. /\ a \o b \in Seq(Values) /\ Len(a \o b) = Len(a) + Len(b)
        /\ \A i \in 1..(Len(a) + Len(b)) :
              (a \o b)[i] = IF i <= Len(a) THEN a[i] ELSE b[i - Len(a)]
    BY <1>2, <1>3, ConcatProperties
  <2>2. Len(a) + Len(b) = Len(s) - 1 /\ \A i \in Nat : i <= p - 1 <=> i < p
    BY <1>1, <1>2, <1>3
  <2> QED BY <1>1, <1>2, <2>1, <2>2
<1>5. ASSUME NEW i \in 1..(Len(s) - 1)
      PROVE  (a \o b)[i] = IF i < p THEN s[i] ELSE s[i + 1]
  <2>1. CASE i < p
    BY <1>1, <1>2, <1>4, <2>1
  <2>2. CASE ~(i < p)
    <3>1. i - (p - 1) \in 1..(Len(s) - p) /\ p + (i - (p - 1)) = i + 1
      BY <1>1, <2>2
    <3>2. b[i - (p - 1)] = s[i + 1]
      BY <1>3, <3>1
    <3> QED BY <1>4, <2>2, <3>2
  <2> QED BY <2>1, <2>2
<1> QED BY <1>4, <1>5 DEF a, b, RemoveAt

\* So Del multiplies none of them.
LEMMA CountRemove ==
    ASSUME NEW s \in Seq(Values), NEW x, NEW v
    PROVE  Count(RemoveFirst(s, x), v) <= Count(s, v)
<1>1. CASE ~ \E i \in 1..Len(s) : s[i] = x
  BY <1>1, CountType DEF RemoveFirst
<1>2. CASE \E i \in 1..Len(s) : s[i] = x
  <2> DEFINE I == {i \in 1..Len(s) : s[i] = x}
  <2>1. RemoveFirst(s, x) = RemoveAt(s, Min(I))
    BY <1>2, SMT DEF RemoveFirst, SelectInSeq
  <2>2. Min(I) \in 1..Len(s)
    <3>1. I \subseteq Nat /\ I # {} /\ I \subseteq 1..Len(s)
      BY <1>2
    <3> HIDE DEF I
    <3> QED BY <3>1, LeastElement
  <2>3. PICK p \in 1..Len(s) : RemoveFirst(s, x) = RemoveAt(s, p)
    BY <2>1, <2>2
  <2> DEFINE r == RemoveAt(s, p)
             f == [i \in Positions(r, v) |-> IF i < p THEN i ELSE i + 1]
  <2>4. /\ r \in Seq(Values) /\ Len(r) = Len(s) - 1 /\ Len(s) \in Nat
        /\ \A i \in 1..(Len(s) - 1) : r[i] = IF i < p THEN s[i] ELSE s[i + 1]
    BY RemovedAt
  <2> HIDE DEF r
  <2>5. /\ Positions(r, v) = {i \in 1..(Len(s) - 1) : r[i] = v}
        /\ Positions(s, v) = {i \in 1..Len(s) : s[i] = v}
    BY <2>4, CountType
  <2>6. f \in [Positions(r, v) -> Positions(s, v)]
    <3>1. ASSUME NEW i \in Positions(r, v) PROVE f[i] \in Positions(s, v)
      <4>1. i \in 1..(Len(s) - 1) /\ r[i] = v /\ f[i] = IF i < p THEN i ELSE i + 1
        BY <2>5
      <4>2. f[i] \in 1..Len(s) /\ s[f[i]] = v
        BY <2>4, <4>1
      <4> HIDE DEF f
      <4> QED BY <2>5, <4>2
    <3> QED BY <3>1
  <2>7. \A i, j \in Positions(r, v) : f[i] = f[j] => i = j
    BY <2>4, <2>5
  <2> HIDE DEF f
  <2>8. f \in Injection(Positions(r, v), Positions(s, v))
    BY <2>6, <2>7 DEF Injection, IsInjective
  <2>9. IsFiniteSet(Positions(s, v))
    BY CountType
  <2> QED BY <2>3, <2>8, <2>9, FS_Injection DEF Count, r
<1> QED BY <1>1, <1>2

\* The calls of Append for an entry that have not read the array yet.
Pending(k, v) ==
    {g \in Goroutines : /\ call[g].pc = "read" /\ call[g].do = "append"
                        /\ call[g].key = k /\ call[g].value = v}

\* An array leaves room for the calls that will add to what they read ...
Room ==
    \A k \in Keys, v \in Values :
        /\ IsFiniteSet(Pending(k, v))
        /\ Count(array[k], v) + Cardinality(Pending(k, v)) <= appended[k][v]

\* ... and so does what any call is about to write, whatever others wrote
\* since it read.
Promised ==
    \A g \in Goroutines : call[g].pc = "write" =>
        \A v \in Values :
            Count(Changed(call[g]), v) + Cardinality(Pending(call[g].key, v))
                <= appended[call[g].key][v]

CountInv == TypeOK /\ Room /\ Promised

\* Room and Promised are kept by a step that begins no Append, and writes
\* what was promised or nothing.
LEMMA RoomKept ==
    ASSUME CountInv, TypeOK', UNCHANGED appended,
           \A k \in Keys, v \in Values : Pending(k, v)' \subseteq Pending(k, v),
           \A k \in Keys : \/ array'[k] = array[k] \/ array'[k] = <<>>
                           \/ \E g \in Goroutines :
                                 /\ call[g].pc = "write" /\ call[g].key = k
                                 /\ array'[k] = Changed(call[g])
    PROVE  Room'
<1> SUFFICES ASSUME NEW k \in Keys, NEW v \in Values
             PROVE  /\ IsFiniteSet(Pending(k, v)')
                    /\ Count(array'[k], v) + Cardinality(Pending(k, v)') <= appended[k][v]
  BY DEF Room
<1>1. IsFiniteSet(Pending(k, v)) /\ Count(array[k], v) + Cardinality(Pending(k, v)) <= appended[k][v]
  BY DEF CountInv, Room
<1>2. /\ IsFiniteSet(Pending(k, v)') /\ Cardinality(Pending(k, v)') <= Cardinality(Pending(k, v))
      /\ Cardinality(Pending(k, v)') \in Nat /\ Cardinality(Pending(k, v)) \in Nat
  BY <1>1, FS_Subset, FS_CardinalityType
<1>3. /\ array[k] \in Seq(Values) /\ array'[k] \in Seq(Values)
      /\ appended[k][v] \in Nat
  BY DEF CountInv, TypeOK
<1>4. Count(array[k], v) \in Nat /\ Count(array'[k], v) \in Nat
  BY <1>3, CountType
<1>5. CASE array'[k] = array[k]
  BY <1>1, <1>2, <1>3, <1>4, <1>5
<1>6. CASE array'[k] = <<>>
  <2>1. Positions(array'[k], v) = {}
    BY <1>6 DEF Positions
  <2>2. Count(array'[k], v) = 0
    BY <2>1, FS_EmptySet DEF Count
  <2> QED BY <1>1, <1>2, <1>3, <1>4, <2>2
<1>7. ASSUME NEW g \in Goroutines, call[g].pc = "write", call[g].key = k,
             array'[k] = Changed(call[g])
      PROVE  Count(array'[k], v) + Cardinality(Pending(k, v)') <= appended[k][v]
  <2>1. Count(array'[k], v) + Cardinality(Pending(k, v)) <= appended[k][v]
    BY <1>7 DEF CountInv, Promised
  <2> QED BY <1>2, <1>3, <1>4, <2>1
<1> QED BY <1>2, <1>5, <1>6, <1>7

LEMMA PromisedKept ==
    ASSUME CountInv, UNCHANGED appended,
           NEW g \in Goroutines, call[g].pc = "write", call'[g] = call[g],
           NEW k \in Keys, k = call[g].key, NEW v \in Values,
           Pending(k, v)' \subseteq Pending(k, v)
    PROVE  Count(Changed(call'[g]), v) + Cardinality(Pending(k, v)') <= appended'[k][v]
<1>1. call[g] \in Writing
  BY Reads DEF CountInv, TypeOK
<1>2. IsFiniteSet(Pending(k, v))
  BY DEF CountInv, Room
<1>3. /\ Cardinality(Pending(k, v)') <= Cardinality(Pending(k, v))
      /\ Cardinality(Pending(k, v)') \in Nat /\ Cardinality(Pending(k, v)) \in Nat
  BY <1>2, FS_Subset, FS_CardinalityType
<1>4. Count(Changed(call[g]), v) \in Nat /\ appended[k][v] \in Nat
  BY <1>1, ChangedType, CountType DEF CountInv, TypeOK
<1>5. Count(Changed(call[g]), v) + Cardinality(Pending(k, v)) <= appended[k][v]
  BY DEF CountInv, Promised
<1>6. Count(Changed(call'[g]), v) = Count(Changed(call[g]), v)
  BY Zenon
<1> QED BY <1>3, <1>4, <1>5, <1>6

\* Every step keeps the room there is.
LEMMA CountStep ==
    ASSUME CountInv, [Next]_vars
    PROVE  CountInv'
<1>0. TypeOK /\ TypeOK'
  BY TypeStep DEF CountInv
<1> USE <1>0
<1>1. ASSUME NEW g \in Goroutines, NEW k \in Keys, NEW v \in Values, BeginAppend(g, k, v)
      PROVE  Room' /\ Promised'
  <2> DEFINE new == [pc |-> "read", do |-> "append", key |-> k, value |-> v]
  <2>1. /\ new.pc = "read" /\ new.do = "append" /\ new.key = k /\ new.value = v
        /\ call'[g] = new /\ array' = array /\ call[g].pc = "idle"
        /\ \A o \in Goroutines \ {g} : call'[o] = call[o]
    BY <1>1, RecordTypes DEF BeginAppend, Begin, TypeOK
  <2> HIDE DEF new
  <2>2. /\ appended'[k][v] = appended[k][v] + 1
        /\ \A l \in Keys, w \in Values :
              l # k \/ w # v => appended'[l][w] = appended[l][w]
    BY <1>1 DEF BeginAppend, TypeOK
  <2>3. /\ Pending(k, v)' = Pending(k, v) \cup {g} /\ g \notin Pending(k, v)
        /\ \A l \in Keys, w \in Values :
              l # k \/ w # v => Pending(l, w)' = Pending(l, w)
    BY <2>1 DEF Pending
  <2>4. ASSUME NEW l \in Keys, NEW w \in Values
        PROVE  /\ IsFiniteSet(Pending(l, w)')
               /\ Cardinality(Pending(l, w)') - Cardinality(Pending(l, w))
                    = appended'[l][w] - appended[l][w]
               /\ Cardinality(Pending(l, w)) \in Nat /\ Cardinality(Pending(l, w)') \in Nat
               /\ appended'[l][w] \in Nat /\ appended[l][w] \in Nat
    <3>1. IsFiniteSet(Pending(l, w)) /\ Cardinality(Pending(l, w)) \in Nat
      BY FS_CardinalityType DEF CountInv, Room
    <3>2. appended'[l][w] \in Nat /\ appended[l][w] \in Nat
      BY DEF TypeOK
    <3>3. CASE l = k /\ w = v
      <4>1. /\ IsFiniteSet(Pending(l, w)')
            /\ Cardinality(Pending(l, w)') = Cardinality(Pending(l, w)) + 1
        BY <2>3, <3>1, <3>3, FS_AddElement
      <4> QED BY <2>2, <3>1, <3>2, <3>3, <4>1
    <3>4. CASE l # k \/ w # v
      BY <2>2, <2>3, <3>1, <3>2, <3>4
    <3> QED BY <3>3, <3>4
  <2>5. Room'
    <3> SUFFICES ASSUME NEW l \in Keys, NEW w \in Values
                 PROVE  /\ IsFiniteSet(Pending(l, w)')
                        /\ Count(array'[l], w) + Cardinality(Pending(l, w)') <= appended'[l][w]
      BY DEF Room
    <3>1. Count(array[l], w) \in Nat
      BY CountType DEF TypeOK
    <3>2. Count(array[l], w) + Cardinality(Pending(l, w)) <= appended[l][w]
      BY DEF CountInv, Room
    <3> QED BY <2>1, <2>4, <3>1, <3>2
  <2>6. Promised'
    <3> SUFFICES ASSUME NEW o \in Goroutines, call'[o].pc = "write", NEW w \in Values,
                        NEW l, l = call'[o].key
                 PROVE  Count(Changed(call'[o]), w) + Cardinality(Pending(l, w)')
                           <= appended'[l][w]
      BY DEF Promised
    <3>1. call'[o] = call[o] /\ call[o].pc = "write"
      BY <2>1
    <3>2. call[o] \in Writing /\ l \in Keys
      BY <3>1, Reads, RecordTypes DEF TypeOK
    <3>3. Count(Changed(call[o]), w) \in Nat
      BY <3>2, ChangedType, CountType
    <3>4. Count(Changed(call[o]), w) + Cardinality(Pending(l, w)) <= appended[l][w]
      BY <3>1 DEF CountInv, Promised
    <3>5. Count(Changed(call'[o]), w) = Count(Changed(call[o]), w)
      BY <3>1, Zenon
    <3> QED BY <2>4, <3>2, <3>3, <3>4, <3>5
  <2> QED BY <2>5, <2>6
<1>3. ASSUME UNCHANGED appended,
             \A k \in Keys, v \in Values : Pending(k, v)' \subseteq Pending(k, v),
             \A g \in Goroutines : call'[g].pc = "write" => call'[g] = call[g]
      PROVE  Promised'
  <2> SUFFICES ASSUME NEW o \in Goroutines, call'[o].pc = "write", NEW w \in Values,
                      NEW l, l = call'[o].key
               PROVE  Count(Changed(call'[o]), w) + Cardinality(Pending(l, w)')
                         <= appended'[l][w]
    BY DEF Promised
  <2>1. call'[o] = call[o] /\ l \in Keys
    BY <1>3, Reads, RecordTypes DEF TypeOK
  <2> QED BY <1>3, <2>1, PromisedKept
<1>4. ASSUME NEW g \in Goroutines, NEW k \in Keys, NEW v \in Values, BeginDel(g, k, v)
      PROVE  Room' /\ Promised'
  <2> DEFINE new == [pc |-> "read", do |-> "del", key |-> k, value |-> v]
  <2>1. new.pc = "read" /\ new.do = "del"
    OBVIOUS
  <2>2. /\ call'[g] = new /\ array' = array /\ appended' = appended
        /\ \A o \in Goroutines \ {g} : call'[o] = call[o]
    BY <1>4 DEF BeginDel, Begin, TypeOK
  <2> HIDE DEF new
  <2>3. \A l \in Keys, w \in Values : Pending(l, w)' \subseteq Pending(l, w)
    BY <2>1, <2>2 DEF Pending
  <2>4. \A o \in Goroutines : call'[o].pc = "write" => call'[o] = call[o]
    BY <2>1, <2>2
  <2> QED BY <1>3, <2>2, <2>3, <2>4, RoomKept
<1>5. ASSUME NEW g \in Goroutines, GetArray(g)
      PROVE  Room' /\ Promised'
  <2>1. call[g] \in Reading /\ call[g].pc = "read"
    BY <1>5, Reads DEF GetArray, TypeOK
  <2>2. PICK k \in Keys, v \in Values, do \in {"append", "del"} :
           k = call[g].key /\ v = call[g].value /\ do = call[g].do
    BY <2>1, RecordTypes
  <2> DEFINE new == [pc |-> "write", do |-> do, key |-> k, value |-> v, copy |-> array[k]]
  <2>3. /\ call'[g] = new /\ array' = array /\ appended' = appended
        /\ \A o \in Goroutines \ {g} : call'[o] = call[o]
    BY <1>5, <2>2 DEF GetArray, TypeOK
  <2>4. /\ new.pc = "write" /\ new.key = k
        /\ Changed(new) = IF do = "append" THEN Append(array[k], v) ELSE RemoveFirst(array[k], v)
    BY DEF Changed
  <2> HIDE DEF new
  <2>5. \A l \in Keys, w \in Values : Pending(l, w)' \subseteq Pending(l, w)
    BY <2>3, <2>4 DEF Pending
  <2>6. Room'
    BY <2>3, <2>5, RoomKept
  <2>7. ASSUME NEW w \in Values
        PROVE  Count(Changed(new), w) + Cardinality(Pending(k, w)') <= appended[k][w]
    <3>1. /\ IsFiniteSet(Pending(k, w)) /\ IsFiniteSet(Pending(k, w)')
          /\ Cardinality(Pending(k, w)') <= Cardinality(Pending(k, w))
          /\ Cardinality(Pending(k, w)) \in Nat /\ Cardinality(Pending(k, w)') \in Nat
      BY <2>5, FS_Subset, FS_CardinalityType DEF CountInv, Room
    <3>2. Count(array[k], w) + Cardinality(Pending(k, w)) <= appended[k][w]
      BY DEF CountInv, Room
    <3>3. array[k] \in Seq(Values) /\ appended[k][w] \in Nat /\ Count(array[k], w) \in Nat
      BY CountType DEF TypeOK
    <3>4. CASE do = "append" /\ w = v
      <4>1. g \in Pending(k, w)
        BY <2>1, <2>2, <3>4 DEF Pending
      <4>2. Pending(k, w)' = Pending(k, w) \ {g}
        BY <2>3, <2>4 DEF Pending
      <4>3. Cardinality(Pending(k, w)') = Cardinality(Pending(k, w)) - 1
        BY <3>1, <4>1, <4>2, FS_RemoveElement
      <4>4. Count(Changed(new), w) = Count(array[k], w) + 1
        BY <2>4, <3>3, <3>4, CountAppend
      <4> QED BY <3>1, <3>2, <3>3, <4>3, <4>4
    <3>5. CASE do = "append" /\ w # v
      <4>1. Count(Changed(new), w) = Count(array[k], w)
        BY <2>4, <3>3, <3>5, CountAppend
      <4> QED BY <3>1, <3>2, <3>3, <4>1
    <3>6. CASE do = "del"
      <4>1. Changed(new) = RemoveFirst(array[k], v)
        BY <2>4, <3>6
      <4>2. Count(Changed(new), w) <= Count(array[k], w) /\ Count(Changed(new), w) \in Nat
        BY <3>3, <4>1, CountRemove, RemoveType, CountType
      <4> QED BY <3>1, <3>2, <3>3, <4>2
    <3> QED BY <3>4, <3>5, <3>6
  <2>8. Promised'
    <3> SUFFICES ASSUME NEW o \in Goroutines, call'[o].pc = "write", NEW w \in Values,
                        NEW l, l = call'[o].key
                 PROVE  Count(Changed(call'[o]), w) + Cardinality(Pending(l, w)')
                           <= appended'[l][w]
      BY DEF Promised
    <3>1. CASE o = g
      <4>1. l = k /\ Count(Changed(call'[o]), w) = Count(Changed(new), w)
        BY <2>3, <2>4, <3>1, Zenon
      <4> QED BY <2>3, <2>7, <4>1
    <3>2. CASE o # g
      <4>1. call'[o] = call[o]
        BY <2>3, <3>2
      <4>2. l \in Keys
        BY <4>1, Reads, RecordTypes DEF TypeOK
      <4> QED BY <2>3, <2>5, <4>1, <4>2, PromisedKept
    <3> QED BY <3>1, <3>2
  <2> QED BY <2>6, <2>8
<1>6. ASSUME NEW g \in Goroutines, SetArray(g)
      PROVE  Room' /\ Promised'
  <2>1. /\ call[g].pc = "write" /\ call'[g].pc = "idle" /\ appended' = appended
        /\ \A o \in Goroutines \ {g} : call'[o] = call[o]
    BY <1>6, RecordTypes DEF SetArray, TypeOK
  <2>2. \A l \in Keys, w \in Values : Pending(l, w)' \subseteq Pending(l, w)
    BY <2>1 DEF Pending
  <2>3. \A k \in Keys : array'[k] = array[k] \/ (call[g].key = k /\ array'[k] = Changed(call[g]))
    BY <1>6 DEF SetArray, TypeOK
  <2> QED BY <1>3, <2>1, <2>2, <2>3, RoomKept
<1>7. ASSUME NEW g \in Goroutines, NEW k \in Keys, DelKey(g, k)
      PROVE  Room' /\ Promised'
  <2>1. UNCHANGED <<call, appended>> /\ \A l \in Keys : array'[l] = array[l] \/ array'[l] = <<>>
    BY <1>7 DEF DelKey, TypeOK
  <2>2. \A l \in Keys, w \in Values : Pending(l, w)' \subseteq Pending(l, w)
    BY <2>1 DEF Pending
  <2> QED BY <1>3, <2>1, <2>2, RoomKept
<1>8. CASE Crash
  <2>1. array' = array /\ appended' = appended /\ \A g \in Goroutines : call'[g].pc = "idle"
    BY <1>8, RecordTypes DEF Crash
  <2>2. \A l \in Keys, w \in Values : Pending(l, w)' \subseteq Pending(l, w)
    BY <2>1 DEF Pending
  <2>3. \A k \in Keys : array'[k] = array[k]
    BY <2>1
  <2>4. Room'
    BY <2>1, <2>2, <2>3, RoomKept
  <2>5. \A g \in Goroutines : call'[g].pc = "write" => call'[g] = call[g]
    BY <2>1
  <2> QED BY <1>3, <2>1, <2>2, <2>4, <2>5 DEF CountInv
<1>9. CASE UNCHANGED vars
  <2>1. call' = call /\ array' = array /\ appended' = appended
    BY <1>9 DEF vars
  <2>2. \A l \in Keys, w \in Values : Pending(l, w)' \subseteq Pending(l, w)
    BY <2>1 DEF Pending
  <2>3. \A k \in Keys : array'[k] = array[k]
    BY <2>1
  <2>4. Room'
    BY <2>1, <2>2, <2>3, RoomKept
  <2>5. \A g \in Goroutines : call'[g].pc = "write" => call'[g] = call[g]
    BY <2>1
  <2> QED BY <1>3, <2>1, <2>2, <2>4, <2>5 DEF CountInv
<1> QED BY <1>1, <1>4, <1>5, <1>6, <1>7, <1>8, <1>9 DEF Next, CountInv

\* Overlapping calls of Append and Del (cache.go:44-56, 75-95), with restarts
\* between their read and their write, lose entries and bring deleted ones
\* back, but never hold one more often than it was recorded.
THEOREM NoneMultiplied == Spec => []NeverMultiplied
<1>1. Init => CountInv
  <2> SUFFICES ASSUME Init PROVE CountInv
    OBVIOUS
  <2>1. TypeOK
    BY DEF Init, TypeOK
  <2>2. \A k \in Keys, v \in Values : Pending(k, v) = {} /\ Positions(array[k], v) = {}
    BY RecordTypes DEF Init, Pending, Positions
  <2>3. ASSUME NEW k \in Keys, NEW v \in Values
        PROVE  /\ IsFiniteSet(Pending(k, v))
               /\ Count(array[k], v) + Cardinality(Pending(k, v)) <= appended[k][v]
    <3>1. Count(array[k], v) = 0 /\ Cardinality(Pending(k, v)) = 0 /\ IsFiniteSet(Pending(k, v))
      BY <2>2, FS_EmptySet DEF Count
    <3>2. appended[k][v] = 0
      BY DEF Init
    <3> QED BY <3>1, <3>2
  <2>4. Promised
    BY RecordTypes DEF Init, Promised
  <2> QED BY <2>1, <2>3, <2>4 DEF CountInv, Room
<1>2. CountInv /\ [Next]_vars => CountInv'
  BY CountStep
<1>3. CountInv => NeverMultiplied
  <2> SUFFICES ASSUME CountInv, NEW k \in Keys, NEW v \in Values
               PROVE  Count(array[k], v) <= appended[k][v]
    BY DEF NeverMultiplied
  <2>1. Cardinality(Pending(k, v)) \in Nat /\ Count(array[k], v) \in Nat /\ appended[k][v] \in Nat
    BY FS_CardinalityType, CountType DEF CountInv, Room, TypeOK
  <2>2. Count(array[k], v) + Cardinality(Pending(k, v)) <= appended[k][v]
    BY DEF CountInv, Room
  <2> QED BY <2>1, <2>2
<1> QED BY <1>1, <1>2, <1>3, PTL DEF Spec
=============================================================================
