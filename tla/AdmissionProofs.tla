---------------------------- MODULE AdmissionProofs ----------------------------
(***************************************************************************)
(* Proofs about Admission, for any Cores, keys, rates and bounds: the      *)
(* types with the size of the buckets, the rate at which a key is          *)
(* admitted, the records of the known keys, and the validators after a     *)
(* block that a restart delivers again.                                    *)
(*                                                                         *)
(* The rate rests on an account: what a key was let in for since one of    *)
(* its admissions, and what it could still be let in for at once, never    *)
(* exceed what the bucket held and what flowed in (Budget).  The           *)
(* validators rest on the last vote on each Core in the block, and in what *)
(* of the block is still to be delivered again (LastVotes).                *)
(***************************************************************************)
EXTENDS Admission, FiniteSetTheorems, TLAPS

Limits  == {"BTC-A", "FEE"}
Blocks  == [type : {"VAL"}, vote : Votes]
           \cup [type : {"JWK"}, core : Cores, key : Keys, uri : Uris]
           \cup [type : {"BTC-C"}, core : Cores]
Outcome == [vals : SUBSET Cores, updates : Seq(Votes)]
Entry   == [at : Nat, restarts : Nat]

(* Every bucket fits, and was filled up to no later block than this one.    *)
Fits(recs) ==
    \A k \in Keys, t \in Types : recs[k] # NoRecord =>
        recs[k].bucket[t] <= Allowed[t] * PerBlocks[t] /\ recs[k].check[t] <= height

Typed ==
    /\ TypeOK
    /\ saved \in [height : Nat, records : Records, uris : [Cores -> Uris \cup {NoUri}]]
    /\ saved.height = height /\ Fits(saved.records)
    /\ chain \in [vals : SUBSET Cores, once : Outcome, keys : [Cores -> Keys \cup {NoKey}],
                  replayed : BOOLEAN]
    /\ block \in Seq(Blocks) /\ redo \in Seq(Blocks)
    /\ admitted \in [Keys -> [Limits -> Seq(Entry)]]
    /\ restarts \in Nat /\ checks \in Nat /\ delivered \in Nat

(* No record was ever read as the zero value and written back.              *)
Rated(recs) == \A k \in Keys : recs[k] # NoRecord => recs[k].rated
AllRated    == Rated(records) /\ Rated(saved.records)

(* The tokens the bucket of a record would hold after an update now; a key  *)
(* without a record may come to have a full bucket.                         *)
Flow(r, t) == Least(r.bucket[t] + (height - r.check[t]) * Allowed[t], Allowed[t] * PerBlocks[t])
Tokens(k, t) ==
    IF records[k] = NoRecord THEN Allowed[t] * PerBlocks[t] ELSE Flow(records[k], t)

(* The account of one key: the admissions s, the tokens at hand, now.       *)
Account(s, tok, t, h, n) ==
    \A i \in 1 .. Len(s) :
        /\ s[i].at <= h /\ s[i].restarts <= n
        /\ (Len(s) - i + 1) * PerBlocks[t] + tok
             <= Allowed[t] * (PerBlocks[t] * (1 + n - s[i].restarts) + h - s[i].at)

Budget ==
    \A k \in Keys, t \in Limits : Account(admitted[k][t], Tokens(k, t), t, height, restarts)

(* What WithinRate says of one key.                                         *)
Rate(s, t) ==
    \A i, j \in 1 .. Len(s) : i < j =>
        (j - i + 1) * PerBlocks[t] <=
            Allowed[t] * (PerBlocks[t] * (1 + s[j].restarts - s[i].restarts)
                          + s[j].at - s[i].at)

(* What is delivered again is the end of the block.                         *)
Replay ==
    /\ Len(redo) <= Len(block)
    /\ \A n \in 1 .. Len(redo) : redo[n] = block[Len(block) - Len(redo) + n]
    /\ phase = "between" => redo = block
    /\ phase = "ended" => redo = <<>>

VoteOn(tx, c) == tx.type = "VAL" /\ tx.vote.id = c
Voted(s, c)   == \E n \in 1 .. Len(s) : VoteOn(s[n], c)
Decides(s, n, c) ==
    /\ VoteOn(s[n], c)
    /\ \A m \in 1 .. Len(s) : m > n => ~VoteOn(s[m], c)

Agrees(s, c) ==
    /\ \A n \in 1 .. Len(s) : Decides(s, n, c) =>
           (s[n].vote.power = 1 <=> c \in chain.once.vals)
    /\ ~Voted(s, c) => (c \in vals <=> c \in chain.once.vals)

LastVotes == \A c \in Cores : Agrees(block, c) /\ Agrees(redo, c)

(* A block delivered for the first time.                                    *)
Fresh ==
    ~chain.replayed =>
        /\ redo = <<>>
        /\ IF phase = "between" THEN chain.once.updates = <<>>
                                ELSE updates = chain.once.updates

Vals(s, n) == {m \in 1 .. n : s[m].type = "VAL"}

(* In a block without a removal every VAL makes an update, each time.       *)
Pace ==
    (\A n \in 1 .. Len(block) : block[n].type = "VAL" => block[n].vote.power # 0) =>
        /\ Len(chain.once.updates) = Cardinality(Vals(block, Len(block)))
        /\ \A n \in 1 .. Len(block) : block[n].type = "VAL" =>
               chain.once.updates[Cardinality(Vals(block, n))] = block[n].vote
        /\ phase # "between" =>
               /\ Len(updates) = Cardinality(Vals(block, Len(block) - Len(redo)))
               /\ \A j \in 1 .. Len(updates) : updates[j] = chain.once.updates[j]

Rates == \A k \in Keys, t \in Limits : Rate(admitted[k][t], t)

AdmissionInv ==
    /\ Typed /\ KeysRecorded /\ AllRated /\ Rates /\ Budget
    /\ Replay /\ LastVotes /\ Fresh /\ Pace

-----------------------------------------------------------------------------
(* Operators: the account of a key, and the records Validate makes.         *)

LEMMA Products ==
    ASSUME NEW t \in Types
    PROVE  /\ Allowed[t] \in Nat /\ PerBlocks[t] \in Nat
           /\ Allowed[t] * PerBlocks[t] \in Nat
           /\ PerBlocks[t] <= Allowed[t] * PerBlocks[t]
<1> DEFINE a == Allowed[t]
           p == PerBlocks[t]
<1>1. a \in Nat /\ p \in Nat /\ a >= 1 BY AdmissionAssumption
<1>2. a * p \in Nat /\ p <= a * p
  <2> HIDE DEF a, p
  <2>1. \A x, y \in Nat : x >= 1 => x * y \in Nat /\ y <= x * y OBVIOUS
  <2> QED BY <1>1, <2>1
<1> QED BY <1>1, <1>2

LEMMA TimesInt == ASSUME NEW x \in Int, NEW y \in Int PROVE x * y \in Int
OBVIOUS

LEMMA LessInt ==
    ASSUME NEW x \in Nat, NEW y \in Nat
    PROVE  x - y \in Int /\ 1 + x - y \in Int
OBVIOUS

LEMMA LimitsAreTypes == Limits \subseteq Types
BY DEF Limits, Types

LEMMA EntryFields ==
    ASSUME NEW s \in Seq(Entry), NEW i \in 1 .. Len(s)
    PROVE  s[i] \in Entry /\ s[i].at \in Nat /\ s[i].restarts \in Nat
<1>1. s[i] \in Entry OBVIOUS
<1> QED BY <1>1 DEF Entry

LEMMA LimitNumbers ==
    ASSUME NEW t \in Limits
    PROVE  /\ Allowed[t] \in Int /\ PerBlocks[t] \in Int
           /\ PerBlocks[t] * 1 + 0 = PerBlocks[t]
<1>1. Allowed[t] \in Nat /\ PerBlocks[t] \in Nat BY AdmissionAssumption DEF Limits, Types
<1> QED BY <1>1

(* The two sides of the account at one admission, in numbers only; y is the *)
(* one that grows with a block or a restart.                                *)
Sides(x, y, s, t, i, h, n) ==
    /\ x = (Len(s) - i + 1) * PerBlocks[t]
    /\ y = Allowed[t] * (PerBlocks[t] * (1 + n - s[i].restarts) + h - s[i].at)
    /\ Allowed[t] * (PerBlocks[t] * (1 + n - s[i].restarts) + (h + 1) - s[i].at)
         = y + Allowed[t]
    /\ Allowed[t] * (PerBlocks[t] * (1 + (n + 1) - s[i].restarts) + h - s[i].at)
         = y + Allowed[t] * PerBlocks[t]

\* The arithmetic of it, of numbers without their meaning.
LEMMA Sums ==
    ASSUME NEW a \in Int, NEW p \in Int, NEW k \in Int, NEW h \in Int, NEW at \in Int,
           NEW n \in Int, NEW r \in Int
    PROVE  /\ k * p \in Int /\ a * (p * (1 + n - r) + h - at) \in Int
           /\ a * (p * (1 + n - r) + (h + 1) - at) = a * (p * (1 + n - r) + h - at) + a
           /\ a * (p * (1 + (n + 1) - r) + h - at) = a * (p * (1 + n - r) + h - at) + a * p
<1> DEFINE m == 1 + n - r
           pm == p * m
           q == pm + h - at
<1>1. m \in Int /\ 1 + (n + 1) - r = m + 1 OBVIOUS
<1>2. pm \in Int /\ p * (m + 1) = pm + p
  <2> HIDE DEF m
  <2> QED BY <1>1
<1>3. /\ q \in Int /\ p * (1 + n - r) + (h + 1) - at = q + 1
      /\ p * (1 + (n + 1) - r) + h - at = q + p
  <2>1. p * (1 + n - r) = pm /\ p * (1 + (n + 1) - r) = pm + p BY <1>1, <1>2
  <2>2. q \in Int /\ pm + (h + 1) - at = q + 1 /\ (pm + p) + h - at = q + p
    <3>1. pm \in Int BY <1>2
    <3> HIDE DEF pm
    <3> QED BY <3>1
  <2> QED BY <2>1, <2>2
<1> HIDE DEF q
<1>4. a * q \in Int /\ a * (q + 1) = a * q + a /\ a * (q + p) = a * q + a * p BY <1>3
<1>5. k * p \in Int OBVIOUS
<1> QED BY <1>3, <1>4, <1>5 DEF q

LEMMA Numbers ==
    ASSUME NEW t \in Limits, NEW s \in Seq(Entry), NEW i \in 1 .. Len(s),
           NEW h \in Nat, NEW n \in Nat
    PROVE  \E x, y \in Int : Sides(x, y, s, t, i, h, n)
<1>1. PICK a, p, k, at, r \in Int :
         /\ a = Allowed[t] /\ p = PerBlocks[t]
         /\ k = Len(s) - i + 1 /\ at = s[i].at /\ r = s[i].restarts
  <2>1. s[i].at \in Int /\ s[i].restarts \in Int BY EntryFields
  <2>2. Len(s) - i + 1 \in Int OBVIOUS
  <2> QED BY <2>1, <2>2, LimitNumbers
<1>2. h \in Int /\ n \in Int OBVIOUS
<1>3. PICK x, y \in Int :
         /\ x = k * p /\ y = a * (p * (1 + n - r) + h - at)
         /\ a * (p * (1 + n - r) + (h + 1) - at) = y + a
         /\ a * (p * (1 + (n + 1) - r) + h - at) = y + a * p
  BY <1>2, Sums
<1>4. Sides(x, y, s, t, i, h, n) BY <1>1, <1>3, Zenon DEF Sides
<1> QED BY <1>4, Zenon

LEMMA FewerTokens ==
    ASSUME NEW t \in Limits, NEW s \in Seq(Entry), NEW tok \in Int, NEW h \in Nat, NEW n \in Nat,
           NEW tok2 \in Int, Account(s, tok, t, h, n), tok2 <= tok
    PROVE  Account(s, tok2, t, h, n)
<1> SUFFICES ASSUME NEW i \in 1 .. Len(s)
             PROVE  (Len(s) - i + 1) * PerBlocks[t] + tok2
                      <= Allowed[t] * (PerBlocks[t] * (1 + n - s[i].restarts) + h - s[i].at)
  BY DEF Account
<1>0. PICK x, y \in Int : Sides(x, y, s, t, i, h, n) BY Numbers
<1>1. /\ x = (Len(s) - i + 1) * PerBlocks[t]
      /\ y = Allowed[t] * (PerBlocks[t] * (1 + n - s[i].restarts) + h - s[i].at)
  BY <1>0 DEF Sides
<1>2. x + tok <= y BY <1>1 DEF Account
<1>3. x + tok2 <= y BY <1>2
<1> QED BY <1>1, <1>3

(* One block more: AllowedRate / PerBlocks tokens flow in.                  *)
LEMMA NextBlock ==
    ASSUME NEW t \in Limits, NEW s \in Seq(Entry), NEW tok \in Int, NEW h \in Nat, NEW n \in Nat,
           NEW tok2 \in Int, Account(s, tok, t, h, n), tok2 <= tok + Allowed[t]
    PROVE  Account(s, tok2, t, h + 1, n)
<1> SUFFICES ASSUME NEW i \in 1 .. Len(s)
             PROVE  /\ s[i].at <= h + 1 /\ s[i].restarts <= n
                    /\ (Len(s) - i + 1) * PerBlocks[t] + tok2
                         <= Allowed[t] * (PerBlocks[t] * (1 + n - s[i].restarts) + (h + 1) - s[i].at)
  BY DEF Account
<1>0. PICK x, y \in Int : Sides(x, y, s, t, i, h, n) BY Numbers
<1>1. /\ x = (Len(s) - i + 1) * PerBlocks[t]
      /\ y = Allowed[t] * (PerBlocks[t] * (1 + n - s[i].restarts) + h - s[i].at)
      /\ Allowed[t] * (PerBlocks[t] * (1 + n - s[i].restarts) + (h + 1) - s[i].at)
           = y + Allowed[t]
  BY <1>0 DEF Sides
<1>2. x + tok <= y /\ s[i].at <= h /\ s[i].restarts <= n BY <1>1 DEF Account
<1>3. Allowed[t] \in Int BY LimitNumbers, Zenon
<1>4. x + tok2 <= y + Allowed[t]
  <2>1. \A u, v, w, z, g \in Int : u + w <= v /\ z <= w + g => u + z <= v + g OBVIOUS
  <2> QED BY <1>2, <1>3, <2>1, Zenon
<1>5. s[i].at \in Nat BY EntryFields
<1>6. s[i].at <= h + 1 BY <1>2, <1>5
<1> QED BY <1>1, <1>2, <1>4, <1>6

LEMMA Monotone ==
    ASSUME NEW t \in Limits, NEW m \in Int, NEW m2 \in Int, NEW d \in Int, NEW d2 \in Int,
           m <= m2, d <= d2
    PROVE  Allowed[t] * (PerBlocks[t] * m + d) <= Allowed[t] * (PerBlocks[t] * m2 + d2)
<1>1. Allowed[t] \in Nat /\ PerBlocks[t] \in Nat BY AdmissionAssumption DEF Limits, Types
<1>2. \A a \in Nat, x, y \in Int : x <= y => a * x <= a * y /\ a * x \in Int OBVIOUS
<1> DEFINE q == PerBlocks[t] * m
           q2 == PerBlocks[t] * m2
<1>3. q <= q2 /\ q \in Int /\ q2 \in Int BY <1>1, <1>2
<1> HIDE DEF q, q2
<1>4. q + d <= q2 + d2 /\ q + d \in Int /\ q2 + d2 \in Int BY <1>3
<1>5. Allowed[t] * (q + d) <= Allowed[t] * (q2 + d2) BY <1>1, <1>2, <1>4
<1> QED BY <1>5 DEF q, q2

(* A restart forgets what was charged since the last Commit, at most a      *)
(* whole bucket; every admission so far was within the rate.                *)
LEMMA Restarted ==
    ASSUME NEW t \in Limits, NEW s \in Seq(Entry), NEW tok \in Int, NEW h \in Nat, NEW n \in Nat,
           NEW tok2 \in Int, Account(s, tok, t, h, n), Rate(s, t),
           tok2 <= Allowed[t] * PerBlocks[t]
    PROVE  Account(s, tok2, t, h, n + 1)
<1> SUFFICES ASSUME NEW i \in 1 .. Len(s)
             PROVE  /\ s[i].at <= h /\ s[i].restarts <= n + 1
                    /\ (Len(s) - i + 1) * PerBlocks[t] + tok2
                         <= Allowed[t] * (PerBlocks[t] * (1 + (n + 1) - s[i].restarts) + h - s[i].at)
  BY DEF Account
<1>a. PICK x, y \in Int : Sides(x, y, s, t, i, h, n) BY Numbers
<1>1. /\ x = (Len(s) - i + 1) * PerBlocks[t]
      /\ y = Allowed[t] * (PerBlocks[t] * (1 + n - s[i].restarts) + h - s[i].at)
      /\ Allowed[t] * (PerBlocks[t] * (1 + (n + 1) - s[i].restarts) + h - s[i].at)
           = y + Allowed[t] * PerBlocks[t]
  BY <1>a DEF Sides
<1>2. s[i].at <= h /\ s[i].restarts <= n BY DEF Account
<1>3. s[i].at \in Nat /\ s[i].restarts \in Nat BY EntryFields
<1>4. s[i].restarts <= n + 1 BY <1>2, <1>3
<1> DEFINE l == Len(s)
<1>5. l \in 1 .. Len(s) /\ l \in Nat /\ i <= l OBVIOUS
<1>6. /\ s[l].at \in Nat /\ s[l].restarts \in Nat
      /\ s[l].at <= h /\ s[l].restarts <= n
  <2>1. s[l].at <= h /\ s[l].restarts <= n BY <1>5 DEF Account
  <2> QED BY <1>5, <2>1, EntryFields
<1>0. Allowed[t] \in Int /\ PerBlocks[t] \in Int BY LimitNumbers, Zenon
<1>7. Allowed[t] * (PerBlocks[t] * (1 + s[l].restarts - s[i].restarts) + (s[l].at - s[i].at)) <= y
  <2>1. /\ 1 + s[l].restarts - s[i].restarts \in Int /\ 1 + n - s[i].restarts \in Int
        /\ 1 + s[l].restarts - s[i].restarts <= 1 + n - s[i].restarts
        /\ s[l].at - s[i].at \in Int /\ h - s[i].at \in Int
        /\ s[l].at - s[i].at <= h - s[i].at
    <3> DEFINE sl == s[l]
               si == s[i]
    <3>1. /\ sl.at \in Nat /\ sl.restarts \in Nat /\ sl.at <= h /\ sl.restarts <= n
          /\ si.at \in Nat /\ si.restarts \in Nat
      BY <1>3, <1>6
    <3> HIDE DEF sl, si, l
    <3>2. /\ 1 + sl.restarts - si.restarts \in Int /\ 1 + n - si.restarts \in Int
          /\ 1 + sl.restarts - si.restarts <= 1 + n - si.restarts
          /\ sl.at - si.at \in Int /\ h - si.at \in Int
          /\ sl.at - si.at <= h - si.at
      <4>1. \A r, u, v \in Nat : r <= v => /\ 1 + r - u \in Int /\ 1 + v - u \in Int
                                           /\ 1 + r - u <= 1 + v - u
        OBVIOUS
      <4>2. \A r, u, v \in Nat : r <= v => /\ r - u \in Int /\ v - u \in Int /\ r - u <= v - u
        OBVIOUS
      <4> QED BY <3>1, <4>1, <4>2
    <3> QED BY <3>2 DEF sl, si
  <2>2. y = Allowed[t] * (PerBlocks[t] * (1 + n - s[i].restarts) + (h - s[i].at))
    <3> DEFINE m == 1 + n - s[i].restarts
               q == PerBlocks[t] * m
    <3>1. q \in Int
      <4>1. m \in Int BY <2>1
      <4> HIDE DEF m
      <4> QED BY <1>0, <4>1
    <3>2. y = Allowed[t] * (q + h - s[i].at) BY <1>1
    <3> HIDE DEF q
    <3>3. q + h - s[i].at = q + (h - s[i].at) BY <1>3, <3>1 DEF q
    <3> QED BY <3>2, <3>3 DEF q
  <2> QED BY <2>1, <2>2, Monotone
<1>8. x <= y
  <2>1. CASE i = l
    <3>1. x = PerBlocks[t]
      <4>1. x = (l - l + 1) * PerBlocks[t] BY <1>1, <2>1
      <4> HIDE DEF l
      <4>2. l - l + 1 = 1 BY <1>5
      <4> QED BY <1>0, <4>1, <4>2
    <3>2. Allowed[t] * (PerBlocks[t] * (1 + s[l].restarts - s[i].restarts) + (s[l].at - s[i].at))
            = Allowed[t] * PerBlocks[t]
      <4>1. 1 + s[l].restarts - s[i].restarts = 1 /\ s[l].at - s[i].at = 0 BY <1>3, <2>1
      <4>2. PerBlocks[t] * 1 + 0 = PerBlocks[t] BY LimitNumbers, Zenon
      <4> QED BY <4>1, <4>2
    <3>3. PerBlocks[t] <= Allowed[t] * PerBlocks[t] /\ Allowed[t] * PerBlocks[t] \in Nat
          /\ PerBlocks[t] \in Nat
      BY Products, LimitsAreTypes
    <3> QED BY <1>7, <3>1, <3>2, <3>3
  <2>2. CASE i # l
    <3>1. i < l BY <1>5, <2>2
    <3>2. (l - i + 1) * PerBlocks[t]
            <= Allowed[t] * (PerBlocks[t] * (1 + s[l].restarts - s[i].restarts) + s[l].at - s[i].at)
      BY <1>5, <3>1 DEF Rate
    <3> DEFINE m == 1 + s[l].restarts - s[i].restarts
               q == PerBlocks[t] * m
    <3>3. q \in Int
      <4>1. m \in Int BY <1>3, <1>6, LessInt, Zenon
      <4> HIDE DEF m
      <4> QED BY <1>0, <4>1, TimesInt, Zenon
    <3>4. x <= Allowed[t] * (q + s[l].at - s[i].at) BY <1>1, <3>2
    <3>5. Allowed[t] * (q + (s[l].at - s[i].at)) <= y BY <1>7
    <3> HIDE DEF q, l
    <3>6. q + s[l].at - s[i].at = q + (s[l].at - s[i].at) BY <1>3, <1>6, <3>3
    <3> DEFINE w == q + (s[l].at - s[i].at)
               z == Allowed[t] * w
    <3>7. z \in Int
      <4>1. s[l].at - s[i].at \in Int BY <1>3, <1>6, LessInt, Zenon
      <4>2. \A u, v \in Int : u + v \in Int OBVIOUS
      <4>3. w \in Int BY <3>3, <4>1, <4>2, Zenon
      <4> HIDE DEF w
      <4> QED BY <1>0, <4>3, TimesInt, Zenon
    <3>8. x <= z /\ z <= y BY <3>4, <3>5, <3>6
    <3> HIDE DEF z
    <3> QED BY <3>7, <3>8
  <2> QED BY <2>1, <2>2
<1>9. Allowed[t] * PerBlocks[t] \in Nat BY Products, LimitsAreTypes
<1>10. x + tok2 <= y + Allowed[t] * PerBlocks[t] BY <1>8, <1>9
<1> QED BY <1>1, <1>2, <1>4, <1>10

(* One admission more, which takes one token of the bucket.                 *)
LEMMA OneMore ==
    ASSUME NEW t \in Limits, NEW s \in Seq(Entry), NEW tok \in Int, NEW h \in Nat, NEW n \in Nat,
           Account(s, tok, t, h, n), Rate(s, t), tok <= Allowed[t] * PerBlocks[t],
           PerBlocks[t] <= tok
    PROVE  LET more == Append(s, [at |-> h, restarts |-> n])
           IN more \in Seq(Entry) /\ Account(more, tok - PerBlocks[t], t, h, n) /\ Rate(more, t)
<1> DEFINE e == [at |-> h, restarts |-> n]
           more == Append(s, e)
           l == Len(s)
<1>0. Allowed[t] \in Nat /\ PerBlocks[t] \in Nat /\ Allowed[t] * PerBlocks[t] \in Nat
  BY Products, LimitsAreTypes
<1>1. e \in Entry BY DEF Entry
<1>2. /\ more \in Seq(Entry) /\ Len(more) = l + 1 /\ l \in Nat /\ more[l + 1] = e
      /\ \A i \in 1 .. l : more[i] = s[i]
  <2> HIDE DEF e
  <2> QED BY <1>1
<1> HIDE DEF more
<1>3. \A i \in 1 .. l + 1 : i \in 1 .. l \/ i = l + 1 BY <1>2
<1>4. ASSUME NEW i \in 1 .. l
      PROVE  /\ s[i].at <= h /\ s[i].restarts <= n
             /\ ((l + 1) - i + 1) * PerBlocks[t] + (tok - PerBlocks[t])
                  <= Allowed[t] * (PerBlocks[t] * (1 + n - s[i].restarts) + h - s[i].at)
             /\ ((l + 1) - i + 1) * PerBlocks[t]
                  <= Allowed[t] * (PerBlocks[t] * (1 + n - s[i].restarts) + h - s[i].at)
  <2>0. PICK x, y \in Int : Sides(x, y, s, t, i, h, n) BY Numbers
  <2>1. /\ x = (Len(s) - i + 1) * PerBlocks[t]
        /\ y = Allowed[t] * (PerBlocks[t] * (1 + n - s[i].restarts) + h - s[i].at)
        /\ Allowed[t] * (PerBlocks[t] * (1 + n - s[i].restarts) + (h + 1) - s[i].at)
             = y + Allowed[t]
    BY <2>0 DEF Sides
  <2>2. x + tok <= y /\ s[i].at <= h /\ s[i].restarts <= n BY <2>1 DEF Account
  <2>3. ((l + 1) - i + 1) * PerBlocks[t] = x + PerBlocks[t]
    <3> DEFINE d == l - i + 1
               p == PerBlocks[t]
    <3>1. (l + 1) - i + 1 = d + 1 /\ d \in Int BY <1>2
    <3>2. p \in Int BY <1>0
    <3>3. x = d * p BY <2>1
    <3> HIDE DEF d, p
    <3>4. (d + 1) * p = d * p + p BY <3>1, <3>2
    <3> QED BY <3>1, <3>3, <3>4 DEF p
  <2>4. x + PerBlocks[t] + (tok - PerBlocks[t]) <= y /\ x + PerBlocks[t] <= y
    <3>1. \A u, v, w, p \in Int : u + w <= v /\ p <= w => u + p + (w - p) <= v /\ u + p <= v
      OBVIOUS
    <3>2. PerBlocks[t] \in Int BY LimitNumbers, Zenon
    <3> QED BY <2>2, <3>1, <3>2, Zenon
  <2> QED BY <2>1, <2>2, <2>3, <2>4
<1>5. /\ ((l + 1) - (l + 1) + 1) * PerBlocks[t] + (tok - PerBlocks[t]) = tok
      /\ Allowed[t] * (PerBlocks[t] * (1 + n - n) + h - h) = Allowed[t] * PerBlocks[t]
  <2>1. (l + 1) - (l + 1) + 1 = 1 /\ 1 + n - n = 1 BY <1>2
  <2>2. 1 * PerBlocks[t] = PerBlocks[t] /\ PerBlocks[t] * 1 = PerBlocks[t]
        /\ PerBlocks[t] + h - h = PerBlocks[t] /\ PerBlocks[t] + (tok - PerBlocks[t]) = tok
    BY <1>0
  <2> QED BY <2>1, <2>2
<1>6. Account(more, tok - PerBlocks[t], t, h, n)
  <2> SUFFICES ASSUME NEW i \in 1 .. l + 1
               PROVE  /\ more[i].at <= h /\ more[i].restarts <= n
                      /\ ((l + 1) - i + 1) * PerBlocks[t] + (tok - PerBlocks[t])
                           <= Allowed[t] * (PerBlocks[t] * (1 + n - more[i].restarts) + h - more[i].at)
    BY <1>2 DEF Account
  <2>1. CASE i \in 1 .. l
    <3>1. more[i] = s[i] BY <1>2, <2>1
    <3> HIDE DEF l
    <3> QED BY <1>4, <2>1, <3>1
  <2>2. CASE i = l + 1
    <3>1. more[i].at = h /\ more[i].restarts = n BY <1>2, <2>2
    <3> HIDE DEF l
    <3> QED BY <1>5, <2>2, <3>1
  <2> QED BY <1>3, <2>1, <2>2
<1>7. Rate(more, t)
  <2> SUFFICES ASSUME NEW i \in 1 .. l + 1, NEW j \in 1 .. l + 1, i < j
               PROVE  (j - i + 1) * PerBlocks[t]
                        <= Allowed[t] * (PerBlocks[t] * (1 + more[j].restarts - more[i].restarts)
                                         + more[j].at - more[i].at)
    BY <1>2 DEF Rate
  <2>0. i \in 1 .. l BY <1>2
  <2>1. CASE j \in 1 .. l
    <3>1. more[i] = s[i] /\ more[j] = s[j] BY <1>2, <2>0, <2>1
    <3> QED BY <2>0, <2>1, <3>1 DEF Rate
  <2>2. CASE j = l + 1
    <3>1. more[i] = s[i] /\ more[j].at = h /\ more[j].restarts = n BY <1>2, <2>0, <2>2
    <3> HIDE DEF l
    <3> QED BY <1>4, <2>0, <2>2, <3>1
  <2> QED BY <1>3, <2>1, <2>2
<1> QED BY <1>2, <1>6, <1>7 DEF more

LEMMA LeastOf ==
    ASSUME NEW m \in Int, NEW n \in Int
    PROVE  Least(m, n) \in Int /\ Least(m, n) <= m /\ Least(m, n) <= n
           /\ (m <= n => Least(m, n) = m)
BY DEF Least

LEMMA RecordFields ==
    ASSUME NEW r \in Record, NEW t \in Types
    PROVE  /\ r.bucket[t] \in Int /\ r.check[t] \in Nat /\ r.seen[t] \in Nat
           /\ r.rated \in BOOLEAN /\ r.anchors \in Nat /\ r.changes \in Nat
           /\ r.bucket \in [Types -> Int] /\ r.check \in [Types -> Nat] /\ r.seen \in [Types -> Nat]
BY DEF Record

LEMMA FlowBound ==
    ASSUME NEW r \in Record, NEW t \in Types, height \in Nat
    PROVE  Flow(r, t) \in Int /\ Flow(r, t) <= Allowed[t] * PerBlocks[t]
<1>1. r.bucket[t] \in Int /\ height - r.check[t] \in Int
  <2>1. r.bucket[t] \in Int /\ r.check[t] \in Nat BY RecordFields
  <2> QED BY <2>1
<1> DEFINE d == height - r.check[t]
<1>2. d * Allowed[t] \in Int
  <2>1. d \in Int /\ Allowed[t] \in Int BY <1>1, Products
  <2> HIDE DEF d
  <2> QED BY <2>1
<1> DEFINE q == d * Allowed[t]
<1>3. Flow(r, t) = Least(r.bucket[t] + q, Allowed[t] * PerBlocks[t]) BY DEF Flow
<1> HIDE DEF q, d
<1>4. Allowed[t] * PerBlocks[t] \in Int BY Products
<1>5. r.bucket[t] + q \in Int BY <1>1, <1>2 DEF q
<1> QED BY <1>3, <1>4, <1>5, LeastOf

LEMMA RateLimitUpdateFacts ==
    ASSUME NEW r \in Record, r.rated, NEW t \in Types, height \in Nat
    PROVE  LET u == RateLimitUpdate(r, t)
           IN  /\ u \in Record /\ u.rated
               /\ u.check = [r.check EXCEPT ![t] = height]
               /\ u.bucket = [r.bucket EXCEPT ![t] = Flow(r, t)]
<1> DEFINE c == [r.check EXCEPT ![t] = height]
           b == [r.bucket EXCEPT ![t] = Flow(r, t)]
           u == RateLimitUpdate(r, t)
<1>1. u = [r EXCEPT !.check = c, !.bucket = b] BY DEF RateLimitUpdate, Flow
<1>2. c \in [Types -> Nat] BY RecordFields
<1>3. b \in [Types -> Int]
  <2>1. Flow(r, t) \in Int BY FlowBound
  <2> QED BY <2>1, RecordFields
<1> HIDE DEF c, b, u
<1>4. u \in Record /\ u.rated = r.rated /\ u.check = c /\ u.bucket = b
  BY <1>1, <1>2, <1>3 DEF Record
<1> QED BY <1>4 DEF c, b, u

LEMMA UpdateAcceptTxFacts ==
    ASSUME NEW r \in Record, r.rated, NEW t \in Types, height \in Nat
    PROVE  LET u == UpdateAcceptTx(r, t)
           IN  /\ u \in Record /\ u.rated
               /\ u.check = r.check
               /\ u.bucket = [r.bucket EXCEPT ![t] = r.bucket[t] - PerBlocks[t]]
<1> DEFINE c == [r.seen EXCEPT ![t] = height]
           b == [r.bucket EXCEPT ![t] = r.bucket[t] - PerBlocks[t]]
           u == UpdateAcceptTx(r, t)
<1>1. u = [r EXCEPT !.bucket = b, !.seen = c] BY DEF UpdateAcceptTx
<1>2. c \in [Types -> Nat] BY RecordFields
<1>3. b \in [Types -> Int]
  <2>1. r.bucket[t] - PerBlocks[t] \in Int BY RecordFields, Products
  <2> QED BY <2>1, RecordFields
<1> HIDE DEF c, b, u
<1>4. u \in Record /\ u.rated = r.rated /\ u.check = r.check /\ u.bucket = b
  BY <1>1, <1>2, <1>3 DEF Record
<1> QED BY <1>4 DEF c, b, u

(* A bucket that was filled up at this height is what it holds.             *)
LEMMA FlowNow ==
    ASSUME NEW r \in Record, NEW t \in Types, height \in Nat, r.check[t] = height,
           r.bucket[t] <= Allowed[t] * PerBlocks[t]
    PROVE  Flow(r, t) = r.bucket[t]
<1>1. (height - r.check[t]) * Allowed[t] = 0
  <2>1. height - r.check[t] = 0 OBVIOUS
  <2>2. Allowed[t] \in Int BY Products
  <2> QED BY <2>1, <2>2
<1>2. r.bucket[t] \in Int BY RecordFields
<1>3. Flow(r, t) = Least(r.bucket[t] + 0, Allowed[t] * PerBlocks[t]) BY <1>1 DEF Flow
<1>4. Allowed[t] * PerBlocks[t] \in Int BY Products
<1> DEFINE q == Allowed[t] * PerBlocks[t]
<1> HIDE DEF q
<1>5. Least(r.bucket[t] + 0, q) = r.bucket[t] BY <1>2, <1>4, LeastOf DEF q
<1> QED BY <1>3, <1>5 DEF q

LEMMA SameFlow ==
    ASSUME NEW r, NEW v, NEW t \in Types, v.bucket[t] = r.bucket[t], v.check[t] = r.check[t]
    PROVE  Flow(v, t) = Flow(r, t)
BY DEF Flow

(* What a transaction may do to a record: it stays a rated one, its buckets *)
(* are filled up at most, and one that only the limiter lets in finds a     *)
(* token and takes it.                                                      *)
Handles(r, v, tx) ==
    /\ v \in Record /\ v.rated
    /\ \A t \in Types : /\ v.check[t] <= height /\ v.bucket[t] <= Allowed[t] * PerBlocks[t]
                        /\ Flow(v, t) <= Flow(r, t)
    /\ tx.type \in Limits /\ ~IsValidator(tx.core) /\ Charged(tx, RateLimitUpdate(r, tx.type)) =>
           /\ PerBlocks[tx.type] <= Flow(r, tx.type)
           /\ Flow(v, tx.type) = Flow(r, tx.type) - PerBlocks[tx.type]

Fit(r) == \A t \in Types : r.bucket[t] <= Allowed[t] * PerBlocks[t] /\ r.check[t] <= height

LEMMA OthersKept ==
    ASSUME NEW r \in Record, Fit(r), r.rated, NEW v \in Record, v.rated, height \in Nat,
           v.bucket = r.bucket, v.check = r.check
    PROVE  Fit(v) /\ \A t \in Types : Flow(v, t) <= Flow(r, t)
<1>1. Fit(v) BY DEF Fit
<1>2. ASSUME NEW t \in Types PROVE Flow(v, t) <= Flow(r, t)
  <2>1. Flow(v, t) = Flow(r, t) BY SameFlow
  <2>2. Flow(r, t) \in Int BY FlowBound
  <2> QED BY <2>1, <2>2
<1> QED BY <1>1, <1>2

(* The update alone: every bucket fits, and none holds more than it would.  *)
LEMMA UpdateKept ==
    ASSUME NEW r \in Record, Fit(r), r.rated, height \in Nat, NEW t \in Types
    PROVE  LET u == RateLimitUpdate(r, t)
           IN  /\ u \in Record /\ u.rated /\ Fit(u)
               /\ \A w \in Types : Flow(u, w) = Flow(r, w)
               /\ u.bucket[t] = Flow(r, t) /\ u.check[t] = height
<1> DEFINE u == RateLimitUpdate(r, t)
<1>1. /\ u \in Record /\ u.rated
      /\ u.check = [r.check EXCEPT ![t] = height]
      /\ u.bucket = [r.bucket EXCEPT ![t] = Flow(r, t)]
  BY RateLimitUpdateFacts
<1> HIDE DEF u
<1>2. u.check[t] = height /\ u.bucket[t] = Flow(r, t) BY <1>1, RecordFields
<1>3. \A w \in Types \ {t} : u.check[w] = r.check[w] /\ u.bucket[w] = r.bucket[w]
  BY <1>1, RecordFields
<1>4. Flow(r, t) <= Allowed[t] * PerBlocks[t] BY FlowBound
<1>5. Fit(u) BY <1>2, <1>3, <1>4 DEF Fit
<1>6. ASSUME NEW w \in Types PROVE Flow(u, w) = Flow(r, w)
  <2>1. CASE w = t
    <3>1. u.bucket[t] <= Allowed[t] * PerBlocks[t] BY <1>2, <1>4, Zenon
    <3>2. Flow(u, t) = u.bucket[t] BY <1>1, <1>2, <3>1, FlowNow
    <3> QED BY <1>2, <2>1, <3>2
  <2>2. CASE w # t BY <1>3, <2>2, SameFlow
  <2> QED BY <2>1, <2>2
<1> QED BY <1>1, <1>2, <1>5, <1>6 DEF u

(* The update and a token taken.                                            *)
LEMMA AcceptKept ==
    ASSUME NEW r \in Record, Fit(r), r.rated, height \in Nat, NEW t \in Types
    PROVE  LET v == UpdateAcceptTx(RateLimitUpdate(r, t), t)
           IN  /\ v \in Record /\ v.rated /\ Fit(v)
               /\ \A w \in Types : Flow(v, w) <= Flow(r, w)
               /\ Flow(v, t) = Flow(r, t) - PerBlocks[t]
<1> DEFINE u == RateLimitUpdate(r, t)
           v == UpdateAcceptTx(u, t)
<1>1. /\ u \in Record /\ u.rated /\ Fit(u)
      /\ \A w \in Types : Flow(u, w) = Flow(r, w)
      /\ u.bucket[t] = Flow(r, t) /\ u.check[t] = height
  BY UpdateKept
<1> HIDE DEF u
<1>2. /\ v \in Record /\ v.rated /\ v.check = u.check
      /\ v.bucket = [u.bucket EXCEPT ![t] = u.bucket[t] - PerBlocks[t]]
  BY <1>1, UpdateAcceptTxFacts
<1> HIDE DEF v
<1>3. /\ v.bucket[t] = Flow(r, t) - PerBlocks[t]
      /\ \A w \in Types \ {t} : v.bucket[w] = u.bucket[w]
  BY <1>1, <1>2, RecordFields
<1>4. /\ PerBlocks[t] \in Nat /\ Allowed[t] * PerBlocks[t] \in Nat
      /\ Flow(r, t) \in Int /\ Flow(r, t) <= Allowed[t] * PerBlocks[t]
  BY Products, FlowBound
<1> DEFINE q == Allowed[t] * PerBlocks[t]
<1>5. v.bucket[t] <= Allowed[t] * PerBlocks[t] /\ v.bucket[t] <= Flow(r, t)
  <2>1. q \in Nat /\ Flow(r, t) <= q BY <1>4
  <2> HIDE DEF q
  <2>2. v.bucket[t] <= q /\ v.bucket[t] <= Flow(r, t) BY <1>3, <1>4, <2>1
  <2> QED BY <2>2 DEF q
<1>6. Fit(v) BY <1>1, <1>2, <1>3, <1>5 DEF Fit
<1>7. Flow(v, t) = Flow(r, t) - PerBlocks[t] BY <1>1, <1>2, <1>3, <1>5, FlowNow
<1>8. ASSUME NEW w \in Types PROVE Flow(v, w) <= Flow(r, w)
  <2>1. CASE w = t BY <1>3, <1>5, <1>7, <2>1
  <2>2. CASE w # t
    <3>0. v.bucket[w] = u.bucket[w] /\ v.check[w] = u.check[w] BY <1>2, <1>3, <2>2
    <3>1. Flow(v, w) = Flow(u, w) BY <3>0, SameFlow
    <3>2. Flow(r, w) \in Int BY FlowBound
    <3> QED BY <1>1, <3>1, <3>2
  <2> QED BY <2>1, <2>2
<1> QED BY <1>2, <1>6, <1>7, <1>8 DEF v, u

(* Validate, for a Core whose key is known: its record is there.            *)
LEMMA ValidatedFacts ==
    ASSUME height \in Nat, NEW tx, NEW r \in Record, Fit(r), r.rated,
           GetValidationRecord(tx.core) = r
    PROVE  Handles(r, Validated(tx), tx)
<1> DEFINE u == IF tx.type \in Types THEN RateLimitUpdate(r, tx.type) ELSE r
           v == Validated(tx)
<1>1. /\ u \in Record /\ u.rated /\ Fit(u)
      /\ \A w \in Types : Flow(u, w) = Flow(r, w)
      /\ tx.type \in Types => u.bucket[tx.type] = Flow(r, tx.type) /\ u.check[tx.type] = height
  <2>1. CASE tx.type \in Types BY <2>1, UpdateKept
  <2>2. CASE tx.type \notin Types BY <2>2
  <2> QED BY <2>1, <2>2
<1>2. Charged(tx, u) => tx.type \in Types BY DEF Charged, Types
<1>3. v = IF Charged(tx, u) THEN UpdateAcceptTx(u, tx.type)
          ELSE CASE tx.type = "CAL" -> [u EXCEPT !.seen["CAL"] = height]
                 [] tx.type = "JWK" -> IF uris[tx.core] \notin {NoUri, tx.uri}
                                       THEN [u EXCEPT !.changes = u.changes + 1] ELSE u
                 [] OTHER           -> u
  BY DEF Validated
<1>4. CASE Charged(tx, u)
  <2>1. tx.type \in Types /\ u = RateLimitUpdate(r, tx.type) /\ v = UpdateAcceptTx(u, tx.type)
    BY <1>2, <1>3, <1>4
  <2>2. /\ v \in Record /\ v.rated /\ Fit(v)
        /\ \A w \in Types : Flow(v, w) <= Flow(r, w)
        /\ Flow(v, tx.type) = Flow(r, tx.type) - PerBlocks[tx.type]
    BY <2>1, AcceptKept
  <2>3. ASSUME tx.type \in Limits, ~IsValidator(tx.core)
        PROVE  PerBlocks[tx.type] <= Flow(r, tx.type)
    <3>1. ~IsHabitualViolator(u, tx.type) BY <1>4, <2>3 DEF Charged, Limits
    <3>2. ~(u.bucket[tx.type] < PerBlocks[tx.type]) BY <1>1, <3>1 DEF IsHabitualViolator
    <3>3. u.bucket[tx.type] \in Int /\ PerBlocks[tx.type] \in Int
      BY <1>1, <2>1, RecordFields, Products
    <3> QED BY <1>1, <2>1, <3>2, <3>3
  <2> HIDE DEF v, u
  <2> QED BY <2>2, <2>3 DEF Handles, Fit, v
<1>5. CASE ~Charged(tx, u)
  <2>1. ~(tx.type \in Limits /\ Charged(tx, RateLimitUpdate(r, tx.type)))
    BY <1>5, LimitsAreTypes
  <2>2. /\ v \in Record /\ v.rated /\ v.bucket = u.bucket /\ v.check = u.check
    <3> HIDE DEF u
    <3>1. CASE tx.type = "CAL"
      <4> DEFINE c == [u.seen EXCEPT !["CAL"] = height]
      <4>1. c \in [Types -> Nat] BY <1>1, RecordFields DEF Types
      <4>2. v = [u EXCEPT !.seen = c] BY <1>3, <1>5, <3>1
      <4> HIDE DEF c, v
      <4> QED BY <1>1, <4>1, <4>2 DEF Record
    <3>2. CASE tx.type = "JWK" /\ uris[tx.core] \notin {NoUri, tx.uri}
      <4>1. u.changes + 1 \in Nat BY <1>1 DEF Record
      <4>2. v = [u EXCEPT !.changes = u.changes + 1] BY <1>3, <1>5, <3>2
      <4> HIDE DEF v
      <4> QED BY <1>1, <4>1, <4>2 DEF Record
    <3>3. CASE tx.type # "CAL" /\ ~(tx.type = "JWK" /\ uris[tx.core] \notin {NoUri, tx.uri})
      <4>1. v = u BY <1>3, <1>5, <3>3
      <4> QED BY <1>1, <4>1
    <3> QED BY <3>1, <3>2, <3>3
  <2> HIDE DEF v, u
  <2>3. Fit(v) /\ \A w \in Types : Flow(v, w) <= Flow(u, w) BY <1>1, <2>2, OthersKept
  <2>4. \A w \in Types : Flow(v, w) <= Flow(r, w) BY <1>1, <2>3
  <2> QED BY <2>1, <2>2, <2>3, <2>4 DEF Handles, Fit, v
<1> QED BY <1>4, <1>5

-----------------------------------------------------------------------------
(* CheckTx                                                                  *)

LEMMA RecordOf ==
    ASSUME Typed, AllRated, NEW k \in Keys, records[k] # NoRecord
    PROVE  records[k] \in Record /\ records[k].rated /\ Fit(records[k])
BY DEF Typed, TypeOK, Records, AllRated, Rated, Fit

LEMMA TokensInt ==
    ASSUME Typed, AllRated, NEW k \in Keys, NEW t \in Types
    PROVE  Tokens(k, t) \in Int /\ Tokens(k, t) <= Allowed[t] * PerBlocks[t]
<1>1. height \in Nat BY DEF Typed, TypeOK
<1>2. CASE records[k] = NoRecord BY <1>2, Products DEF Tokens
<1>3. CASE records[k] # NoRecord BY <1>1, <1>3, RecordOf, FlowBound DEF Tokens
<1> QED BY <1>2, <1>3

(* What validateTx changes, if anything: the record of one known key, and   *)
(* with it the list of what the limiter alone let in.                       *)
LEMMA ValidateTxMoves ==
    ASSUME Typed, AllRated, KeysRecorded, NEW tx, tx.core \in Cores, validateTx(tx)
    PROVE  \/ records' = records /\ admitted' = admitted
           \/ \E k \in Keys : \E v \in Record :
                /\ records[k] # NoRecord /\ Handles(records[k], v, tx)
                /\ records' = [records EXCEPT ![k] = v]
                /\ \/ admitted' = admitted
                   \/ /\ tx.type \in Limits /\ ~IsValidator(tx.core)
                      /\ Charged(tx, RateLimitUpdate(records[k], tx.type))
                      /\ admitted' = [admitted EXCEPT ![k] =
                              [admitted[k] EXCEPT ![tx.type] =
                                  Append(admitted[k][tx.type], [at |-> height, restarts |-> restarts])]]
<1> DEFINE k == keys[tx.core]
<1>1. CASE ~(synced /\ k # NoKey)
  <2>1. records' = records BY <1>1 DEF validateTx
  <2>2. ~(Limited(tx) /\ Accepted(tx)) BY <1>1 DEF Limited, Accepted, Valid
  <2> QED BY <2>1, <2>2 DEF validateTx
<1>2. CASE synced /\ k # NoKey
  <2>1. k \in Keys BY <1>2 DEF Typed, TypeOK
  <2>2. records[k] # NoRecord BY <1>2 DEF KeysRecorded
  <2>3. height \in Nat BY DEF Typed, TypeOK
  <2>4. GetValidationRecord(tx.core) = records[k] BY <2>2 DEF GetValidationRecord
  <2>5. Handles(records[k], Validated(tx), tx)
    BY <2>1, <2>2, <2>3, <2>4, RecordOf, ValidatedFacts
  <2>6. records' = [records EXCEPT ![k] = Validated(tx)]
    BY <1>2 DEF validateTx, SetValidationRecord
  <2>7. CASE Limited(tx) /\ Accepted(tx)
    <3>1. /\ tx.type \in Limits /\ tx.type \in {"BTC-A", "FEE"} /\ ~IsValidator(tx.core)
          /\ tx.core # Self
      BY <2>7 DEF Limited, Limits
    <3>2. Valid(tx) BY <1>2, <2>7, <3>1 DEF Accepted
    <3>3. Charged(tx, RateLimitUpdate(records[k], tx.type))
      BY <1>2, <2>4, <3>1, <3>2 DEF Valid
    <3>4. admitted' = [admitted EXCEPT ![k] = [admitted[k] EXCEPT ![tx.type] =
                          Append(admitted[k][tx.type], [at |-> height, restarts |-> restarts])]]
      BY <2>7 DEF validateTx
    <3> QED BY <2>1, <2>2, <2>5, <2>6, <3>1, <3>3, <3>4 DEF Handles
  <2>8. CASE ~(Limited(tx) /\ Accepted(tx))
    <3>1. admitted' = admitted BY <2>8 DEF validateTx
    <3> QED BY <2>1, <2>2, <2>5, <2>6, <3>1 DEF Handles
  <2> QED BY <2>7, <2>8
<1> QED BY <1>1, <1>2

LimiterInv == Typed /\ KeysRecorded /\ AllRated /\ Rates /\ Budget

LEMMA ValidateTxTyped ==
    ASSUME LimiterInv, NEW tx, tx.core \in Cores, validateTx(tx)
    PROVE  Typed' /\ KeysRecorded' /\ AllRated'
<1> USE DEF LimiterInv
<1>1. /\ UNCHANGED <<height, synced, validators, pending, keys, uris, vals, updates, phase, block,
                     redo, saved, chain, restarts, delivered>>
      /\ checks' = checks + 1
  BY DEF validateTx, blockVars
<1>2. /\ records' \in Records /\ Fits(records)' /\ KeysRecorded' /\ Rated(records)'
      /\ admitted' \in [Keys -> [Limits -> Seq(Entry)]]
  <2>1. /\ height \in Nat /\ restarts \in Nat /\ records \in Records /\ Fits(records)
        /\ admitted \in [Keys -> [Limits -> Seq(Entry)]] /\ Rated(records)
    BY DEF Typed, TypeOK, Fits, AllRated
  <2>2. CASE records' = records /\ admitted' = admitted
    BY <1>1, <2>1, <2>2 DEF Fits, KeysRecorded, Rated
  <2>3. ASSUME NEW k \in Keys, NEW v \in Record, Handles(records[k], v, tx),
               records' = [records EXCEPT ![k] = v],
               \/ admitted' = admitted
               \/ /\ tx.type \in Limits
                  /\ admitted' = [admitted EXCEPT ![k] =
                          [admitted[k] EXCEPT ![tx.type] =
                              Append(admitted[k][tx.type], [at |-> height, restarts |-> restarts])]]
        PROVE  /\ records' \in Records /\ Fits(records)' /\ KeysRecorded' /\ Rated(records)'
               /\ admitted' \in [Keys -> [Limits -> Seq(Entry)]]
    <3>1. records' \in Records BY <2>1, <2>3 DEF Records
    <3>2. v # NoRecord /\ v.rated BY <2>3, AdmissionAssumption DEF Handles
    <3>3. records'[k] = v /\ \A j \in Keys \ {k} : records'[j] = records[j]
      BY <2>1, <2>3 DEF Records
    <3>4. Fits(records)' BY <1>1, <2>1, <2>3, <3>3 DEF Fits, Handles
    <3>5. KeysRecorded'
      <4>1. keys \in [Cores -> Keys \cup {NoKey}] BY DEF Typed, TypeOK
      <4> QED BY <1>1, <3>2, <3>3, <4>1 DEF KeysRecorded
    <3>6. Rated(records)' BY <2>1, <3>2, <3>3 DEF Rated
    <3>7. [at |-> height, restarts |-> restarts] \in Entry BY <2>1 DEF Entry
    <3>8. admitted' \in [Keys -> [Limits -> Seq(Entry)]]
      <4> DEFINE e == [at |-> height, restarts |-> restarts]
      <4>1. e \in Entry BY <3>7
      <4> HIDE DEF e
      <4>2. CASE admitted' = admitted BY <2>1, <4>2
      <4>3. CASE tx.type \in Limits
        <5>1. Append(admitted[k][tx.type], e) \in Seq(Entry) BY <2>1, <4>1, <4>3
        <5>2. [admitted[k] EXCEPT ![tx.type] = Append(admitted[k][tx.type], e)] \in [Limits -> Seq(Entry)]
          BY <2>1, <5>1
        <5> QED BY <2>1, <2>3, <5>2 DEF e
      <4> QED BY <2>3, <4>2, <4>3
    <3> QED BY <3>1, <3>4, <3>5, <3>6, <3>8
  <2> QED BY <2>2, <2>3, ValidateTxMoves
<1>3. AllRated' BY <1>1, <1>2 DEF AllRated, Rated
<1>4. Typed' BY <1>1, <1>2 DEF Typed, TypeOK, Fits
<1> QED BY <1>2, <1>3, <1>4

LEMMA ValidateTxBudget ==
    ASSUME LimiterInv, NEW tx, tx.core \in Cores, validateTx(tx)
    PROVE  Rates' /\ Budget'
<1> USE DEF LimiterInv
<1>1. /\ height' = height /\ restarts' = restarts
      /\ height \in Nat /\ restarts \in Nat /\ records \in Records
      /\ admitted \in [Keys -> [Limits -> Seq(Entry)]]
  BY DEF validateTx, Typed, TypeOK
<1>2. \A r, t : Flow(r, t)' = Flow(r, t) BY <1>1 DEF Flow
<1> SUFFICES ASSUME NEW j \in Keys, NEW t \in Limits
             PROVE  /\ Rate(admitted'[j][t], t)
                    /\ Account(admitted'[j][t], Tokens(j, t)', t, height, restarts)
  BY <1>1 DEF Rates, Budget
<1>3. /\ Rate(admitted[j][t], t) /\ admitted[j][t] \in Seq(Entry)
      /\ Account(admitted[j][t], Tokens(j, t), t, height, restarts)
      /\ t \in Types
  BY <1>1, LimitsAreTypes DEF Rates, Budget
<1>4. CASE records'[j] = records[j] /\ admitted'[j][t] = admitted[j][t]
  <2>1. Tokens(j, t)' = Tokens(j, t) BY <1>2, <1>4 DEF Tokens
  <2> QED BY <1>3, <1>4, <2>1
<1>5. ASSUME NEW v \in Record, records[j] # NoRecord, Handles(records[j], v, tx), records'[j] = v,
             \/ admitted'[j][t] = admitted[j][t]
             \/ /\ tx.type = t /\ ~IsValidator(tx.core)
                /\ Charged(tx, RateLimitUpdate(records[j], t))
                /\ admitted'[j][t] = Append(admitted[j][t], [at |-> height, restarts |-> restarts])
      PROVE  /\ Rate(admitted'[j][t], t)
             /\ Account(admitted'[j][t], Tokens(j, t)', t, height, restarts)
  <2>1. Tokens(j, t)' = Flow(v, t) /\ Tokens(j, t) = Flow(records[j], t)
    BY <1>2, <1>5, AdmissionAssumption DEF Tokens
  <2>2. Flow(v, t) <= Flow(records[j], t) BY <1>3, <1>5 DEF Handles
  <2>3. /\ Flow(v, t) \in Int /\ Flow(records[j], t) \in Int
        /\ Flow(records[j], t) <= Allowed[t] * PerBlocks[t]
    BY <1>1, <1>3, <1>5, RecordOf, FlowBound
  <2>4. CASE admitted'[j][t] = admitted[j][t]
    BY <1>1, <1>3, <2>1, <2>2, <2>3, <2>4, FewerTokens
  <2>5. CASE /\ tx.type = t /\ ~IsValidator(tx.core)
             /\ Charged(tx, RateLimitUpdate(records[j], t))
             /\ admitted'[j][t] = Append(admitted[j][t], [at |-> height, restarts |-> restarts])
    <3>1. PerBlocks[t] <= Flow(records[j], t) /\ Flow(v, t) = Flow(records[j], t) - PerBlocks[t]
      BY <1>5, <2>5 DEF Handles
    <3> QED BY <1>1, <1>3, <2>1, <2>3, <2>5, <3>1, OneMore
  <2> QED BY <1>5, <2>4, <2>5
<1>6. CASE records' = records /\ admitted' = admitted BY <1>4, <1>6
<1>7. ASSUME NEW k \in Keys, NEW v \in Record, records[k] # NoRecord,
             Handles(records[k], v, tx), records' = [records EXCEPT ![k] = v],
             \/ admitted' = admitted
             \/ /\ tx.type \in Limits /\ ~IsValidator(tx.core)
                /\ Charged(tx, RateLimitUpdate(records[k], tx.type))
                /\ admitted' = [admitted EXCEPT ![k] =
                        [admitted[k] EXCEPT ![tx.type] =
                            Append(admitted[k][tx.type], [at |-> height, restarts |-> restarts])]]
      PROVE  /\ Rate(admitted'[j][t], t)
             /\ Account(admitted'[j][t], Tokens(j, t)', t, height, restarts)
  <2>1. records'[k] = v /\ (j # k => records'[j] = records[j]) BY <1>1, <1>7 DEF Records
  <2>2. CASE j # k
    <3>1. admitted'[j][t] = admitted[j][t] BY <1>1, <1>7, <2>2
    <3> QED BY <1>4, <2>1, <2>2, <3>1
  <2>3. CASE j = k
    <3>1. \/ admitted'[j][t] = admitted[j][t]
          \/ /\ tx.type = t /\ ~IsValidator(tx.core)
             /\ Charged(tx, RateLimitUpdate(records[j], t))
             /\ admitted'[j][t] = Append(admitted[j][t], [at |-> height, restarts |-> restarts])
      <4> DEFINE e == [at |-> height, restarts |-> restarts]
      <4>1. ASSUME admitted' = [admitted EXCEPT ![k] =
                       [admitted[k] EXCEPT ![tx.type] = Append(admitted[k][tx.type], e)]]
            PROVE  admitted'[j][t] = IF tx.type = t THEN Append(admitted[j][t], e)
                                                    ELSE admitted[j][t]
        <5> HIDE DEF e
        <5> QED BY <1>1, <2>3, <4>1
      <4> HIDE DEF e
      <4> QED BY <1>7, <2>3, <4>1 DEF e
    <3> QED BY <1>5, <1>7, <2>1, <2>3, <3>1
  <2> QED BY <2>2, <2>3
<1> QED BY <1>6, <1>7, ValidateTxMoves

LEMMA CheckTxCore ==
    ASSUME CheckTx
    PROVE  \E tx : tx.core \in Cores /\ validateTx(tx)
<1>1. PICK c \in Cores :
        \/ \E t \in Types \cup {"BTC-E", "CHNGSTK"}, s \in BOOLEAN :
                validateTx([type |-> t, core |-> c, sound |-> s])
        \/ \E v \in Votes : validateTx([type |-> "VAL", core |-> c, vote |-> v])
        \/ \E u \in Uris, s \in BOOLEAN :
                validateTx([type |-> "JWK", core |-> c, uri |-> u, sound |-> s])
  BY DEF CheckTx
<1>2. ASSUME NEW t \in Types \cup {"BTC-E", "CHNGSTK"}, NEW s \in BOOLEAN,
             validateTx([type |-> t, core |-> c, sound |-> s])
      PROVE  \E tx : tx.core \in Cores /\ validateTx(tx)
  <2> DEFINE tx == [type |-> t, core |-> c, sound |-> s]
  <2>1. tx.core \in Cores OBVIOUS
  <2> HIDE DEF tx
  <2> QED BY <1>2, <2>1 DEF tx
<1>3. ASSUME NEW v \in Votes, validateTx([type |-> "VAL", core |-> c, vote |-> v])
      PROVE  \E tx : tx.core \in Cores /\ validateTx(tx)
  <2> DEFINE tx == [type |-> "VAL", core |-> c, vote |-> v]
  <2>1. tx.core \in Cores OBVIOUS
  <2> HIDE DEF tx
  <2> QED BY <1>3, <2>1 DEF tx
<1>4. ASSUME NEW u \in Uris, NEW s \in BOOLEAN,
             validateTx([type |-> "JWK", core |-> c, uri |-> u, sound |-> s])
      PROVE  \E tx : tx.core \in Cores /\ validateTx(tx)
  <2> DEFINE tx == [type |-> "JWK", core |-> c, uri |-> u, sound |-> s]
  <2>1. tx.core \in Cores OBVIOUS
  <2> HIDE DEF tx
  <2> QED BY <1>4, <2>1 DEF tx
<1> QED BY <1>1, <1>2, <1>3, <1>4

LEMMA CheckTxStep == ASSUME LimiterInv, CheckTx PROVE LimiterInv'
<1>1. PICK tx : tx.core \in Cores /\ validateTx(tx) BY CheckTxCore
<1> QED BY <1>1, ValidateTxTyped, ValidateTxBudget DEF LimiterInv

-----------------------------------------------------------------------------
(* The limiter and the other actions                                        *)

LEMMA NewRecord ==
    ASSUME height \in Nat
    PROVE  /\ NewTxValidation \in Record /\ NewTxValidation # NoRecord
           /\ NewTxValidation.rated /\ Fit(NewTxValidation)
<1>1. NewTxValidation \in Record BY DEF NewTxValidation, Record
<1>2. NewTxValidation # NoRecord BY <1>1, AdmissionAssumption
<1>3. ASSUME NEW t \in Types
      PROVE  /\ NewTxValidation.bucket[t] <= Allowed[t] * PerBlocks[t]
             /\ NewTxValidation.check[t] <= height
  <2>1. NewTxValidation.bucket[t] = 0 /\ NewTxValidation.check[t] = 0 BY DEF NewTxValidation
  <2> QED BY <2>1, Products
<1> QED BY <1>1, <1>2, <1>3 DEF NewTxValidation, Fit

(* A record that comes with a key, or gains an anchor.                      *)
Gains(old, new) ==
    \/ new = old
    \/ /\ new \in Record /\ new.rated /\ Fit(new)
       /\ old # NoRecord => old \in Record /\ new.bucket = old.bucket /\ new.check = old.check

LEMMA RecordsGain ==
    ASSUME LimiterInv, UNCHANGED <<height, restarts, admitted>>, records' \in [Keys -> Record \cup {NoRecord}],
           \A k \in Keys : Gains(records[k], records'[k])
    PROVE  /\ records' \in Records /\ Fits(records)' /\ Rated(records)' /\ Rates' /\ Budget'
           /\ \A k \in Keys : records[k] # NoRecord => records'[k] # NoRecord
<1> USE DEF LimiterInv
<1>1. /\ height' = height /\ height \in Nat /\ restarts \in Nat /\ Fits(records) /\ Rated(records)
      /\ admitted \in [Keys -> [Limits -> Seq(Entry)]] /\ admitted' = admitted /\ restarts' = restarts
  BY DEF Typed, TypeOK, AllRated, Fits
<1>2. records' \in Records BY DEF Records
<1>3. Fits(records)' BY <1>1 DEF Fits, Fit, Gains
<1>4. Rated(records)' BY <1>1 DEF Rated, Gains
<1>5. \A k \in Keys : records[k] # NoRecord => records'[k] # NoRecord
  BY AdmissionAssumption DEF Gains
<1>6. Rates' BY <1>1 DEF Rates
<1>7. ASSUME NEW k \in Keys, NEW t \in Limits
      PROVE  Account(admitted[k][t], Tokens(k, t)', t, height, restarts)
  <2>1. /\ t \in Types /\ admitted[k][t] \in Seq(Entry)
        /\ Account(admitted[k][t], Tokens(k, t), t, height, restarts)
        /\ Tokens(k, t) \in Int
    BY <1>1, LimitsAreTypes, TokensInt DEF Budget
  <2>2. \A r : Flow(r, t)' = Flow(r, t) BY <1>1 DEF Flow
  <2>3. CASE records'[k] = records[k]
    <3>1. Tokens(k, t)' = Tokens(k, t) BY <2>2, <2>3 DEF Tokens
    <3> QED BY <2>1, <3>1
  <2>4. CASE records'[k] # records[k]
    <3>1. /\ records'[k] \in Record /\ records'[k] # NoRecord
          /\ records[k] # NoRecord => /\ records[k] \in Record
                                     /\ records'[k].bucket = records[k].bucket
                                     /\ records'[k].check = records[k].check
      BY <2>4, AdmissionAssumption DEF Gains
    <3>2. PICK v \in Record : v = records'[k] BY <3>1
    <3>3. Tokens(k, t)' = Flow(v, t) BY <2>2, <3>1, <3>2 DEF Tokens
    <3>4. Flow(v, t) \in Int /\ Flow(v, t) <= Allowed[t] * PerBlocks[t] BY <1>1, <2>1, FlowBound
    <3>5. CASE records[k] = NoRecord
      <4>1. Tokens(k, t) = Allowed[t] * PerBlocks[t] BY <3>5 DEF Tokens
      <4> QED BY <1>1, <2>1, <3>3, <3>4, <4>1, FewerTokens
    <3>6. CASE records[k] # NoRecord
      <4>1. Flow(v, t) = Flow(records[k], t) BY <2>1, <3>1, <3>2, <3>6, SameFlow
      <4>2. Tokens(k, t) = Flow(records[k], t) BY <3>6 DEF Tokens
      <4> QED BY <2>1, <3>3, <4>1, <4>2
    <3> QED BY <3>5, <3>6
  <2> QED BY <2>3, <2>4
<1>8. Budget' BY <1>1, <1>7 DEF Budget
<1> QED BY <1>2, <1>3, <1>4, <1>5, <1>6, <1>8

LEMMA UpdateTyped ==
    ASSUME NEW v \in Votes, NEW s \in Outcome
    PROVE  updateValidator(v, s) \in Outcome
<1>1. v.id \in Cores /\ s.vals \subseteq Cores /\ s.updates \in Seq(Votes) BY DEF Votes, Outcome
<1>2. Append(s.updates, v) \in Seq(Votes) BY <1>1
<1> QED BY <1>1, <1>2 DEF updateValidator, Outcome

LEMMA DeliveredTyped ==
    ASSUME Typed, NEW tx \in Blocks, Delivered(tx)
    PROVE  /\ block' \in Seq(Blocks) /\ redo' \in Seq(Blocks) /\ delivered' \in Nat
           /\ chain' \in [vals : SUBSET Cores, once : Outcome, keys : [Cores -> Keys \cup {NoKey}],
                          replayed : BOOLEAN]
           /\ chain'.keys = chain.keys
<1>1. /\ block \in Seq(Blocks) /\ redo \in Seq(Blocks) /\ delivered \in Nat
      /\ chain \in [vals : SUBSET Cores, once : Outcome, keys : [Cores -> Keys \cup {NoKey}],
                    replayed : BOOLEAN]
  BY DEF Typed
<1>2. CASE redo = <<>>
  <2>1. /\ delivered' = delivered + 1 /\ block' = Append(block, tx) /\ redo' = redo
        /\ chain' = IF tx.type = "VAL"
                    THEN [chain EXCEPT !.once = updateValidator(tx.vote, chain.once)] ELSE chain
    BY <1>2 DEF Delivered
  <2>2. chain.once \in Outcome BY <1>1
  <2>3. tx.type = "VAL" => tx.vote \in Votes BY DEF Blocks
  <2>4. tx.type = "VAL" => updateValidator(tx.vote, chain.once) \in Outcome
    BY <2>2, <2>3, UpdateTyped
  <2>5. delivered' \in Nat /\ block' \in Seq(Blocks) BY <1>1, <2>1
  <2>6. /\ chain' \in [vals : SUBSET Cores, once : Outcome, keys : [Cores -> Keys \cup {NoKey}],
                       replayed : BOOLEAN]
        /\ chain'.keys = chain.keys
    BY <1>1, <2>1, <2>4
  <2> QED BY <1>1, <2>1, <2>5, <2>6
<1>3. CASE redo # <<>>
  <2>1. redo' = Tail(redo) /\ UNCHANGED <<block, delivered, chain>> BY <1>3 DEF Delivered
  <2>2. Tail(redo) \in Seq(Blocks) BY <1>1, <1>3
  <2> QED BY <1>1, <2>1, <2>2
<1> QED BY <1>2, <1>3

LEMMA DeliverVal ==
    ASSUME LimiterInv, NEW v \in Votes, Delivered([type |-> "VAL", vote |-> v]), execValidatorTx(v),
           UNCHANGED <<height, synced, validators, pending, keys, uris, records,
                       phase, saved, admitted, restarts, checks>>
    PROVE  LimiterInv'
<1> USE DEF LimiterInv
<1> DEFINE tx == [type |-> "VAL", vote |-> v]
<1>1. tx \in Blocks BY DEF Blocks
<1> HIDE DEF tx
<1>2. /\ block' \in Seq(Blocks) /\ redo' \in Seq(Blocks) /\ delivered' \in Nat
      /\ chain' \in [vals : SUBSET Cores, once : Outcome, keys : [Cores -> Keys \cup {NoKey}],
                     replayed : BOOLEAN]
  BY <1>1, DeliveredTyped DEF tx
<1>3. vals' \subseteq Cores /\ updates' \in Seq(Votes)
  <2>1. [vals |-> vals, updates |-> updates] \in Outcome BY DEF Typed, TypeOK, Outcome
  <2>2. updateValidator(v, [vals |-> vals, updates |-> updates]) \in Outcome BY <2>1, UpdateTyped
  <2> QED BY <2>2 DEF execValidatorTx, Outcome
<1>4. \A k \in Keys : Gains(records[k], records'[k]) BY DEF Gains
<1>5. records' \in [Keys -> Record \cup {NoRecord}] BY DEF Typed, TypeOK, Records
<1>6. /\ records' \in Records /\ Fits(records)' /\ Rated(records)' /\ Rates' /\ Budget'
  BY <1>4, <1>5, RecordsGain
<1>7. Typed'
  <2>1. TypeOK' BY <1>3, <1>6 DEF Typed, TypeOK, Fits
  <2>2. Fits(saved.records)' BY DEF Typed, Fits
  <2> QED BY <1>2, <2>1, <2>2 DEF Typed
<1>8. KeysRecorded' BY DEF KeysRecorded
<1>9. AllRated' BY <1>6 DEF AllRated, Rated
<1> QED BY <1>6, <1>7, <1>8, <1>9

LEMMA DeliverJwk ==
    ASSUME LimiterInv, NEW c \in Cores, NEW u \in Uris, NEW k \in KeysOf[c],
           Delivered([type |-> "JWK", core |-> c, key |-> k, uri |-> u]), SetIdentity(c, k, u),
           UNCHANGED <<height, synced, validators, pending, vals, updates, phase, saved,
                       admitted, restarts, checks>>
    PROVE  LimiterInv'
<1> USE DEF LimiterInv
<1> DEFINE tx == [type |-> "JWK", core |-> c, key |-> k, uri |-> u]
<1>0. k \in Keys BY DEF Keys
<1>1. tx \in Blocks BY <1>0 DEF Blocks
<1> HIDE DEF tx
<1>2. /\ block' \in Seq(Blocks) /\ redo' \in Seq(Blocks) /\ delivered' \in Nat
      /\ chain' \in [vals : SUBSET Cores, once : Outcome, keys : [Cores -> Keys \cup {NoKey}],
                     replayed : BOOLEAN]
  BY <1>1, DeliveredTyped DEF tx
<1>3. /\ height \in Nat /\ records \in [Keys -> Record \cup {NoRecord}]
      /\ keys \in [Cores -> Keys \cup {NoKey}] /\ uris \in [Cores -> Uris \cup {NoUri}]
  BY DEF Typed, TypeOK, Records
<1>4. /\ keys' = [keys EXCEPT ![c] = k] /\ uris' = [uris EXCEPT ![c] = u]
      /\ records' = IF records[k] = NoRecord THEN [records EXCEPT ![k] = NewTxValidation] ELSE records
  BY DEF SetIdentity
<1>5. records' \in [Keys -> Record \cup {NoRecord}] BY <1>0, <1>3, <1>4, NewRecord
<1>6. \A j \in Keys : Gains(records[j], records'[j])
  BY <1>0, <1>3, <1>4, NewRecord DEF Gains
<1>7. /\ records' \in Records /\ Fits(records)' /\ Rated(records)' /\ Rates' /\ Budget'
      /\ \A j \in Keys : records[j] # NoRecord => records'[j] # NoRecord
  BY <1>5, <1>6, RecordsGain
<1>8. Typed'
  <2>1. keys' \in [Cores -> Keys \cup {NoKey}] /\ uris' \in [Cores -> Uris \cup {NoUri}]
    BY <1>0, <1>3, <1>4
  <2>2. TypeOK' BY <1>7, <2>1 DEF Typed, TypeOK, Fits
  <2>3. Fits(saved.records)' BY DEF Typed, Fits
  <2> QED BY <1>2, <2>2, <2>3 DEF Typed
<1>9. KeysRecorded'
  <2> SUFFICES ASSUME NEW d \in Cores, keys'[d] # NoKey
               PROVE  records'[keys'[d]] # NoRecord /\ records'[keys'[d]].rated
    BY DEF KeysRecorded
  <2>1. records'[keys'[d]] # NoRecord /\ keys'[d] \in Keys
    <3>1. CASE d = c
      <4>1. keys'[d] = k BY <1>3, <1>4, <3>1
      <4>2. records'[k] # NoRecord BY <1>0, <1>3, <1>4, NewRecord
      <4> QED BY <1>0, <4>1, <4>2
    <3>2. CASE d # c
      <4>1. keys'[d] = keys[d] BY <1>3, <1>4, <3>2
      <4> QED BY <1>3, <1>7, <4>1 DEF KeysRecorded
    <3> QED BY <3>1, <3>2
  <2> QED BY <1>7, <2>1 DEF Rated
<1>10. AllRated' BY <1>7 DEF AllRated, Rated
<1> QED BY <1>7, <1>8, <1>9, <1>10

LEMMA DeliverBtcc ==
    ASSUME LimiterInv, NEW c \in Cores, Delivered([type |-> "BTC-C", core |-> c]),
           records' = IncrementSuccessAnchor(c),
           UNCHANGED <<height, synced, validators, pending, keys, uris, vals,
                       updates, phase, saved, admitted, restarts, checks>>
    PROVE  LimiterInv'
<1> USE DEF LimiterInv
<1> DEFINE tx == [type |-> "BTC-C", core |-> c]
<1>1. tx \in Blocks BY DEF Blocks
<1> HIDE DEF tx
<1>2. /\ block' \in Seq(Blocks) /\ redo' \in Seq(Blocks) /\ delivered' \in Nat
      /\ chain' \in [vals : SUBSET Cores, once : Outcome, keys : [Cores -> Keys \cup {NoKey}],
                     replayed : BOOLEAN]
  BY <1>1, DeliveredTyped DEF tx
<1>3. /\ height \in Nat /\ records \in [Keys -> Record \cup {NoRecord}]
      /\ keys \in [Cores -> Keys \cup {NoKey}]
  BY DEF Typed, TypeOK, Records
<1>4. records' \in [Keys -> Record \cup {NoRecord}] /\ \A j \in Keys : Gains(records[j], records'[j])
  <2>1. CASE keys[c] = NoKey
    <3>1. records' = records BY <2>1 DEF IncrementSuccessAnchor
    <3> QED BY <1>3, <3>1 DEF Gains
  <2>2. CASE keys[c] # NoKey
    <3> DEFINE k == keys[c]
               r == records[k]
               v == [r EXCEPT !.anchors = r.anchors + 1]
    <3>1. k \in Keys /\ r # NoRecord BY <1>3, <2>2 DEF KeysRecorded
    <3>2. r \in Record /\ r.rated /\ Fit(r) BY <3>1, RecordOf
    <3>3. records' = [records EXCEPT ![k] = v]
      BY <2>2, <3>1 DEF IncrementSuccessAnchor, SetValidationRecord, GetValidationRecord
    <3>4. /\ v \in Record /\ v.rated /\ v.bucket = r.bucket /\ v.check = r.check
      <4>1. r.anchors + 1 \in Nat BY <3>2 DEF Record
      <4> HIDE DEF r
      <4> QED BY <3>2, <4>1 DEF Record
    <3>5. Fit(v) BY <3>2, <3>4 DEF Fit
    <3> HIDE DEF v, k
    <3>6. Gains(r, v) BY <3>2, <3>4, <3>5 DEF Gains
    <3> QED BY <1>3, <3>1, <3>3, <3>4, <3>6 DEF Gains
  <2> QED BY <2>1, <2>2
<1>7. /\ records' \in Records /\ Fits(records)' /\ Rated(records)' /\ Rates' /\ Budget'
      /\ \A j \in Keys : records[j] # NoRecord => records'[j] # NoRecord
  BY <1>4, RecordsGain
<1>8. Typed'
  <2>1. TypeOK' BY <1>7 DEF Typed, TypeOK, Fits
  <2>2. Fits(saved.records)' BY DEF Typed, Fits
  <2> QED BY <1>2, <2>1, <2>2 DEF Typed
<1>9. KeysRecorded' BY <1>3, <1>7 DEF KeysRecorded, Rated
<1>10. AllRated' BY <1>7 DEF AllRated, Rated
<1> QED BY <1>7, <1>8, <1>9, <1>10

LEMMA DeliverTxStep == ASSUME LimiterInv, DeliverTx PROVE LimiterInv'
BY DeliverVal, DeliverJwk, DeliverBtcc DEF DeliverTx

(* Steps that leave the records and the lists alone.                        *)
LEMMA LimiterKept ==
    ASSUME LimiterInv, Typed', UNCHANGED <<height, keys, records, saved, admitted, restarts>>
    PROVE  LimiterInv'
<1> USE DEF LimiterInv
<1>1. \A k \in Keys : Gains(records[k], records'[k]) BY DEF Gains
<1>2. records' \in [Keys -> Record \cup {NoRecord}] BY DEF Typed, TypeOK, Records
<1>3. Rates' /\ Budget' BY <1>1, <1>2, RecordsGain
<1>4. KeysRecorded' BY DEF KeysRecorded
<1>5. AllRated' BY DEF AllRated, Rated
<1> QED BY <1>3, <1>4, <1>5

LEMMA QuietSteps ==
    ASSUME LimiterInv,
           BeginBlock \/ EndBlock \/ SyncMonitor \/ SetStake \/ UNCHANGED vars
    PROVE  LimiterInv'
<1>1. Typed BY DEF LimiterInv
<1>2. UNCHANGED <<height, keys, records, saved, admitted, restarts>>
  BY DEF BeginBlock, EndBlock, SyncMonitor, SetStake, vars, history, blockVars
<1>3. Typed'
  <2>1. CASE BeginBlock BY <1>1, <2>1 DEF BeginBlock, Typed, TypeOK, Fits, history
  <2>2. CASE EndBlock
    <3>1. pending' \in Votes \cup {NoVal}
      BY <1>1, <2>2, AdmissionAssumption DEF EndBlock, Typed, TypeOK
    <3> QED BY <1>1, <2>2, <3>1 DEF EndBlock, Typed, TypeOK, Fits, history
  <2>3. CASE SyncMonitor BY <1>1, <2>3 DEF SyncMonitor, Typed, TypeOK, Fits, history, blockVars
  <2>4. CASE SetStake BY <1>1, <2>4 DEF SetStake, Typed, TypeOK, Fits, history, blockVars
  <2>5. CASE UNCHANGED vars BY <1>1, <2>5 DEF vars, Typed, TypeOK, Fits
  <2> QED BY <2>1, <2>2, <2>3, <2>4, <2>5
<1> QED BY <1>2, <1>3, LimiterKept

LEMMA LoadIdentityStep == ASSUME LimiterInv, LoadIdentity PROVE LimiterInv'
<1> USE DEF LimiterInv
<1>1. /\ UNCHANGED <<height, synced, validators, pending, uris, vals, updates, phase, block, redo,
                     saved, chain, admitted, restarts, checks, delivered>>
      /\ keys' = [c \in Cores |-> IF keys[c] = NoKey THEN chain.keys[c] ELSE keys[c]]
      /\ records' = [k \in Keys |->
             IF records[k] = NoRecord /\ \E c \in Cores : chain.keys[c] = k
             THEN NewTxValidation ELSE records[k]]
  BY DEF LoadIdentity, history, blockVars
<1>2. /\ height \in Nat /\ records \in [Keys -> Record \cup {NoRecord}]
      /\ keys \in [Cores -> Keys \cup {NoKey}] /\ chain.keys \in [Cores -> Keys \cup {NoKey}]
  BY DEF Typed, TypeOK, Records
<1>3. \A j \in Keys : Gains(records[j], records'[j]) BY <1>1, <1>2, NewRecord DEF Gains
<1>4. records' \in [Keys -> Record \cup {NoRecord}] BY <1>1, <1>2, NewRecord
<1>5. /\ records' \in Records /\ Fits(records)' /\ Rated(records)' /\ Rates' /\ Budget'
      /\ \A j \in Keys : records[j] # NoRecord => records'[j] # NoRecord
  BY <1>1, <1>3, <1>4, RecordsGain
<1>6. keys' \in [Cores -> Keys \cup {NoKey}] BY <1>1, <1>2
<1>7. Typed'
  <2>1. TypeOK' BY <1>1, <1>5, <1>6 DEF Typed, TypeOK, Fits
  <2>2. Fits(saved.records)' BY <1>1 DEF Typed, Fits
  <2> QED BY <1>1, <2>1, <2>2 DEF Typed
<1>8. KeysRecorded'
  <2> SUFFICES ASSUME NEW c \in Cores, keys'[c] # NoKey
               PROVE  records'[keys'[c]] # NoRecord /\ records'[keys'[c]].rated
    BY DEF KeysRecorded
  <2>1. keys'[c] \in Keys BY <1>6
  <2>2. records'[keys'[c]] # NoRecord
    <3>1. CASE keys[c] = NoKey
      <4>1. keys'[c] = chain.keys[c] BY <1>1, <3>1
      <4> QED BY <1>1, <2>1, <4>1, <1>2, NewRecord
    <3>2. CASE keys[c] # NoKey
      <4>1. keys'[c] = keys[c] BY <1>1, <3>2
      <4> QED BY <1>5, <2>1, <3>2, <4>1 DEF KeysRecorded
    <3> QED BY <3>1, <3>2
  <2> QED BY <1>5, <2>1, <2>2 DEF Rated
<1>9. AllRated' BY <1>1, <1>5 DEF AllRated, Rated
<1> QED BY <1>5, <1>7, <1>8, <1>9

(* A block more: the tokens of one block flow in.                           *)
LEMMA FlowNext ==
    ASSUME NEW r \in Record, NEW t \in Types, height \in Nat, height' = height + 1
    PROVE  Flow(r, t)' \in Int /\ Flow(r, t)' <= Flow(r, t) + Allowed[t]
<1> DEFINE a == Allowed[t]
           b == r.bucket[t]
           d == height - r.check[t]
           m == Allowed[t] * PerBlocks[t]
<1>1. a \in Nat /\ m \in Nat /\ b \in Int /\ r.check[t] \in Nat BY Products, RecordFields
<1>2. d \in Int /\ height' - r.check[t] = d + 1 BY <1>1
<1> HIDE DEF a, b, d, m
<1>3. (d + 1) * a = d * a + a /\ d * a \in Int BY <1>1, <1>2
<1>4. Flow(r, t) = Least(b + d * a, m) BY DEF Flow, a, b, d, m
<1>5. Flow(r, t)' = Least(b + (d + 1) * a, m) BY <1>2 DEF Flow, a, b, m
<1> DEFINE q == d * a
<1>6. q \in Int /\ Flow(r, t) = Least(b + q, m) /\ Flow(r, t)' = Least(b + (q + a), m)
  BY <1>3, <1>4, <1>5
<1> HIDE DEF q
<1>7. Least(b + (q + a), m) \in Int /\ Least(b + (q + a), m) <= Least(b + q, m) + a
  BY <1>1, <1>6 DEF Least
<1> QED BY <1>6, <1>7 DEF a

LEMMA CommitStep == ASSUME LimiterInv, Commit PROVE LimiterInv'
<1> USE DEF LimiterInv
<1>1. /\ UNCHANGED <<synced, validators, pending, keys, uris, records, vals, updates, redo,
                     admitted, restarts, checks, delivered>>
      /\ height' = height + 1 /\ phase' = "between" /\ block' = <<>>
      /\ saved' = [height |-> height', records |-> records, uris |-> uris]
      /\ chain' = [vals |-> chain.once.vals, replayed |-> FALSE,
                   once |-> [vals |-> chain.once.vals, updates |-> <<>>],
                   keys |-> [c \in Cores |-> IF keys[c] = NoKey THEN chain.keys[c] ELSE keys[c]]]
  BY DEF Commit
<1>2. /\ height \in Nat /\ restarts \in Nat /\ records \in Records /\ Fits(records)
      /\ keys \in [Cores -> Keys \cup {NoKey}] /\ uris \in [Cores -> Uris \cup {NoUri}]
      /\ admitted \in [Keys -> [Limits -> Seq(Entry)]]
      /\ chain \in [vals : SUBSET Cores, once : Outcome, keys : [Cores -> Keys \cup {NoKey}],
                    replayed : BOOLEAN]
  BY DEF Typed, TypeOK, Fits
<1>3. height' \in Nat /\ Fits(records)'
  <2>1. height' \in Nat BY <1>1, <1>2
  <2>2. ASSUME NEW k \in Keys, NEW t \in Types, records[k] # NoRecord
        PROVE  records[k].bucket[t] <= Allowed[t] * PerBlocks[t] /\ records[k].check[t] <= height'
    <3>1. /\ records[k].bucket[t] <= Allowed[t] * PerBlocks[t] /\ records[k].check[t] <= height
          /\ records[k].check[t] \in Nat
      BY <1>2, <2>2, RecordOf, RecordFields DEF Fits
    <3> QED BY <1>1, <1>2, <3>1
  <2> QED BY <1>1, <2>1, <2>2 DEF Fits
<1>4. chain' \in [vals : SUBSET Cores, once : Outcome, keys : [Cores -> Keys \cup {NoKey}],
                  replayed : BOOLEAN]
  <2> DEFINE ks == [c \in Cores |-> IF keys[c] = NoKey THEN chain.keys[c] ELSE keys[c]]
             o == [vals |-> chain.once.vals, updates |-> <<>>]
  <2>1. ks \in [Cores -> Keys \cup {NoKey}] BY <1>2
  <2>2. chain.once \in Outcome BY <1>2
  <2>3. chain.once.vals \subseteq Cores BY <2>2 DEF Outcome
  <2>4. o \in Outcome BY <2>3 DEF Outcome
  <2> HIDE DEF ks, o
  <2>5. chain' = [vals |-> chain.once.vals, replayed |-> FALSE, once |-> o, keys |-> ks]
    BY <1>1 DEF ks, o
  <2> QED BY <2>1, <2>3, <2>4, <2>5
<1>5. Typed'
  <2>1. TypeOK' BY <1>1, <1>3 DEF Typed, TypeOK, Fits
  <2>2. /\ saved' \in [height : Nat, records : Records, uris : [Cores -> Uris \cup {NoUri}]]
        /\ saved'.height = height' /\ saved'.records = records /\ saved'.records = records'
    BY <1>1, <1>2, <1>3
  <2>3. Fits(saved.records)' BY <1>3, <2>2 DEF Fits
  <2>4. block' \in Seq(Blocks) BY <1>1
  <2> QED BY <1>1, <1>4, <2>1, <2>2, <2>3, <2>4 DEF Typed
<1>6. KeysRecorded' BY <1>1 DEF KeysRecorded
<1>7. AllRated'
  <2>1. saved'.records = records /\ records' = records BY <1>1
  <2> QED BY <2>1 DEF AllRated, Rated
<1>8. Rates' BY <1>1 DEF Rates
<1>9. ASSUME NEW k \in Keys, NEW t \in Limits
      PROVE  Account(admitted[k][t], Tokens(k, t)', t, height + 1, restarts)
  <2>1. /\ t \in Types /\ admitted[k][t] \in Seq(Entry)
        /\ Account(admitted[k][t], Tokens(k, t), t, height, restarts)
        /\ Tokens(k, t) \in Int
    BY <1>2, LimitsAreTypes, TokensInt DEF Budget
  <2>2. Tokens(k, t)' \in Int /\ Tokens(k, t)' <= Tokens(k, t) + Allowed[t]
    <3>1. CASE records[k] = NoRecord
      <4>1. Tokens(k, t)' = Tokens(k, t) BY <1>1, <3>1 DEF Tokens
      <4>2. Allowed[t] \in Nat BY <2>1, Products
      <4> QED BY <2>1, <4>1, <4>2
    <3>2. CASE records[k] # NoRecord
      <4>1. PICK r \in Record : r = records[k] BY <3>2, RecordOf
      <4>2. Tokens(k, t)' = Flow(r, t)' /\ Tokens(k, t) = Flow(r, t)
        BY <1>1, <3>2, <4>1 DEF Tokens, Flow
      <4>3. Flow(r, t)' \in Int /\ Flow(r, t)' <= Flow(r, t) + Allowed[t]
        BY <1>1, <1>2, <2>1, FlowNext
      <4> QED BY <4>2, <4>3
    <3> QED BY <3>1, <3>2
  <2> QED BY <1>2, <2>1, <2>2, NextBlock
<1>10. Budget' BY <1>1, <1>9 DEF Budget
<1> QED BY <1>5, <1>6, <1>7, <1>8, <1>10

LEMMA CrashStep == ASSUME LimiterInv, Crash PROVE LimiterInv'
<1> USE DEF LimiterInv
<1>1. /\ restarts' = restarts + 1
      /\ height' = saved.height /\ records' = saved.records /\ uris' = saved.uris
      /\ synced' = FALSE /\ validators' = {} /\ pending' = NoVal
      /\ keys' = [c \in Cores |-> NoKey]
      /\ phase' = "between" /\ redo' = block /\ updates' = <<>>
      /\ chain' = [chain EXCEPT !.replayed = chain.replayed \/ phase # "between"]
      /\ UNCHANGED <<vals, block, saved, admitted, checks, delivered>>
  BY DEF Crash
<1>2. /\ height \in Nat /\ restarts \in Nat /\ saved.height = height
      /\ saved \in [height : Nat, records : Records, uris : [Cores -> Uris \cup {NoUri}]]
      /\ admitted \in [Keys -> [Limits -> Seq(Entry)]] /\ Fits(saved.records)
      /\ chain \in [vals : SUBSET Cores, once : Outcome, keys : [Cores -> Keys \cup {NoKey}],
                    replayed : BOOLEAN]
  BY DEF Typed, TypeOK
<1>3. height' = height /\ records' \in Records /\ Fits(records)' /\ restarts' \in Nat
  BY <1>1, <1>2 DEF Fits
<1>4. chain' \in [vals : SUBSET Cores, once : Outcome, keys : [Cores -> Keys \cup {NoKey}],
                  replayed : BOOLEAN]
  BY <1>1, <1>2
<1>5. Typed'
  <2>1. keys' \in [Cores -> Keys \cup {NoKey}] /\ updates' \in Seq(Votes) BY <1>1
  <2>2. TypeOK' BY <1>1, <1>2, <1>3, <2>1 DEF Typed, TypeOK, Fits
  <2>3. Fits(saved.records)' BY <1>1, <1>2, <1>3 DEF Fits
  <2>4. saved' = saved /\ block' = block /\ redo' = block /\ admitted' = admitted
        /\ checks' = checks /\ delivered' = delivered /\ height' = height
    BY <1>1, <1>3
  <2> QED BY <1>2, <1>3, <1>4, <2>2, <2>3, <2>4 DEF Typed
<1>6. KeysRecorded' BY <1>1 DEF KeysRecorded
<1>7. AllRated'
  <2>1. saved' = saved /\ records' = saved.records BY <1>1
  <2> QED BY <2>1 DEF AllRated, Rated
<1>8. Rates' BY <1>1 DEF Rates
<1>9. ASSUME NEW k \in Keys, NEW t \in Limits
      PROVE  Account(admitted[k][t], Tokens(k, t)', t, height, restarts + 1)
  <2>1. /\ t \in Types /\ admitted[k][t] \in Seq(Entry)
        /\ Account(admitted[k][t], Tokens(k, t), t, height, restarts)
        /\ Tokens(k, t) \in Int /\ Rate(admitted[k][t], t)
    BY <1>2, LimitsAreTypes, TokensInt DEF Budget, Rates
  <2>2. Tokens(k, t)' \in Int /\ Tokens(k, t)' <= Allowed[t] * PerBlocks[t]
    <3>1. CASE records'[k] = NoRecord
      <4>1. Tokens(k, t)' = Allowed[t] * PerBlocks[t] BY <3>1 DEF Tokens
      <4> QED BY <2>1, <4>1, Products
    <3>2. CASE records'[k] # NoRecord
      <4>1. PICK r \in Record : r = records'[k] BY <1>3, <3>2 DEF Records
      <4>2. Tokens(k, t)' = Flow(r, t) BY <1>3, <3>2, <4>1 DEF Tokens, Flow
      <4> QED BY <1>2, <2>1, <4>2, FlowBound
    <3> QED BY <3>1, <3>2
  <2> QED BY <1>2, <2>1, <2>2, Restarted
<1>10. Budget' BY <1>1, <1>3, <1>9 DEF Budget
<1> QED BY <1>5, <1>6, <1>7, <1>8, <1>10

-----------------------------------------------------------------------------
(* The validators after a block that is delivered again                     *)

LEMMA ValsNext ==
    ASSUME NEW s, NEW n \in Nat
    PROVE  /\ Cardinality(Vals(s, 0)) = 0 /\ Cardinality(Vals(s, n)) \in Nat
           /\ Cardinality(Vals(s, n + 1))
                = IF s[n + 1].type = "VAL" THEN Cardinality(Vals(s, n)) + 1 ELSE Cardinality(Vals(s, n))
<1>1. IsFiniteSet(Vals(s, n))
  <2>1. Vals(s, n) \subseteq 1 .. n BY DEF Vals
  <2>2. IsFiniteSet(1 .. n) BY FS_Interval
  <2> QED BY <2>1, <2>2, FS_Subset
<1>2. Vals(s, 0) = {} BY DEF Vals
<1>3. n + 1 \notin Vals(s, n) BY DEF Vals
<1>4. Vals(s, n + 1) = IF s[n + 1].type = "VAL" THEN Vals(s, n) \cup {n + 1} ELSE Vals(s, n)
  <2>1. \A m : m \in 1 .. n + 1 <=> m \in 1 .. n \/ m = n + 1 OBVIOUS
  <2> QED BY <2>1 DEF Vals
<1>5. Cardinality(Vals(s, n)) \in Nat BY <1>1, FS_CardinalityType
<1>6. Cardinality(Vals(s, n) \cup {n + 1}) = Cardinality(Vals(s, n)) + 1
  BY <1>1, <1>3, FS_AddElement
<1>7. Cardinality(Vals(s, 0)) = 0 BY <1>2, FS_EmptySet
<1> QED BY <1>4, <1>5, <1>6, <1>7

LEMMA ValsAppend ==
    ASSUME NEW s \in Seq(Blocks), NEW e \in Blocks, NEW n \in 0 .. Len(s)
    PROVE  Vals(Append(s, e), n) = Vals(s, n)
<1>1. \A m \in 1 .. n : Append(s, e)[m] = s[m] OBVIOUS
<1> QED BY <1>1 DEF Vals

LEMMA CountWithin ==
    ASSUME NEW s, NEW l \in Nat, NEW n \in 1 .. l, s[n].type = "VAL"
    PROVE  Cardinality(Vals(s, n)) \in 1 .. Cardinality(Vals(s, l))
<1>1. IsFiniteSet(Vals(s, l))
  <2>1. Vals(s, l) \subseteq 1 .. l BY DEF Vals
  <2>2. IsFiniteSet(1 .. l) BY FS_Interval
  <2> QED BY <2>1, <2>2, FS_Subset
<1>2. Vals(s, n) \subseteq Vals(s, l)
  <2>1. \A m \in 1 .. n : m \in 1 .. l OBVIOUS
  <2> QED BY <2>1 DEF Vals
<1>3. n \in Vals(s, n) BY DEF Vals
<1>4. /\ IsFiniteSet(Vals(s, n)) /\ Cardinality(Vals(s, n)) <= Cardinality(Vals(s, l))
      /\ Cardinality(Vals(s, l)) \in Nat
  BY <1>1, <1>2, FS_Subset, FS_CardinalityType
<1>5. Cardinality(Vals(s, n)) \in Nat /\ Cardinality(Vals(s, n)) # 0
  BY <1>3, <1>4, FS_EmptySet, FS_CardinalityType
<1> QED BY <1>4, <1>5

(* What a delivered transaction makes of validators and updates.            *)
Effect(tx, s) == IF tx.type = "VAL" THEN updateValidator(tx.vote, s) ELSE s

LEMMA EffectFacts ==
    ASSUME NEW tx \in Blocks, NEW s \in Outcome
    PROVE  /\ Effect(tx, s) \in Outcome
           /\ \A c \in Cores :
                  IF VoteOn(tx, c) THEN c \in Effect(tx, s).vals <=> tx.vote.power = 1
                                   ELSE c \in Effect(tx, s).vals <=> c \in s.vals
           /\ tx.type # "VAL" => Effect(tx, s).updates = s.updates
           /\ tx.type = "VAL" /\ tx.vote.power # 0 => Effect(tx, s).updates = Append(s.updates, tx.vote)
           /\ tx.type = "VAL" => tx.vote \in Votes
<1>1. CASE tx.type # "VAL" BY <1>1 DEF Effect, VoteOn
<1>2. CASE tx.type = "VAL"
  <2>1. tx.vote \in Votes BY <1>2 DEF Blocks
  <2>2. PICK v \in Votes : v = tx.vote BY <2>1
  <2>3. v.id \in Cores /\ v.power \in {0, 1} BY DEF Votes
  <2>4. Effect(tx, s) = updateValidator(v, s) BY <1>2, <2>2 DEF Effect
  <2>5. Effect(tx, s) \in Outcome BY <2>4, UpdateTyped
  <2>6. s.vals \subseteq Cores BY DEF Outcome
  <2>7. \A c \in Cores :
          IF c = v.id THEN c \in updateValidator(v, s).vals <=> v.power = 1
                      ELSE c \in updateValidator(v, s).vals <=> c \in s.vals
    BY <2>3 DEF updateValidator
  <2>8. v.power # 0 => updateValidator(v, s).updates = Append(s.updates, v)
    BY DEF updateValidator
  <2> QED BY <1>2, <2>1, <2>2, <2>4, <2>5, <2>7, <2>8 DEF VoteOn
<1> QED BY <1>1, <1>2

Now == [vals |-> vals, updates |-> updates]

LEMMA DeliverMoves ==
    ASSUME DeliverTx
    PROVE  \E tx \in Blocks :
              /\ Delivered(tx) /\ phase' = phase
              /\ vals' = Effect(tx, Now).vals /\ updates' = Effect(tx, Now).updates
<1>1. ASSUME NEW v \in Votes, Delivered([type |-> "VAL", vote |-> v]), execValidatorTx(v), phase' = phase
      PROVE  \E tx \in Blocks :
              /\ Delivered(tx) /\ phase' = phase
              /\ vals' = Effect(tx, Now).vals /\ updates' = Effect(tx, Now).updates
  <2> DEFINE tx == [type |-> "VAL", vote |-> v]
  <2>1. tx \in Blocks /\ tx.type = "VAL" /\ tx.vote = v BY DEF Blocks
  <2> HIDE DEF tx
  <2>2. vals' = Effect(tx, Now).vals /\ updates' = Effect(tx, Now).updates
    BY <1>1, <2>1 DEF Effect, execValidatorTx, Now
  <2> QED BY <1>1, <2>1, <2>2 DEF tx
<1>2. ASSUME NEW c \in Cores, NEW u \in Uris, NEW k \in KeysOf[c],
             Delivered([type |-> "JWK", core |-> c, key |-> k, uri |-> u]), phase' = phase,
             vals' = vals, updates' = updates
      PROVE  \E tx \in Blocks :
              /\ Delivered(tx) /\ phase' = phase
              /\ vals' = Effect(tx, Now).vals /\ updates' = Effect(tx, Now).updates
  <2> DEFINE tx == [type |-> "JWK", core |-> c, key |-> k, uri |-> u]
  <2>1. tx \in Blocks /\ tx.type # "VAL" BY DEF Blocks, Keys
  <2> HIDE DEF tx
  <2>2. vals' = Effect(tx, Now).vals /\ updates' = Effect(tx, Now).updates
    BY <1>2, <2>1 DEF Effect, Now
  <2> QED BY <1>2, <2>1, <2>2 DEF tx
<1>3. ASSUME NEW c \in Cores, Delivered([type |-> "BTC-C", core |-> c]), phase' = phase,
             vals' = vals, updates' = updates
      PROVE  \E tx \in Blocks :
              /\ Delivered(tx) /\ phase' = phase
              /\ vals' = Effect(tx, Now).vals /\ updates' = Effect(tx, Now).updates
  <2> DEFINE tx == [type |-> "BTC-C", core |-> c]
  <2>1. tx \in Blocks /\ tx.type # "VAL" BY DEF Blocks
  <2> HIDE DEF tx
  <2>2. vals' = Effect(tx, Now).vals /\ updates' = Effect(tx, Now).updates
    BY <1>3, <2>1 DEF Effect, Now
  <2> QED BY <1>3, <2>1, <2>2 DEF tx
<1> QED BY <1>1, <1>2, <1>3 DEF DeliverTx

BlockInv == Replay /\ LastVotes /\ Fresh /\ Pace

LEMMA BlockTypes ==
    ASSUME Typed
    PROVE  /\ block \in Seq(Blocks) /\ redo \in Seq(Blocks) /\ Len(block) \in Nat /\ Len(redo) \in Nat
           /\ chain.once \in Outcome /\ chain.once.vals \subseteq Cores
           /\ chain.once.updates \in Seq(Votes) /\ chain.replayed \in BOOLEAN
           /\ Now \in Outcome /\ Now.vals = vals /\ Now.updates = updates
           /\ vals \subseteq Cores /\ updates \in Seq(Votes)
<1>1. /\ block \in Seq(Blocks) /\ redo \in Seq(Blocks) /\ chain.once \in Outcome
      /\ vals \subseteq Cores /\ updates \in Seq(Votes) /\ chain.replayed \in BOOLEAN
  BY DEF Typed, TypeOK
<1> QED BY <1>1 DEF Outcome, Now

(* With nothing to deliver again, the database is that of a first pass.     *)
LEMMA CaughtUp ==
    ASSUME Typed, LastVotes, redo = <<>>
    PROVE  vals = chain.once.vals
<1>1. \A c \in Cores : ~Voted(redo, c) BY DEF Voted
<1>2. \A c \in Cores : c \in vals <=> c \in chain.once.vals BY <1>1 DEF LastVotes, Agrees
<1> QED BY <1>2, BlockTypes

(* A transaction delivered for the first time.                              *)
LEMMA FirstPass ==
    ASSUME Typed, BlockInv, redo = <<>>, phase = "open", NEW tx \in Blocks, Delivered(tx), phase' = phase,
           vals' = Effect(tx, Now).vals, updates' = Effect(tx, Now).updates
    PROVE  BlockInv'
<1> USE DEF BlockInv
<1> DEFINE l == Len(block)
<1>1. /\ block' = Append(block, tx) /\ redo' = <<>> /\ chain'.once = Effect(tx, chain.once)
      /\ chain'.replayed = chain.replayed
  BY DEF Delivered, Effect, Typed
<1>2. /\ block \in Seq(Blocks) /\ chain.once \in Outcome /\ Now \in Outcome /\ l \in Nat
      /\ Now.vals = vals /\ Now.updates = updates /\ vals \subseteq Cores
      /\ chain.once.vals \subseteq Cores /\ chain.once.updates \in Seq(Votes)
      /\ updates \in Seq(Votes)
  BY BlockTypes
<1>3. vals = chain.once.vals BY CaughtUp
<1>4. /\ block' \in Seq(Blocks) /\ Len(block') = l + 1 /\ block'[l + 1] = tx
      /\ \A n \in 1 .. l : block'[n] = block[n]
  BY <1>1, <1>2
<1>5. Replay' BY <1>1, <1>4, <1>2 DEF Replay
<1>6. vals' = chain'.once.vals
  <2>1. \A c \in Cores : c \in Effect(tx, Now).vals <=> c \in Effect(tx, chain.once).vals
    BY <1>2, <1>3, EffectFacts
  <2>2. Effect(tx, Now).vals \subseteq Cores /\ Effect(tx, chain.once).vals \subseteq Cores
    BY <1>2, EffectFacts DEF Outcome
  <2> QED BY <1>1, <2>1, <2>2
<1>7. LastVotes'
  <2> SUFFICES ASSUME NEW c \in Cores PROVE Agrees(block, c)' /\ Agrees(redo, c)'
    BY DEF LastVotes
  <2>1. Agrees(redo, c)' BY <1>1, <1>6 DEF Agrees
  <2>2. ASSUME NEW n \in 1 .. l + 1,
               VoteOn(block'[n], c), \A m \in 1 .. l + 1 : m > n => ~VoteOn(block'[m], c)
        PROVE  block'[n].vote.power = 1 <=> c \in chain'.once.vals
    <3>1. CASE n = l + 1
      BY <1>1, <1>2, <1>4, <2>2, <3>1, EffectFacts
    <3>2. CASE n # l + 1
      <4>1. n \in 1 .. l /\ l + 1 \in 1 .. l + 1 /\ l + 1 > n BY <1>2, <3>2
      <4>2. ~VoteOn(tx, c) BY <1>4, <2>2, <4>1
      <4>3. \A m \in 1 .. l : m > n => ~VoteOn(block[m], c)
        <5>1. \A m \in 1 .. l : m \in 1 .. l + 1 BY <1>2
        <5> QED BY <1>4, <2>2, <5>1
      <4>4. VoteOn(block[n], c) BY <1>4, <2>2, <4>1
      <4>5. Decides(block, n, c) BY <4>3, <4>4 DEF Decides
      <4>6. block[n].vote.power = 1 <=> c \in chain.once.vals BY <4>1, <4>5 DEF LastVotes, Agrees
      <4>7. c \in chain'.once.vals <=> c \in chain.once.vals BY <1>1, <1>2, <4>2, EffectFacts
      <4> QED BY <1>4, <4>1, <4>6, <4>7
    <3> QED BY <3>1, <3>2
  <2>3. Agrees(block, c)' BY <1>4, <1>6, <2>2 DEF Agrees, Decides
  <2> QED BY <2>1, <2>3
<1>8. Fresh'
  <2>1. ASSUME ~chain.replayed PROVE updates' = chain'.once.updates
    <3>1. updates = chain.once.updates BY <2>1 DEF Fresh
    <3>2. Now = chain.once BY <1>2, <1>3, <3>1 DEF Outcome, Now
    <3> QED BY <1>1, <3>2
  <2> QED BY <1>1, <2>1 DEF Fresh
<1>9. Pace'
  <2> SUFFICES ASSUME \A n \in 1 .. l + 1 : block'[n].type = "VAL" => block'[n].vote.power # 0
               PROVE  /\ Len(chain'.once.updates) = Cardinality(Vals(block', l + 1))
                      /\ \A n \in 1 .. l + 1 : block'[n].type = "VAL" =>
                             chain'.once.updates[Cardinality(Vals(block', n))] = block'[n].vote
                      /\ Len(updates') = Cardinality(Vals(block', l + 1))
                      /\ \A j \in 1 .. Len(updates') : updates'[j] = chain'.once.updates[j]
    <3>1. Len(redo') = 0 /\ (l + 1) - 0 = l + 1 BY <1>1, <1>2
    <3> QED BY <1>4, <3>1 DEF Pace
  <2>1. \A n \in 1 .. l : n \in 1 .. l + 1 BY <1>2
  <2>2. \A n \in 1 .. l : block[n].type = "VAL" => block[n].vote.power # 0 BY <1>4, <2>1
  <2>3. Len(redo) = 0 /\ l - 0 = l BY <1>2
  <2>4. /\ Len(chain.once.updates) = Cardinality(Vals(block, l))
        /\ \A n \in 1 .. l : block[n].type = "VAL" =>
               chain.once.updates[Cardinality(Vals(block, n))] = block[n].vote
        /\ Len(updates) = Cardinality(Vals(block, l))
        /\ \A j \in 1 .. Len(updates) : updates[j] = chain.once.updates[j]
    BY <2>2, <2>3 DEF Pace
  <2>5. updates = chain.once.updates BY <1>2, <2>4
  <2>6. Now = chain.once BY <1>2, <1>3, <2>5 DEF Outcome, Now
  <2>7. updates' = chain'.once.updates BY <1>1, <2>6
  <2>8. \A n \in 1 .. l : Vals(block', n) = Vals(block, n) BY <1>1, <1>2, ValsAppend
  <2>9. Vals(block', l) = Vals(block, l) BY <1>1, <1>2, ValsAppend
  <2>10. /\ Cardinality(Vals(block, l)) \in Nat
         /\ Cardinality(Vals(block', l + 1))
                = IF tx.type = "VAL" THEN Cardinality(Vals(block, l)) + 1 ELSE Cardinality(Vals(block, l))
    <3>1. PICK b : b = block' OBVIOUS
    <3>2. /\ Cardinality(Vals(b, l)) \in Nat
          /\ Cardinality(Vals(b, l + 1))
                = IF b[l + 1].type = "VAL" THEN Cardinality(Vals(b, l)) + 1 ELSE Cardinality(Vals(b, l))
      BY <1>2, ValsNext
    <3> QED BY <1>4, <2>9, <3>1, <3>2
  <2>11. CASE tx.type # "VAL"
    <3>1. chain'.once.updates = chain.once.updates BY <1>1, <1>2, <2>11, EffectFacts
    <3>2. ASSUME NEW n \in 1 .. l + 1, block'[n].type = "VAL"
          PROVE  chain'.once.updates[Cardinality(Vals(block', n))] = block'[n].vote
      <4>1. n \in 1 .. l BY <1>2, <1>4, <2>11, <3>2
      <4> QED BY <1>4, <2>4, <2>8, <3>1, <3>2, <4>1
    <3> QED BY <2>4, <2>7, <2>10, <2>11, <3>1, <3>2
  <2>12. CASE tx.type = "VAL"
    <3>1. l + 1 \in 1 .. l + 1 BY <1>2
    <3>2. tx.vote.power # 0 BY <1>4, <2>12, <3>1
    <3>3. /\ chain'.once.updates = Append(chain.once.updates, tx.vote) /\ tx.vote \in Votes
      BY <1>1, <1>2, <2>12, <3>2, EffectFacts
    <3> DEFINE o == chain.once.updates
               w == tx.vote
    <3>4. /\ Len(chain'.once.updates) = Len(o) + 1 /\ chain'.once.updates[Len(o) + 1] = w
          /\ \A j \in 1 .. Len(o) : chain'.once.updates[j] = o[j]
      <4>1. o \in Seq(Votes) /\ w \in Votes /\ chain'.once.updates = Append(o, w) BY <1>2, <3>3
      <4> HIDE DEF o, w
      <4> QED BY <4>1
    <3>5. ASSUME NEW n \in 1 .. l + 1, block'[n].type = "VAL"
          PROVE  chain'.once.updates[Cardinality(Vals(block', n))] = block'[n].vote
      <4>1. CASE n = l + 1 BY <1>4, <2>4, <2>10, <2>12, <3>4, <4>1
      <4>2. CASE n # l + 1
        <5>1. n \in 1 .. l /\ n \in Nat /\ n <= l BY <1>2, <4>2
        <5>2. block[n].type = "VAL" /\ block'[n] = block[n] BY <1>4, <3>5, <5>1
        <5>3. o[Cardinality(Vals(block, n))] = block[n].vote BY <2>4, <5>1, <5>2
        <5>4. Cardinality(Vals(block, n)) \in 1 .. Len(o)
          BY <1>2, <2>4, <5>1, <5>2, CountWithin
        <5> QED BY <2>8, <3>4, <5>1, <5>2, <5>3, <5>4
      <4> QED BY <4>1, <4>2
    <3> QED BY <2>4, <2>7, <2>10, <2>12, <3>4, <3>5
  <2> QED BY <2>11, <2>12
<1> QED BY <1>5, <1>7, <1>8, <1>9

(* A transaction a restart delivers again.                                  *)
LEMMA SecondPass ==
    ASSUME Typed, BlockInv, redo # <<>>, phase = "open", NEW tx \in Blocks, Delivered(tx), phase' = phase,
           vals' = Effect(tx, Now).vals, updates' = Effect(tx, Now).updates
    PROVE  BlockInv'
<1> USE DEF BlockInv
<1> DEFINE l == Len(block)
           k == Len(redo)
<1>1. tx = Head(redo) /\ redo' = Tail(redo) /\ block' = block /\ chain' = chain
  BY DEF Delivered
<1>2. /\ block \in Seq(Blocks) /\ redo \in Seq(Blocks) /\ l \in Nat /\ k \in Nat
      /\ Now \in Outcome /\ Now.vals = vals /\ Now.updates = updates /\ vals \subseteq Cores
      /\ chain.once.vals \subseteq Cores /\ chain.once.updates \in Seq(Votes)
      /\ updates \in Seq(Votes)
  BY BlockTypes
<1>3. /\ k >= 1 /\ Len(redo') = k - 1 /\ redo[1] = tx
      /\ \A n \in 1 .. k - 1 : redo'[n] = redo[n + 1]
  BY <1>1, <1>2
<1>4. k <= l /\ \A n \in 1 .. k : redo[n] = block[l - k + n] BY DEF Replay
<1>5. block[l - k + 1] = tx /\ l - k + 1 \in 1 .. l
  <2>1. 1 \in 1 .. k BY <1>2, <1>3
  <2>2. redo[1] = block[l - k + 1] BY <1>4, <2>1
  <2> QED BY <1>2, <1>3, <1>4, <2>2
<1>6. Replay'
  <2>1. Len(redo') <= Len(block') BY <1>1, <1>2, <1>3, <1>4
  <2>2. ASSUME NEW n \in 1 .. k - 1 PROVE redo'[n] = block[l - (k - 1) + n]
    <3>1. n + 1 \in 1 .. k /\ l - k + (n + 1) = l - (k - 1) + n BY <1>2
    <3>2. redo[n + 1] = block[l - k + (n + 1)] BY <1>4, <3>1
    <3> QED BY <1>3, <3>1, <3>2
  <2> QED BY <1>1, <1>3, <2>1, <2>2 DEF Replay
<1>7. \A c \in Cores : IF VoteOn(tx, c) THEN c \in vals' <=> tx.vote.power = 1
                                        ELSE c \in vals' <=> c \in vals
  BY <1>2, EffectFacts
<1>8. LastVotes'
  <2> SUFFICES ASSUME NEW c \in Cores PROVE Agrees(block, c)' /\ Agrees(redo, c)'
    BY DEF LastVotes
  <2>0. Agrees(block, c) /\ Agrees(redo, c) BY DEF LastVotes
  <2>1. Agrees(block, c)'
    <3>1. ~Voted(block, c) => ~VoteOn(tx, c) BY <1>5 DEF Voted
    <3>2. ~Voted(block, c) => (c \in vals' <=> c \in chain.once.vals)
      BY <1>7, <2>0, <3>1 DEF Agrees
    <3> QED BY <1>1, <2>0, <3>2 DEF Agrees, Decides, Voted
  <2>2. ASSUME NEW n \in 1 .. k - 1, VoteOn(redo'[n], c),
               \A m \in 1 .. k - 1 : m > n => ~VoteOn(redo'[m], c)
        PROVE  redo'[n].vote.power = 1 <=> c \in chain.once.vals
    <3>1. n + 1 \in 1 .. k /\ redo'[n] = redo[n + 1] BY <1>2, <1>3
    <3>2. ASSUME NEW m \in 1 .. k, m > n + 1 PROVE ~VoteOn(redo[m], c)
      <4>1. m - 1 \in 1 .. k - 1 /\ m - 1 > n /\ (m - 1) + 1 = m BY <1>2, <3>2
      <4> QED BY <1>3, <2>2, <4>1
    <3>3. Decides(redo, n + 1, c) BY <2>2, <3>1, <3>2 DEF Decides
    <3> QED BY <2>0, <3>1, <3>3 DEF Agrees
  <2>3. ASSUME \A m \in 1 .. k - 1 : ~VoteOn(redo'[m], c)
        PROVE  c \in vals' <=> c \in chain.once.vals
    <3>1. ASSUME NEW m \in 1 .. k, m > 1 PROVE ~VoteOn(redo[m], c)
      <4>1. m - 1 \in 1 .. k - 1 /\ (m - 1) + 1 = m BY <1>2, <3>1
      <4> QED BY <1>3, <2>3, <4>1
    <3>2. 1 \in 1 .. k BY <1>2, <1>3
    <3>3. CASE VoteOn(tx, c)
      <4>1. Decides(redo, 1, c) BY <1>3, <3>1, <3>3 DEF Decides
      <4>2. tx.vote.power = 1 <=> c \in chain.once.vals BY <1>3, <2>0, <3>2, <4>1 DEF Agrees
      <4> QED BY <1>7, <3>3, <4>2
    <3>4. CASE ~VoteOn(tx, c)
      <4>1. ASSUME NEW m \in 1 .. k PROVE ~VoteOn(redo[m], c)
        <5>1. m = 1 \/ m > 1 BY <1>2
        <5> QED BY <1>3, <3>1, <3>4, <5>1
      <4>2. ~Voted(redo, c) BY <4>1 DEF Voted
      <4>3. c \in vals <=> c \in chain.once.vals BY <2>0, <4>2 DEF Agrees
      <4> QED BY <1>7, <3>4, <4>3
    <3> QED BY <3>3, <3>4
  <2>4. Agrees(redo, c)' BY <1>1, <1>3, <2>2, <2>3 DEF Agrees, Decides, Voted
  <2> QED BY <2>1, <2>4
<1>9. Fresh' BY <1>1 DEF Fresh
<1>10. Pace'
  <2> SUFFICES ASSUME \A n \in 1 .. l : block[n].type = "VAL" => block[n].vote.power # 0
               PROVE  /\ Len(chain.once.updates) = Cardinality(Vals(block, l))
                      /\ \A n \in 1 .. l : block[n].type = "VAL" =>
                             chain.once.updates[Cardinality(Vals(block, n))] = block[n].vote
                      /\ Len(updates') = Cardinality(Vals(block, l - (k - 1)))
                      /\ \A j \in 1 .. Len(updates') : updates'[j] = chain.once.updates[j]
    BY <1>1, <1>3 DEF Pace
  <2>1. /\ Len(chain.once.updates) = Cardinality(Vals(block, l))
        /\ \A n \in 1 .. l : block[n].type = "VAL" =>
               chain.once.updates[Cardinality(Vals(block, n))] = block[n].vote
        /\ Len(updates) = Cardinality(Vals(block, l - k))
        /\ \A j \in 1 .. Len(updates) : updates[j] = chain.once.updates[j]
    BY DEF Pace
  <2> DEFINE d == l - k
  <2>2. d \in Nat /\ l - (k - 1) = d + 1 /\ d + 1 \in 1 .. l /\ block[d + 1] = tx
    BY <1>2, <1>3, <1>4, <1>5
  <2>3. Len(updates) = Cardinality(Vals(block, d)) BY <2>1
  <2> HIDE DEF d
  <2>4. /\ Cardinality(Vals(block, d)) \in Nat
        /\ Cardinality(Vals(block, d + 1))
              = IF tx.type = "VAL" THEN Cardinality(Vals(block, d)) + 1 ELSE Cardinality(Vals(block, d))
    BY <2>2, ValsNext
  <2>5. CASE tx.type # "VAL"
    <3>1. updates' = updates BY <1>2, <2>5, EffectFacts
    <3> QED BY <2>1, <2>2, <2>3, <2>4, <2>5, <3>1
  <2>6. CASE tx.type = "VAL"
    <3>1. tx.vote.power # 0 BY <2>2, <2>6
    <3>2. updates' = Append(updates, tx.vote) /\ tx.vote \in Votes BY <1>2, <2>6, <3>1, EffectFacts
    <3> DEFINE w == tx.vote
    <3>3. /\ Len(updates') = Len(updates) + 1 /\ updates'[Len(updates) + 1] = w
          /\ \A j \in 1 .. Len(updates) : updates'[j] = updates[j]
      <4>1. w \in Votes /\ updates' = Append(updates, w) BY <3>2
      <4> HIDE DEF w
      <4> QED BY <1>2, <4>1
    <3>4. chain.once.updates[Cardinality(Vals(block, d + 1))] = w BY <2>1, <2>2, <2>6
    <3>5. Len(updates') = Cardinality(Vals(block, d + 1)) BY <2>3, <2>4, <2>6, <3>3
    <3>6. ASSUME NEW j \in 1 .. Len(updates') PROVE updates'[j] = chain.once.updates[j]
      <4>1. j \in 1 .. Len(updates) \/ j = Len(updates) + 1 BY <1>2, <3>3
      <4> QED BY <2>1, <3>3, <3>4, <3>5, <4>1
    <3> QED BY <2>1, <2>2, <3>5, <3>6
  <2> QED BY <2>5, <2>6
<1> QED BY <1>6, <1>8, <1>9, <1>10

LEMMA BlockStep ==
    ASSUME Typed, BlockInv, Next \/ UNCHANGED vars
    PROVE  BlockInv'
<1> USE DEF BlockInv
<1>1. ASSUME UNCHANGED <<vals, updates, phase, block, redo, chain>> PROVE BlockInv'
  <2>1. Replay' BY <1>1 DEF Replay
  <2>2. LastVotes' BY <1>1 DEF LastVotes, Agrees, Voted, Decides
  <2>3. Fresh' BY <1>1 DEF Fresh
  <2>4. Pace' BY <1>1 DEF Pace
  <2> QED BY <2>1, <2>2, <2>3, <2>4
<1>2. CASE CheckTx
  <2>1. PICK tx : validateTx(tx) BY <1>2, CheckTxCore
  <2> QED BY <1>1, <2>1 DEF validateTx, blockVars
<1>3. CASE BeginBlock
  <2>1. /\ phase = "between" /\ phase' = "open" /\ updates' = <<>>
        /\ UNCHANGED <<vals, block, redo, chain>>
    BY <1>3 DEF BeginBlock, history
  <2>2. redo = block BY <2>1 DEF Replay
  <2>3. Replay' BY <2>1 DEF Replay
  <2>4. LastVotes' BY <2>1 DEF LastVotes, Agrees, Voted, Decides
  <2>5. Fresh' BY <2>1 DEF Fresh
  <2>6. Pace'
    <3>1. Len(block) - Len(redo) = 0 BY <2>2, BlockTypes
    <3>2. Cardinality(Vals(block, 0)) = 0 BY ValsNext
    <3>3. Len(updates') = 0 BY <2>1
    <3> QED BY <2>1, <3>1, <3>2, <3>3 DEF Pace
  <2> QED BY <2>3, <2>4, <2>5, <2>6
<1>4. CASE DeliverTx
  <2>1. PICK tx \in Blocks : /\ Delivered(tx) /\ phase' = phase
                             /\ vals' = Effect(tx, Now).vals /\ updates' = Effect(tx, Now).updates
    BY <1>4, DeliverMoves
  <2>2. phase = "open" BY <2>1 DEF Delivered
  <2> QED BY <2>1, <2>2, FirstPass, SecondPass
<1>5. CASE EndBlock
  <2>1. /\ phase = "open" /\ phase' = "ended" /\ redo = <<>>
        /\ UNCHANGED <<vals, updates, block, redo, chain>>
    BY <1>5 DEF EndBlock, history
  <2>2. Replay' BY <2>1 DEF Replay
  <2>3. LastVotes' BY <2>1 DEF LastVotes, Agrees, Voted, Decides
  <2>4. Fresh' BY <2>1 DEF Fresh
  <2>5. Pace' BY <2>1 DEF Pace
  <2> QED BY <2>2, <2>3, <2>4, <2>5
<1>6. CASE Commit
  <2>1. /\ phase = "ended" /\ phase' = "between" /\ block' = <<>> /\ redo' = redo
        /\ vals' = vals /\ updates' = updates
        /\ chain'.once.vals = chain.once.vals /\ chain'.once.updates = <<>>
    BY <1>6 DEF Commit
  <2>2. redo = <<>> BY <2>1 DEF Replay
  <2>3. vals = chain.once.vals BY <2>2, CaughtUp
  <2>4. Replay' BY <2>1, <2>2 DEF Replay
  <2>5. LastVotes' BY <2>1, <2>2, <2>3 DEF LastVotes, Agrees, Voted, Decides
  <2>6. Fresh' BY <2>1, <2>2 DEF Fresh
  <2>7. Pace'
    <3>1. Cardinality(Vals(<<>>, 0)) = 0 BY ValsNext
    <3>2. Len(chain'.once.updates) = 0 /\ Len(block') = 0 BY <2>1
    <3> QED BY <2>1, <3>1, <3>2 DEF Pace
  <2> QED BY <2>4, <2>5, <2>6, <2>7
<1>7. CASE Crash
  <2>1. /\ phase' = "between" /\ redo' = block /\ updates' = <<>> /\ vals' = vals /\ block' = block
        /\ chain' = [chain EXCEPT !.replayed = chain.replayed \/ phase # "between"]
    BY <1>7 DEF Crash
  <2>2. /\ chain'.once = chain.once
        /\ chain'.replayed = (chain.replayed \/ phase # "between")
    BY <2>1 DEF Typed
  <2>3. Replay' BY <2>1, BlockTypes DEF Replay
  <2>4. LastVotes' BY <2>1, <2>2 DEF LastVotes, Agrees, Voted, Decides
  <2>5. Fresh'
    <3>1. ASSUME ~chain.replayed, phase = "between" PROVE block = <<>> /\ chain.once.updates = <<>>
      BY <3>1 DEF Fresh, Replay
    <3> QED BY <2>1, <2>2, <3>1 DEF Fresh
  <2>6. Pace' BY <2>1, <2>2 DEF Pace
  <2> QED BY <2>3, <2>4, <2>5, <2>6
<1>8. CASE LoadIdentity \/ SyncMonitor \/ SetStake \/ UNCHANGED vars
  BY <1>1, <1>8 DEF LoadIdentity, SyncMonitor, SetStake, vars, history, blockVars
<1> QED BY <1>2, <1>3, <1>4, <1>5, <1>6, <1>7, <1>8 DEF Next

LEMMA InitInv == Init => AdmissionInv
<1> SUFFICES ASSUME Init PROVE AdmissionInv
  OBVIOUS
<1>1. /\ height \in Nat /\ restarts = 0 /\ FirstValidators \subseteq Cores
      /\ records = [k \in Keys |-> NoRecord] /\ saved.records = records
  BY AdmissionAssumption DEF Init
<1>2. Typed
  <2>1. records \in Records BY <1>1 DEF Records
  <2>2. Fits(records) /\ Fits(saved.records) BY <1>1 DEF Fits
  <2>3. TypeOK
    <3>1. /\ keys \in [Cores -> Keys \cup {NoKey}] /\ uris \in [Cores -> Uris \cup {NoUri}]
          /\ validators \subseteq Cores /\ pending \in Votes \cup {NoVal} /\ synced \in BOOLEAN
      BY DEF Init
    <3>2. vals \subseteq Cores /\ updates \in Seq(Votes) /\ phase \in {"between", "open", "ended"}
      BY <1>1 DEF Init
    <3> QED BY <1>1, <2>1, <2>2, <3>1, <3>2 DEF TypeOK, Fits
  <2>4. admitted \in [Keys -> [Limits -> Seq(Entry)]] BY DEF Init, Limits
  <2>5. chain \in [vals : SUBSET Cores, once : Outcome, keys : [Cores -> Keys \cup {NoKey}],
                   replayed : BOOLEAN]
    BY <1>1 DEF Init, Outcome
  <2>6. saved \in [height : Nat, records : Records, uris : [Cores -> Uris \cup {NoUri}]]
        /\ saved.height = height
    BY <1>1, <2>1 DEF Init
  <2> QED BY <2>2, <2>3, <2>4, <2>5, <2>6 DEF Init, Typed
<1>3. KeysRecorded BY DEF Init, KeysRecorded
<1>4. AllRated BY <1>1 DEF AllRated, Rated
<1>5. Rates /\ Budget
  <2>1. \A k \in Keys, t \in Limits : Len(admitted[k][t]) = 0 BY DEF Init, Limits
  <2> QED BY <2>1 DEF Rates, Rate, Budget, Account
<1>6. Replay BY DEF Init, Replay
<1>7. LastVotes BY DEF Init, LastVotes, Agrees, Voted
<1>8. Fresh BY DEF Init, Fresh
<1>9. Pace
  <2>1. Cardinality(Vals(<<>>, 0)) = 0 BY ValsNext
  <2> QED BY <2>1 DEF Init, Pace
<1> QED BY <1>2, <1>3, <1>4, <1>5, <1>6, <1>7, <1>8, <1>9 DEF AdmissionInv

LEMMA AdmissionInvStep == AdmissionInv /\ [Next]_vars => AdmissionInv'
<1> SUFFICES ASSUME AdmissionInv, Next \/ UNCHANGED vars PROVE AdmissionInv'
  OBVIOUS
<1>1. LimiterInv /\ BlockInv /\ Typed BY DEF AdmissionInv, LimiterInv, BlockInv
<1>2. LimiterInv'
  BY <1>1, CheckTxStep, DeliverTxStep, QuietSteps, CommitStep, CrashStep, LoadIdentityStep DEF Next
<1>3. BlockInv' BY <1>1, BlockStep
<1> QED BY <1>2, <1>3 DEF AdmissionInv, LimiterInv, BlockInv

LEMMA Inductive == Spec => []AdmissionInv
BY InitInv, AdmissionInvStep, PTL DEF Spec

-----------------------------------------------------------------------------
(* Theorems                                                                 *)

(* RateLimitUpdate and the handlers: the variables keep their types, and no *)
(* bucket ever holds more than AllowedRate tokens, whatever is delivered,   *)
(* checked, saved and restored.                                             *)
THEOREM TypeCorrect == Spec => []TypeOK
<1>1. AdmissionInv => TypeOK BY DEF AdmissionInv, Typed
<1> QED BY <1>1, Inductive, PTL

(* SetIdentity before CheckTx: Validate always finds the record of a key it *)
(* knows, with any keys and restarts.                                       *)
THEOREM RecordThere == Spec => []KeysRecorded
<1>1. AdmissionInv => KeysRecorded BY DEF AdmissionInv
<1> QED BY <1>1, Inductive, PTL

(* UpdateAcceptTx: for any AllowedRate and PerBlocks, the number of a       *)
(* peer's BTC-A or FEE transactions that pass the limiter in a stretch of   *)
(* blocks is bounded by the rate and the restarts in it.                    *)
THEOREM RateHolds == Spec => []WithinRate
<1>1. ASSUME AdmissionInv PROVE WithinRate
  <2>1. Typed /\ Rates BY <1>1 DEF AdmissionInv
  <2>2. \A k \in Keys, t \in Limits : DOMAIN admitted[k][t] = 1 .. Len(admitted[k][t])
    BY <2>1 DEF Typed
  <2> SUFFICES ASSUME NEW k \in Keys, NEW t \in Limits
               PROVE  LET s == admitted[k][t] IN
                      \A i, j \in DOMAIN s : i < j =>
                          (j - i + 1) * PerBlocks[t] <=
                              Allowed[t] * (PerBlocks[t] * (1 + s[j].restarts - s[i].restarts)
                                            + s[j].at - s[i].at)
    BY DEF WithinRate, Limits
  <2>3. PICK s : s = admitted[k][t] OBVIOUS
  <2>4. Rate(s, t) BY <2>1, <2>3 DEF Rates
  <2> QED BY <2>2, <2>3, <2>4, Zenon DEF Rate
<1> QED BY <1>1, Inductive, PTL

(* updateValidator writes at once: after any block of votes and any number  *)
(* of restarts inside it, the database and the updates are those of a Core  *)
(* that delivered the block once (the updates unless a validator is removed).*)
THEOREM ValidatorsAgree == Spec => []SameValidators
<1>1. ASSUME AdmissionInv PROVE SameValidators
  <2> SUFFICES ASSUME phase = "ended"
               PROVE  /\ vals = chain.once.vals
                      /\ \/ updates = chain.once.updates
                         \/ chain.replayed /\ \E i \in DOMAIN block :
                                block[i].type = "VAL" /\ block[i].vote.power = 0
    BY DEF SameValidators
  <2>1. Typed /\ Replay /\ LastVotes /\ Fresh /\ Pace BY <1>1 DEF AdmissionInv
  <2>2. redo = <<>> BY <2>1 DEF Replay
  <2>3. vals = chain.once.vals BY <2>1, <2>2, CaughtUp
  <2>4. CASE ~chain.replayed BY <2>1, <2>3, <2>4 DEF Fresh
  <2>5. CASE \E i \in DOMAIN block : block[i].type = "VAL" /\ block[i].vote.power = 0
    BY <2>1, <2>3, <2>4, <2>5, BlockTypes
  <2>6. CASE ~\E i \in DOMAIN block : block[i].type = "VAL" /\ block[i].vote.power = 0
    <3>1. /\ chain.once.updates \in Seq(Votes) /\ updates \in Seq(Votes)
          /\ Len(block) \in Nat /\ DOMAIN block = 1 .. Len(block)
      BY <2>1, BlockTypes
    <3>2. Len(block) - Len(redo) = Len(block) BY <2>2, <3>1
    <3>3. /\ Len(updates) = Len(chain.once.updates)
          /\ \A j \in 1 .. Len(updates) : updates[j] = chain.once.updates[j]
      BY <2>1, <2>6, <3>1, <3>2 DEF Pace
    <3>4. updates = chain.once.updates BY <3>1, <3>3
    <3> QED BY <2>3, <3>4
  <2> QED BY <2>4, <2>5, <2>6, <2>1, BlockTypes
<1> QED BY <1>1, Inductive, PTL

=============================================================================
