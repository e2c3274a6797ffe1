----------------------------- MODULE PodProofs -----------------------------
(***************************************************************************)
(* Proofs about Pod: past-perfection across clients, the order of the      *)
(* bounds of a record, and how they change from one Read to the next, for  *)
(* any replicas, clients, votes, restarts, alpha and beta.                 *)
(*                                                                         *)
(* The argument has two halves.  Ranks: what the medians of ClientApi      *)
(* select is characterised by how many values are below it (HasRank),      *)
(* which exists for every finite collection, and is monotone.  Histories:  *)
(* an inductive invariant (PodInv) ties what a client knows of a steady    *)
(* replica to the prefix of its votes the client has applied.              *)
(***************************************************************************)
EXTENDS Pod, FiniteSetTheorems, WellFoundedInduction, TLAPS

\* t is element k, counted from 0, of the values f[r], r \in S, sorted.
HasRank(S, f, k, t) ==
  /\ \E r \in S : t = f[r]
  /\ Cardinality({r \in S : f[r] < t}) <= k
  /\ Cardinality({r \in S : f[r] <= t}) > k

\* Types.
TypeInv ==
  /\ steady \subseteq Replicas
  /\ history \in [Replicas -> Seq(Votes)]
  /\ nextsn \in [Clients -> [Replicas -> Nat]]
  /\ mrt \in [Clients -> [Replicas -> 0..U64MAX]]
  /\ tsps \in [Clients -> [Payloads -> [Replicas -> {-1} \cup 0..(U64MAX - 1)]]]

\* m is the newest timestamp of the first n votes of s.
NewestOf(s, n, m) ==
  /\ \A i \in 1..n : s[i].ts <= m
  /\ m = 0 \/ \E i \in 1..n : s[i].ts = m

\* Vote i of s is at least as new as all before it.
Fresh(s, i) == \A j \in 1..(i - 1) : s[j].ts <= s[i].ts

\* t, when it is not -1, is the timestamp of a fresh vote for tx among the first
\* n of s, and when it is, there is none.
RecordOf(s, n, tx, t) ==
  /\ t # -1 => \E i \in 1..n : Fresh(s, i) /\ s[i].tx = tx /\ s[i].ts = t
  /\ t = -1 /\ tx # Heartbeat => \A i \in 1..n : Fresh(s, i) => s[i].tx # tx

\* Of a steady replica a client has applied a prefix of its votes, mrt is the
\* newest timestamp among them, and tsps has a timestamp for a transaction just
\* when there is a fresh vote for it among them.
PrefixInv ==
  \A c \in Clients, r \in steady :
    /\ nextsn[c][r] <= Len(history[r])
    /\ NewestOf(history[r], nextsn[c][r], mrt[c][r])
    /\ \A tx \in Payloads : RecordOf(history[r], nextsn[c][r], tx, tsps[c][tx][r])

\* No heartbeat is recorded.
HeartbeatInv == \A c \in Clients, r \in Replicas : tsps[c][Heartbeat][r] = -1

PodInv == TypeInv /\ PrefixInv /\ HeartbeatInv

-----------------------------------------------------------------------------
\* Counting in an instance of ClientApi is counting.
LEMMA SameCardinality ==
  ASSUME NEW c, NEW S
  PROVE  Client(c)!Cardinality(S) = Cardinality(S)
  BY DEF Client!Cardinality, Cardinality

\* A nonempty set of subsets of a finite set has a minimal element.
LEMMA MinimalSubset ==
  ASSUME NEW S, IsFiniteSet(S), NEW D, D \subseteq SUBSET S, D # {}
  PROVE  \E d \in D : \A e \in D : ~(e \subseteq d /\ e # d)
<1>1. IsWellFoundedOn(StrictSubsetOrdering(S), SUBSET S)
  BY FS_StrictSubsetOrderingWellFounded, FS_FiniteSubsetsOfFinite
<1>2. PICK d \in D : \A e \in D : ~(<<e, d>> \in StrictSubsetOrdering(S))
  BY <1>1, WFMin
<1>3. \A e \in D : <<e, d>> \in (SUBSET S) \X (SUBSET S)
  OBVIOUS
<1>. QED
  BY <1>2, <1>3 DEF StrictSubsetOrdering

\* A finite, nonempty collection of numbers has a greatest one.
LEMMA GreatestValue ==
  ASSUME NEW S, IsFiniteSet(S), S # {}, NEW f, \A r \in S : f[r] \in Int
  PROVE  \E m \in S : \A r \in S : f[r] <= f[m]
<1>. DEFINE Above(r) == {q \in S : f[q] > f[r]}
            D == {Above(r) : r \in S}
<1>1. D \subseteq SUBSET S /\ D # {}
  OBVIOUS
<1>2. PICK d \in D : \A e \in D : ~(e \subseteq d /\ e # d)
  <2>. HIDE DEF D
  <2>. QED
    BY <1>1, MinimalSubset
<1>3. PICK m \in S : d = Above(m)
  OBVIOUS
<1>4. ASSUME NEW q \in S, f[q] > f[m] PROVE FALSE
  <2>1. Above(q) \in D
    OBVIOUS
  <2>2. Above(q) \subseteq Above(m) /\ q \in Above(m) /\ q \notin Above(q)
    BY <1>4
  <2>. QED
    BY <1>2, <1>3, <2>1, <2>2
<1>. QED
  BY <1>4

\* Every rank below the number of values is the rank of one of them.
LEMMA RankExists ==
  ASSUME NEW S, IsFiniteSet(S), NEW f, \A r \in S : f[r] \in Int,
         NEW k \in Nat, k < Cardinality(S)
  PROVE  \E t : HasRank(S, f, k, t)
<1>. DEFINE UpTo(r) == {q \in S : f[q] <= f[r]}
            High == {r \in S : Cardinality(UpTo(r)) > k}
            D == {UpTo(r) : r \in High}
<1>1. S # {}
  BY FS_EmptySet
<1>2. PICK m \in S : \A r \in S : f[r] <= f[m]
  BY <1>1, GreatestValue
<1>3. UpTo(m) = S
  BY <1>2
<1>4. m \in High
  BY <1>3
<1>5. D \subseteq SUBSET S /\ D # {}
  BY <1>4
<1>6. PICK d \in D : \A e \in D : ~(e \subseteq d /\ e # d)
  <2>. HIDE DEF D
  <2>. QED
    BY <1>5, MinimalSubset
<1>7. PICK r \in High : d = UpTo(r)
  OBVIOUS
<1>. DEFINE Below == {q \in S : f[q] < f[r]}
<1>8. IsFiniteSet(Below) /\ Cardinality(Below) \in Nat
  BY FS_Subset, FS_CardinalityType
<1>9. ASSUME Cardinality(Below) > k PROVE FALSE
  <2>1. Below # {}
    BY <1>9, FS_EmptySet
  <2>2. \A p \in Below : f[p] \in Int
    OBVIOUS
  <2>3. PICK q \in Below : \A p \in Below : f[p] <= f[q]
    <3>. HIDE DEF Below
    <3>. QED
      BY <1>8, <2>1, <2>2, GreatestValue
  <2>4. UpTo(q) = Below
    BY <2>3
  <2>5. q \in High
    BY <1>9, <2>4
  <2>6. UpTo(q) \in D
    BY <2>5
  <2>7. UpTo(q) \subseteq UpTo(r) /\ r \in UpTo(r) /\ r \notin UpTo(q)
    BY <2>3, <2>4
  <2>. QED
    BY <1>6, <1>7, <2>6, <2>7
<1>10. HasRank(S, f, k, f[r])
  BY <1>8, <1>9 DEF HasRank
<1>. QED
  BY <1>10

\* What the medians of ClientApi select has the rank they ask for.
LEMMA KthHasRank ==
  ASSUME NEW c, NEW S, IsFiniteSet(S), NEW f, \A r \in S : f[r] \in Int,
         NEW k \in Nat, k < Cardinality(S)
  PROVE  HasRank(S, f, k, Client(c)!Kth(S, f, k))
<1>. DEFINE V == {f[r] : r \in S}
<1>1. \A t : Client(c)!IsKth(S, f, k, t) <=>
               /\ Cardinality({r \in S : f[r] < t}) <= k
               /\ Cardinality({r \in S : f[r] <= t}) > k
  BY SameCardinality DEF Client!IsKth
<1>2. PICK t : HasRank(S, f, k, t)
  BY RankExists
<1>3. t \in V /\ Client(c)!IsKth(S, f, k, t)
  BY <1>1, <1>2 DEF HasRank
<1>4. \E u \in V : Client(c)!IsKth(S, f, k, u)
  BY <1>3
<1>. DEFINE w == CHOOSE u \in V : Client(c)!IsKth(S, f, k, u)
<1>5. w \in V /\ Client(c)!IsKth(S, f, k, w)
  <2>. HIDE DEF V
  <2>. QED
    BY <1>4
<1>6. Client(c)!Kth(S, f, k) = w
  BY DEF Client!Kth
<1>. HIDE DEF w
<1>. QED
  BY <1>1, <1>5, <1>6 DEF HasRank

\* Ranks are monotone in the values and in the rank.
LEMMA RankOrder ==
  ASSUME NEW S, IsFiniteSet(S), NEW f, NEW g, NEW k \in Nat, NEW l \in Nat, NEW t, NEW u,
         \A r \in S : f[r] \in Int /\ g[r] \in Int /\ f[r] <= g[r],
         k <= l, HasRank(S, f, k, t), HasRank(S, g, l, u)
  PROVE  t <= u
<1>. DEFINE F == {r \in S : f[r] < t}
            G == {r \in S : g[r] <= u}
<1>1. t \in Int /\ u \in Int
  BY DEF HasRank
<1>2. /\ IsFiniteSet(F) /\ Cardinality(F) \in Nat /\ Cardinality(F) <= k
      /\ IsFiniteSet(G) /\ Cardinality(G) \in Nat /\ Cardinality(G) > l
  BY FS_Subset, FS_CardinalityType DEF HasRank
<1>3. ASSUME u < t PROVE FALSE
  <2>1. G \subseteq F
    BY <1>1, <1>3
  <2>2. Cardinality(G) <= Cardinality(F)
    <3>. HIDE DEF F, G
    <3>. QED
      BY <1>2, <2>1, FS_Subset
  <2>. HIDE DEF F, G
  <2>. QED
    BY <1>2, <2>2
<1>. QED
  BY <1>1, <1>3

\* The index of the median that the padding leaves.
LEMMA MedianIndex ==
  /\ alpha \in Nat /\ beta \in Nat /\ U64MAX \in Nat
  /\ alpha \div 2 \in Nat
  /\ alpha \div 2 - beta \in Nat
  /\ alpha \div 2 + beta < alpha
  /\ IsFiniteSet(Replicas)
  /\ Cardinality(Replicas) \in Nat
  /\ Cardinality(Replicas) >= alpha + beta
<1>1. /\ alpha \in Nat /\ beta \in Nat /\ U64MAX \in Nat /\ alpha >= 4 * beta + 1
      /\ IsFiniteSet(Replicas) /\ Cardinality(Replicas) >= alpha + beta
  BY PodAssumption
<1>2. alpha \div 2 \in Nat /\ 2 * (alpha \div 2) <= alpha /\ alpha <= 2 * (alpha \div 2) + 1
  BY <1>1
<1>. QED
  BY <1>1, <1>2, FS_CardinalityType

\* The median with beta zeros in front, for enough values.
LEMMA LowMedianRank ==
  ASSUME NEW c, NEW S, IsFiniteSet(S), Cardinality(S) + beta >= alpha,
         NEW f, \A r \in S : f[r] \in Int
  PROVE  HasRank(S, f, alpha \div 2 - beta, Client(c)!LowMedian(S, f))
<1>1. Cardinality(S) \in Nat
  BY FS_CardinalityType
<1>2. Client(c)!AtMost(alpha, beta + Client(c)!Cardinality(S)) = alpha
  BY <1>1, MedianIndex, SameCardinality DEF Client!AtMost
<1>3. Client(c)!LowMedian(S, f) = Client(c)!Kth(S, f, alpha \div 2 - beta)
  BY <1>2, MedianIndex DEF Client!LowMedian
<1>. QED
  BY <1>1, <1>3, MedianIndex, KthHasRank

-----------------------------------------------------------------------------
\* What a vote of r makes of the view of c.
LEMMA ApplyEffect ==
  ASSUME TypeInv, NEW c \in Clients, NEW r \in Replicas, NEW v \in Votes, Apply(c, r, v)
  PROVE  /\ v.ts \in 0..(U64MAX - 1) /\ v.tx \in Payloads
         /\ mrt' \in [Clients -> [Replicas -> 0..U64MAX]]
         /\ tsps' \in [Clients -> [Payloads -> [Replicas -> {-1} \cup 0..(U64MAX - 1)]]]
         /\ \A d \in Clients, q \in Replicas :
              mrt'[d][q] = IF d = c /\ q = r /\ v.ts >= mrt[c][r] THEN v.ts ELSE mrt[d][q]
         /\ \A d \in Clients, tx \in Payloads, q \in Replicas :
              tsps'[d][tx][q] =
                IF /\ d = c /\ q = r /\ tx = v.tx /\ v.ts >= mrt[c][r]
                   /\ v.tx # Heartbeat /\ tsps[c][tx][r] = -1
                  THEN v.ts ELSE tsps[d][tx][q]
<1>. DEFINE vote == [replica_id |-> r, timestamp |-> v.ts, transaction |-> v.tx]
<1>1. v.ts \in 0..(U64MAX - 1) /\ v.tx \in Payloads /\ U64MAX \in Nat
  BY PodAssumption
<1>2. /\ mrt' = [mrt EXCEPT ![c] = Client(c)!MrtAfter(vote)]
      /\ tsps' = [tsps EXCEPT ![c] = Client(c)!TspsAfter(vote)]
  BY DEF Apply
<1>3. Client(c)!MrtAfter(vote) =
        IF v.ts < mrt[c][r] THEN mrt[c] ELSE [mrt[c] EXCEPT ![r] = v.ts]
  BY DEF Client!MrtAfter, Client!Stale
<1>4. Client(c)!TspsAfter(vote) =
        IF v.ts < mrt[c][r] \/ v.tx = Heartbeat \/ tsps[c][v.tx][r] # -1 THEN tsps[c]
          ELSE [tsps[c] EXCEPT ![v.tx][r] = v.ts]
  BY DEF Client!TspsAfter, Client!Stale, Client!is_heartbeat, Client!Recorded, Client!Absent
<1>. HIDE DEF vote
<1>5. /\ mrt[c] \in [Replicas -> 0..U64MAX] /\ mrt[c][r] \in 0..U64MAX
      /\ tsps[c] \in [Payloads -> [Replicas -> {-1} \cup 0..(U64MAX - 1)]]
  BY DEF TypeInv
<1>6. /\ Client(c)!MrtAfter(vote) \in [Replicas -> 0..U64MAX]
      /\ \A q \in Replicas :
           Client(c)!MrtAfter(vote)[q] = IF q = r /\ v.ts >= mrt[c][r] THEN v.ts ELSE mrt[c][q]
  BY <1>1, <1>3, <1>5
<1>7. /\ Client(c)!TspsAfter(vote) \in [Payloads -> [Replicas -> {-1} \cup 0..(U64MAX - 1)]]
      /\ \A tx \in Payloads, q \in Replicas :
           Client(c)!TspsAfter(vote)[tx][q] =
             IF /\ q = r /\ tx = v.tx /\ v.ts >= mrt[c][r]
                /\ v.tx # Heartbeat /\ tsps[c][tx][r] = -1
               THEN v.ts ELSE tsps[c][tx][q]
  BY <1>1, <1>4, <1>5
<1>8. mrt \in [Clients -> [Replicas -> 0..U64MAX]]
      /\ tsps \in [Clients -> [Payloads -> [Replicas -> {-1} \cup 0..(U64MAX - 1)]]]
  BY DEF TypeInv
<1>9. mrt' \in [Clients -> [Replicas -> 0..U64MAX]]
  BY <1>2, <1>6, <1>8
<1>10. tsps' \in [Clients -> [Payloads -> [Replicas -> {-1} \cup 0..(U64MAX - 1)]]]
  BY <1>2, <1>7, <1>8
<1>11. \A d \in Clients, q \in Replicas :
         mrt'[d][q] = IF d = c /\ q = r /\ v.ts >= mrt[c][r] THEN v.ts ELSE mrt[d][q]
  BY <1>2, <1>6, <1>8
<1>12. \A d \in Clients, tx \in Payloads, q \in Replicas :
         tsps'[d][tx][q] =
           IF /\ d = c /\ q = r /\ tx = v.tx /\ v.ts >= mrt[c][r]
              /\ v.tx # Heartbeat /\ tsps[c][tx][r] = -1
             THEN v.ts ELSE tsps[d][tx][q]
  BY <1>2, <1>7, <1>8
<1>. QED
  BY <1>1, <1>9, <1>10, <1>11, <1>12

\* A vote issued has the fields of a vote.
LEMMA VoteType ==
  ASSUME NEW s \in Seq(Votes), NEW i \in 1..Len(s)
  PROVE  s[i].ts \in Nat /\ s[i].ts < U64MAX /\ s[i].tx \in Payloads
<1>1. s[i] \in Votes
  OBVIOUS
<1>2. Votes \subseteq [tx : Payloads, ts : 0..(U64MAX - 1)] /\ U64MAX \in Nat
  BY PodAssumption
<1>3. PICK w \in [tx : Payloads, ts : 0..(U64MAX - 1)] : w = s[i]
  BY <1>1, <1>2
<1>. QED
  BY <1>2, <1>3

\* The check against mrt tells the fresh votes.
LEMMA NotStaleIsFresh ==
  ASSUME NEW s \in Seq(Votes), NEW n \in Nat, n < Len(s), NEW m \in Nat,
         NewestOf(s, n, m)
  PROVE  Fresh(s, n + 1) <=> s[n + 1].ts >= m
<1>1. s[n + 1].ts \in Nat /\ \A i \in 1..n : s[i].ts \in Nat
  BY VoteType
<1>2. Fresh(s, n + 1) <=> \A j \in 1..n : s[j].ts <= s[n + 1].ts
  BY DEF Fresh
<1>. QED
  BY <1>1, <1>2 DEF NewestOf

\* The next vote keeps mrt the newest timestamp.
LEMMA NewestNext ==
  ASSUME NEW s \in Seq(Votes), NEW n \in Nat, n < Len(s), NEW m \in Nat,
         NewestOf(s, n, m)
  PROVE  NewestOf(s, n + 1, IF s[n + 1].ts >= m THEN s[n + 1].ts ELSE m)
<1>1. s[n + 1].ts \in Nat /\ \A i \in 1..n : s[i].ts \in Nat
  BY VoteType
<1>2. /\ \A i \in 1..(n + 1) : i \in 1..n \/ i = n + 1
      /\ n + 1 \in 1..(n + 1) /\ \A i \in 1..n : i \in 1..(n + 1)
  OBVIOUS
<1>. QED
  BY <1>1, <1>2 DEF NewestOf

\* The next vote is recorded if it is fresh, for a transaction, and the first.
LEMMA RecordNext ==
  ASSUME NEW s \in Seq(Votes), NEW n \in Nat, n < Len(s), NEW m \in Nat,
         NewestOf(s, n, m), NEW tx, NEW t, RecordOf(s, n, tx, t)
  PROVE  RecordOf(s, n + 1, tx,
                  IF /\ tx = s[n + 1].tx /\ s[n + 1].ts >= m
                     /\ s[n + 1].tx # Heartbeat /\ t = -1
                    THEN s[n + 1].ts ELSE t)
<1>1. s[n + 1].ts # -1
  BY VoteType
<1>2. /\ \A i \in 1..(n + 1) : i \in 1..n \/ i = n + 1
      /\ n + 1 \in 1..(n + 1) /\ \A i \in 1..n : i \in 1..(n + 1)
  OBVIOUS
<1>3. Fresh(s, n + 1) <=> s[n + 1].ts >= m
  BY NotStaleIsFresh
<1>. QED
  BY <1>1, <1>2, <1>3 DEF RecordOf

\* A vote changes no record of a heartbeat.
LEMMA HeartbeatStep ==
  ASSUME PodInv, NEW c \in Clients, NEW r \in Replicas, NEW v \in Votes, Apply(c, r, v)
  PROVE  HeartbeatInv'
<1>1. Heartbeat \in Payloads /\ TypeInv
  BY PodAssumption DEF PodInv
<1>2. ASSUME NEW d \in Clients, NEW q \in Replicas
      PROVE  tsps'[d][Heartbeat][q] = tsps[d][Heartbeat][q]
  <2>1. tsps'[d][Heartbeat][q] =
          IF /\ d = c /\ q = r /\ Heartbeat = v.tx /\ v.ts >= mrt[c][r]
             /\ v.tx # Heartbeat /\ tsps[c][Heartbeat][r] = -1
            THEN v.ts ELSE tsps[d][Heartbeat][q]
    BY <1>1, ApplyEffect
  <2>. QED
    BY <2>1
<1>. QED
  BY <1>2 DEF PodInv, HeartbeatInv

\* Hearing a steady replica preserves PodInv.
LEMMA HearStep ==
  ASSUME PodInv, NEW c \in Clients, NEW r \in Replicas, NEW v \in Votes, Hear(c, r, v)
  PROVE  PodInv'
<1>1. /\ Apply(c, r, v) /\ TypeInv /\ r \in steady /\ steady' = steady
      /\ history' = history /\ nextsn' = [nextsn EXCEPT ![c][r] = @ + 1]
  BY DEF Hear, PodInv
<1>2. U64MAX \in Nat /\ steady \subseteq Replicas
  BY <1>1, PodAssumption DEF TypeInv
<1>3. /\ nextsn' \in [Clients -> [Replicas -> Nat]]
      /\ \A d \in Clients, q \in Replicas :
           nextsn'[d][q] = IF d = c /\ q = r THEN nextsn[c][r] + 1 ELSE nextsn[d][q]
  BY <1>1 DEF TypeInv
<1>4. TypeInv'
  <2>1. /\ mrt' \in [Clients -> [Replicas -> 0..U64MAX]]
        /\ tsps' \in [Clients -> [Payloads -> [Replicas -> {-1} \cup 0..(U64MAX - 1)]]]
    BY <1>1, ApplyEffect
  <2>. QED
    BY <1>1, <1>3, <2>1 DEF TypeInv
<1>5. ASSUME NEW d \in Clients, NEW q \in steady
      PROVE  /\ nextsn'[d][q] <= Len(history[q])
             /\ NewestOf(history[q], nextsn'[d][q], mrt'[d][q])
             /\ \A tx \in Payloads : RecordOf(history[q], nextsn'[d][q], tx, tsps'[d][tx][q])
  <2>1. /\ q \in Replicas /\ history[q] \in Seq(Votes)
        /\ nextsn[d][q] \in Nat /\ mrt[d][q] \in Nat
    BY <1>1, <1>2 DEF TypeInv
  <2>2. PICK s \in Seq(Votes), n \in Nat, m \in Nat :
           s = history[q] /\ n = nextsn[d][q] /\ m = mrt[d][q]
    BY <2>1
  <2>3. /\ n <= Len(s) /\ NewestOf(s, n, m)
        /\ \A tx \in Payloads : RecordOf(s, n, tx, tsps[d][tx][q])
    BY <1>5, <2>2 DEF PodInv, PrefixInv
  <2>4. CASE ~(d = c /\ q = r)
    <3>1. /\ nextsn'[d][q] = n /\ mrt'[d][q] = m
          /\ \A tx \in Payloads : tsps'[d][tx][q] = tsps[d][tx][q]
      BY <1>1, <1>3, <2>1, <2>2, <2>4, ApplyEffect
    <3>. QED
      BY <2>2, <2>3, <3>1
  <2>5. CASE d = c /\ q = r
    <3>1. n < Len(s) /\ v = s[n + 1]
      BY <2>1, <2>2, <2>5 DEF Hear
    <3>2. /\ nextsn'[d][q] = n + 1
          /\ mrt'[d][q] = IF s[n + 1].ts >= m THEN s[n + 1].ts ELSE m
          /\ \A tx \in Payloads :
               tsps'[d][tx][q] =
                 IF /\ tx = s[n + 1].tx /\ s[n + 1].ts >= m
                    /\ s[n + 1].tx # Heartbeat /\ tsps[d][tx][q] = -1
                   THEN s[n + 1].ts ELSE tsps[d][tx][q]
      <4>1. nextsn'[d][q] = n + 1
        BY <1>3, <2>1, <2>2, <2>5
      <4>2. mrt'[d][q] = IF v.ts >= m THEN v.ts ELSE m
        BY <1>1, <2>1, <2>2, <2>5, ApplyEffect
      <4>3. \A tx \in Payloads :
              tsps'[d][tx][q] =
                IF tx = v.tx /\ v.ts >= m /\ v.tx # Heartbeat /\ tsps[d][tx][q] = -1
                  THEN v.ts ELSE tsps[d][tx][q]
        BY <1>1, <2>1, <2>2, <2>5, ApplyEffect
      <4>. QED
        BY <3>1, <4>1, <4>2, <4>3
    <3>3. NewestOf(s, n + 1, mrt'[d][q])
      BY <2>3, <3>1, <3>2, NewestNext
    <3>4. ASSUME NEW tx \in Payloads PROVE RecordOf(s, n + 1, tx, tsps'[d][tx][q])
      BY <2>3, <3>1, <3>2, RecordNext
    <3>5. n + 1 <= Len(s)
      BY <3>1
    <3>. QED
      BY <2>2, <3>2, <3>3, <3>4, <3>5
  <2>. QED
    BY <2>4, <2>5
<1>6. PrefixInv'
  BY <1>1, <1>2, <1>5 DEF PrefixInv
<1>. QED
  BY <1>1, <1>4, <1>6, HeartbeatStep DEF PodInv

\* A vote of a replica that is not steady preserves PodInv: it changes nothing
\* PodInv says of the others.
LEMMA HearUnsteadyStep ==
  ASSUME PodInv, NEW c \in Clients, NEW r \in Replicas, NEW v \in Votes,
         HearUnsteady(c, r, v)
  PROVE  PodInv'
<1>1. /\ Apply(c, r, v) /\ TypeInv /\ r \notin steady
      /\ steady' = steady /\ history' = history /\ nextsn' = nextsn
  BY DEF HearUnsteady, PodInv
<1>2. steady \subseteq Replicas
  BY <1>1 DEF TypeInv
<1>3. \A d \in Clients, q \in steady :
        mrt'[d][q] = mrt[d][q] /\ \A tx \in Payloads : tsps'[d][tx][q] = tsps[d][tx][q]
  BY <1>1, <1>2, ApplyEffect
<1>4. TypeInv'
  BY <1>1, ApplyEffect DEF TypeInv
<1>5. PrefixInv'
  BY <1>1, <1>3 DEF PodInv, PrefixInv
<1>. QED
  BY <1>1, <1>4, <1>5, HeartbeatStep DEF PodInv

\* A restart preserves PodInv, which then says less.
LEMMA RestartStep ==
  ASSUME PodInv, NEW r \in Replicas, Restart(r)
  PROVE  PodInv'
<1>1. /\ TypeInv /\ mrt' = mrt /\ tsps' = tsps /\ steady' = steady \ {r}
      /\ history' = [history EXCEPT ![r] = <<>>]
      /\ nextsn' = [c \in Clients |-> [nextsn[c] EXCEPT ![r] = 0]]
  BY DEF Restart, PodInv
<1>2. TypeInv'
  BY <1>1 DEF TypeInv
<1>3. \A q \in steady' :
        /\ q \in steady /\ history'[q] = history[q]
        /\ \A c \in Clients : nextsn'[c][q] = nextsn[c][q]
  BY <1>1 DEF TypeInv
<1>4. PrefixInv'
  BY <1>1, <1>3 DEF PodInv, PrefixInv
<1>. QED
  BY <1>1, <1>2, <1>4 DEF PodInv, HeartbeatInv

\* PodInv is an invariant.
THEOREM PodInvariant == Spec => []PodInv
<1>1. Init => PodInv
  <2>. SUFFICES ASSUME Init PROVE PodInv
    OBVIOUS
  <2>1. U64MAX \in Nat /\ Heartbeat \in Payloads
    BY PodAssumption
  <2>2. history \in [Replicas -> Seq(Votes)]
    BY PodAssumption DEF Init
  <2>3. TypeInv
    BY <2>1, <2>2 DEF Init, TypeInv
  <2>4. \A r \in Replicas : Len(history[r]) \in Nat
    BY <2>2
  <2>5. PrefixInv /\ HeartbeatInv
    BY <2>1, <2>4 DEF Init, PrefixInv, HeartbeatInv, NewestOf, RecordOf
  <2>. QED
    BY <2>3, <2>5 DEF PodInv
<1>2. PodInv /\ [Next]_vars => PodInv'
  <2>. SUFFICES ASSUME PodInv, [Next]_vars PROVE PodInv'
    OBVIOUS
  <2>1. CASE UNCHANGED vars
    BY <2>1 DEF vars, PodInv, TypeInv, PrefixInv, HeartbeatInv
  <2>2. Restless \subseteq Replicas
    BY PodAssumption
  <2>. QED
    BY <2>1, <2>2, HearStep, HearUnsteadyStep, RestartStep DEF Next
<1>. QED
  BY <1>1, <1>2, PTL DEF Spec

-----------------------------------------------------------------------------
\* The replicas that voted for a transaction c has a record of; a Read that
\* answers has enough of them.
LEMMA VotersKnown ==
  ASSUME TypeInv, NEW c \in Clients, NEW tx \in Known(c), Answers(c)
  PROVE  LET V == Client(c)!Voters(tx) IN
         /\ tx \in Payloads
         /\ V = {r \in Replicas : tsps[c][tx][r] # -1} /\ V # {}
         /\ IsFiniteSet(V) /\ Cardinality(V) \in Nat
         /\ Cardinality(V) + beta >= alpha
         /\ \A r \in V : tsps[c][tx][r] \in 0..(U64MAX - 1)
<1>. DEFINE V == Client(c)!Voters(tx)
<1>1. tx \in Payloads /\ V # {}
  BY DEF Known, Client!Known
<1>2. V = {r \in Replicas : tsps[c][tx][r] # -1}
  BY DEF Client!Voters, Client!Absent
<1>3. IsFiniteSet(V) /\ Cardinality(V) \in Nat
  BY <1>2, MedianIndex, FS_Subset, FS_CardinalityType
<1>4. ~(Cardinality(V) + beta < alpha)
  BY SameCardinality DEF Known, Answers, Client!ReadAnswers, Client!max_possible_ts_panics
<1>5. \A r \in V : tsps[c][tx][r] \in 0..(U64MAX - 1)
  BY <1>1, <1>2 DEF TypeInv
<1>. QED
  BY <1>1, <1>2, <1>3, <1>4, <1>5, MedianIndex

\* rperf is the element alpha / 2 - beta of the values of mrt.
LEMMA RperfRank ==
  ASSUME NEW c \in Clients, mrt[c] \in [Replicas -> 0..U64MAX]
  PROVE  HasRank(Replicas, mrt[c], alpha \div 2 - beta, rperf(c))
<1>1. rperf(c) = Client(c)!LowMedian(Replicas, mrt[c])
  BY DEF rperf, Client!min_possible_ts_for_new_tx
<1>. QED
  BY <1>1, MedianIndex, LowMedianRank

\* The minimum of a record is that element of the timestamps of its votes.
LEMMA MinRank ==
  ASSUME TypeInv, NEW c \in Clients, NEW tx \in Known(c), Answers(c)
  PROVE  HasRank(Client(c)!Voters(tx), tsps[c][tx], alpha \div 2 - beta,
                 Client(c)!min_possible_ts(tx))
<1>1. Client(c)!min_possible_ts(tx) = Client(c)!LowMedian(Client(c)!Voters(tx), tsps[c][tx])
  BY DEF Client!min_possible_ts
<1>2. /\ IsFiniteSet(Client(c)!Voters(tx)) /\ Cardinality(Client(c)!Voters(tx)) + beta >= alpha
      /\ \A r \in Client(c)!Voters(tx) : tsps[c][tx][r] \in Int
  BY VotersKnown
<1>. QED
  BY <1>1, <1>2, LowMedianRank

\* The maximum, unless it is u64::MAX, is the median of the last alpha of them.
LEMMA MaxRank ==
  ASSUME TypeInv, NEW c \in Clients, NEW tx \in Known(c), Answers(c)
  PROVE  \/ Client(c)!max_possible_ts(tx) = U64MAX
         \/ HasRank(Client(c)!Voters(tx), tsps[c][tx],
                    Cardinality(Client(c)!Voters(tx)) + beta - alpha + alpha \div 2,
                    Client(c)!max_possible_ts(tx))
<1>. DEFINE V == Client(c)!Voters(tx)
            k == Cardinality(V) + beta - alpha + alpha \div 2
<1>1. Client(c)!max_possible_ts(tx) =
        IF k < Cardinality(V) THEN Client(c)!Kth(V, tsps[c][tx], k) ELSE U64MAX
  BY SameCardinality DEF Client!max_possible_ts
<1>2. /\ IsFiniteSet(V) /\ Cardinality(V) \in Nat /\ Cardinality(V) + beta >= alpha
      /\ \A r \in V : tsps[c][tx][r] \in Int
  BY VotersKnown
<1>3. k \in Nat
  BY <1>2, MedianIndex
<1>. HIDE DEF k, V
<1>4. CASE k < Cardinality(V)
  BY <1>1, <1>2, <1>3, <1>4, KthHasRank DEF V, k
<1>. QED
  BY <1>1, <1>4 DEF V, k

\* A steady replica that a client has a timestamp of for a transaction is not
\* ahead of it at a client without a record of the transaction.
LEMMA BehindUnknown ==
  ASSUME PodInv, NEW c \in Clients, NEW d \in Clients, NEW r \in steady,
         NEW tx \in Payloads, tx # Heartbeat,
         tsps[c][tx][r] = -1, tsps[d][tx][r] # -1
  PROVE  mrt[c][r] <= tsps[d][tx][r]
<1>1. /\ history[r] \in Seq(Votes)
      /\ nextsn[c][r] \in Nat /\ nextsn[d][r] \in Nat
  BY DEF PodInv, TypeInv
<1>2. PICK s \in Seq(Votes) : s = history[r]
  BY <1>1
<1>3. /\ nextsn[c][r] <= Len(s) /\ nextsn[d][r] <= Len(s)
      /\ NewestOf(s, nextsn[c][r], mrt[c][r])
      /\ RecordOf(s, nextsn[c][r], tx, tsps[c][tx][r])
      /\ RecordOf(s, nextsn[d][r], tx, tsps[d][tx][r])
  BY <1>2 DEF PodInv, PrefixInv
<1>4. PICK i \in 1..nextsn[d][r] :
         Fresh(s, i) /\ s[i].tx = tx /\ s[i].ts = tsps[d][tx][r]
  BY <1>3 DEF RecordOf
<1>5. i \notin 1..nextsn[c][r]
  BY <1>3, <1>4 DEF RecordOf
<1>6. s[i].ts \in Nat
  BY <1>1, <1>3, <1>4, VoteType
<1>7. \A j \in 1..nextsn[c][r] : s[j].ts <= s[i].ts
  BY <1>1, <1>3, <1>4, <1>5 DEF Fresh
<1>. QED
  BY <1>3, <1>4, <1>6, <1>7 DEF NewestOf

\* If a Read of c has no record of a transaction, fewer steady replicas than
\* its maximum at d takes are behind rperf of c.
LEMMA PastPerfectionHolds == PodInv => PastPerfection
<1>. SUFFICES ASSUME PodInv, Cardinality(Replicas \ steady) <= beta,
                     NEW c \in Clients, NEW d \in Clients,
                     NEW tx \in Known(d) \ Known(c), Answers(d)
              PROVE  Client(d)!max_possible_ts(tx) >= rperf(c)
  BY DEF PastPerfection
<1>. DEFINE V == Client(d)!Voters(tx)
            M == Client(d)!max_possible_ts(tx)
            p == rperf(c)
            Low == {r \in V : tsps[d][tx][r] <= M}
            Behind == {r \in Replicas : mrt[c][r] < p}
            Other == Replicas \ steady
<1>1. TypeInv
  BY DEF PodInv
<1>2. /\ tx \in Payloads
      /\ V = {r \in Replicas : tsps[d][tx][r] # -1} /\ V # {}
      /\ IsFiniteSet(V) /\ Cardinality(V) \in Nat
      /\ Cardinality(V) + beta >= alpha
      /\ \A r \in V : tsps[d][tx][r] \in 0..(U64MAX - 1)
  BY <1>1, VotersKnown
<1>3. \A r \in Replicas : tsps[c][tx][r] = -1
  BY <1>2 DEF Known, Client!Known, Client!Voters, Client!Absent
<1>4. tx # Heartbeat
  BY <1>2 DEF PodInv, HeartbeatInv
<1>5. /\ mrt[c] \in [Replicas -> 0..U64MAX]
      /\ HasRank(Replicas, mrt[c], alpha \div 2 - beta, p)
  BY <1>1, RperfRank DEF TypeInv
<1>6. p \in 0..U64MAX /\ U64MAX \in Nat
  BY <1>5, MedianIndex DEF HasRank
<1>7. CASE M = U64MAX
  BY <1>6, <1>7
<1>8. CASE HasRank(V, tsps[d][tx], Cardinality(V) + beta - alpha + alpha \div 2, M)
  <2>1. M \in Nat
    BY <1>2, <1>6, <1>8 DEF HasRank
  <2>2. ASSUME M < p PROVE FALSE
    <3>1. Low \subseteq Behind \cup Other
      <4>. SUFFICES ASSUME NEW r \in V, tsps[d][tx][r] <= M, r \notin Other
                    PROVE  r \in Replicas /\ mrt[c][r] < p
        OBVIOUS
      <4>1. r \in steady /\ r \in Replicas /\ tsps[d][tx][r] # -1
        BY <1>2
      <4>2. mrt[c][r] <= tsps[d][tx][r]
        BY <1>2, <1>3, <1>4, <4>1, BehindUnknown
      <4>3. tsps[d][tx][r] \in Nat /\ mrt[c][r] \in Nat
        BY <1>2, <1>5, <1>6, <4>1
      <4>. QED
        BY <1>6, <2>1, <2>2, <4>1, <4>2, <4>3
    <3>2. /\ IsFiniteSet(Low) /\ Cardinality(Low) \in Nat
          /\ IsFiniteSet(Behind) /\ Cardinality(Behind) \in Nat
      BY <1>2, MedianIndex, FS_Subset, FS_CardinalityType
    <3>3. Other \subseteq Replicas
      OBVIOUS
    <3>4. IsFiniteSet(Other) /\ Cardinality(Other) \in Nat /\ Cardinality(Other) <= beta
      BY <3>3, MedianIndex, FS_Subset, FS_CardinalityType
    <3>5. Cardinality(Low) > Cardinality(V) + beta - alpha + alpha \div 2
      BY <1>8 DEF HasRank
    <3>6. Cardinality(Behind) <= alpha \div 2 - beta
      BY <1>5 DEF HasRank
    <3>. HIDE DEF Low, Behind, Other, V
    <3>7. /\ IsFiniteSet(Behind \cup Other) /\ Cardinality(Behind \cup Other) \in Nat
          /\ Cardinality(Behind \cup Other) <= Cardinality(Behind) + Cardinality(Other)
      <4>1. IsFiniteSet(Behind \cap Other)
        BY <3>2, FS_Intersection
      <4>2. Cardinality(Behind \cap Other) \in Nat
        BY <4>1, FS_CardinalityType
      <4>3. /\ IsFiniteSet(Behind \cup Other)
            /\ Cardinality(Behind \cup Other) =
                 Cardinality(Behind) + Cardinality(Other) - Cardinality(Behind \cap Other)
        BY <3>2, <3>4, FS_Union
      <4>4. Cardinality(Behind \cup Other) \in Nat
        BY <4>3, FS_CardinalityType
      <4>. QED
        BY <3>2, <3>4, <4>2, <4>3, <4>4
    <3>8. Cardinality(Low) <= Cardinality(Behind \cup Other)
      BY <3>1, <3>7, FS_Subset
    <3>. QED
      BY <1>2, <3>2, <3>4, <3>5, <3>6, <3>7, <3>8, MedianIndex
  <2>. QED
    BY <1>6, <2>1, <2>2
<1>. QED
  BY <1>1, <1>7, <1>8, MaxRank

\* Past-perfection: for any number of replicas and clients, any votes, any alpha the
\* client accepts, and as long as at most beta replicas have restarted or
\* ceased to follow the protocol, a transaction that a Read of c has no record of never gets a maximum
\* below the rperf of that Read, at any client.
THEOREM PastPerfect == Spec => []PastPerfection
  BY PodInvariant, PastPerfectionHolds, PTL

\* Whenever a Read answers, the minimum of a record is at most its maximum.
THEOREM BoundsInOrder == Spec => []BoundsOrdered
<1>1. PodInv => BoundsOrdered
  <2>. SUFFICES ASSUME PodInv, NEW c \in Clients, Answers(c), NEW tx \in Known(c)
                PROVE  Client(c)!min_possible_ts(tx) <= Client(c)!max_possible_ts(tx)
    BY DEF BoundsOrdered, Client!BoundsOrdered, Answers, Known
  <2>. DEFINE V == Client(c)!Voters(tx)
  <2>1. TypeInv
    BY DEF PodInv
  <2>2. /\ IsFiniteSet(V) /\ Cardinality(V) \in Nat /\ Cardinality(V) + beta >= alpha
        /\ \A r \in V : tsps[c][tx][r] \in 0..(U64MAX - 1)
    BY <2>1, VotersKnown
  <2>3. HasRank(V, tsps[c][tx], alpha \div 2 - beta, Client(c)!min_possible_ts(tx))
    BY <2>1, MinRank
  <2>4. CASE Client(c)!max_possible_ts(tx) = U64MAX
    BY <2>2, <2>3, <2>4, MedianIndex DEF HasRank
  <2>5. CASE HasRank(V, tsps[c][tx], Cardinality(V) + beta - alpha + alpha \div 2,
                     Client(c)!max_possible_ts(tx))
    <3>1. /\ alpha \div 2 - beta \in Nat
          /\ Cardinality(V) + beta - alpha + alpha \div 2 \in Nat
          /\ alpha \div 2 - beta <= Cardinality(V) + beta - alpha + alpha \div 2
      BY <2>2, MedianIndex
    <3>2. \A r \in V : tsps[c][tx][r] \in Int /\ tsps[c][tx][r] <= tsps[c][tx][r]
      BY <2>2
    <3>. QED
      BY <2>2, <2>3, <2>5, <3>1, <3>2, RankOrder
  <2>. QED
    BY <2>1, <2>4, <2>5, MaxRank
<1>. QED
  BY <1>1, PodInvariant, PTL

\* With more values, the value of a rank counted from below does not rise, and
\* the value of a rank counted from above does not fall.
LEMMA MoreValues ==
  ASSUME NEW T, IsFiniteSet(T), NEW S, S \subseteq T, NEW f, NEW g,
         \A r \in S : f[r] \in Int /\ g[r] = f[r], \A r \in T : g[r] \in Int,
         NEW k \in Int, NEW t, NEW u
  PROVE  /\ HasRank(S, f, k, t) /\ HasRank(T, g, k, u) => u <= t
         /\ HasRank(S, f, Cardinality(S) - k, t) /\ HasRank(T, g, Cardinality(T) - k, u)
              => t <= u
<1>1. /\ IsFiniteSet(S) /\ Cardinality(S) \in Nat /\ Cardinality(T) \in Nat
      /\ IsFiniteSet(T \ S) /\ Cardinality(T \ S) = Cardinality(T) - Cardinality(S)
  <2>1. IsFiniteSet(S) /\ Cardinality(S) \in Nat /\ Cardinality(T) \in Nat
    BY FS_Subset, FS_CardinalityType
  <2>2. T \cap S = S
    OBVIOUS
  <2>. QED
    BY <2>1, <2>2, FS_Difference
<1>2. ASSUME HasRank(S, f, k, t), HasRank(T, g, k, u), t < u PROVE FALSE
  <2>. DEFINE F == {r \in S : f[r] <= t}
              G == {r \in T : g[r] < u}
  <2>1. t \in Int /\ u \in Int /\ Cardinality(F) > k /\ Cardinality(G) <= k
    BY <1>2 DEF HasRank
  <2>2. F \subseteq G /\ IsFiniteSet(G)
    BY <1>2, <2>1, FS_Subset
  <2>. HIDE DEF F, G
  <2>3. Cardinality(F) <= Cardinality(G) /\ Cardinality(F) \in Nat /\ Cardinality(G) \in Nat
    BY <2>2, FS_Subset, FS_CardinalityType
  <2>. QED
    BY <2>1, <2>3
<1>3. ASSUME HasRank(S, f, Cardinality(S) - k, t), HasRank(T, g, Cardinality(T) - k, u), u < t
      PROVE  FALSE
  <2>. DEFINE F == {r \in S : f[r] < t}
              G == {r \in T : g[r] <= u}
              E == T \ S
  <2>1. /\ t \in Int /\ u \in Int
        /\ Cardinality(F) <= Cardinality(S) - k /\ Cardinality(G) > Cardinality(T) - k
    BY <1>3 DEF HasRank
  <2>2. /\ G \subseteq F \cup E /\ IsFiniteSet(F) /\ F \cap E = {}
        /\ IsFiniteSet(E) /\ Cardinality(E) = Cardinality(T) - Cardinality(S)
    BY <1>1, <1>3, <2>1, FS_Subset
  <2>. HIDE DEF F, G, E
  <2>3. /\ IsFiniteSet(F \cup E) /\ Cardinality(F) \in Nat
        /\ Cardinality(F \cup E) = Cardinality(F) + Cardinality(E) - Cardinality(F \cap E)
    BY <2>2, FS_Union, FS_CardinalityType
  <2>4. Cardinality(F \cap E) = 0
    BY <2>2, FS_EmptySet
  <2>5. Cardinality(G) <= Cardinality(F \cup E) /\ Cardinality(G) \in Nat
    BY <2>2, <2>3, FS_Subset, FS_CardinalityType
  <2>. QED
    BY <1>1, <2>1, <2>2, <2>3, <2>4, <2>5
<1>. QED
  BY <1>2, <1>3 DEF HasRank

\* From one Read of a client to the next, whatever it has heard in between, rperf
\* does not decrease, a timestamp recorded for a transaction stays, and the
\* minimum of a record does not rise nor its maximum fall.
THEOREM OnlyWiden == Spec => ReadsOnlyWiden
<1>1. PodInv /\ PodInv' /\ [Next]_vars => [\A c \in Clients : Client(c)!BoundsWiden]_vars
  <2>. SUFFICES ASSUME PodInv, PodInv', Next, NEW d \in Clients
                PROVE  Client(d)!BoundsWiden
    OBVIOUS
  <2>1. /\ TypeInv /\ TypeInv' /\ U64MAX \in Nat
        /\ mrt[d] \in [Replicas -> 0..U64MAX] /\ mrt'[d] \in [Replicas -> 0..U64MAX]
    BY MedianIndex DEF PodInv, TypeInv
  <2>2. /\ \A q \in Replicas : mrt[d][q] <= mrt'[d][q]
        /\ \A tx \in Payloads, q \in Replicas :
             tsps[d][tx][q] # -1 => tsps'[d][tx][q] = tsps[d][tx][q]
    <3>1. CASE \E r \in Restless : Restart(r)
      <4>1. mrt' = mrt /\ tsps' = tsps
        BY <3>1 DEF Restart
      <4>. QED
        BY <2>1, <4>1
    <3>2. CASE \E c \in Clients, v \in Votes, r \in Replicas : Apply(c, r, v)
      <4>1. PICK c \in Clients, v \in Votes, r \in Replicas : Apply(c, r, v)
        BY <3>2
      <4>2. /\ v.ts \in 0..(U64MAX - 1)
            /\ \A q \in Replicas :
                 mrt'[d][q] = IF d = c /\ q = r /\ v.ts >= mrt[c][r] THEN v.ts ELSE mrt[d][q]
        BY <2>1, <4>1, ApplyEffect
      <4>3. \A q \in Replicas : mrt[d][q] <= mrt'[d][q]
        BY <2>1, <4>2
      <4>4. ASSUME NEW tx \in Payloads, NEW q \in Replicas, tsps[d][tx][q] # -1
            PROVE  tsps'[d][tx][q] = tsps[d][tx][q]
        BY <2>1, <4>1, <4>4, ApplyEffect
      <4>. QED
        BY <4>3, <4>4
    <3>. QED
      BY <3>1, <3>2 DEF Next, Hear, HearUnsteady
  <2>3. rperf(d)' >= rperf(d)
    <3>1. \A q \in Replicas : mrt[d][q] \in Int /\ mrt'[d][q] \in Int /\ mrt[d][q] <= mrt'[d][q]
      BY <2>1, <2>2
    <3>2. HasRank(Replicas, mrt[d], alpha \div 2 - beta, Client(d)!LowMedian(Replicas, mrt[d]))
      BY <3>1, MedianIndex, LowMedianRank
    <3>3. HasRank(Replicas, mrt'[d], alpha \div 2 - beta, Client(d)!LowMedian(Replicas, mrt'[d]))
      BY <3>1, MedianIndex, LowMedianRank
    <3>4. Client(d)!LowMedian(Replicas, mrt[d]) <= Client(d)!LowMedian(Replicas, mrt'[d])
      BY <3>1, <3>2, <3>3, MedianIndex, RankOrder
    <3>5. /\ Client(d)!LowMedian(Replicas, mrt[d]) \in Int
          /\ Client(d)!LowMedian(Replicas, mrt'[d]) \in Int
      BY <3>1, <3>2, <3>3 DEF HasRank
    <3>. QED
      BY <3>4, <3>5 DEF rperf, Client!min_possible_ts_for_new_tx
  <2>4. ASSUME Answers(d), Answers(d)', NEW tx \in Known(d)
        PROVE  /\ tx \in Known(d)'
               /\ Client(d)!min_possible_ts(tx)' <= Client(d)!min_possible_ts(tx)
               /\ Client(d)!max_possible_ts(tx)' >= Client(d)!max_possible_ts(tx)
    <3>. DEFINE V == Client(d)!Voters(tx)
    <3>0. PICK f : f = tsps[d][tx]
      OBVIOUS
    <3>1. /\ tx \in Payloads
          /\ V = {r \in Replicas : tsps[d][tx][r] # -1} /\ V # {}
          /\ IsFiniteSet(V) /\ Cardinality(V) \in Nat
          /\ Cardinality(V) + beta >= alpha
          /\ \A r \in V : tsps[d][tx][r] \in 0..(U64MAX - 1)
      BY <2>1, <2>4, VotersKnown
    <3>2. PICK W, g : W = {r \in Replicas : tsps'[d][tx][r] # -1} /\ g = tsps'[d][tx]
      OBVIOUS
    <3>3. W = V'
      BY <3>2 DEF Client!Voters, Client!Absent
    <3>4. V \subseteq W /\ \A r \in V : g[r] = tsps[d][tx][r]
      BY <2>2, <3>1, <3>2
    <3>5. tx \in Known(d)'
      BY <3>1, <3>3, <3>4 DEF Known, Client!Known
    <3>6. /\ IsFiniteSet(W) /\ Cardinality(W) \in Nat
          /\ Cardinality(W) + beta >= alpha
          /\ \A r \in W : g[r] \in 0..(U64MAX - 1)
      <4>1. IsFiniteSet(W) /\ Cardinality(W) \in Nat
        BY <3>2, MedianIndex, FS_Subset, FS_CardinalityType
      <4>2. ~(Cardinality(W) + beta < alpha)
        BY <2>4, <3>3, <3>5, SameCardinality
           DEF Known, Answers, Client!ReadAnswers, Client!max_possible_ts_panics
      <4>3. \A r \in W : g[r] \in 0..(U64MAX - 1)
        BY <2>1, <3>1, <3>2 DEF TypeInv
      <4>. QED
        BY <4>1, <4>2, <4>3, MedianIndex
    <3>7. PICK k \in Nat, j \in Int :
            k = alpha \div 2 - beta /\ j = alpha - beta - alpha \div 2
      <4>1. alpha \div 2 - beta \in Nat /\ alpha - beta - alpha \div 2 \in Int
        BY MedianIndex
      <4>. QED
        BY <4>1, Zenon
    <3>8. j > 0 /\ alpha - beta - j = alpha \div 2
      BY <3>7, MedianIndex
    <3>. HIDE DEF V
    <3>9. Client(d)!min_possible_ts(tx)' <= Client(d)!min_possible_ts(tx)
      <4>1. HasRank(V, f, k, Client(d)!LowMedian(V, f))
        BY <3>1, <3>0, <3>7, LowMedianRank
      <4>2. HasRank(W, g, k, Client(d)!LowMedian(W, g))
        BY <3>6, <3>0, <3>7, LowMedianRank
      <4>3. Client(d)!LowMedian(W, g) <= Client(d)!LowMedian(V, f)
        <5>1. PICK t, u : t = Client(d)!LowMedian(V, f) /\ u = Client(d)!LowMedian(W, g)
          OBVIOUS
        <5>2. /\ \A r \in V : f[r] \in Int /\ g[r] = f[r]
              /\ \A r \in W : g[r] \in Int
          BY <3>1, <3>4, <3>6, <3>0, <3>7
        <5>3. HasRank(V, f, k, t) /\ HasRank(W, g, k, u) /\ k \in Int
          BY <3>0, <3>7, <4>1, <4>2, <5>1
        <5>4. u <= t
          BY <3>4, <3>6, <5>2, <5>3, MoreValues
        <5>. QED
          BY <5>1, <5>4
      <4>. QED
        BY <3>2, <3>3, <3>0, <3>7, <4>3 DEF V, Client!min_possible_ts
    <3>10. Client(d)!max_possible_ts(tx)' >= Client(d)!max_possible_ts(tx)
      <4>1. HasRank(V, f, Cardinality(V) - j, Client(d)!Kth(V, f, Cardinality(V) - j))
        BY <3>1, <3>0, <3>7, <3>8, MedianIndex, KthHasRank
      <4>2. HasRank(W, g, Cardinality(W) - j, Client(d)!Kth(W, g, Cardinality(W) - j))
        BY <3>6, <3>0, <3>7, <3>8, MedianIndex, KthHasRank
      <4>3. Client(d)!Kth(V, f, Cardinality(V) - j) <= Client(d)!Kth(W, g, Cardinality(W) - j)
        BY <3>1, <3>4, <3>6, <3>0, <3>7, <4>1, <4>2, MoreValues
      <4>4. Client(d)!max_possible_ts(tx) = Client(d)!Kth(V, f, Cardinality(V) - j)
        <5>1. /\ Cardinality(V) + beta - alpha + alpha \div 2 = Cardinality(V) - j
              /\ Cardinality(V) - j < Cardinality(V)
          BY <3>1, <3>0, <3>7, <3>8, MedianIndex
        <5>. QED
          BY <3>0, <3>7, <5>1, SameCardinality DEF V, Client!max_possible_ts
      <4>5. Client(d)!max_possible_ts(tx)' = Client(d)!Kth(W, g, Cardinality(W) - j)
        <5>1. /\ Cardinality(W) + beta - alpha + alpha \div 2 = Cardinality(W) - j
              /\ Cardinality(W) - j < Cardinality(W)
          BY <3>6, <3>0, <3>7, <3>8, MedianIndex
        <5>. QED
          BY <3>2, <3>3, <5>1, SameCardinality DEF V, Client!max_possible_ts
      <4>6. /\ Client(d)!Kth(V, f, Cardinality(V) - j) \in Int
            /\ Client(d)!Kth(W, g, Cardinality(W) - j) \in Int
        BY <3>1, <3>6, <3>0, <3>7, <4>1, <4>2 DEF HasRank
      <4>. QED
        BY <4>3, <4>4, <4>5, <4>6
    <3>. QED
      BY <3>5, <3>9, <3>10
  <2>. QED
    BY <2>2, <2>3, <2>4
       DEF Client!BoundsWiden, rperf, Answers, Known, Client!Absent
<1>. QED
  BY <1>1, PodInvariant, PTL DEF Spec, ReadsOnlyWiden
=============================================================================
