--------------------------- MODULE ReplicaProofs ---------------------------
(***************************************************************************)
(* Proofs about Replica: type correctness, that the two services that      *)
(* share the counter neither use a sequence number twice nor skip one,     *)
(* which votes can be overtaken in time, and that the broadcast follows    *)
(* the log.                                                                *)
(***************************************************************************)
EXTENDS Replica, TLAPS

\* Every number in use was taken from the counter.
SnBelow ==
  /\ \A i \in 1..Len(bcast) : bcast[i].sn < nextsn
  /\ logpc # "recv" => logvote.sn < nextsn
  /\ hbpc # "tick" => hbvote.sn < nextsn
  /\ \A n \in lost : n < nextsn

SnInv == SnBelow /\ SnUsedOnce /\ SnAccounted

\* Every record of this run was sent, is next to be sent, or is a lost one's.
LoggedSent ==
  \A i \in (base + 1)..Len(wal) :
    wal[i].sn \in lost \/ \E j \in 1..Len(Outgoing) : Outgoing[j] = wal[i]

\* The votes that have a timestamp, and those among them that are no earlier
\* than v from number n on.
Timed ==
  {bcast[i] : i \in 1..Len(bcast)}
    \cup (IF logpc \in {"append", "broadcast"} THEN {logvote} ELSE {})
    \cup (IF hbpc = "broadcast" THEN {hbvote} ELSE {})
NoneBefore(v, n) == \A w \in Timed : n <= w.sn => v.ts <= w.ts

\* Nothing is from the future; once a service has sent a vote, no number from
\* its next one on gets an earlier round.
RoundInv ==
  /\ \A w \in Timed : w.ts <= round
  /\ \A i, k \in 1..Len(bcast) :
       SameService(bcast[i], bcast[k]) /\ bcast[i].sn < bcast[k].sn
         => NoneBefore(bcast[i], bcast[k].sn)
  /\ \A i \in 1..Len(bcast) :
       /\ logpc # "recv" /\ bcast[i].sn \in LogNos
            => bcast[i].sn < logvote.sn /\ NoneBefore(bcast[i], logvote.sn)
       /\ hbpc # "tick" /\ bcast[i].sn \notin LogNos
            => bcast[i].sn < hbvote.sn /\ NoneBefore(bcast[i], hbvote.sn)
  /\ logpc = "broadcast" => logvote.sn \in LogNos

\* What the heartbeat service holds is a heartbeat.
HbIsHeartbeat == hbpc # "tick" => hbvote.tx = Heartbeat

FollowInv == HbIsHeartbeat /\ BroadcastFollowsLog

-----------------------------------------------------------------------------
\* What a stopped append leaves is a log file.
LEMMA StopsTypes ==
  ASSUME TypeOK, AppendStops, logvote \in VoteRecord
  PROVE  /\ wal' \in Seq(VoteRecord) /\ Len(wal) <= Len(wal') /\ Len(wal') \in Nat
         /\ torn' \subseteq 1..(Len(wal') + 1)
         /\ wal' = wal \/ wal' = Append(wal, logvote)
<1>0. wal \in Seq(VoteRecord) /\ Len(wal) \in Nat /\ torn \subseteq 1..(Len(wal) + 1)
  BY DEF TypeOK
<1>1. CASE UNCHANGED filevars
  BY <1>0, <1>1 DEF filevars
<1>2. CASE wal' = Logged(logvote) /\ UNCHANGED torn
  <2>1. wal' = Append(wal, logvote)
    BY <1>2 DEF Logged
  <2>2. wal' \in Seq(VoteRecord) /\ Len(wal') = Len(wal) + 1
    BY <1>0, <2>1
  <2>. QED
    BY <1>0, <1>2, <2>1, <2>2
<1>3. CASE torn' = torn \cup {Len(wal) + 1} /\ UNCHANGED wal
  <2>1. Len(wal) + 1 \in 1..(Len(wal) + 1)
    BY <1>0
  <2>2. torn' \subseteq 1..(Len(wal) + 1) /\ wal' = wal
    BY <1>0, <1>3, <2>1
  <2>3. Len(wal) <= Len(wal)
    BY <1>0
  <2>. QED
    BY <1>0, <2>2, <2>3, Zenon
<1>. QED
  BY <1>1, <1>2, <1>3 DEF AppendStops

\* Every step preserves the types.
LEMMA TypeStep == TypeOK /\ [Next]_vars => TypeOK'
<1>. SUFFICES ASSUME TypeOK, [Next]_vars PROVE TypeOK'
  OBVIOUS
<1>. USE ReplicaAssumption DEF VoteRecord
<1>1. ASSUME NEW tx \in Txs, Write(tx) PROVE TypeOK'
  BY <1>1 DEF TypeOK, Write, Room, logvars, hbvars, bootvars, filevars
<1>2. CASE Tick
  BY <1>2 DEF TypeOK, Tick, logvars, hbvars, bootvars, filevars
<1>3. CASE LogTake
  BY <1>3 DEF TypeOK, LogTake, Number, hbvars, bootvars, filevars
<1>4. CASE LogStamp
  BY <1>4 DEF TypeOK, LogStamp, Stamped, hbvars, bootvars, filevars
<1>5. CASE LogAppend
  <2>1. wal' \in Seq(VoteRecord) /\ Len(wal') = Len(wal) + 1 /\ Len(wal) \in Nat
    BY <1>5 DEF TypeOK, LogAppend, Logged
  <2>2. torn' \subseteq 1..(Len(wal') + 1) /\ base' \in 0..Len(wal')
    BY <1>5, <2>1 DEF TypeOK, LogAppend, bootvars
  <2>. QED
    BY <1>5, <2>1, <2>2 DEF TypeOK, LogAppend, hbvars, bootvars
<1>6. CASE LogAppendFails
  <2>1. logvote \in VoteRecord /\ AppendStops
    BY <1>6 DEF TypeOK, LogAppendFails
  <2>2. /\ wal' \in Seq(VoteRecord) /\ Len(wal) <= Len(wal') /\ Len(wal') \in Nat
        /\ torn' \subseteq 1..(Len(wal') + 1)
    BY <2>1, StopsTypes
  <2>3. lost' \subseteq Nat
    BY <1>6 DEF TypeOK, LogAppendFails
  <2>. QED
    BY <1>6, <2>2, <2>3 DEF TypeOK, LogAppendFails, hbvars, bootvars
<1>7. CASE LogBroadcast
  BY <1>7 DEF TypeOK, LogBroadcast, Broadcast, hbvars, bootvars, filevars
<1>8. CASE HbTake
  BY <1>8 DEF TypeOK, HbTake, Number, logvars, bootvars, filevars
<1>9. CASE HbStamp
  BY <1>9 DEF TypeOK, HbStamp, Stamped, logvars, bootvars, filevars
<1>10. CASE HbBroadcast
  BY <1>10 DEF TypeOK, HbBroadcast, Broadcast, logvars, bootvars, filevars
<1>11. CASE Restart
  <2>1. /\ wal' \in Seq(VoteRecord) /\ Len(wal') \in Nat
        /\ torn' \subseteq 1..(Len(wal') + 1)
    <3>1. CASE logpc = "append"
      BY <1>11, <3>1, StopsTypes DEF TypeOK, Restart
    <3>2. CASE logpc # "append"
      <4>1. wal' = wal /\ torn' = torn
        BY <1>11, <3>2 DEF Restart, filevars
      <4>2. wal \in Seq(VoteRecord) /\ Len(wal) \in Nat /\ torn \subseteq 1..(Len(wal) + 1)
        BY DEF TypeOK
      <4>. QED
        BY <4>1, <4>2, Zenon
    <3>. QED
      BY <3>1, <3>2
  <2>. QED
    BY <1>11, <2>1 DEF TypeOK, Restart
<1>12. CASE UNCHANGED vars
  BY <1>12 DEF TypeOK, vars, logvars, hbvars, bootvars, filevars
<1>. QED
  BY <1>1, <1>2, <1>3, <1>4, <1>5, <1>6, <1>7, <1>8, <1>9, <1>10, <1>11, <1>12
     DEF Next, LogService, HbService

\* Every variable of a replica always has its type, and its write channel never
\* exceeds its capacity.
THEOREM TypeCorrect == Spec => []TypeOK
<1>1. Init => TypeOK
  BY ReplicaAssumption DEF Init, Start, TypeOK
<1>. QED
  BY <1>1, TypeStep, PTL DEF Spec

-----------------------------------------------------------------------------
\* A step that changes neither the numbers in use nor who has them preserves
\* SnInv.
LEMMA SnFrame ==
  ASSUME SnInv, UNCHANGED <<nextsn, bcast, lost>>,
         (logpc' = "recv") <=> (logpc = "recv"), logpc # "recv" => logvote'.sn = logvote.sn,
         (hbpc' = "tick") <=> (hbpc = "tick"), hbpc # "tick" => hbvote'.sn = hbvote.sn
  PROVE  SnInv'
  BY DEF SnInv, SnBelow, SnUsedOnce, SnAccounted, LogHolds, HbHolds

\* What it takes to add a vote to the broadcast channel.
LEMMA BroadcastSn ==
  ASSUME TypeOK, NEW v \in VoteRecord, bcast' = Append(bcast, v)
  PROVE  /\ Len(bcast') = Len(bcast) + 1
         /\ bcast'[Len(bcast) + 1] = v
         /\ \A i \in 1..Len(bcast) : bcast'[i] = bcast[i]
         /\ Len(bcast) \in Nat
         /\ \A i \in 1..Len(bcast') : i \in 1..Len(bcast) \/ i = Len(bcast) + 1
  BY DEF TypeOK

\* The numbers in use are natural numbers.
LEMMA SnTypes ==
  ASSUME TypeOK
  PROVE  /\ \A i \in 1..Len(bcast) : bcast[i].sn \in Nat
         /\ logpc # "recv" => logvote.sn \in Nat
         /\ hbpc # "tick" => hbvote.sn \in Nat
         /\ \A n \in lost : n \in Nat
<1>1. \A v \in VoteRecord : v.sn \in Nat
  BY DEF VoteRecord
<1>2. \A i \in 1..Len(bcast) : bcast[i] \in VoteRecord
  BY DEF TypeOK
<1>3. logpc # "recv" => logvote \in VoteRecord
  BY DEF TypeOK
<1>4. hbpc # "tick" => hbvote \in VoteRecord
  BY DEF TypeOK
<1>5. \A n \in lost : n \in Nat
  BY DEF TypeOK
<1>. QED
  BY <1>1, <1>2, <1>3, <1>4, <1>5

\* A number drawn by the log and vote service is new.
LEMMA SnLogTake == ASSUME TypeOK, SnInv, LogTake PROVE SnInv'
<1>1. /\ nextsn \in Nat /\ nextsn' = nextsn + 1
      /\ logpc = "recv" /\ logpc' = "stamp" /\ logvote'.sn = nextsn
      /\ UNCHANGED <<bcast, hbpc, hbvote, lost>>
  BY DEF TypeOK, LogTake, Number, hbvars
<1>2. /\ \A i \in 1..Len(bcast) : bcast[i].sn \in Nat
      /\ hbpc # "tick" => hbvote.sn \in Nat
      /\ \A n \in lost : n \in Nat
  BY SnTypes
<1>3. SnBelow'
  BY <1>1, <1>2 DEF SnInv, SnBelow
<1>4. SnUsedOnce'
  BY <1>1, <1>2 DEF SnInv, SnBelow, SnUsedOnce, LogHolds, HbHolds
<1>5. SnAccounted'
  BY <1>1 DEF SnInv, SnAccounted, LogHolds, HbHolds
<1>. QED
  BY <1>3, <1>4, <1>5 DEF SnInv

\* A number drawn by the heartbeat service is new.
LEMMA SnHbTake == ASSUME TypeOK, SnInv, HbTake PROVE SnInv'
<1>1. /\ nextsn \in Nat /\ nextsn' = nextsn + 1
      /\ hbpc = "tick" /\ hbpc' = "stamp" /\ hbvote'.sn = nextsn
      /\ UNCHANGED <<bcast, logpc, logvote, lost>>
  BY DEF TypeOK, HbTake, Number, logvars
<1>2. /\ \A i \in 1..Len(bcast) : bcast[i].sn \in Nat
      /\ logpc # "recv" => logvote.sn \in Nat
      /\ \A n \in lost : n \in Nat
  BY SnTypes
<1>3. SnBelow'
  BY <1>1, <1>2 DEF SnInv, SnBelow
<1>4. SnUsedOnce'
  BY <1>1, <1>2 DEF SnInv, SnBelow, SnUsedOnce, LogHolds, HbHolds
<1>5. SnAccounted'
  BY <1>1 DEF SnInv, SnAccounted, LogHolds, HbHolds
<1>. QED
  BY <1>3, <1>4, <1>5 DEF SnInv

\* Broadcasting moves a number from the log and vote service to the channel.
LEMMA SnLogBroadcast == ASSUME TypeOK, SnInv, LogBroadcast PROVE SnInv'
<1>. DEFINE m == Len(bcast) + 1
<1>1. /\ logvote \in VoteRecord /\ bcast' = Append(bcast, logvote)
      /\ logpc # "recv" /\ logpc' = "recv"
      /\ UNCHANGED <<nextsn, hbpc, hbvote, lost>>
  BY DEF TypeOK, LogBroadcast, Broadcast, hbvars
<1>2. /\ Len(bcast') = m /\ bcast'[m] = logvote /\ m \in Nat
      /\ \A i \in 1..Len(bcast) : bcast'[i] = bcast[i]
      /\ \A i \in 1..m : i \in 1..Len(bcast) \/ i = m
      /\ m \in 1..m /\ \A i \in 1..Len(bcast) : i \in 1..m
  BY <1>1, BroadcastSn
<1>3. SnBelow'
  BY <1>1, <1>2 DEF SnInv, SnBelow
<1>4. SnUsedOnce'
  <2>1. \A i \in 1..m : /\ ~HbHolds(bcast'[i].sn)
                        /\ bcast'[i].sn \notin lost
    BY <1>1, <1>2 DEF SnInv, SnUsedOnce, LogHolds, HbHolds
  <2>2. \A i, j \in 1..m : bcast'[i].sn = bcast'[j].sn => i = j
    BY <1>1, <1>2 DEF SnInv, SnUsedOnce, LogHolds
  <2>. QED
    BY <1>1, <1>2, <2>1, <2>2 DEF SnInv, SnUsedOnce, LogHolds, HbHolds
<1>5. SnAccounted'
  BY <1>1, <1>2 DEF SnInv, SnAccounted, LogHolds, HbHolds
<1>. QED
  BY <1>3, <1>4, <1>5 DEF SnInv

\* Broadcasting moves a number from the heartbeat service to the channel.
LEMMA SnHbBroadcast == ASSUME TypeOK, SnInv, HbBroadcast PROVE SnInv'
<1>. DEFINE m == Len(bcast) + 1
<1>1. /\ hbvote \in VoteRecord /\ bcast' = Append(bcast, hbvote)
      /\ hbpc # "tick" /\ hbpc' = "tick"
      /\ UNCHANGED <<nextsn, logpc, logvote, lost>>
  BY DEF TypeOK, HbBroadcast, Broadcast, logvars
<1>2. /\ Len(bcast') = m /\ bcast'[m] = hbvote /\ m \in Nat
      /\ \A i \in 1..Len(bcast) : bcast'[i] = bcast[i]
      /\ \A i \in 1..m : i \in 1..Len(bcast) \/ i = m
      /\ m \in 1..m /\ \A i \in 1..Len(bcast) : i \in 1..m
  BY <1>1, BroadcastSn
<1>3. SnBelow'
  BY <1>1, <1>2 DEF SnInv, SnBelow
<1>4. SnUsedOnce'
  <2>1. \A i \in 1..m : /\ ~LogHolds(bcast'[i].sn)
                        /\ bcast'[i].sn \notin lost
    BY <1>1, <1>2 DEF SnInv, SnUsedOnce, LogHolds, HbHolds
  <2>2. \A i, j \in 1..m : bcast'[i].sn = bcast'[j].sn => i = j
    BY <1>1, <1>2 DEF SnInv, SnUsedOnce, HbHolds
  <2>. QED
    BY <1>1, <1>2, <2>1, <2>2 DEF SnInv, SnUsedOnce, LogHolds, HbHolds
<1>5. SnAccounted'
  BY <1>1, <1>2 DEF SnInv, SnAccounted, LogHolds, HbHolds
<1>. QED
  BY <1>3, <1>4, <1>5 DEF SnInv

\* A failed append moves a number to the lost ones.
LEMMA SnAppendFails == ASSUME TypeOK, SnInv, LogAppendFails PROVE SnInv'
<1>1. /\ logpc # "recv" /\ logpc' = "recv" /\ lost' = lost \cup {logvote.sn}
      /\ UNCHANGED <<nextsn, bcast, hbpc, hbvote>>
  BY DEF LogAppendFails, Logged, hbvars
<1>2. SnBelow'
  BY <1>1 DEF SnInv, SnBelow
<1>3. SnUsedOnce'
  BY <1>1 DEF SnInv, SnUsedOnce, LogHolds, HbHolds
<1>4. SnAccounted'
  BY <1>1 DEF SnInv, SnAccounted, LogHolds, HbHolds
<1>. QED
  BY <1>2, <1>3, <1>4 DEF SnInv

\* Every step preserves SnInv.
LEMMA SnStep == TypeOK /\ SnInv /\ [Next]_vars => SnInv'
<1>. SUFFICES ASSUME TypeOK, SnInv, [Next]_vars PROVE SnInv'
  OBVIOUS
<1>1. ASSUME NEW tx \in Txs, Write(tx) PROVE SnInv'
  BY <1>1, SnFrame DEF Write, Room, logvars, hbvars
<1>2. CASE Tick
  BY <1>2, SnFrame DEF Tick, logvars, hbvars
<1>3. CASE LogStamp
  BY <1>3, SnFrame DEF LogStamp, Stamped, hbvars, TypeOK, VoteRecord
<1>4. CASE LogAppend
  BY <1>4, SnFrame DEF LogAppend, Logged, hbvars
<1>5. CASE HbStamp
  BY <1>5, SnFrame DEF HbStamp, Stamped, logvars, TypeOK, VoteRecord
<1>6. CASE Restart
  BY <1>6 DEF Restart, SnInv, SnBelow, SnUsedOnce, SnAccounted, LogHolds, HbHolds
<1>7. CASE UNCHANGED vars
  BY <1>7, SnFrame DEF vars, logvars, hbvars
<1>. QED
  BY <1>1, <1>2, <1>3, <1>4, <1>5, <1>6, <1>7, SnLogTake, SnHbTake, SnLogBroadcast,
     SnHbBroadcast, SnAppendFails DEF Next, LogService, HbService

\* SnInv is an invariant of the replica.
THEOREM SnInvariant == Spec => []SnInv
<1>1. Init => SnInv
  BY DEF Init, Start, SnInv, SnBelow, SnUsedOnce, SnAccounted, LogHolds, HbHolds
<1>. QED
  BY <1>1, SnStep, TypeCorrect, PTL DEF Spec

\* However the two services interleave, no sequence number of one run of the
\* process is used for two votes.
THEOREM NoNumberTwice == Spec => []SnUsedOnce
  BY SnInvariant, PTL DEF SnInv

\* No sequence number below the counter is unaccounted for.
THEOREM NoNumberSkipped == Spec => []SnAccounted
  BY SnInvariant, PTL DEF SnInv

-----------------------------------------------------------------------------
\* Every step preserves LoggedSent.
LEMMA LoggedSentStep == TypeOK /\ LoggedSent /\ [Next]_vars => LoggedSent'
<1>. SUFFICES ASSUME TypeOK, LoggedSent, [Next]_vars PROVE LoggedSent'
  OBVIOUS
<1>0. /\ wal \in Seq(VoteRecord) /\ bcast \in Seq(VoteRecord) /\ base \in 0..Len(wal)
      /\ Len(wal) \in Nat /\ Len(bcast) \in Nat /\ Outgoing \in Seq(VoteRecord)
      /\ Len(Outgoing) \in Nat
  BY DEF TypeOK, Outgoing
<1>1. CASE UNCHANGED <<wal, base, lost, Outgoing>>
  BY <1>1 DEF LoggedSent
<1>2. CASE LogAppend
  <2>1. /\ logvote \in VoteRecord /\ Outgoing = bcast /\ Outgoing' = Append(Outgoing, logvote)
        /\ wal' = Append(wal, logvote) /\ UNCHANGED <<base, lost>>
    BY <1>2 DEF TypeOK, LogAppend, Logged, Outgoing, bootvars
  <2>2. /\ Len(wal') = Len(wal) + 1 /\ wal'[Len(wal) + 1] = logvote
        /\ \A i \in 1..Len(wal) : wal'[i] = wal[i]
        /\ Len(Outgoing') = Len(Outgoing) + 1 /\ Outgoing'[Len(Outgoing) + 1] = logvote
        /\ \A j \in 1..Len(Outgoing) : Outgoing'[j] = Outgoing[j]
    BY <1>0, <2>1
  <2>. QED
    BY <1>0, <2>1, <2>2 DEF LoggedSent
<1>3. CASE LogAppendFails
  <2>1. /\ logvote \in VoteRecord /\ (wal' = wal \/ wal' = Append(wal, logvote))
        /\ base' = base /\ lost' = lost \cup {logvote.sn} /\ Outgoing' = Outgoing
    BY <1>3 DEF TypeOK, LogAppendFails, AppendStops, Logged, Outgoing, bootvars, filevars
  <2>2. /\ \A i \in 1..Len(wal) : wal'[i] = wal[i]
        /\ \A i \in 1..Len(wal') : i \in 1..Len(wal) \/ wal'[i] = logvote
    <3>1. CASE wal' = wal
      BY <1>0, <3>1
    <3>2. CASE wal' = Append(wal, logvote)
      BY <1>0, <2>1, <3>2
    <3>. QED
      BY <2>1, <3>1, <3>2
  <2>. QED
    BY <1>0, <2>1, <2>2 DEF LoggedSent
<1>4. CASE HbBroadcast
  <2>1. /\ hbvote \in VoteRecord /\ bcast' = Append(bcast, hbvote)
        /\ UNCHANGED <<wal, base, lost, logpc, logvote>>
    BY <1>4 DEF TypeOK, HbBroadcast, Broadcast, logvars, bootvars, filevars
  <2>2. \A j \in 1..Len(Outgoing) : \E k \in 1..Len(Outgoing') : Outgoing'[k] = Outgoing[j]
    <3>1. CASE logpc = "broadcast"
      <4>1. /\ Outgoing = Append(bcast, logvote) /\ Outgoing' = Append(bcast', logvote)
            /\ logvote \in VoteRecord
        BY <2>1, <3>1 DEF Outgoing, TypeOK
      <4>. SUFFICES ASSUME NEW j \in 1..Len(Outgoing)
                    PROVE  \E k \in 1..Len(Outgoing') : Outgoing'[k] = Outgoing[j]
        OBVIOUS
      <4>2. CASE j \in 1..Len(bcast)
        <5>1. j \in 1..Len(Outgoing') /\ Outgoing'[j] = Outgoing[j]
          BY <1>0, <2>1, <4>1, <4>2
        <5>. QED
          BY <5>1
      <4>3. CASE j = Len(bcast) + 1
        <5>1. j + 1 \in 1..Len(Outgoing') /\ Outgoing'[j + 1] = Outgoing[j]
          BY <1>0, <2>1, <4>1, <4>3
        <5>. QED
          BY <5>1
      <4>. QED
        BY <1>0, <4>1, <4>2, <4>3
    <3>2. CASE logpc # "broadcast"
      BY <1>0, <2>1, <3>2 DEF Outgoing
    <3>. QED
      BY <3>1, <3>2
  <2>. QED
    BY <2>1, <2>2 DEF LoggedSent
<1>5. CASE Restart
  <2>1. base' = Len(wal') /\ Len(wal') \in Nat
    BY <1>5, TypeStep DEF Next, Restart, TypeOK
  <2>. QED
    BY <2>1 DEF LoggedSent
<1>6. (\E tx \in Txs : Write(tx)) \/ Tick \/ LogTake \/ LogStamp \/ LogBroadcast \/ HbTake
      \/ HbStamp \/ UNCHANGED vars => UNCHANGED <<wal, base, lost, Outgoing>>
  BY DEF Write, Tick, LogTake, LogStamp, LogBroadcast, Broadcast, HbTake, HbStamp, vars,
         Outgoing, logvars, bootvars, filevars
<1>. QED
  BY <1>1, <1>2, <1>3, <1>4, <1>5, <1>6 DEF Next, LogService, HbService

\* Every record of this run is among the votes sent, the next one to be sent or
\* lost.
LEMMA LoggedSentInvariant == Spec => []LoggedSent
<1>1. Init => LoggedSent
  BY DEF Init, Start, LoggedSent
<1>. QED
  BY <1>1, LoggedSentStep, TypeCorrect, PTL DEF Spec

-----------------------------------------------------------------------------
\* What has a timestamp is a vote with a number below the counter.
LEMMA TimedVotes ==
  ASSUME TypeOK, SnInv
  PROVE  /\ \A w \in Timed : w \in VoteRecord /\ w.sn \in Nat /\ w.ts \in Nat /\ w.sn < nextsn
         /\ \A i \in 1..Len(bcast) : bcast[i] \in Timed
<1>1. \A w \in Timed : w \in VoteRecord /\ w.sn < nextsn
  BY DEF Timed, TypeOK, SnInv, SnBelow
<1>2. \A w \in VoteRecord : w.sn \in Nat /\ w.ts \in Nat
  BY DEF VoteRecord
<1>3. \A i \in 1..Len(bcast) : bcast[i] \in Timed
  BY DEF Timed
<1>. QED
  BY <1>1, <1>2, <1>3

\* A step that sends nothing preserves RoundInv: a number it takes is new, and
\* a timestamp it gives is the present round.
LEMMA RoundKeeps ==
  ASSUME TypeOK, SnInv, RoundInv, bcast' = bcast, round' \in Nat, round <= round',
         \A i \in 1..Len(bcast) : bcast[i].sn \in LogNos' <=> bcast[i].sn \in LogNos,
         \A w \in Timed' : w \in Timed \/ w.ts = round',
         logpc' # "recv" => \/ logpc # "recv" /\ logvote'.sn = logvote.sn
                            \/ logvote'.sn = nextsn,
         hbpc' # "tick" => \/ hbpc # "tick" /\ hbvote'.sn = hbvote.sn
                           \/ hbvote'.sn = nextsn,
         logpc' = "broadcast" => logvote'.sn \in LogNos'
  PROVE  RoundInv'
<1>1. /\ \A w \in Timed : w.sn \in Nat /\ w.ts \in Nat /\ w.sn < nextsn
      /\ \A i \in 1..Len(bcast) : bcast[i] \in Timed
      /\ nextsn \in Nat /\ round \in Nat
  BY TimedVotes DEF TypeOK
<1>2. \A w \in Timed' : w.ts <= round'
  BY <1>1 DEF RoundInv
<1>3. ASSUME NEW i \in 1..Len(bcast), NEW n, NoneBefore(bcast[i], n)
      PROVE  \A w \in Timed' : n <= w.sn => bcast[i].ts <= w.ts
  <2>1. bcast[i].ts <= round /\ bcast[i].ts \in Nat
    BY <1>1 DEF RoundInv
  <2>2. bcast[i].ts <= round'
    BY <1>1, <2>1
  <2>. QED
    BY <1>3, <2>2 DEF NoneBefore
<1>4. ASSUME NEW i \in 1..Len(bcast)
      PROVE  NoneBefore(bcast[i], nextsn) /\ bcast[i].sn < nextsn
  BY <1>1 DEF NoneBefore
<1>5. ASSUME NEW i \in 1..Len(bcast), NEW k \in 1..Len(bcast),
             SameService(bcast[i], bcast[k])', bcast[i].sn < bcast[k].sn
      PROVE  \A w \in Timed' : bcast[k].sn <= w.sn => bcast[i].ts <= w.ts
  <2>1. NoneBefore(bcast[i], bcast[k].sn)
    BY <1>5 DEF RoundInv, SameService
  <2>. QED
    BY <1>3, <2>1
<1>6. ASSUME NEW i \in 1..Len(bcast), logpc' # "recv", bcast[i].sn \in LogNos'
      PROVE  /\ bcast[i].sn < logvote'.sn
             /\ \A w \in Timed' : logvote'.sn <= w.sn => bcast[i].ts <= w.ts
  <2>1. bcast[i].sn < logvote'.sn /\ NoneBefore(bcast[i], logvote'.sn)
    BY <1>4, <1>6 DEF RoundInv
  <2>. QED
    BY <1>3, <2>1
<1>7. ASSUME NEW i \in 1..Len(bcast), hbpc' # "tick", bcast[i].sn \notin LogNos'
      PROVE  /\ bcast[i].sn < hbvote'.sn
             /\ \A w \in Timed' : hbvote'.sn <= w.sn => bcast[i].ts <= w.ts
  <2>1. bcast[i].sn < hbvote'.sn /\ NoneBefore(bcast[i], hbvote'.sn)
    BY <1>4, <1>7 DEF RoundInv
  <2>. QED
    BY <1>3, <2>1
<1>. QED
  BY <1>2, <1>5, <1>6, <1>7 DEF RoundInv, NoneBefore, SameService

\* Sending a vote with a greater number than any its service sent preserves
\* RoundInv.
LEMMA RoundSends ==
  ASSUME TypeOK, SnInv, RoundInv, NEW v \in VoteRecord, bcast' = Append(bcast, v),
         v \in Timed, UNCHANGED <<round, LogNos>>, \A w \in Timed' : w \in Timed,
         \A i \in 1..Len(bcast) : SameService(bcast[i], v)
            => bcast[i].sn < v.sn /\ NoneBefore(bcast[i], v.sn),
         logpc' # "recv" => logpc' = logpc /\ logvote' = logvote /\ v.sn \notin LogNos,
         hbpc' # "tick" => hbpc' = hbpc /\ hbvote' = hbvote /\ v.sn \in LogNos
  PROVE  RoundInv'
<1>. DEFINE m == Len(bcast) + 1
<1>1. /\ m \in Nat /\ Len(bcast') = m /\ bcast'[m] = v
      /\ \A i \in 1..Len(bcast) : bcast'[i] = bcast[i]
      /\ \A i \in 1..m : i \in 1..Len(bcast) \/ i = m
  BY BroadcastSn
<1>2. /\ \A w \in Timed : w.sn \in Nat
      /\ \A i \in 1..Len(bcast) : bcast[i] \in Timed
  BY TimedVotes
<1>. HIDE DEF m
<1>3. \A u, n : NoneBefore(u, n) => NoneBefore(u, n)'
  BY DEF NoneBefore
<1>4. ASSUME NEW i \in 1..m, NEW k \in 1..m,
             SameService(bcast'[i], bcast'[k]), bcast'[i].sn < bcast'[k].sn
      PROVE  NoneBefore(bcast'[i], bcast'[k].sn)
  <2>1. CASE i \in 1..Len(bcast) /\ k \in 1..Len(bcast)
    BY <1>1, <1>4, <2>1 DEF RoundInv
  <2>2. CASE i \in 1..Len(bcast) /\ k = m
    BY <1>1, <1>4, <2>2
  <2>3. CASE i = m /\ k \in 1..Len(bcast)
    <3>1. SameService(bcast[k], v) /\ v.sn < bcast[k].sn
      BY <1>1, <1>4, <2>3 DEF SameService
    <3>2. bcast[k].sn < v.sn /\ bcast[k].sn \in Nat /\ v.sn \in Nat
      BY <1>2, <2>3, <3>1
    <3>. QED
      BY <3>1, <3>2
  <2>4. CASE i = m /\ k = m
    BY <1>1, <1>2, <1>4, <2>4
  <2>. QED
    BY <1>1, <2>1, <2>2, <2>3, <2>4
<1>5. ASSUME NEW i \in 1..m, logpc' # "recv", bcast'[i].sn \in LogNos
      PROVE  bcast'[i].sn < logvote'.sn /\ NoneBefore(bcast'[i], logvote'.sn)
  BY <1>1, <1>5 DEF RoundInv
<1>6. ASSUME NEW i \in 1..m, hbpc' # "tick", bcast'[i].sn \notin LogNos
      PROVE  bcast'[i].sn < hbvote'.sn /\ NoneBefore(bcast'[i], hbvote'.sn)
  BY <1>1, <1>6 DEF RoundInv
<1>7. logpc' = "broadcast" => logvote'.sn \in LogNos'
  BY DEF RoundInv
<1>8. \A w \in Timed' : w.ts <= round'
  BY DEF RoundInv
<1>9. ASSUME NEW i \in 1..m, NEW k \in 1..m,
             bcast'[i].sn \in LogNos' <=> bcast'[k].sn \in LogNos',
             bcast'[i].sn < bcast'[k].sn
      PROVE  \A w \in Timed' : bcast'[k].sn <= w.sn => bcast'[i].ts <= w.ts
  BY <1>4, <1>9 DEF SameService, NoneBefore
<1>10. ASSUME NEW i \in 1..m, logpc' # "recv", bcast'[i].sn \in LogNos'
       PROVE  /\ bcast'[i].sn < logvote'.sn
              /\ \A w \in Timed' : logvote'.sn <= w.sn => bcast'[i].ts <= w.ts
  BY <1>5, <1>10 DEF NoneBefore
<1>11. ASSUME NEW i \in 1..m, hbpc' # "tick", bcast'[i].sn \notin LogNos'
       PROVE  /\ bcast'[i].sn < hbvote'.sn
              /\ \A w \in Timed' : hbvote'.sn <= w.sn => bcast'[i].ts <= w.ts
  BY <1>6, <1>11 DEF NoneBefore
<1>. QED
  <2>1. Len(bcast') = m
    BY <1>1
  <2>. QED
    BY <2>1, <1>7, <1>8, <1>9, <1>10, <1>11 DEF RoundInv, NoneBefore, SameService

\* The number the heartbeat service holds is none of the log's.
LEMMA HbNotLogged ==
  ASSUME TypeOK, SnInv, LoggedSent, hbpc # "tick"
  PROVE  hbvote.sn \notin LogNos
<1>. SUFFICES ASSUME NEW i \in (base + 1)..Len(wal), wal[i].sn = hbvote.sn PROVE FALSE
  BY DEF LogNos
<1>1. hbvote.sn \notin lost
  BY DEF SnInv, SnUsedOnce, HbHolds
<1>2. PICK j \in 1..Len(Outgoing) : Outgoing[j] = wal[i]
  BY <1>1 DEF LoggedSent
<1>3. CASE logpc = "broadcast"
  <2>1. Outgoing = Append(bcast, logvote) /\ bcast \in Seq(VoteRecord) /\ logvote \in VoteRecord
    BY <1>3 DEF Outgoing, TypeOK
  <2>2. Outgoing[j] = logvote \/ \E l \in 1..Len(bcast) : Outgoing[j] = bcast[l]
    BY <2>1
  <2>. QED
    BY <1>2, <1>3, <2>2 DEF SnInv, SnUsedOnce, HbHolds, LogHolds
<1>4. CASE logpc # "broadcast"
  BY <1>2, <1>4 DEF Outgoing, SnInv, SnUsedOnce, HbHolds
<1>. QED
  BY <1>3, <1>4

\* Every step preserves RoundInv.
LEMMA RoundStep == TypeOK /\ SnInv /\ LoggedSent /\ RoundInv /\ [Next]_vars => RoundInv'
<1>. SUFFICES ASSUME TypeOK, SnInv, LoggedSent, RoundInv, [Next]_vars PROVE RoundInv'
  OBVIOUS
<1>0. /\ round \in Nat /\ round <= round
      /\ logpc # "recv" => logvote \in VoteRecord
      /\ hbpc # "tick" => hbvote \in VoteRecord
  BY DEF TypeOK
<1>1. ASSUME NEW tx \in Txs, Write(tx) PROVE RoundInv'
  <2>1. UNCHANGED <<round, bcast, logpc, logvote, hbpc, hbvote, LogNos, Timed>>
    BY <1>1 DEF Write, logvars, hbvars, bootvars, filevars, LogNos, Timed
  <2>. QED
    BY <1>0, <2>1, RoundKeeps DEF RoundInv
<1>2. CASE Tick
  <2>1. /\ UNCHANGED <<bcast, logpc, logvote, hbpc, hbvote, LogNos, Timed>>
        /\ round' \in Nat /\ round <= round'
    BY <1>0, <1>2 DEF Tick, logvars, hbvars, bootvars, filevars, LogNos, Timed
  <2>. QED
    BY <2>1, RoundKeeps DEF RoundInv
<1>3. CASE LogTake
  <2>1. /\ UNCHANGED <<round, bcast, hbpc, hbvote, LogNos, Timed>>
        /\ logvote'.sn = nextsn /\ logpc' = "stamp"
    BY <1>3 DEF LogTake, Number, hbvars, bootvars, filevars, LogNos, Timed
  <2>. QED
    BY <1>0, <2>1, RoundKeeps
<1>4. CASE LogStamp
  <2>1. /\ UNCHANGED <<round, bcast, hbpc, hbvote, LogNos>>
        /\ logvote'.sn = logvote.sn /\ logvote'.ts = round /\ logpc = "stamp" /\ logpc' = "append"
    BY <1>0, <1>4 DEF LogStamp, Stamped, VoteRecord, hbvars, bootvars, filevars, LogNos
  <2>2. \A w \in Timed' : w \in Timed \/ w.ts = round'
    BY <2>1 DEF Timed
  <2>. QED
    BY <1>0, <2>1, <2>2, RoundKeeps
<1>5. CASE LogAppend
  <2>1. /\ UNCHANGED <<round, bcast, hbpc, hbvote, logvote, Timed>>
        /\ logpc = "append" /\ logpc' = "broadcast" /\ LogNos' = LogNos \cup {logvote.sn}
    <3>1. /\ wal \in Seq(VoteRecord) /\ base \in 0..Len(wal) /\ base' = base
          /\ wal' = Append(wal, logvote) /\ logvote \in VoteRecord
      BY <1>0, <1>5 DEF TypeOK, LogAppend, Logged, bootvars
    <3>2. /\ Len(wal') = Len(wal) + 1 /\ wal'[Len(wal) + 1] = logvote /\ Len(wal) \in Nat
          /\ \A i \in 1..Len(wal) : wal'[i] = wal[i]
      BY <3>1
    <3>3. \A n : n \in LogNos' <=> n \in LogNos \/ n = logvote.sn
      BY <3>1, <3>2 DEF LogNos
    <3>. QED
      BY <1>5, <3>3 DEF LogAppend, hbvars, Timed
  <2>2. \A i \in 1..Len(bcast) : bcast[i].sn # logvote.sn
    BY <2>1 DEF SnInv, SnUsedOnce, LogHolds
  <2>. QED
    BY <1>0, <2>1, <2>2, RoundKeeps
<1>6. CASE LogAppendFails
  <2>1. /\ UNCHANGED <<round, bcast, hbpc, hbvote>>
        /\ logpc = "append" /\ logpc' = "recv"
        /\ \A w \in Timed' : w \in Timed
    BY <1>6 DEF LogAppendFails, hbvars, Timed
  <2>2. /\ Len(wal) \in Nat /\ Len(wal') \in Nat /\ base \in 0..Len(wal) /\ base' = base
        /\ Len(wal) <= Len(wal') /\ \A i \in 1..Len(wal) : wal'[i] = wal[i]
        /\ \A i \in 1..Len(wal') : i \in 1..Len(wal) \/ wal'[i] = logvote
    BY <1>0, <1>6, StopsTypes DEF LogAppendFails, bootvars, TypeOK
  <2>3. /\ \A n : n \in LogNos' => n \in LogNos \/ n = logvote.sn
        /\ \A n : n \in LogNos => n \in LogNos'
    BY <2>2 DEF LogNos
  <2>4. \A i \in 1..Len(bcast) : bcast[i].sn # logvote.sn
    BY <2>1 DEF SnInv, SnUsedOnce, LogHolds
  <2>. QED
    BY <1>0, <2>1, <2>2, <2>3, <2>4, RoundKeeps
<1>7. CASE LogBroadcast
  <2>1. /\ logvote \in VoteRecord /\ logvote \in Timed /\ logvote.sn \in LogNos
        /\ bcast' = Append(bcast, logvote) /\ logpc # "recv" /\ logpc' = "recv"
        /\ UNCHANGED <<round, LogNos, hbpc, hbvote>>
    BY <1>0, <1>7
       DEF LogBroadcast, Broadcast, Timed, LogNos, bootvars, filevars, hbvars, RoundInv
  <2>2. \A w \in Timed' : w \in Timed
    <3>1. \A i \in 1..Len(bcast') : bcast'[i] = logvote \/ \E k \in 1..Len(bcast) : bcast'[i] = bcast[k]
      BY <2>1, BroadcastSn
    <3>. QED
      BY <1>7, <2>1, <3>1 DEF Timed, LogBroadcast
  <2>3. \A i \in 1..Len(bcast) : SameService(bcast[i], logvote)
          => bcast[i].sn < logvote.sn /\ NoneBefore(bcast[i], logvote.sn)
    BY <2>1 DEF SameService, RoundInv
  <2>. QED
    BY <2>1, <2>2, <2>3, RoundSends
<1>8. CASE HbTake
  <2>1. /\ UNCHANGED <<round, bcast, logpc, logvote, LogNos, Timed>>
        /\ hbvote'.sn = nextsn /\ hbpc' = "stamp"
    BY <1>8 DEF HbTake, Number, logvars, bootvars, filevars, LogNos, Timed
  <2>. QED
    BY <1>0, <2>1, RoundKeeps DEF RoundInv
<1>9. CASE HbStamp
  <2>1. /\ UNCHANGED <<round, bcast, logpc, logvote, LogNos>>
        /\ hbvote'.sn = hbvote.sn /\ hbvote'.ts = round /\ hbpc = "stamp" /\ hbpc' = "broadcast"
    BY <1>0, <1>9 DEF HbStamp, Stamped, VoteRecord, logvars, bootvars, filevars, LogNos
  <2>2. \A w \in Timed' : w \in Timed \/ w.ts = round'
    BY <2>1 DEF Timed
  <2>. QED
    BY <1>0, <2>1, <2>2, RoundKeeps DEF RoundInv
<1>10. CASE HbBroadcast
  <2>1. /\ hbvote \in VoteRecord /\ hbvote \in Timed /\ hbvote.sn \notin LogNos
        /\ bcast' = Append(bcast, hbvote) /\ hbpc # "tick" /\ hbpc' = "tick"
        /\ UNCHANGED <<round, LogNos, logpc, logvote>>
    BY <1>0, <1>10, HbNotLogged
       DEF HbBroadcast, Broadcast, Timed, LogNos, bootvars, filevars, logvars
  <2>2. \A w \in Timed' : w \in Timed
    <3>1. \A i \in 1..Len(bcast') : bcast'[i] = hbvote \/ \E k \in 1..Len(bcast) : bcast'[i] = bcast[k]
      BY <2>1, BroadcastSn
    <3>. QED
      BY <1>10, <2>1, <3>1 DEF Timed, HbBroadcast
  <2>3. \A i \in 1..Len(bcast) : SameService(bcast[i], hbvote)
          => bcast[i].sn < hbvote.sn /\ NoneBefore(bcast[i], hbvote.sn)
    BY <2>1 DEF SameService, RoundInv
  <2>. QED
    BY <2>1, <2>2, <2>3, RoundSends
<1>11. CASE Restart
  <2>1. bcast' = <<>> /\ logpc' = "recv" /\ hbpc' = "tick" /\ Timed' = {}
    BY <1>11 DEF Restart, Timed
  <2>. QED
    BY <2>1 DEF RoundInv
<1>12. CASE UNCHANGED vars
  <2>1. UNCHANGED <<round, bcast, logpc, logvote, hbpc, hbvote, LogNos, Timed>>
    BY <1>12 DEF vars, logvars, hbvars, bootvars, filevars, LogNos, Timed
  <2>. QED
    BY <1>0, <2>1, RoundKeeps DEF RoundInv
<1>. QED
  BY <1>1, <1>2, <1>3, <1>4, <1>5, <1>6, <1>7, <1>8, <1>9, <1>10, <1>11, <1>12
     DEF Next, LogService, HbService

\* A vote is overtaken in time only by votes the other service makes while it
\* is between its number and the clock.
THEOREM OvertakenInHand == Spec => []OvertakenOnlyInHand
<1>1. Init => RoundInv
  <2>. SUFFICES ASSUME Init PROVE RoundInv
    OBVIOUS
  <2>1. Timed = {} /\ Len(bcast) = 0 /\ logpc = "recv"
    BY DEF Init, Start, Timed
  <2>. QED
    BY <2>1 DEF RoundInv
<1>2. RoundInv => OvertakenOnlyInHand
  BY DEF RoundInv, OvertakenOnlyInHand, NoneBefore, Timed
<1>. QED
  BY <1>1, <1>2, RoundStep, TypeCorrect, SnInvariant, LoggedSentInvariant, PTL DEF Spec

-----------------------------------------------------------------------------
\* A step that changes neither the log nor what goes out preserves
\* BroadcastFollowsLog.
LEMMA FollowFrame ==
  ASSUME BroadcastFollowsLog, UNCHANGED <<wal, base, lost, Outgoing>>
  PROVE  BroadcastFollowsLog'
<1>1. LoggedTx' = LoggedTx /\ SentTx' = SentTx
  BY DEF LoggedTx, SentTx, IsTx
<1>2. {wal'[i] : i \in LoggedTx'} = {Outgoing'[j] : j \in SentTx'}
  <2>1. {wal[i] : i \in LoggedTx} = {Outgoing[j] : j \in SentTx}
    BY DEF BroadcastFollowsLog
  <2>2. wal' = wal /\ Outgoing' = Outgoing
    OBVIOUS
  <2>. QED
    BY <1>1, <2>1, <2>2, Zenon
<1>3. ASSUME NEW i \in LoggedTx', NEW k \in LoggedTx', NEW j \in SentTx', NEW l \in SentTx',
             wal'[i] = Outgoing'[j], wal'[k] = Outgoing'[l]
      PROVE  i < k <=> j < l
  BY <1>1, <1>3 DEF BroadcastFollowsLog
<1>. QED
  BY <1>2, <1>3 DEF BroadcastFollowsLog

\* No transaction of this run in the log, and none sent, is the one about to be
\* appended.
LEMMA LogVoteNew ==
  ASSUME TypeOK, SnInv, BroadcastFollowsLog, logpc = "append"
  PROVE  /\ \A j \in SentTx : Outgoing[j].sn # logvote.sn
         /\ \A i \in LoggedTx : wal[i].sn # logvote.sn
<1>1. Outgoing = bcast
  BY DEF Outgoing
<1>2. \A j \in SentTx : Outgoing[j].sn # logvote.sn
  BY <1>1 DEF SnInv, SnUsedOnce, LogHolds, SentTx
<1>3. \A i \in LoggedTx : \E j \in SentTx : wal[i] = Outgoing[j]
  BY DEF BroadcastFollowsLog
<1>. QED
  BY <1>2, <1>3

\* The record is appended and the vote is next to go out.
LEMMA FollowAppend ==
  ASSUME TypeOK, SnInv, BroadcastFollowsLog, LogAppend
  PROVE  BroadcastFollowsLog'
<1>. DEFINE n == Len(wal)
            m == Len(bcast)
            lv == logvote
<1>1. /\ lv \in VoteRecord /\ n \in Nat /\ m \in Nat /\ base \in 0..n
      /\ logpc = "append" /\ UNCHANGED <<bcast, lost, base>>
      /\ wal' = Append(wal, lv) /\ Outgoing = bcast /\ Outgoing' = Append(bcast, lv)
  BY DEF TypeOK, LogAppend, Logged, Outgoing, bootvars
<1>2. /\ Len(wal') = n + 1 /\ wal'[n + 1] = lv /\ \A i \in 1..n : wal'[i] = wal[i]
      /\ Len(Outgoing') = m + 1 /\ Outgoing'[m + 1] = lv
      /\ \A j \in 1..m : Outgoing'[j] = Outgoing[j]
  BY <1>1 DEF TypeOK
<1>3. \A i : i \in LoggedTx' <=> i \in LoggedTx \/ (i = n + 1 /\ IsTx(lv))
  BY <1>1, <1>2 DEF LoggedTx, IsTx
<1>4. \A j : j \in SentTx' <=> j \in SentTx \/ (j = m + 1 /\ IsTx(lv))
  BY <1>1, <1>2 DEF SentTx, IsTx
<1>5. /\ \A i \in LoggedTx : i \in 1..n /\ wal'[i] = wal[i] /\ wal[i] # lv
      /\ \A j \in SentTx : j \in 1..m /\ Outgoing'[j] = Outgoing[j] /\ Outgoing[j] # lv
  <2>1. /\ \A i \in LoggedTx : i \in 1..n
        /\ \A j \in SentTx : j \in 1..m
    BY <1>1 DEF LoggedTx, SentTx
  <2>. QED
    BY <1>1, <1>2, <2>1, LogVoteNew
<1>. HIDE DEF n, m, lv
<1>6. {wal'[i] : i \in LoggedTx'} = {Outgoing'[j] : j \in SentTx'}
  <2>1. {wal[i] : i \in LoggedTx} = {Outgoing[j] : j \in SentTx}
    BY DEF BroadcastFollowsLog
  <2>2. \A i \in LoggedTx' : \E j \in SentTx' : wal'[i] = Outgoing'[j]
    <3>. SUFFICES ASSUME NEW i \in LoggedTx' PROVE \E j \in SentTx' : wal'[i] = Outgoing'[j]
      OBVIOUS
    <3>1. CASE i \in LoggedTx
      <4>1. PICK j \in SentTx : wal[i] = Outgoing[j]
        BY <2>1, <3>1
      <4>. QED
        BY <1>4, <1>5, <3>1, <4>1
    <3>2. CASE i = n + 1 /\ IsTx(lv)
      BY <1>2, <1>4, <3>2
    <3>. QED
      BY <1>3, <3>1, <3>2
  <2>3. \A j \in SentTx' : \E i \in LoggedTx' : wal'[i] = Outgoing'[j]
    <3>. SUFFICES ASSUME NEW j \in SentTx' PROVE \E i \in LoggedTx' : wal'[i] = Outgoing'[j]
      OBVIOUS
    <3>1. CASE j \in SentTx
      <4>1. PICK i \in LoggedTx : wal[i] = Outgoing[j]
        BY <2>1, <3>1
      <4>. QED
        BY <1>3, <1>5, <3>1, <4>1
    <3>2. CASE j = m + 1 /\ IsTx(lv)
      BY <1>2, <1>3, <3>2
    <3>. QED
      BY <1>4, <3>1, <3>2
  <2>. QED
    BY <2>2, <2>3
<1>7. ASSUME NEW i \in LoggedTx', NEW k \in LoggedTx', NEW j \in SentTx', NEW l \in SentTx',
             wal'[i] = Outgoing'[j], wal'[k] = Outgoing'[l]
      PROVE  i < k <=> j < l
  <2>1. (i \in LoggedTx <=> j \in SentTx) /\ (k \in LoggedTx <=> l \in SentTx)
    <3>1. n + 1 \notin LoggedTx /\ m + 1 \notin SentTx
      BY <1>1, <1>5 DEF n, m
    <3>. QED
      BY <1>2, <1>3, <1>4, <1>5, <1>7, <3>1
  <2>2. i \in LoggedTx /\ k \in LoggedTx => (i < k <=> j < l)
    BY <1>5, <1>7, <2>1 DEF BroadcastFollowsLog
  <2>3. /\ n \in Nat /\ m \in Nat
        /\ i \in LoggedTx => i \in 1..n
        /\ k \in LoggedTx => k \in 1..n
        /\ j \in SentTx => j \in 1..m
        /\ l \in SentTx => l \in 1..m
    BY <1>1, <1>5 DEF n, m
  <2>4. /\ i \notin LoggedTx => i = n + 1
        /\ k \notin LoggedTx => k = n + 1
        /\ j \notin SentTx => j = m + 1
        /\ l \notin SentTx => l = m + 1
    BY <1>3, <1>4
  <2>. QED
    BY <2>1, <2>2, <2>3, <2>4
<1>. QED
  BY <1>6, <1>7 DEF BroadcastFollowsLog

\* The append fails: the number is lost, with or without a record in the log.
LEMMA FollowAppendFails ==
  ASSUME TypeOK, SnInv, BroadcastFollowsLog, LogAppendFails
  PROVE  BroadcastFollowsLog'
<1>. DEFINE n == Len(wal)
<1>1. /\ logpc = "append" /\ UNCHANGED <<bcast, base>> /\ lost' = lost \cup {logvote.sn}
      /\ Outgoing = bcast /\ Outgoing' = bcast
      /\ wal' = wal \/ wal' = Append(wal, logvote)
      /\ n \in Nat /\ base \in 0..n /\ logvote \in VoteRecord
  BY DEF TypeOK, LogAppendFails, AppendStops, Logged, Outgoing, bootvars, filevars
<1>2. /\ \A i \in 1..n : wal'[i] = wal[i]
      /\ n <= Len(wal')
      /\ \A i \in 1..Len(wal') : i \in 1..n \/ wal'[i] = logvote
      /\ Len(wal') \in Nat
  <2>1. CASE wal' = wal
    BY <1>1, <2>1
  <2>2. CASE wal' = Append(wal, logvote)
    BY <1>1, <2>2 DEF TypeOK
  <2>. QED
    BY <1>1, <2>1, <2>2
<1>3. /\ \A j \in SentTx : Outgoing[j].sn # logvote.sn
      /\ \A i \in LoggedTx : wal[i].sn # logvote.sn
  BY <1>1, LogVoteNew
<1>4. SentTx' = SentTx
  BY <1>1, <1>3 DEF SentTx, IsTx
<1>5. LoggedTx' = LoggedTx
  <2>1. \A i \in LoggedTx' : i \in LoggedTx
    BY <1>1, <1>2 DEF LoggedTx, IsTx
  <2>2. \A i \in LoggedTx : i \in LoggedTx'
    BY <1>1, <1>2, <1>3 DEF LoggedTx, IsTx
  <2>. QED
    BY <2>1, <2>2
<1>6. \A i \in LoggedTx : wal'[i] = wal[i]
  BY <1>1, <1>2 DEF LoggedTx
<1>. QED
  BY <1>1, <1>4, <1>5, <1>6 DEF BroadcastFollowsLog

\* A heartbeat goes out, before the vote in the log service's hands, if any.
LEMMA FollowHbBroadcast ==
  ASSUME TypeOK, FollowInv, HbBroadcast
  PROVE  BroadcastFollowsLog'
<1>. DEFINE m == Len(bcast)
            To(j) == IF j = m + 1 THEN m + 2 ELSE j
<1>1. /\ hbvote \in VoteRecord /\ hbvote.tx = Heartbeat /\ m \in Nat
      /\ bcast \in Seq(VoteRecord) /\ bcast' = Append(bcast, hbvote)
      /\ UNCHANGED <<wal, base, lost, logpc, logvote>>
  BY DEF TypeOK, FollowInv, HbIsHeartbeat, HbBroadcast, Broadcast, logvars, bootvars, filevars
<1>2. /\ Len(bcast') = m + 1 /\ bcast'[m + 1] = hbvote
      /\ \A j \in 1..m : bcast'[j] = bcast[j]
      /\ bcast' \in Seq(VoteRecord)
  BY <1>1
<1>3. /\ Len(Outgoing') = Len(Outgoing) + 1
      /\ Len(Outgoing) \in {m, m + 1}
      /\ \A j \in 1..Len(Outgoing) : Outgoing'[To(j)] = Outgoing[j]
      /\ Outgoing'[m + 1] = hbvote
  <2>1. CASE logpc = "broadcast"
    <3>1. /\ Outgoing = Append(bcast, logvote) /\ Outgoing' = Append(bcast', logvote)
          /\ logvote \in VoteRecord
      BY <1>1, <2>1 DEF Outgoing, TypeOK
    <3>. QED
      BY <1>1, <1>2, <3>1
  <2>2. CASE logpc # "broadcast"
    <3>1. Outgoing = bcast /\ Outgoing' = bcast'
      BY <1>1, <2>2 DEF Outgoing
    <3>. QED
      BY <1>1, <1>2, <3>1
  <2>. QED
    BY <2>1, <2>2
<1>4. LoggedTx' = LoggedTx
  BY <1>1 DEF LoggedTx, IsTx
<1>5. \A j \in SentTx : To(j) \in SentTx' /\ Outgoing'[To(j)] = Outgoing[j]
  <2>1. \A j \in SentTx : j \in 1..Len(Outgoing) /\ To(j) \in 1..Len(Outgoing')
    BY <1>1, <1>3 DEF SentTx
  <2>. QED
    BY <1>1, <1>3, <2>1 DEF SentTx, IsTx
<1>6. \A l \in SentTx' : \E j \in SentTx : l = To(j)
  <2>. SUFFICES ASSUME NEW l \in SentTx' PROVE \E j \in SentTx : l = To(j)
    OBVIOUS
  <2>1. l \in 1..Len(Outgoing') /\ Outgoing'[l].tx # Heartbeat /\ Outgoing'[l].sn \notin lost
    BY <1>1 DEF SentTx, IsTx
  <2>2. PICK j \in 1..Len(Outgoing) : l = To(j)
    BY <1>1, <1>3, <2>1
  <2>. QED
    BY <1>3, <2>1, <2>2 DEF SentTx, IsTx
<1>7. \A j, l \in SentTx : j < l <=> To(j) < To(l)
  BY <1>1, <1>3 DEF SentTx
<1>. HIDE DEF To
<1>8. {wal[i] : i \in LoggedTx} = {Outgoing'[j] : j \in SentTx'}
  <2>1. {wal[i] : i \in LoggedTx} = {Outgoing[j] : j \in SentTx}
    BY DEF FollowInv, BroadcastFollowsLog
  <2>2. {Outgoing[j] : j \in SentTx} \subseteq {Outgoing'[j] : j \in SentTx'}
    <3>. SUFFICES ASSUME NEW j \in SentTx PROVE \E l \in SentTx' : Outgoing[j] = Outgoing'[l]
      OBVIOUS
    <3>1. To(j) \in SentTx' /\ Outgoing'[To(j)] = Outgoing[j]
      BY <1>5
    <3>. QED
      BY <3>1
  <2>3. {Outgoing'[j] : j \in SentTx'} \subseteq {Outgoing[j] : j \in SentTx}
    <3>. SUFFICES ASSUME NEW l \in SentTx' PROVE \E j \in SentTx : Outgoing'[l] = Outgoing[j]
      OBVIOUS
    <3>1. PICK j \in SentTx : l = To(j)
      BY <1>6
    <3>. QED
      BY <1>5, <3>1
  <2>. QED
    BY <2>1, <2>2, <2>3
<1>9. \A i, k \in LoggedTx, j, l \in SentTx' :
        wal[i] = Outgoing'[j] /\ wal[k] = Outgoing'[l] => (i < k <=> j < l)
  BY <1>5, <1>6, <1>7 DEF FollowInv, BroadcastFollowsLog
<1>. QED
  BY <1>1, <1>4, <1>8, <1>9 DEF BroadcastFollowsLog

\* Every step preserves FollowInv.
LEMMA FollowStep == TypeOK /\ SnInv /\ FollowInv /\ [Next]_vars => FollowInv'
<1>. SUFFICES ASSUME TypeOK, SnInv, FollowInv, [Next]_vars PROVE FollowInv'
  OBVIOUS
<1>1. BroadcastFollowsLog /\ HbIsHeartbeat
  BY DEF FollowInv
<1>2. HbIsHeartbeat'
  <2>1. CASE HbTake
    BY <2>1 DEF HbIsHeartbeat, HbTake
  <2>2. CASE HbStamp
    <3>1. hbvote \in VoteRecord /\ hbvote' = [hbvote EXCEPT !.ts = round] /\ hbpc # "tick"
      BY <2>2 DEF TypeOK, HbStamp, Stamped
    <3>2. hbvote'.tx = hbvote.tx
      BY <3>1 DEF VoteRecord
    <3>. QED
      BY <1>1, <3>1, <3>2 DEF HbIsHeartbeat
  <2>3. CASE HbBroadcast \/ Restart
    BY <2>3 DEF HbIsHeartbeat, HbBroadcast, Restart
  <2>4. CASE UNCHANGED hbvars
    BY <1>1, <2>4 DEF HbIsHeartbeat, hbvars
  <2>. QED
    BY <2>1, <2>2, <2>3, <2>4
       DEF Next, LogService, HbService, Write, Tick, LogTake, LogStamp, LogAppend,
           LogAppendFails, LogBroadcast, vars, hbvars
<1>3. BroadcastFollowsLog'
  <2>1. ASSUME NEW tx \in Txs, Write(tx) PROVE BroadcastFollowsLog'
    BY <1>1, <2>1, FollowFrame DEF Write, Outgoing, logvars, bootvars, filevars
  <2>2. CASE Tick
    BY <1>1, <2>2, FollowFrame DEF Tick, Outgoing, logvars, bootvars, filevars
  <2>3. CASE LogTake
    BY <1>1, <2>3, FollowFrame DEF LogTake, Outgoing, bootvars, filevars
  <2>4. CASE LogStamp
    BY <1>1, <2>4, FollowFrame DEF LogStamp, Outgoing, bootvars, filevars
  <2>5. CASE LogBroadcast
    BY <1>1, <2>5, FollowFrame DEF LogBroadcast, Broadcast, Outgoing, bootvars, filevars
  <2>6. CASE HbTake
    BY <1>1, <2>6, FollowFrame DEF HbTake, Outgoing, logvars, bootvars, filevars
  <2>7. CASE HbStamp
    BY <1>1, <2>7, FollowFrame DEF HbStamp, Outgoing, logvars, bootvars, filevars
  <2>8. CASE UNCHANGED vars
    BY <1>1, <2>8, FollowFrame DEF vars, Outgoing, logvars, bootvars, filevars
  <2>9. CASE Restart
    <3>0. TypeOK'
      BY <2>9, TypeStep DEF Next
    <3>1. wal' \in Seq(VoteRecord) /\ base' = Len(wal') /\ Outgoing' = <<>>
      BY <2>9, <3>0 DEF TypeOK, Restart, Outgoing
    <3>2. LoggedTx' = {} /\ SentTx' = {}
      BY <3>1 DEF LoggedTx, SentTx
    <3>. QED
      BY <3>2 DEF BroadcastFollowsLog
  <2>. QED
    BY <1>1, <2>1, <2>2, <2>3, <2>4, <2>5, <2>6, <2>7, <2>8, <2>9,
       FollowAppend, FollowAppendFails, FollowHbBroadcast DEF Next, LogService, HbService
<1>. QED
  BY <1>2, <1>3 DEF FollowInv

\* The transaction votes go out in the order of the log, each once and after
\* its record is durable, however heartbeats come in between and whatever
\* appends fail.
THEOREM BroadcastInLogOrder == Spec => []BroadcastFollowsLog
<1>1. Init => FollowInv
  <2>. SUFFICES ASSUME Init PROVE FollowInv
    OBVIOUS
  <2>1. LoggedTx = {} /\ SentTx = {} /\ hbpc = "tick"
    BY DEF Init, Start, LoggedTx, SentTx, Outgoing
  <2>. QED
    BY <2>1 DEF FollowInv, HbIsHeartbeat, BroadcastFollowsLog
<1>2. FollowInv => BroadcastFollowsLog
  BY DEF FollowInv
<1>. QED
  BY <1>1, <1>2, FollowStep, TypeCorrect, SnInvariant, PTL DEF Spec
=============================================================================
