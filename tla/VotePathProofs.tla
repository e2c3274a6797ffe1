--------------------------- MODULE VotePathProofs ---------------------------
(***************************************************************************)
(* Proofs about VotePath.  The replica and the client's updater keep the   *)
(* invariants proved of them alone, since every step of the composition is *)
(* a step of each or leaves it alone; on these rest the end-to-end         *)
(* properties: what a client applies, that nothing falls between replay    *)
(* and subscription, and where the tasks can come to a stop.               *)
(***************************************************************************)
EXTENDS VotePath, FiniteSetTheorems, TLAPS

RP == INSTANCE ReplicaProofs WITH MaxBoots <- 0

UP == INSTANCE PodDataUpdaterProofs
        WITH Replicas <- {Rid}, ReplicaIds <- {Rid},
             Payloads <- Txs \cup {Heartbeat}, Inbound <- Wire,
             nextsn <- expected

\* The types of the connection's variables, and when its tasks can be where:
\* nothing is sent from the log before the client is connected, and the
\* forwarder of an open connection only ends after the funnel.
ConnInv ==
  /\ conn \in {"none", "open", "closed"}
  /\ cursor \in 1..(Len(bcast) + 1)
  /\ funnel \in {"recv", "send", "exited"}
  /\ funnel = "send" => held \in RP!VoteRecord
  /\ catchup \in {"open", "send", "done", "failed"}
  /\ pos \in Nat \ {0}
  /\ mapped \in 0..Len(wal)
  /\ merged \in Seq(UP!Vote)
  /\ sock \in Seq(UP!Vote)
  /\ forwarder \in {"runs", "ended"}
  /\ conn = "none" => catchup = "open" /\ forwarder = "runs"
  /\ catchup = "open" => pos = 1
  /\ forwarder = "ended" /\ conn = "open" => funnel = "exited"

PathInv == RP!TypeOK /\ UP!TypeOK /\ UP!OrderInv /\ ConnInv

\* The replica sent or logged the vote.
Source(v) ==
  \/ \E j \in 1..Len(bcast) : C!ToVote(bcast[j]) = v
  \/ \E j \in 1..Len(wal) : C!ToVote(wal[j]) = v

\* All votes on the way to the client, and those it has, come from the replica,
\* apart from misread ones.
Elements(s) == {s[i] : i \in 1..Len(s)}
Carried ==
  Elements(merged) \cup Elements(sock) \cup Elements(votes) \cup backlog[Rid]
    \cup Elements(applied[Rid])
    \cup (IF funnel = "send" THEN {C!ToVote(held)} ELSE {})
    \cup (IF pc \in {"process", "drain"} THEN {vote} ELSE {})
SourceInv == \A v \in Carried : v = Garbled \/ Source(v)

\* The client applied votes that check out, in the order of their numbers.
NumberInv ==
  \A i \in 1..Len(applied[Rid]) :
    applied[Rid][i] \in Issued /\ applied[Rid][i].sequence_number = i - 1

-----------------------------------------------------------------------------
\* A vote the replica can make is a vote to the client.
LEMMA IssuedType ==
  ASSUME NEW v \in Issued
  PROVE  /\ v \in UP!Vote /\ v.replica_id = Rid /\ v.signature = Rid
         /\ v.transaction \in Txs \cup {Heartbeat} /\ v.transaction # NoTx
         /\ v.sequence_number \in Nat
<1>1. PICK u \in Records : v = C!ToVote(u)
  BY DEF Issued
<1>2. u.tx \in Txs \cup {Heartbeat} /\ u.ts \in Nat /\ u.sn \in Nat
  BY VotePathAssumption DEF Records
<1>. QED
  BY <1>1, <1>2, VotePathAssumption DEF C!ToVote, UP!Vote

\* What is on the wire has the fields of a vote of the replica; what is not
\* checked out by the updater is misread.
LEMMA WireType ==
  ASSUME NEW v \in Wire
  PROVE  /\ v \in UP!Vote /\ v.replica_id = Rid /\ v.sequence_number \in Nat
         /\ v.signature = Rid => v \in Issued
<1>1. CASE v \in Issued
  BY <1>1, IssuedType
<1>2. CASE v = Garbled
  BY <1>2, VotePathAssumption DEF Garbled, UP!Vote
<1>. QED
  BY <1>1, <1>2 DEF Wire

\* A checked vote is one the replica can make.
LEMMA CheckedType ==
  ASSUME NEW v \in UP!Checked
  PROVE  v \in Issued
<1>1. v \in Wire /\ v.signature = v.replica_id
  BY DEF UP!Checked, UP!Valid, UP!verify_vote_signature
<1>. QED
  BY <1>1, WireType

\* The assumptions of the components hold in the composition.
LEMMA Assumptions == RP!ReplicaAssumption /\ UP!UpdaterAssumption
<1>1. RP!ReplicaAssumption
  BY VotePathAssumption DEF RP!ReplicaAssumption
<1>2. UP!IsFiniteSet({Rid})
  <2>1. IsFiniteSet({Rid})
    BY FS_Singleton
  <2>. QED
    BY <2>1 DEF UP!IsFiniteSet, IsFiniteSet
<1>3. Wire \subseteq UP!Vote
  BY WireType
<1>4. ChannelSize \in Nat \ {0}
  BY VotePathAssumption
<1>. QED
  BY <1>1, <1>2, <1>3, <1>4, VotePathAssumption DEF UP!UpdaterAssumption

\* Every step is a step of the replica or leaves it alone.
LEMMA ReplicaSteps == [Next]_vars => [RP!Next]_(RP!vars)
<1>. SUFFICES ASSUME [Next]_vars PROVE RP!Next \/ UNCHANGED RP!vars
  OBVIOUS
<1>. USE DEF RP!logvars, RP!hbvars, RP!bootvars, R!logvars, R!hbvars, R!bootvars,
             RP!filevars, R!filevars
<1>1. ASSUME UNCHANGED replicavars PROVE UNCHANGED RP!vars
  BY <1>1 DEF replicavars, RP!vars
<1>2. CASE Tick
  BY <1>2 DEF Tick, R!Tick, RP!Tick, RP!Next
<1>3. ASSUME NEW tx \in Txs, Write(tx) PROVE RP!Next
  BY <1>3 DEF Write, R!Write, RP!Write, R!Room, RP!Room, RP!Next
<1>4. CASE LogService
  BY <1>4 DEF LogService, R!LogService, RP!LogService, RP!Next,
       R!LogTake, RP!LogTake, R!LogStamp, RP!LogStamp, R!LogAppend, RP!LogAppend,
       R!LogAppendFails, RP!LogAppendFails, R!AppendStops, RP!AppendStops,
       R!LogBroadcast, RP!LogBroadcast,
       R!Number, RP!Number, R!Stamped, RP!Stamped, R!Logged, RP!Logged,
       R!Broadcast, RP!Broadcast, R!Nothing, RP!Nothing
<1>5. CASE HbService
  BY <1>5 DEF HbService, R!HbService, RP!HbService, RP!Next,
       R!HbTake, RP!HbTake, R!HbStamp, RP!HbStamp, R!HbBroadcast, RP!HbBroadcast,
       R!Number, RP!Number, R!Stamped, RP!Stamped,
       R!Broadcast, RP!Broadcast, R!Nothing, RP!Nothing
<1>. QED
  BY <1>1, <1>2, <1>3, <1>4, <1>5
     DEF Next, Accept, Funnel, CatchUp, Forwarder, Close, Receive, Updater, vars

\* Every step is a step of the updater or leaves it alone.
LEMMA UpdaterSteps == [Next]_vars => [UP!Next]_(UP!vars)
<1>. SUFFICES ASSUME [Next]_vars PROVE UP!Next \/ UNCHANGED UP!vars
  OBVIOUS
<1>. USE DEF U!view, UP!view
<1>1. ASSUME UNCHANGED clientvars PROVE UNCHANGED UP!vars
  BY <1>1 DEF clientvars, UP!vars
<1>2. ASSUME NEW v \in Wire, Receive(v) PROVE UP!Next
  BY <1>2 DEF Receive, U!Deliver, UP!Deliver, U!Room, UP!Room, UP!Next
<1>3. CASE Updater
  <2>1. \A v : U!Valid(v) <=> UP!Valid(v)
    BY DEF U!Valid, UP!Valid, U!verify_vote_signature, UP!verify_vote_signature
  <2>2. \A v : U!Recv(v) <=> UP!Recv(v)
    BY DEF U!Recv, UP!Recv
  <2>3. ASSUME NEW v \in Wire, U!RecvIgnored(v) PROVE UP!RecvIgnored(v)
    BY <2>1, <2>2, <2>3 DEF U!RecvIgnored, UP!RecvIgnored,
         U!verify_vote_signature, UP!verify_vote_signature
  <2>4. ASSUME NEW v \in Wire, U!RecvUnknown(v) PROVE UP!RecvUnknown(v)
    BY <2>2, <2>4 DEF U!RecvUnknown, UP!RecvUnknown
  <2>5. ASSUME NEW v \in Wire, U!RecvFuture(v) PROVE UP!RecvFuture(v)
    BY <2>1, <2>2, <2>5
       DEF U!RecvFuture, UP!RecvFuture, U!BacklogInsert, UP!BacklogInsert
  <2>6. ASSUME NEW v \in Wire, U!RecvNext(v) PROVE UP!RecvNext(v)
    BY <2>1, <2>2, <2>6 DEF U!RecvNext, UP!RecvNext, U!Expected, UP!Expected
  <2>7. ASSUME U!ProcessVote PROVE UP!ProcessVote
    BY <2>7 DEF U!ProcessVote, UP!ProcessVote, U!VotesAfter, UP!VotesAfter, U!MrtAfter,
         UP!MrtAfter, U!TspsAfter, UP!TspsAfter, U!NewEvidence, UP!NewEvidence, U!Stale,
         UP!Stale, U!Recorded, UP!Recorded, U!is_heartbeat, UP!is_heartbeat,
         U!Absent, UP!Absent
  <2>8. ASSUME NEW w \in Wire, U!DrainNext(w) PROVE UP!DrainNext(w)
    BY <2>8 DEF U!DrainNext, UP!DrainNext, U!First, UP!First
  <2>9. ASSUME U!DrainDone PROVE UP!DrainDone
    BY <2>9 DEF U!DrainDone, UP!DrainDone, U!NothingToDrain, UP!NothingToDrain, U!First,
         UP!First, U!NoVote, UP!NoVote
  <2>. QED
    BY <1>3, <2>3, <2>4, <2>5, <2>6, <2>7, <2>8, <2>9
       DEF Updater, U!Updater, UP!Updater, UP!Next
<1>. QED
  BY <1>1, <1>2, <1>3
     DEF Next, Tick, Write, LogService, HbService, Accept, Funnel, CatchUp, Forwarder,
         Close, vars

-----------------------------------------------------------------------------
\* A record of the log, or a broadcast vote, is a vote to the client.
LEMMA ToVoteType ==
  ASSUME NEW v \in RP!VoteRecord
  PROVE  C!ToVote(v) \in UP!Vote /\ C!ToVote(v).sequence_number = v.sn
<1>1. v.tx \in Txs \cup {Heartbeat} /\ v.ts \in Nat /\ v.sn \in Nat
  BY DEF RP!VoteRecord
<1>. QED
  BY <1>1 DEF C!ToVote, UP!Vote

\* The log and the broadcast only grow, at their ends.
LEMMA ReplicaGrows ==
  ASSUME RP!TypeOK, [Next]_vars
  PROVE  /\ Len(wal) \in Nat /\ Len(wal') \in Nat /\ Len(wal) <= Len(wal')
         /\ Len(bcast) \in Nat /\ Len(bcast') \in Nat /\ Len(bcast) <= Len(bcast')
         /\ \A i \in 1..Len(wal) : wal'[i] = wal[i]
         /\ \A i \in 1..Len(bcast) : bcast'[i] = bcast[i]
<1>0. /\ wal \in Seq(RP!VoteRecord) /\ bcast \in Seq(RP!VoteRecord)
      /\ logpc # "recv" => logvote \in RP!VoteRecord
      /\ hbpc # "tick" => hbvote \in RP!VoteRecord
  BY DEF RP!TypeOK
<1>1. \/ UNCHANGED <<wal, bcast>>
      \/ wal' = Append(wal, logvote) /\ logvote \in RP!VoteRecord /\ UNCHANGED bcast
      \/ bcast' = Append(bcast, logvote) /\ logvote \in RP!VoteRecord /\ UNCHANGED wal
      \/ bcast' = Append(bcast, hbvote) /\ hbvote \in RP!VoteRecord /\ UNCHANGED wal
  <2>1. CASE LogService
    BY <1>0, <2>1 DEF LogService, R!LogService, R!LogTake, R!LogStamp, R!LogAppend,
         R!LogAppendFails, R!AppendStops, R!LogBroadcast, R!Logged, R!Broadcast, R!filevars
  <2>2. CASE HbService
    BY <1>0, <2>2 DEF HbService, R!HbService, R!HbTake, R!HbStamp, R!HbBroadcast, R!Broadcast,
         R!filevars
  <2>3. CASE ~LogService /\ ~HbService
    BY <2>3 DEF Next, Tick, R!Tick, Write, R!Write, Accept, Funnel, CatchUp, Forwarder,
         Close, Receive, Updater, replicavars, R!filevars, vars
  <2>. QED
    BY <2>1, <2>2, <2>3
<1>. QED
  BY <1>0, <1>1

\* What a step leaves alone of the connection, the log and the broadcast may have
\* grown under.
LEMMA ConnFrame ==
  ASSUME PathInv, [Next]_vars, UNCHANGED connvars
  PROVE  ConnInv'
<1>1. Len(wal) \in Nat /\ Len(wal') \in Nat /\ Len(wal) <= Len(wal')
  BY ReplicaGrows DEF PathInv
<1>2. Len(bcast) \in Nat /\ Len(bcast') \in Nat /\ Len(bcast) <= Len(bcast')
  BY ReplicaGrows DEF PathInv
<1>3. ConnInv
  BY DEF PathInv
<1>4. cursor' \in 1..(Len(bcast') + 1)
  BY <1>2, <1>3 DEF ConnInv, connvars
<1>5. mapped' \in 0..Len(wal')
  BY <1>1, <1>3 DEF ConnInv, connvars
<1>6. funnel' = "send" => held' \in RP!VoteRecord
  BY <1>3 DEF ConnInv, connvars
<1>. QED
  BY <1>3, <1>4, <1>5, <1>6 DEF ConnInv, connvars

\* What the connection reads of the replica has its type.
LEMMA ReplicaTypes ==
  ASSUME PathInv
  PROVE  /\ Len(wal) \in Nat /\ \A i \in 1..Len(wal) : wal[i] \in RP!VoteRecord
         /\ Len(bcast) \in Nat /\ \A i \in 1..Len(bcast) : bcast[i] \in RP!VoteRecord
  BY DEF PathInv, RP!TypeOK

\* A step of the connection preserves ConnInv.
LEMMA ConnTasks ==
  ASSUME PathInv, UNCHANGED <<wal, bcast>>,
         C!Accept \/ C!Close \/ C!Funnel \/ C!CatchUp \/ C!Forwarder
           \/ \E v \in Wire : C!Take(v)
  PROVE  ConnInv'
<1>0. ConnInv
  BY DEF PathInv
<1>. USE DEF ConnInv
<1>1. CASE C!Accept
  BY <1>0, <1>1, ReplicaTypes DEF C!Accept, C!Subscribe
<1>2. CASE C!Close
  BY <1>0, <1>2 DEF C!Close
<1>3. CASE C!FunnelRecv
  <2>1. bcast[cursor] \in RP!VoteRecord /\ cursor + 1 \in 1..(Len(bcast) + 1)
    BY <1>0, <1>3, ReplicaTypes DEF C!FunnelRecv
  <2>. QED
    BY <1>0, <1>3, <2>1 DEF C!FunnelRecv
<1>4. CASE C!FunnelLagged
  BY <1>0, <1>4 DEF C!FunnelLagged
<1>5. CASE C!FunnelSend
  <2>1. C!ToVote(held) \in UP!Vote
    BY <1>0, <1>5, ToVoteType DEF C!FunnelSend
  <2>2. merged' \in Seq(UP!Vote)
    BY <1>0, <1>5, <2>1 DEF C!FunnelSend
  <2>. QED
    BY <1>0, <1>5, <2>2 DEF C!FunnelSend, C!Room, C!ReceiverGone
<1>6. CASE C!FunnelSendFails
  BY <1>0, <1>6 DEF C!FunnelSendFails
<1>7. CASE C!CatchUpOpen
  BY <1>0, <1>7, ReplicaTypes DEF C!CatchUpOpen, C!Connected
<1>8. CASE C!CatchUpSend
  <2>1. wal[pos] \in RP!VoteRecord
    BY <1>0, <1>8, ReplicaTypes DEF C!CatchUpSend
  <2>2. merged' \in Seq(UP!Vote)
    BY <1>0, <1>8, <2>1, ToVoteType DEF C!CatchUpSend
  <2>. QED
    BY <1>0, <1>8, <2>2 DEF C!CatchUpSend
<1>9. CASE C!CatchUpDone
  BY <1>0, <1>9 DEF C!CatchUpDone
<1>13. CASE C!CatchUpOpenFails \/ C!CatchUpStops
  BY <1>0, <1>13 DEF C!CatchUpOpenFails, C!CatchUpStops, C!Connected
<1>14. CASE C!CatchUpMisread
  <2>1. Garbled \in UP!Vote
    BY WireType DEF Wire
  <2>2. merged' \in Seq(UP!Vote)
    BY <1>0, <1>14, <2>1 DEF C!CatchUpMisread
  <2>3. pos' \in Nat \ {0}
    BY <1>0, <1>14 DEF C!CatchUpMisread
  <2>. QED
    BY <1>0, <1>14, <2>2, <2>3 DEF C!CatchUpMisread
<1>10. CASE C!Forward
  <2>1. Head(merged) \in UP!Vote /\ merged' \in Seq(UP!Vote)
    BY <1>0, <1>10 DEF C!Forward
  <2>2. sock' \in Seq(UP!Vote)
    BY <1>0, <1>10, <2>1 DEF C!Forward
  <2>. QED
    BY <1>0, <1>10, <2>1, <2>2 DEF C!Forward
<1>11. CASE C!ForwardEnds
  BY <1>0, <1>11 DEF C!ForwardEnds
<1>12. CASE \E v \in Wire : C!Take(v)
  <2>1. sock' \in Seq(UP!Vote)
    BY <1>0, <1>12 DEF C!Take
  <2>. QED
    BY <1>0, <1>12, <2>1 DEF C!Take
<1>. QED
  BY <1>1, <1>2, <1>3, <1>4, <1>5, <1>6, <1>7, <1>8, <1>9, <1>10, <1>11, <1>12, <1>13, <1>14
     DEF C!Funnel, C!CatchUp, C!Forwarder

\* Every step preserves PathInv.
LEMMA PathStep == PathInv /\ [Next]_vars => PathInv'
<1>. SUFFICES ASSUME PathInv, [Next]_vars PROVE PathInv'
  OBVIOUS
<1>1. RP!TypeOK'
  BY Assumptions, ReplicaSteps, RP!TypeStep DEF PathInv
<1>2. UP!TypeOK' /\ UP!OrderInv'
  BY Assumptions, UpdaterSteps, UP!TypeStep, UP!OrderStep DEF PathInv
<1>3. CASE Accept \/ Close \/ Funnel \/ CatchUp \/ Forwarder \/ \E v \in Wire : Receive(v)
  <2>1. UNCHANGED <<wal, bcast>>
    BY <1>3 DEF Accept, Close, Funnel, CatchUp, Forwarder, Receive, replicavars
  <2>2. C!Accept \/ C!Close \/ C!Funnel \/ C!CatchUp \/ C!Forwarder
          \/ \E v \in Wire : C!Take(v)
    BY <1>3 DEF Accept, Close, Funnel, CatchUp, Forwarder, Receive
  <2>. QED
    BY <1>1, <1>2, <2>1, <2>2, ConnTasks DEF PathInv
<1>4. CASE UNCHANGED connvars
  BY <1>1, <1>2, <1>4, ConnFrame DEF PathInv
<1>. QED
  BY <1>3, <1>4 DEF Next, Tick, Write, LogService, HbService, Updater, vars

\* The components start in their initial states, apart from the log.
LEMMA PathInit == Init => PathInv
<1>. SUFFICES ASSUME Init PROVE PathInv
  OBVIOUS
<1>1. UP!Init
  BY DEF Init, U!Init, UP!Init, U!NoVote, UP!NoVote, U!Absent, UP!Absent
<1>2. UP!TypeOK /\ UP!OrderInv
  BY <1>1, Assumptions, UP!OrderInit, UP!TypeInit
<1>3. PICK file \in EarlierLogs : R!Start(file.log, file.torn)
  BY DEF Init
<1>4. /\ wal \in Seq(RP!VoteRecord) /\ Len(wal) \in Nat /\ torn \subseteq 1..(Len(wal) + 1)
      /\ round \in Nat /\ base = Len(wal)
  <2>1. \A r \in Records : r \in RP!VoteRecord
    BY VotePathAssumption DEF Records, RP!VoteRecord
  <2>2. /\ wal \in Seq(Records) /\ torn \subseteq 1..(Len(wal) + 1)
        /\ round \in 0..MaxRound /\ base = Len(wal)
    BY <1>3, EarlierLogsAssumption DEF R!Start
  <2>. QED
    BY <2>1, <2>2, VotePathAssumption
<1>5. RP!TypeOK
  BY <1>3, <1>4, VotePathAssumption DEF R!Start, RP!TypeOK, R!Nothing, RP!Nothing
<1>6. ConnInv
  BY <1>3, <1>4 DEF Init, C!Init, ConnInv, R!Start
<1>. QED
  BY <1>2, <1>5, <1>6 DEF PathInv

\* The invariants of the components, and of the connection between them.
THEOREM PathInvariant == Spec => []PathInv
  BY PathInit, PathStep, PTL DEF Spec

-----------------------------------------------------------------------------
\* Appending to a sequence adds an element to its elements.
LEMMA ElementsAppend ==
  ASSUME NEW S, NEW s \in Seq(S), NEW x \in S
  PROVE  Elements(Append(s, x)) = Elements(s) \cup {x}
<1>1. /\ Len(s) \in Nat /\ Len(Append(s, x)) = Len(s) + 1
      /\ Append(s, x)[Len(s) + 1] = x
      /\ \A i \in 1..Len(s) : Append(s, x)[i] = s[i]
  OBVIOUS
<1>. QED
  BY <1>1 DEF Elements

\* A sequence has its head and the elements of its tail.
LEMMA ElementsTail ==
  ASSUME NEW S, NEW s \in Seq(S), s # <<>>
  PROVE  Elements(s) = {Head(s)} \cup Elements(Tail(s))
<1>1. /\ Len(s) \in Nat /\ Len(s) > 0 /\ Len(Tail(s)) = Len(s) - 1
      /\ Head(s) = s[1]
      /\ \A i \in 1..(Len(s) - 1) : Tail(s)[i] = s[i + 1]
  OBVIOUS
<1>2. ASSUME NEW i \in 1..Len(s), i # 1 PROVE s[i] \in Elements(Tail(s))
  <2>1. i - 1 \in 1..Len(Tail(s)) /\ Tail(s)[i - 1] = s[i]
    BY <1>1, <1>2
  <2>. QED
    BY <2>1 DEF Elements
<1>3. ASSUME NEW i \in 1..Len(Tail(s)) PROVE Tail(s)[i] \in Elements(s)
  <2>1. i + 1 \in 1..Len(s) /\ Tail(s)[i] = s[i + 1]
    BY <1>1
  <2>. QED
    BY <2>1 DEF Elements
<1>4. Head(s) \in Elements(s)
  <2>1. 1 \in 1..Len(s)
    BY <1>1
  <2>. QED
    BY <1>1, <2>1 DEF Elements
<1>5. Elements(s) \subseteq {Head(s)} \cup Elements(Tail(s))
  BY <1>1, <1>2 DEF Elements
<1>6. Elements(Tail(s)) \subseteq Elements(s)
  BY <1>3 DEF Elements
<1>. QED
  BY <1>4, <1>5, <1>6

\* What the replica sent or logged stays sent or logged.
LEMMA SourceGrows ==
  ASSUME RP!TypeOK, [Next]_vars, NEW v, Source(v)
  PROVE  Source(v)'
<1>1. /\ 1..Len(bcast) \subseteq 1..Len(bcast')
      /\ 1..Len(wal) \subseteq 1..Len(wal')
      /\ \A i \in 1..Len(wal) : wal'[i] = wal[i]
      /\ \A i \in 1..Len(bcast) : bcast'[i] = bcast[i]
  BY ReplicaGrows
<1>. QED
  BY <1>1 DEF Source, C!ToVote

\* What the tasks of the connection carry after a step they carried before, or
\* they took it from the broadcast or the log.
LEMMA ConnCarried ==
  ASSUME PathInv, UNCHANGED clientvars,
         C!Accept \/ C!Close \/ C!Funnel \/ C!CatchUp \/ C!Forwarder
  PROVE  \A v \in Carried' : v \in Carried \/ v = Garbled \/ Source(v)
<1>0. merged \in Seq(UP!Vote) /\ sock \in Seq(UP!Vote) /\ ConnInv
  BY DEF PathInv, ConnInv
<1>1. Elements(votes)' = Elements(votes) /\ UNCHANGED <<backlog, applied, pc, vote>>
  BY DEF clientvars, Elements
<1>2. ASSUME UNCHANGED <<merged, sock, funnel, held>>
      PROVE  \A v \in Carried' : v \in Carried \/ v = Garbled \/ Source(v)
  BY <1>1, <1>2 DEF Carried, Elements
<1>3. CASE C!Accept \/ C!CatchUpOpen \/ C!CatchUpOpenFails \/ C!CatchUpDone \/ C!CatchUpStops
  BY <1>2, <1>3 DEF C!Accept, C!CatchUpOpen, C!CatchUpOpenFails, C!CatchUpDone, C!CatchUpStops
<1>4. CASE C!Close
  <2>1. Elements(sock)' = {}
    BY <1>4 DEF C!Close, Elements
  <2>. QED
    BY <1>1, <1>4, <2>1 DEF C!Close, Carried, Elements
<1>5. CASE C!FunnelRecv
  <2>1. Source(C!ToVote(bcast[cursor]))
    BY <1>0, <1>5, ReplicaTypes DEF ConnInv, C!FunnelRecv, Source
  <2>2. C!ToVote(held)' = C!ToVote(bcast[cursor])
    BY <1>5 DEF C!FunnelRecv, C!ToVote
  <2>3. Elements(merged)' = Elements(merged) /\ Elements(sock)' = Elements(sock)
    BY <1>5 DEF C!FunnelRecv, Elements
  <2>. QED
    BY <1>1, <1>5, <2>1, <2>2, <2>3 DEF Carried
<1>6. CASE C!FunnelLagged \/ C!FunnelSendFails
  <2>1. Elements(merged)' = Elements(merged) /\ Elements(sock)' = Elements(sock)
        /\ funnel' # "send"
    BY <1>6 DEF C!FunnelLagged, C!FunnelSendFails, Elements
  <2>. QED
    BY <1>1, <2>1 DEF Carried
<1>7. CASE C!FunnelSend
  <2>1. C!ToVote(held) \in UP!Vote /\ funnel = "send"
    BY <1>0, <1>7, ToVoteType DEF ConnInv, C!FunnelSend
  <2>2. Elements(merged') = Elements(merged) \cup {C!ToVote(held)}
    BY <1>0, <1>7, <2>1, ElementsAppend DEF C!FunnelSend
  <2>3. Elements(merged)' = Elements(merged') /\ Elements(sock)' = Elements(sock)
        /\ funnel' # "send"
    BY <1>7 DEF C!FunnelSend, Elements
  <2>. QED
    BY <1>1, <2>1, <2>2, <2>3 DEF Carried
<1>8. CASE C!CatchUpSend
  <2>1. pos \in 1..Len(wal) /\ wal[pos] \in RP!VoteRecord
    BY <1>0, <1>8, ReplicaTypes DEF ConnInv, C!CatchUpSend
  <2>2. Source(C!ToVote(wal[pos])) /\ C!ToVote(wal[pos]) \in UP!Vote
    BY <2>1, ToVoteType DEF Source
  <2>3. Elements(merged') = Elements(merged) \cup {C!ToVote(wal[pos])}
    BY <1>0, <1>8, <2>2, ElementsAppend DEF C!CatchUpSend
  <2>4. Elements(merged)' = Elements(merged') /\ Elements(sock)' = Elements(sock)
        /\ UNCHANGED <<funnel, held>>
    BY <1>8 DEF C!CatchUpSend, Elements
  <2>5. C!ToVote(held)' = C!ToVote(held)
    BY <2>4 DEF C!ToVote
  <2>. QED
    BY <1>1, <2>2, <2>3, <2>4, <2>5 DEF Carried
<1>11. CASE C!CatchUpMisread
  <2>1. Garbled \in UP!Vote
    BY WireType DEF Wire
  <2>2. Elements(merged') = Elements(merged) \cup {Garbled}
    BY <1>0, <1>11, <2>1, ElementsAppend DEF C!CatchUpMisread
  <2>3. Elements(merged)' = Elements(merged') /\ Elements(sock)' = Elements(sock)
        /\ UNCHANGED <<funnel, held>>
    BY <1>11 DEF C!CatchUpMisread, Elements
  <2>4. C!ToVote(held)' = C!ToVote(held)
    BY <2>3 DEF C!ToVote
  <2>. QED
    BY <1>1, <2>2, <2>3, <2>4 DEF Carried
<1>9. CASE C!Forward
  <2>1. Elements(merged) = {Head(merged)} \cup Elements(merged')
    BY <1>0, <1>9, ElementsTail DEF C!Forward
  <2>2. Elements(sock') = Elements(sock) \cup {Head(merged)}
    BY <1>0, <1>9, ElementsAppend DEF C!Forward
  <2>3. Elements(merged)' = Elements(merged') /\ Elements(sock)' = Elements(sock')
        /\ UNCHANGED <<funnel, held>>
    BY <1>9 DEF C!Forward, Elements
  <2>4. C!ToVote(held)' = C!ToVote(held)
    BY <2>3 DEF C!ToVote
  <2>. QED
    BY <1>1, <2>1, <2>2, <2>3, <2>4 DEF Carried
<1>10. CASE C!ForwardEnds
  <2>1. Elements(merged)' = {} /\ Elements(sock)' = Elements(sock)
        /\ UNCHANGED <<funnel, held>>
    BY <1>10 DEF C!ForwardEnds, Elements
  <2>2. C!ToVote(held)' = C!ToVote(held)
    BY <2>1 DEF C!ToVote
  <2>. QED
    BY <1>1, <2>1, <2>2 DEF Carried
<1>. QED
  BY <1>3, <1>4, <1>5, <1>6, <1>7, <1>8, <1>9, <1>10, <1>11 DEF C!Funnel, C!CatchUp, C!Forwarder

\* The votes the client holds have their types.
LEMMA ClientTypes ==
  ASSUME PathInv
  PROVE  /\ votes \in Seq(Wire) /\ applied \in [{Rid} -> Seq(Wire)]
         /\ backlog \in [{Rid} -> SUBSET Issued] /\ expected \in [{Rid} -> Nat]
         /\ pc \in {"process", "drain"} => vote \in Issued /\ vote.replica_id = Rid
<1>1. \A w \in UP!Checked : w \in Issued
  BY CheckedType
<1>2. pc \in {"process", "drain"} => vote \in Issued
  <2>1. pc \in {"process", "drain"} => vote \in Wire /\ UP!Valid(vote)
    BY DEF PathInv, UP!TypeOK
  <2>. QED
    BY <2>1, WireType DEF UP!Valid, UP!verify_vote_signature
<1>. QED
  BY <1>1, <1>2, IssuedType DEF PathInv, UP!TypeOK

\* A vote that is handed to the client was on the socket.
LEMMA ReceiveCarried ==
  ASSUME PathInv, NEW u \in Wire, Receive(u)
  PROVE  Carried' \subseteq Carried
<1>1. sock \in Seq(UP!Vote) /\ sock # <<>> /\ u = Head(sock) /\ sock' = Tail(sock)
  BY DEF PathInv, ConnInv, Receive, C!Take
<1>2. Elements(sock) = {u} \cup Elements(sock')
  BY <1>1, ElementsTail
<1>3. Elements(votes') = Elements(votes) \cup {u}
  BY ElementsAppend, ClientTypes DEF Receive, U!Deliver
<1>4. UNCHANGED <<merged, funnel, held, backlog, applied, pc, vote>>
  BY DEF Receive, C!Take, U!Deliver
<1>5. Elements(merged)' = Elements(merged) /\ Elements(sock)' = Elements(sock')
      /\ Elements(votes)' = Elements(votes') /\ Elements(applied[Rid])' = Elements(applied[Rid])
      /\ C!ToVote(held)' = C!ToVote(held)
  BY <1>4 DEF Elements, C!ToVote
<1>. QED
  BY <1>2, <1>3, <1>4, <1>5 DEF Carried

\* The updater makes up no vote.
LEMMA UpdaterCarried ==
  ASSUME PathInv, Updater
  PROVE  Carried' \subseteq Carried
<1>0. UNCHANGED <<merged, sock, funnel, held>>
  BY DEF Updater, connvars
<1>1. Elements(merged)' = Elements(merged) /\ Elements(sock)' = Elements(sock)
      /\ C!ToVote(held)' = C!ToVote(held) /\ UNCHANGED funnel
      /\ Elements(votes)' = Elements(votes') /\ Elements(applied[Rid])' = Elements(applied'[Rid])
      /\ backlog[Rid]' = backlog'[Rid]
  BY <1>0 DEF Elements, C!ToVote
<1>2. ASSUME NEW u \in Wire, U!Recv(u)
      PROVE  u \in Elements(votes) /\ Elements(votes') \subseteq Elements(votes)
  BY <1>2, ElementsTail, ClientTypes DEF U!Recv
<1>3. ASSUME NEW u \in Wire, U!RecvIgnored(u) PROVE Carried' \subseteq Carried
  BY <1>1, <1>2, <1>3 DEF U!RecvIgnored, Carried
<1>4. ASSUME NEW u \in Wire, U!RecvUnknown(u) PROVE Carried' \subseteq Carried
  BY <1>1, <1>2, <1>4 DEF U!RecvUnknown, Carried
<1>5. ASSUME NEW u \in Wire, U!RecvFuture(u) PROVE Carried' \subseteq Carried
  <2>1. u.replica_id = Rid
    BY WireType
  <2>2. backlog'[Rid] \subseteq backlog[Rid] \cup {u}
    BY <1>5, <2>1, ClientTypes DEF U!RecvFuture, U!BacklogInsert
  <2>3. u \in Elements(votes) /\ Elements(votes') \subseteq Elements(votes)
        /\ UNCHANGED <<pc, vote, applied>>
    BY <1>2, <1>5 DEF U!RecvFuture
  <2>. QED
    BY <1>1, <2>2, <2>3 DEF Carried
<1>6. ASSUME NEW u \in Wire, U!RecvNext(u) PROVE Carried' \subseteq Carried
  BY <1>1, <1>2, <1>6 DEF U!RecvNext, Carried
<1>7. ASSUME U!ProcessVote PROVE Carried' \subseteq Carried
  <2>1. pc = "process" /\ pc' = "drain" /\ UNCHANGED <<votes, backlog, vote>>
    BY <1>7 DEF U!ProcessVote
  <2>2. vote \in Issued /\ vote.replica_id = Rid
    BY <2>1, ClientTypes
  <2>3. applied'[Rid] = Append(applied[Rid], vote) /\ applied[Rid] \in Seq(Wire)
    BY <1>7, <2>2, ClientTypes DEF U!ProcessVote
  <2>4. Elements(applied'[Rid]) = Elements(applied[Rid]) \cup {vote}
    BY <2>2, <2>3, ElementsAppend DEF Wire
  <2>. QED
    BY <1>1, <2>1, <2>4 DEF Carried
<1>8. ASSUME NEW w \in Wire, U!DrainNext(w) PROVE Carried' \subseteq Carried
  <2>1. /\ vote.replica_id = Rid /\ w \in backlog[Rid]
        /\ vote' = w /\ pc' = "process" /\ UNCHANGED <<votes, applied>>
    BY <1>8, ClientTypes DEF U!DrainNext, U!First
  <2>2. backlog'[Rid] \subseteq backlog[Rid]
    BY <1>8, <2>1, ClientTypes DEF U!DrainNext
  <2>. QED
    BY <1>1, <2>1, <2>2 DEF Carried
<1>9. ASSUME U!DrainDone PROVE Carried' \subseteq Carried
  BY <1>1, <1>9 DEF U!DrainDone, Carried
<1>. QED
  BY <1>3, <1>4, <1>5, <1>6, <1>7, <1>8, <1>9 DEF Updater, U!Updater

\* Every step preserves SourceInv.
LEMMA SourceStep == PathInv /\ SourceInv /\ [Next]_vars => SourceInv'
<1>. SUFFICES ASSUME PathInv, SourceInv, [Next]_vars, NEW v \in Carried', v # Garbled
              PROVE  Source(v)'
  BY DEF SourceInv, Garbled
<1>. SUFFICES v \in Carried \/ Source(v)
  BY SourceGrows DEF SourceInv, PathInv
<1>1. CASE Accept \/ Close \/ Funnel \/ CatchUp \/ Forwarder
  <2>1. UNCHANGED clientvars
    BY <1>1 DEF Accept, Close, Funnel, CatchUp, Forwarder
  <2>2. C!Accept \/ C!Close \/ C!Funnel \/ C!CatchUp \/ C!Forwarder
    BY <1>1 DEF Accept, Close, Funnel, CatchUp, Forwarder
  <2>. QED
    BY <2>1, <2>2, ConnCarried
<1>2. CASE \E u \in Wire : Receive(u)
  BY <1>2, ReceiveCarried
<1>3. CASE Updater
  BY <1>3, UpdaterCarried
<1>4. CASE UNCHANGED <<connvars, clientvars>>
  <2>1. Carried' = Carried
    BY <1>4 DEF connvars, clientvars, Carried, Elements, C!ToVote
  <2>. QED
    BY <2>1
<1>. QED
  BY <1>1, <1>2, <1>3, <1>4 DEF Next, Tick, Write, LogService, HbService, vars

\* Every step preserves NumberInv.
LEMMA NumberStep == PathInv /\ NumberInv /\ [Next]_vars => NumberInv'
<1>. SUFFICES ASSUME PathInv, NumberInv, [Next]_vars PROVE NumberInv'
  OBVIOUS
<1>1. CASE UNCHANGED applied
  BY <1>1 DEF NumberInv
<1>2. CASE UP!ProcessVote
  <2>1. pc = "process" /\ vote \in Issued /\ vote.replica_id = Rid
    BY <1>2, ClientTypes DEF UP!ProcessVote
  <2>2. applied'[Rid] = Append(applied[Rid], vote) /\ applied[Rid] \in Seq(Wire)
    BY <1>2, <2>1, ClientTypes DEF UP!ProcessVote
  <2>3. vote.sequence_number = Len(applied[Rid])
    <3>1. /\ expected[Rid] = Len(applied[Rid]) + 1
          /\ expected[Rid] = vote.sequence_number + 1
      BY <2>1 DEF PathInv, UP!OrderInv, UP!CountInv, UP!TurnInv
    <3>2. vote.sequence_number \in Nat /\ Len(applied[Rid]) \in Nat
      BY <2>1, <2>2, IssuedType
    <3>. QED
      BY <3>1, <3>2
  <2>4. vote \in Wire
    BY <2>1 DEF Wire
  <2>5. \A i \in 1..Len(applied'[Rid]) :
          \/ i \in 1..Len(applied[Rid]) /\ applied'[Rid][i] = applied[Rid][i]
          \/ i = Len(applied[Rid]) + 1 /\ applied'[Rid][i] = vote
    BY <2>2, <2>4
  <2>6. Len(applied[Rid]) \in Nat
    BY <2>2
  <2>. QED
    BY <2>1, <2>3, <2>5, <2>6 DEF NumberInv
<1>3. UNCHANGED applied \/ UP!ProcessVote
  BY UpdaterSteps DEF UP!Next, UP!Updater, UP!Deliver, UP!RecvIgnored, UP!RecvUnknown,
       UP!RecvFuture, UP!RecvNext, UP!DrainNext, UP!DrainDone, UP!vars
<1>. QED
  BY <1>1, <1>2, <1>3

\* SourceInv and NumberInv are invariants.
LEMMA SourceInvariant == Spec => [](SourceInv /\ NumberInv)
<1>1. Init => SourceInv /\ NumberInv
  <2>. SUFFICES ASSUME Init PROVE SourceInv /\ NumberInv
    OBVIOUS
  <2>1. /\ merged = <<>> /\ sock = <<>> /\ votes = <<>> /\ backlog[Rid] = {}
        /\ applied[Rid] = <<>> /\ funnel = "recv" /\ pc = "recv"
    BY DEF Init, C!Init, U!Init
  <2>2. Elements(<<>>) = {}
    BY DEF Elements
  <2>. QED
    BY <2>1, <2>2 DEF SourceInv, Carried, NumberInv
<1>. QED
  BY <1>1, SourceStep, NumberStep, PathInvariant, PTL DEF Spec

\* End to end: what the client applied as vote n of the replica is what the
\* replica sent or logged as vote n.
THEOREM AppliedFromReplica == Spec => []AppliedAsIssued
<1>1. PathInv /\ SourceInv /\ NumberInv => AppliedAsIssued
  <2>. SUFFICES ASSUME PathInv, SourceInv, NumberInv, NEW i \in 1..Len(applied[Rid])
                PROVE  \/ \E j \in 1..Len(bcast) :
                            C!ToVote(bcast[j]) = applied[Rid][i] /\ bcast[j].sn = i - 1
                       \/ \E j \in 1..Len(wal) :
                            C!ToVote(wal[j]) = applied[Rid][i] /\ wal[j].sn = i - 1
    BY DEF AppliedAsIssued
  <2>0. applied[Rid][i] # Garbled
    <3>1. applied[Rid][i] \in Issued
      BY DEF NumberInv
    <3>. QED
      BY <3>1, IssuedType, VotePathAssumption DEF Garbled
  <2>1. Source(applied[Rid][i]) /\ applied[Rid][i].sequence_number = i - 1
    BY <2>0 DEF SourceInv, Carried, Elements, NumberInv
  <2>2. \A j \in 1..Len(bcast) : C!ToVote(bcast[j]).sequence_number = bcast[j].sn
    BY ReplicaTypes, ToVoteType
  <2>3. \A j \in 1..Len(wal) : C!ToVote(wal[j]).sequence_number = wal[j].sn
    BY ReplicaTypes, ToVoteType
  <2>. QED
    BY <2>1, <2>2, <2>3 DEF Source
<1>. QED
  BY <1>1, SourceInvariant, PathInvariant, PTL

-----------------------------------------------------------------------------
\* The votes a record of the replica can become.
Genuine == {C!ToVote(r) : r \in RP!VoteRecord}

\* The vote is on its way, about to be broadcast, or the client has passed its
\* number or keeps a vote for it.
Streamed(v) ==
  \/ v.sequence_number < expected[Rid]
  \/ \E w \in backlog[Rid] : w.sequence_number = v.sequence_number
  \/ OnTheWay(v)
  \/ logpc = "broadcast" /\ C!ToVote(logvote) = v

\* A record whose append failed, and one that is left to the catch-up.
Burnt(i) == i > base /\ wal[i].sn \in lost
LeftToCatchUp(i) == ~(i > known) /\ (CatchUpHas(i) \/ catchup = "failed" \/ ~Readable(i))

\* Once the client is connected, every record is one of these.
HoleInv ==
  conn = "open" /\ funnel # "exited" =>
    \A i \in 1..Len(wal) : Streamed(C!ToVote(wal[i])) \/ Burnt(i) \/ LeftToCatchUp(i)

\* A vote is in a sequence if it is one of its elements.
LEMMA AtElements ==
  ASSUME NEW s, NEW v
  PROVE  At(s, v) <=> v \in Elements(s)
  BY DEF At, Elements

\* A vote of the replica checks out.
LEMMA GenuineType ==
  ASSUME NEW v \in Genuine
  PROVE  /\ v \in UP!Vote /\ v.replica_id = Rid /\ v.signature = Rid
         /\ v.transaction # NoTx /\ v.sequence_number \in Nat
<1>1. PICK u \in RP!VoteRecord : v = C!ToVote(u)
  BY DEF Genuine
<1>2. u.tx \in Txs \cup {Heartbeat} /\ u.ts \in Nat /\ u.sn \in Nat
  BY DEF RP!VoteRecord
<1>. QED
  BY <1>1, <1>2, VotePathAssumption DEF C!ToVote, UP!Vote

\* What a step of the replica does to the variables of its log service.
LEMMA LogServiceSteps ==
  ASSUME [Next]_vars
  PROVE  /\ UNCHANGED <<logpc, logvote>> \/ R!LogTake \/ R!LogStamp \/ R!LogAppend
              \/ R!LogAppendFails \/ R!LogBroadcast
         /\ UNCHANGED wal \/ R!LogAppend \/ R!LogAppendFails
         /\ lost \subseteq lost' /\ torn \subseteq torn' /\ base' = base
  BY DEF Next, Tick, R!Tick, Write, R!Write, LogService, R!LogService, R!LogTake,
         R!LogStamp, R!LogAppend, R!LogAppendFails, R!AppendStops, R!LogBroadcast, HbService,
         R!HbService, R!HbTake, R!HbStamp, R!HbBroadcast, Accept, Funnel, CatchUp, Forwarder,
         Close, Receive, Updater, replicavars, R!logvars, R!filevars, R!bootvars, vars

\* The replica's steps, while the connection and the client do nothing.
LEMMA StreamedReplica ==
  ASSUME PathInv, [Next]_vars, UNCHANGED <<connvars, clientvars>>, NEW v \in Genuine,
         Streamed(v)
  PROVE  Streamed(v)'
<1>1. /\ Len(bcast) \in Nat /\ Len(bcast') \in Nat /\ Len(bcast) <= Len(bcast')
      /\ \A i \in 1..Len(bcast) : bcast'[i] = bcast[i]
  BY ReplicaGrows DEF PathInv
<1>2. cursor \in 1..(Len(bcast) + 1)
  BY DEF PathInv, ConnInv
<1>3. CASE \/ v.sequence_number < expected[Rid]
           \/ \E w \in backlog[Rid] : w.sequence_number = v.sequence_number
  BY <1>3 DEF Streamed, clientvars
<1>4. CASE At(votes, v) \/ At(sock, v) \/ At(merged, v)
  BY <1>4 DEF Streamed, OnTheWay, At, clientvars, connvars
<1>5. CASE FunnelHas(v)
  <2>1. CASE funnel = "send" /\ C!ToVote(held) = v
    BY <2>1 DEF Streamed, OnTheWay, FunnelHas, connvars, C!ToVote
  <2>2. CASE \E i \in cursor..Len(bcast) : C!ToVote(bcast[i]) = v
    <3>1. PICK i \in cursor..Len(bcast) : C!ToVote(bcast[i]) = v
      BY <2>2
    <3>2. i \in cursor'..Len(bcast') /\ bcast'[i] = bcast[i]
      BY <1>1, <1>2, <3>1 DEF connvars
    <3>. QED
      BY <3>1, <3>2 DEF Streamed, OnTheWay, FunnelHas, C!ToVote
  <2>. QED
    BY <1>5, <2>1, <2>2 DEF FunnelHas
<1>6. CASE logpc = "broadcast" /\ C!ToVote(logvote) = v
  <2>1. CASE UNCHANGED <<logpc, logvote>>
    BY <1>6, <2>1 DEF Streamed, C!ToVote
  <2>2. CASE R!LogBroadcast
    <3>1. logvote \in RP!VoteRecord /\ bcast \in Seq(RP!VoteRecord)
          /\ bcast' = Append(bcast, logvote)
      BY <1>6, <2>2 DEF PathInv, RP!TypeOK, R!LogBroadcast, R!Broadcast
    <3>2. Len(bcast) + 1 \in cursor'..Len(bcast') /\ bcast'[Len(bcast) + 1] = logvote
      BY <1>2, <3>1 DEF connvars
    <3>. QED
      BY <1>6, <3>2 DEF Streamed, OnTheWay, FunnelHas, C!ToVote
  <2>. QED
    BY <1>6, <2>1, <2>2, LogServiceSteps
       DEF R!LogTake, R!LogStamp, R!LogAppend, R!LogAppendFails
<1>. QED
  BY <1>3, <1>4, <1>5, <1>6 DEF Streamed, OnTheWay

\* The steps of the tasks of an open connection whose funnel goes on.
LEMMA StreamedTasks ==
  ASSUME PathInv, conn = "open", funnel' # "exited", UNCHANGED <<replicavars, clientvars>>,
         C!Funnel \/ C!CatchUp \/ C!Forwarder, NEW v \in Genuine, Streamed(v)
  PROVE  Streamed(v)'
<1>0. /\ ConnInv /\ merged \in Seq(UP!Vote) /\ sock \in Seq(UP!Vote)
      /\ cursor \in 1..(Len(bcast) + 1) /\ Len(bcast) \in Nat
  BY ReplicaTypes DEF PathInv, ConnInv
<1>1. /\ At(votes, v)' <=> At(votes, v)
      /\ UNCHANGED <<expected, backlog, wal, bcast, logpc, logvote>>
  BY DEF clientvars, replicavars, At
<1>2. SUFFICES At(sock, v) \/ At(merged, v) \/ FunnelHas(v)
                 => At(sock, v)' \/ At(merged, v)' \/ FunnelHas(v)'
  BY <1>1 DEF Streamed, OnTheWay, C!ToVote
<1>3. /\ At(merged, v)' <=> v \in Elements(merged')
      /\ At(sock, v)' <=> v \in Elements(sock')
      /\ At(merged, v) <=> v \in Elements(merged)
      /\ At(sock, v) <=> v \in Elements(sock)
  BY DEF At, Elements
<1>4. ASSUME UNCHANGED <<funnel, held, cursor>> PROVE FunnelHas(v) => FunnelHas(v)'
  BY <1>1, <1>4 DEF FunnelHas, C!ToVote
<1>5. ASSUME UNCHANGED <<merged, sock>>
      PROVE  At(sock, v) \/ At(merged, v) => At(sock, v)' \/ At(merged, v)'
  BY <1>5 DEF At
<1>6. CASE C!FunnelRecv
  <2>1. FunnelHas(v) => FunnelHas(v)'
    BY <1>0, <1>1, <1>6 DEF C!FunnelRecv, FunnelHas, C!ToVote
  <2>. QED
    BY <1>5, <1>6, <2>1 DEF C!FunnelRecv
<1>7. CASE C!FunnelSend
  <2>1. C!ToVote(held) \in UP!Vote
    BY <1>0, <1>7, ToVoteType DEF ConnInv, C!FunnelSend
  <2>2. Elements(merged') = Elements(merged) \cup {C!ToVote(held)} /\ sock' = sock
    BY <1>0, <1>7, <2>1, ElementsAppend DEF C!FunnelSend
  <2>3. FunnelHas(v) => FunnelHas(v)' \/ v = C!ToVote(held)
    BY <1>1, <1>7 DEF C!FunnelSend, FunnelHas, C!ToVote
  <2>. QED
    BY <1>3, <2>2, <2>3
<1>8. CASE C!FunnelLagged \/ C!FunnelSendFails
  BY <1>8 DEF C!FunnelLagged, C!FunnelSendFails
<1>9. CASE C!CatchUpOpen \/ C!CatchUpOpenFails \/ C!CatchUpDone \/ C!CatchUpStops
  BY <1>4, <1>5, <1>9
     DEF C!CatchUpOpen, C!CatchUpOpenFails, C!CatchUpDone, C!CatchUpStops
<1>10. CASE C!CatchUpSend \/ C!CatchUpMisread
  <2>1. PICK u \in UP!Vote : merged' = Append(merged, u)
    <3>1. CASE C!CatchUpSend
      <4>1. wal[pos] \in RP!VoteRecord
        BY <1>0, <3>1, ReplicaTypes DEF ConnInv, C!CatchUpSend
      <4>. QED
        BY <3>1, <4>1, ToVoteType DEF C!CatchUpSend
    <3>2. CASE C!CatchUpMisread
      BY <3>2, WireType DEF Wire, C!CatchUpMisread
    <3>. QED
      BY <1>10, <3>1, <3>2
  <2>2. Elements(merged) \subseteq Elements(merged')
    BY <1>0, <2>1, ElementsAppend
  <2>3. UNCHANGED <<funnel, held, cursor, sock>>
    BY <1>10 DEF C!CatchUpSend, C!CatchUpMisread
  <2>. QED
    BY <1>3, <1>4, <2>2, <2>3
<1>11. CASE C!Forward
  <2>1. Elements(merged) = {Head(merged)} \cup Elements(merged')
    BY <1>0, <1>11, ElementsTail DEF C!Forward
  <2>2. Elements(sock') = Elements(sock) \cup {Head(merged)}
    BY <1>0, <1>11, ElementsAppend DEF C!Forward
  <2>3. UNCHANGED <<funnel, held, cursor>>
    BY <1>11 DEF C!Forward
  <2>. QED
    BY <1>3, <1>4, <2>1, <2>2, <2>3
<1>12. CASE C!ForwardEnds
  BY <1>12 DEF C!ForwardEnds
<1>. QED
  BY <1>6, <1>7, <1>8, <1>9, <1>10, <1>11, <1>12 DEF C!Funnel, C!CatchUp, C!Forwarder

\* The client takes a vote from the socket.
LEMMA StreamedReceive ==
  ASSUME PathInv, NEW u \in Wire, Receive(u), NEW v \in Genuine, Streamed(v)
  PROVE  Streamed(v)'
<1>1. sock \in Seq(UP!Vote) /\ sock # <<>> /\ u = Head(sock) /\ sock' = Tail(sock)
  BY DEF PathInv, ConnInv, Receive, C!Take
<1>2. Elements(sock) = {u} \cup Elements(sock')
  BY <1>1, ElementsTail
<1>3. Elements(votes') = Elements(votes) \cup {u}
  BY ElementsAppend, ClientTypes DEF Receive, U!Deliver
<1>4. At(sock, v) \/ At(votes, v) => At(sock', v) \/ At(votes', v)
  BY <1>2, <1>3, AtElements
<1>5. (At(sock, v)' <=> At(sock', v)) /\ (At(votes, v)' <=> At(votes', v))
      /\ (At(merged, v)' <=> At(merged, v))
  BY DEF At, Receive, C!Take
<1>6. UNCHANGED <<expected, backlog, funnel, held, cursor, bcast, logpc, logvote>>
  BY DEF Receive, C!Take, U!Deliver, replicavars
<1>7. FunnelHas(v)' <=> FunnelHas(v)
  BY <1>6 DEF FunnelHas, C!ToVote
<1>. QED
  BY <1>4, <1>5, <1>6, <1>7 DEF Streamed, OnTheWay, C!ToVote

\* The updater loses no vote of the replica: it passes over the ones whose number
\* it has applied, and keeps the others.
LEMMA StreamedUpdater ==
  ASSUME PathInv, Updater, NEW v \in Genuine, Streamed(v)
  PROVE  Streamed(v)'
<1>0. /\ UNCHANGED <<merged, sock, funnel, held, cursor>>
      /\ UNCHANGED <<bcast, logpc, logvote>>
  BY DEF Updater, connvars, replicavars
<1>1. /\ (At(merged, v)' <=> At(merged, v)) /\ (At(sock, v)' <=> At(sock, v))
      /\ (At(votes, v)' <=> At(votes', v))
      /\ (FunnelHas(v)' <=> FunnelHas(v)) /\ C!ToVote(logvote)' = C!ToVote(logvote)
  BY <1>0 DEF At, FunnelHas, C!ToVote
<1>. DEFINE n == v.sequence_number
            Past(e, b) == n < e \/ \E w \in b : w.sequence_number = n
<1>2. SUFFICES Past(expected[Rid], backlog[Rid]) \/ At(votes, v)
                 => Past(expected'[Rid], backlog'[Rid]) \/ At(votes', v)
  BY <1>0, <1>1 DEF Streamed, OnTheWay
<1>3. ASSUME NEW u \in Wire, U!Recv(u)
      PROVE  At(votes, v) => At(votes', v) \/ u = v
  <2>1. Elements(votes) = {u} \cup Elements(votes')
    BY <1>3, ElementsTail, ClientTypes DEF U!Recv
  <2>. QED
    BY <2>1, AtElements
<1>4. expected \in [{Rid} -> Nat] /\ backlog \in [{Rid} -> SUBSET Issued] /\ n \in Nat
      /\ v.replica_id = Rid /\ v.signature = Rid /\ v.transaction # NoTx
  BY ClientTypes, GenuineType
<1>5. ASSUME NEW u \in Wire PROVE u.replica_id = Rid /\ u.sequence_number \in Nat
  BY WireType
<1>. HIDE DEF n
<1>6. ASSUME NEW u \in Wire, U!RecvIgnored(u)
      PROVE  Past(expected[Rid], backlog[Rid]) \/ At(votes, v)
               => Past(expected'[Rid], backlog'[Rid]) \/ At(votes', v)
  <2>1. u = v => n < expected[Rid]
    BY <1>4, <1>6 DEF U!RecvIgnored, U!verify_vote_signature, n
  <2>2. UNCHANGED <<expected, backlog>> /\ U!Recv(u)
    BY <1>6 DEF U!RecvIgnored
  <2>. QED
    BY <1>3, <2>1, <2>2
<1>7. ASSUME NEW u \in Wire, U!RecvUnknown(u) PROVE FALSE
  BY <1>5, <1>7 DEF U!RecvUnknown
<1>8. ASSUME NEW u \in Wire, U!RecvFuture(u)
      PROVE  Past(expected[Rid], backlog[Rid]) \/ At(votes, v)
               => Past(expected'[Rid], backlog'[Rid]) \/ At(votes', v)
  <2>1. backlog'[Rid] = U!BacklogInsert(backlog[Rid], u) /\ expected' = expected /\ U!Recv(u)
    BY <1>4, <1>5, <1>8 DEF U!RecvFuture
  <2>2. u \in backlog'[Rid]
    BY <2>1 DEF U!BacklogInsert
  <2>3. \A w \in backlog[Rid] : \E x \in backlog'[Rid] : x.sequence_number = w.sequence_number
    BY <2>1, <2>2 DEF U!BacklogInsert
  <2>. QED
    BY <1>3, <2>1, <2>2, <2>3 DEF n
<1>9. ASSUME NEW u \in Wire, U!RecvNext(u)
      PROVE  Past(expected[Rid], backlog[Rid]) \/ At(votes, v)
               => Past(expected'[Rid], backlog'[Rid]) \/ At(votes', v)
  <2>1. /\ u.sequence_number = expected[Rid] /\ expected'[Rid] = expected[Rid] + 1
        /\ backlog' = backlog /\ U!Recv(u) /\ expected[Rid] \in Nat
    BY <1>4, <1>5, <1>9 DEF U!RecvNext, U!Expected
  <2>2. (n < expected[Rid] => n < expected'[Rid]) /\ (u = v => n < expected'[Rid])
    BY <1>4, <2>1 DEF n
  <2>. QED
    BY <1>3, <2>1, <2>2
<1>10. ASSUME NEW w \in Wire, U!DrainNext(w)
       PROVE  Past(expected[Rid], backlog[Rid]) \/ At(votes, v)
                => Past(expected'[Rid], backlog'[Rid]) \/ At(votes', v)
  <2>1. vote.replica_id = Rid
    BY <1>10, ClientTypes DEF U!DrainNext
  <2>2. /\ w.sequence_number = expected[Rid] /\ expected'[Rid] = expected[Rid] + 1
        /\ backlog'[Rid] = backlog[Rid] \ {w} /\ votes' = votes /\ expected[Rid] \in Nat
    BY <1>4, <1>10, <2>1 DEF U!DrainNext
  <2>3. (n < expected[Rid] => n < expected'[Rid])
        /\ (n = w.sequence_number => n < expected'[Rid])
    BY <1>4, <2>2
  <2>. QED
    BY <2>2, <2>3
<1>11. ASSUME U!ProcessVote \/ U!DrainDone PROVE UNCHANGED <<expected, backlog, votes>>
  BY <1>11 DEF U!ProcessVote, U!DrainDone
<1>. QED
  BY <1>6, <1>7, <1>8, <1>9, <1>10, <1>11 DEF Updater, U!Updater

\* Once the client is accepted, a vote stays in the stream until the connection
\* breaks or the funnel ends.
LEMMA StreamedKept ==
  ASSUME PathInv, [Next]_vars, ~Accept, ~Close, conn = "open", funnel' # "exited",
         NEW v \in Genuine, Streamed(v)
  PROVE  Streamed(v)'
<1>1. CASE Funnel \/ CatchUp \/ Forwarder
  <2>1. UNCHANGED <<replicavars, clientvars>> /\ (C!Funnel \/ C!CatchUp \/ C!Forwarder)
    BY <1>1 DEF Funnel, CatchUp, Forwarder
  <2>. QED
    BY <2>1, StreamedTasks
<1>2. CASE \E u \in Wire : Receive(u)
  BY <1>2, StreamedReceive
<1>3. CASE Updater
  BY <1>3, StreamedUpdater
<1>4. CASE UNCHANGED <<connvars, clientvars>>
  BY <1>4, StreamedReplica
<1>. QED
  BY <1>1, <1>2, <1>3, <1>4 DEF Next, Tick, Write, LogService, HbService, vars

\* A record that is left to the catch-up stays so until it is sent.
LEMMA CatchUpKept ==
  ASSUME PathInv, [Next]_vars, ~Accept, ~Close, conn = "open", funnel # "exited",
         NEW i \in 1..Len(wal), LeftToCatchUp(i), NEW v, v = C!ToVote(wal[i])
  PROVE  LeftToCatchUp(i)' \/ Streamed(v)'
<1>0. /\ ConnInv /\ Len(wal) \in Nat /\ merged \in Seq(UP!Vote)
      /\ pos \in Nat \ {0} /\ mapped \in 0..Len(wal) /\ wal[i] \in RP!VoteRecord
      /\ forwarder = "runs" /\ torn \subseteq 1..(Len(wal) + 1)
  BY ReplicaTypes DEF PathInv, ConnInv, RP!TypeOK
<1>1. ~(i > known) /\ known' = known /\ torn \subseteq torn'
  BY LogServiceSteps DEF LeftToCatchUp, Next, Tick, Write, LogService, HbService, Funnel, CatchUp,
       Forwarder, Receive, Updater, historyvars, vars
<1>2. CASE ~Readable(i)
  <2>1. ~Readable(i)'
    BY <1>1, <1>2 DEF Readable
  <2>. QED
    BY <1>1, <2>1 DEF LeftToCatchUp
<1>3. CASE UNCHANGED <<catchup, pos, mapped>>
  BY <1>1, <1>2, <1>3 DEF LeftToCatchUp, CatchUpHas
<1>4. CASE C!CatchUpOpen
  <2>1. catchup' = "send" /\ i \in pos'..mapped'
    BY <1>0, <1>4 DEF ConnInv, C!CatchUpOpen
  <2>. QED
    BY <1>1, <2>1 DEF LeftToCatchUp, CatchUpHas
<1>5. CASE C!CatchUpOpenFails
  BY <1>1, <1>5 DEF LeftToCatchUp, C!CatchUpOpenFails
<1>6. CASE C!CatchUpSend
  <2>1. CASE i = pos
    <3>1. C!ToVote(wal[pos]) \in UP!Vote
      BY <1>0, <2>1, ToVoteType
    <3>2. v \in Elements(merged')
      BY <1>0, <1>6, <2>1, <3>1, ElementsAppend DEF C!CatchUpSend
    <3>3. At(merged, v)'
      BY <3>2 DEF At, Elements
    <3>. QED
      BY <3>3 DEF Streamed, OnTheWay
  <2>2. CASE i # pos
    <3>1. CASE ~Readable(i)
      BY <1>2, <3>1
    <3>2. CASE Readable(i)
      <4>1. i \in pos..mapped
        BY <1>6, <3>2 DEF LeftToCatchUp, CatchUpHas, C!CatchUpSend
      <4>2. i \in pos'..mapped' /\ catchup' = "send"
        BY <1>0, <1>6, <2>2, <4>1 DEF C!CatchUpSend
      <4>. QED
        BY <1>1, <4>2 DEF LeftToCatchUp, CatchUpHas
    <3>. QED
      BY <3>1, <3>2
  <2>. QED
    BY <2>1, <2>2
<1>7. CASE C!CatchUpMisread \/ C!CatchUpStops
  <2>1. catchup = "send" /\ C!OutOfStep
    BY <1>7 DEF C!CatchUpMisread, C!CatchUpStops
  <2>2. PICK k \in torn : k <= pos
    BY <2>1 DEF C!OutOfStep
  <2>3. CASE ~Readable(i)
    BY <1>2, <2>3
  <2>4. CASE Readable(i)
    <3>1. i \in pos..mapped
      BY <2>1, <2>4 DEF LeftToCatchUp, CatchUpHas
    <3>2. k > i
      BY <2>2, <2>4 DEF Readable
    <3>3. k \in Nat
      BY <1>0, <2>2
    <3>. QED
      BY <1>0, <2>2, <3>1, <3>2, <3>3
  <2>. QED
    BY <2>3, <2>4
<1>8. CASE C!CatchUpDone
  <2>1. catchup = "send" /\ pos > mapped
    BY <1>0, <1>8 DEF C!CatchUpDone, C!ReceiverGone
  <2>2. ~CatchUpHas(i) /\ catchup # "failed"
    BY <1>0, <2>1 DEF CatchUpHas
  <2>3. ~Readable(i)
    BY <2>2 DEF LeftToCatchUp
  <2>. QED
    BY <1>2, <2>3
<1>9. ~CatchUp => UNCHANGED <<catchup, pos, mapped>>
  BY DEF Next, Tick, Write, LogService, HbService, Funnel, C!Funnel, C!FunnelRecv,
     C!FunnelLagged, C!FunnelSend, C!FunnelSendFails, Forwarder, C!Forwarder, C!Forward,
     C!ForwardEnds, Receive, C!Take, Updater, connvars, vars
<1>. QED
  BY <1>3, <1>4, <1>5, <1>6, <1>7, <1>8, <1>9 DEF CatchUp, C!CatchUp

\* A record that is appended is about to be broadcast, or its append failed.
LEMMA StreamedNew ==
  ASSUME PathInv, [Next]_vars, NEW i \in 1..Len(wal'), i \notin 1..Len(wal),
         NEW v, v = C!ToVote(wal'[i])
  PROVE  Streamed(v)' \/ Burnt(i)'
<1>1. UNCHANGED wal \/ R!LogAppend \/ R!LogAppendFails
  BY LogServiceSteps
<1>2. wal' = Append(wal, logvote) /\ wal \in Seq(RP!VoteRecord) /\ logvote \in RP!VoteRecord
  BY <1>1 DEF PathInv, RP!TypeOK, R!LogAppend, R!LogAppendFails, R!AppendStops, R!Logged,
       R!filevars
<1>3. wal'[i] = logvote
  BY <1>2
<1>4. CASE R!LogAppend
  <2>1. logpc' = "broadcast" /\ logvote' = logvote
    BY <1>4 DEF R!LogAppend
  <2>. QED
    BY <1>3, <2>1 DEF Streamed, C!ToVote
<1>5. CASE R!LogAppendFails
  <2>1. logvote.sn \in lost'
    BY <1>5 DEF R!LogAppendFails
  <2>2. i > base /\ base' = base
    BY <1>2, LogServiceSteps DEF PathInv, RP!TypeOK
  <2>. QED
    BY <1>3, <2>1, <2>2 DEF Burnt
<1>. QED
  BY <1>1, <1>4, <1>5

\* A connection that is open after a step, other than the one that opens it, was
\* open before, and its funnel has not ended.
LEMMA OpenBefore ==
  ASSUME [Next]_vars, ~Accept, conn' = "open", funnel' # "exited"
  PROVE  conn = "open" /\ ~Close /\ funnel # "exited" /\ since' = since
<1>1. conn = "open" /\ ~Close
  BY DEF Next, Tick, Write, LogService, HbService, Funnel, C!Funnel, C!FunnelRecv,
       C!FunnelLagged, C!FunnelSend, C!FunnelSendFails, CatchUp, C!CatchUp, C!CatchUpOpen,
       C!CatchUpOpenFails, C!CatchUpSend, C!CatchUpMisread, C!CatchUpDone, C!CatchUpStops,
       Forwarder, C!Forwarder, C!Forward, C!ForwardEnds, Close, C!Close, Receive, C!Take,
       Updater, connvars, vars
<1>2. funnel # "exited"
  BY <1>1 DEF Next, Tick, Write, LogService, HbService, Funnel, C!Funnel, C!FunnelRecv,
       C!FunnelLagged, C!FunnelSend, C!FunnelSendFails, CatchUp, C!CatchUp, C!CatchUpOpen,
       C!CatchUpOpenFails, C!CatchUpSend, C!CatchUpMisread, C!CatchUpDone, C!CatchUpStops,
       Forwarder, C!Forwarder, C!Forward, C!ForwardEnds, Receive, C!Take,
       Updater, connvars, vars
<1>3. since' = since
  BY <1>1 DEF Next, Tick, Write, LogService, HbService, Funnel, CatchUp, Forwarder, Receive,
       Updater, historyvars, vars
<1>. QED
  BY <1>1, <1>2, <1>3

\* Every step preserves HoleInv.
LEMMA HoleStep == PathInv /\ HoleInv /\ [Next]_vars => HoleInv'
<1>. SUFFICES ASSUME PathInv, HoleInv, [Next]_vars, conn' = "open", funnel' # "exited",
                     NEW i \in 1..Len(wal'), NEW v, v = C!ToVote(wal'[i])
              PROVE  Streamed(v)' \/ Burnt(i)' \/ LeftToCatchUp(i)'
  BY DEF HoleInv, C!ToVote
<1>1. CASE i \notin 1..Len(wal)
  BY <1>1, StreamedNew
<1>2. CASE i \in 1..Len(wal) /\ Accept
  <2>1. catchup = "open" /\ catchup' = "open" /\ known' = Len(wal) /\ Len(wal) \in Nat
    BY <1>2, ReplicaTypes DEF PathInv, ConnInv, Accept, C!Accept
  <2>. QED
    BY <1>2, <2>1 DEF LeftToCatchUp, CatchUpHas
<1>3. CASE i \in 1..Len(wal) /\ ~Accept
  <2>1. conn = "open" /\ ~Close /\ funnel # "exited"
    BY <1>3, OpenBefore
  <2>2. wal[i] \in RP!VoteRecord /\ wal'[i] = wal[i]
    BY <1>3, ReplicaTypes, ReplicaGrows DEF PathInv
  <2>3. v = C!ToVote(wal[i]) /\ v \in Genuine
    BY <2>2 DEF Genuine
  <2>4. Streamed(v) \/ Burnt(i) \/ LeftToCatchUp(i)
    BY <1>3, <2>1, <2>3 DEF HoleInv
  <2>5. CASE Streamed(v)
    BY <1>3, <2>1, <2>3, <2>5, StreamedKept
  <2>6. CASE Burnt(i)
    BY <2>2, <2>6, LogServiceSteps DEF Burnt
  <2>7. CASE LeftToCatchUp(i)
    BY <1>3, <2>1, <2>3, <2>7, CatchUpKept
  <2>. QED
    BY <2>4, <2>5, <2>6, <2>7
<1>. QED
  BY <1>1, <1>2, <1>3

\* HoleInv is an invariant.
LEMMA HoleInvariant == Spec => []HoleInv
<1>1. Init => HoleInv
  BY DEF Init, C!Init, HoleInv
<1>. QED
  BY <1>1, HoleStep, PathInvariant, PTL DEF Spec

\* The replica's own invariants hold in the composition.
LEMMA ReplicaInvariant == Spec => [](RP!SnInv /\ RP!LoggedSent)
<1>1. Init => RP!SnInv /\ RP!LoggedSent
  <2>. SUFFICES ASSUME Init PROVE RP!SnInv /\ RP!LoggedSent
    OBVIOUS
  <2>1. PICK file \in EarlierLogs : R!Start(file.log, file.torn)
    BY DEF Init
  <2>2. RP!SnInv
    BY <2>1 DEF R!Start, RP!SnInv, RP!SnBelow, RP!SnUsedOnce, RP!SnAccounted, RP!LogHolds,
         RP!HbHolds
  <2>3. base = Len(wal) /\ Len(wal) \in Nat
    BY <2>1, EarlierLogsAssumption DEF R!Start
  <2>. QED
    BY <2>2, <2>3 DEF RP!LoggedSent
<1>2. PathInv /\ RP!SnInv /\ RP!LoggedSent /\ [Next]_vars => (RP!SnInv /\ RP!LoggedSent)'
  BY Assumptions, ReplicaSteps, RP!SnStep, RP!LoggedSentStep DEF PathInv
<1>. QED
  BY <1>1, <1>2, PathInvariant, PTL DEF Spec

\* Two votes of this run with one number are the same vote.
LEMMA RunUnique ==
  ASSUME PathInv, RP!SnInv, RP!LoggedSent, NEW i \in 1..Len(wal), i > base,
         wal[i].sn \notin lost
  PROVE  /\ \A j \in 1..Len(bcast) : bcast[j].sn = wal[i].sn => bcast[j] = wal[i]
         /\ \A j \in (base + 1)..Len(wal) : wal[j].sn = wal[i].sn => wal[j] = wal[i]
<1>0. /\ base \in Nat /\ Len(wal) \in Nat /\ bcast \in Seq(RP!VoteRecord)
      /\ logpc = "broadcast" => logvote \in RP!VoteRecord
  BY DEF PathInv, RP!TypeOK
<1>1. \A k \in 1..Len(RP!Outgoing) :
        \/ \E j \in 1..Len(bcast) : RP!Outgoing[k] = bcast[j]
        \/ logpc = "broadcast" /\ RP!Outgoing[k] = logvote
  BY <1>0 DEF RP!Outgoing
<1>2. ASSUME NEW j \in (base + 1)..Len(wal), wal[j].sn \notin lost
      PROVE  \/ \E k \in 1..Len(bcast) : wal[j] = bcast[k]
             \/ logpc = "broadcast" /\ wal[j] = logvote
  BY <1>1, <1>2 DEF RP!LoggedSent
<1>3. i \in (base + 1)..Len(wal)
  BY <1>0
<1>4. /\ \A j, k \in 1..Len(bcast) : bcast[j].sn = bcast[k].sn => j = k
      /\ logpc = "broadcast" => \A j \in 1..Len(bcast) : bcast[j].sn # logvote.sn
  BY DEF RP!SnInv, RP!SnUsedOnce, RP!LogHolds
<1>. QED
  BY <1>2, <1>3, <1>4

\* What the client has for a number it has passed, or keeps a vote for.
LEMMA HasNumber ==
  ASSUME PathInv, NumberInv, NEW n \in Nat,
         n < expected[Rid] \/ \E w \in backlog[Rid] : w.sequence_number = n
  PROVE  \E w \in Issued : w \in Carried /\ Has(w) /\ w.sequence_number = n
<1>1. CASE \E w \in backlog[Rid] : w.sequence_number = n
  BY <1>1, ClientTypes DEF Has, Carried
<1>2. CASE n < expected[Rid]
  <2>1. Len(applied[Rid]) \in Nat /\ expected[Rid] \in Nat
    BY ClientTypes
  <2>2. CASE n < Len(applied[Rid])
    <3>1. n + 1 \in 1..Len(applied[Rid])
      BY <2>1, <2>2
    <3>2. /\ applied[Rid][n + 1] \in Issued /\ applied[Rid][n + 1].sequence_number = (n + 1) - 1
          /\ applied[Rid][n + 1] \in Elements(applied[Rid])
      BY <3>1 DEF NumberInv, Elements
    <3>3. Has(applied[Rid][n + 1]) /\ applied[Rid][n + 1] \in Carried
      BY <3>1, <3>2 DEF Has, At, Carried
    <3>. QED
      BY <3>2, <3>3
  <2>3. CASE n >= Len(applied[Rid])
    <3>1. pc = "process" /\ vote.replica_id = Rid /\ expected[Rid] = Len(applied[Rid]) + 1
      BY <1>2, <2>1, <2>3 DEF PathInv, UP!OrderInv, UP!CountInv
    <3>2. vote \in Issued /\ expected[Rid] = vote.sequence_number + 1
          /\ vote.sequence_number \in Nat
      BY <3>1, ClientTypes, IssuedType DEF PathInv, UP!OrderInv, UP!TurnInv
    <3>3. vote.sequence_number = n
      BY <1>2, <2>1, <2>3, <3>1, <3>2
    <3>. QED
      BY <3>1, <3>2, <3>3 DEF Has, Carried
  <2>. QED
    BY <2>1, <2>2, <2>3
<1>. QED
  BY <1>1, <1>2

\* In every state with these invariants the stream has no hole.
LEMMA NoHoleIfCovered ==
  ASSUME PathInv, SourceInv, NumberInv, HoleInv, RP!SnInv, RP!LoggedSent
  PROVE  NoHoleInStream
<1>. SUFFICES ASSUME conn = "open", funnel # "exited", NEW i \in 1..Len(wal), Owed(i),
                     NEW v, v = C!ToVote(wal[i])
              PROVE  \/ Has(v) \/ OnTheWay(v) \/ CatchUpHas(i)
                     \/ logpc = "broadcast" /\ C!ToVote(logvote) = v
                     \/ Replaced(i)
  BY DEF NoHoleInStream
<1>0. /\ wal[i] \in RP!VoteRecord /\ wal[i].sn \in Nat /\ v.sequence_number = wal[i].sn
      /\ base \in Nat
  BY ReplicaTypes, ToVoteType DEF RP!VoteRecord, PathInv, RP!TypeOK
<1>1. Streamed(v) \/ LeftToCatchUp(i)
  BY <1>0 DEF HoleInv, Owed, Burnt
<1>2. CASE LeftToCatchUp(i)
  BY <1>2 DEF LeftToCatchUp, Owed
<1>3. CASE OnTheWay(v) \/ (logpc = "broadcast" /\ C!ToVote(logvote) = v)
  BY <1>3
<1>4. CASE \/ v.sequence_number < expected[Rid]
           \/ \E w \in backlog[Rid] : w.sequence_number = v.sequence_number
  <2>1. PICK w \in Issued : w \in Carried /\ Has(w) /\ w.sequence_number = wal[i].sn
    BY <1>0, <1>4, HasNumber
  <2>2. Source(w)
    <3>1. w # Garbled
      BY IssuedType, VotePathAssumption DEF Garbled
    <3>. QED
      BY <2>1, <3>1 DEF SourceInv
  <2>3. CASE i <= base \/ \E j \in 1..base : w = C!ToVote(wal[j])
    BY <2>1, <2>3 DEF Replaced
  <2>4. CASE ~(i <= base) /\ ~\E j \in 1..base : w = C!ToVote(wal[j])
    <3>1. wal[i].sn \notin lost /\ i > base
      BY <1>0, <2>4 DEF Owed
    <3>2. /\ \A j \in 1..Len(bcast) : bcast[j].sn = wal[i].sn => bcast[j] = wal[i]
          /\ \A j \in (base + 1)..Len(wal) : wal[j].sn = wal[i].sn => wal[j] = wal[i]
      BY <3>1, RunUnique
    <3>3. ASSUME NEW j \in 1..Len(bcast), C!ToVote(bcast[j]) = w PROVE w = v
      <4>1. bcast[j].sn = wal[i].sn
        BY <2>1, <3>3, ReplicaTypes, ToVoteType
      <4>. QED
        BY <3>2, <3>3, <4>1
    <3>4. ASSUME NEW j \in 1..Len(wal), C!ToVote(wal[j]) = w PROVE w = v
      <4>1. wal[j].sn = wal[i].sn
        BY <2>1, <3>4, ReplicaTypes, ToVoteType
      <4>2. j \in (base + 1)..Len(wal)
        BY <1>0, <2>4, <3>4, ReplicaTypes
      <4>. QED
        BY <3>2, <3>4, <4>1, <4>2
    <3>. QED
      BY <2>1, <2>2, <3>3, <3>4 DEF Source
  <2>. QED
    BY <2>3, <2>4
<1>. QED
  BY <1>1, <1>2, <1>3, <1>4 DEF Streamed

\* Joining the log and the broadcast leaves no hole, for channels and logs of any
\* size and clients that connect at any time: a vote the client is owed is with
\* it, on its way, or about to be broadcast, unless the funnel fell behind or
\* the client has the vote of another run of the process under its number.
THEOREM StreamHasNoHole == Spec => []NoHoleInStream
  BY NoHoleIfCovered, PathInvariant, SourceInvariant, HoleInvariant, ReplicaInvariant, PTL

-----------------------------------------------------------------------------
\* The composition implements the specification of the updater, its fairness
\* aside: what is proved of the updater alone from its steps holds end to end.
THEOREM ImplementsUpdater == Spec => UP!Init /\ [][UP!Next]_(UP!vars)
<1>1. Init => UP!Init
  BY DEF Init, U!Init, UP!Init, U!NoVote, UP!NoVote, U!Absent, UP!Absent
<1>. QED
  BY <1>1, UpdaterSteps, PTL DEF Spec

\* The composition implements VoteOrder: however a vote and its repeats travel
\* over the broadcast channel, the log, the merged channel and the socket, and
\* whenever the connection breaks, the client applies the replica's votes in
\* the order of their numbers, without gaps and each once.
THEOREM PathAppliesInOrder == Spec => UP!AppliesInOrder
<1>1. Init => UP!Order!Init
  BY DEF Init, U!Init, UP!Order!Init
<1>2. PathInv /\ [Next]_vars => [UP!Order!Next]_applied
  BY Assumptions, UpdaterSteps, UP!VoteOrderStep DEF PathInv
<1>. QED
  BY <1>1, <1>2, PathInvariant, PTL DEF Spec, UP!AppliesInOrder, UP!Order!Spec

-----------------------------------------------------------------------------
\* An ended forwarder has dropped the votes that waited for it, and nobody adds
\* one after it.
EndedInv == forwarder = "ended" => merged = <<>>

\* Every step preserves EndedInv.
LEMMA EndedStep == EndedInv /\ [Next]_vars => EndedInv'
<1>. SUFFICES ASSUME EndedInv, [Next]_vars PROVE EndedInv'
  OBVIOUS
<1>1. CASE UNCHANGED <<forwarder, merged>>
  BY <1>1 DEF EndedInv
<1>2. CASE Funnel
  BY <1>1, <1>2 DEF EndedInv, Funnel, C!Funnel, C!FunnelRecv, C!FunnelLagged, C!FunnelSend,
       C!FunnelSendFails, C!Room, C!ReceiverGone
<1>3. CASE CatchUp
  BY <1>1, <1>3 DEF EndedInv, CatchUp, C!CatchUp, C!CatchUpOpen, C!CatchUpOpenFails,
       C!CatchUpSend, C!CatchUpMisread, C!CatchUpDone, C!CatchUpStops, C!Room, C!ReceiverGone
<1>4. CASE Forwarder
  BY <1>4 DEF EndedInv, Forwarder, C!Forwarder, C!Forward, C!ForwardEnds
<1>. QED
  BY <1>1, <1>2, <1>3, <1>4 DEF Next, Tick, Write, LogService, HbService, Accept, C!Accept,
       Close, C!Close, Receive, C!Take, Updater, connvars, vars

\* When the connection has broken, a task that still has a vote in its hands, or
\* a log to send, can go on: the forwarder, because its write fails, and with it
\* gone, or its channel empty, the tasks that send to it.
LEMMA FreedIfEnded == ASSUME ConnInv, EndedInv PROVE DepartedClientFreed
<1>. SUFFICES ASSUME conn = "closed",
                     merged # <<>> \/ funnel = "send" \/ catchup \in {"open", "send"}
              PROVE  ConnectionReady
  BY DEF DepartedClientFreed
<1>1. CASE merged # <<>>
  BY <1>1 DEF ConnInv, EndedInv, ConnectionReady, C!ForwarderReady
<1>2. CASE merged = <<>>
  <2>1. C!Room \/ C!ReceiverGone
    BY <1>2, VotePathAssumption DEF C!Room, C!ReceiverGone
  <2>. QED
    BY <1>2, <2>1 DEF ConnInv, ConnectionReady, C!FunnelReady, C!CatchUpReady, C!Connected
<1>. QED
  BY <1>1, <1>2

\* A client that is gone ties up nothing for good, for channels of any size and
\* wherever the connection's tasks were blocked when it left.
THEOREM DepartedFreed == Spec => []DepartedClientFreed
<1>1. Init => EndedInv
  BY DEF Init, C!Init, EndedInv
<1>2. PathInv /\ EndedInv => DepartedClientFreed
  BY FreedIfEnded DEF PathInv
<1>. QED
  BY <1>1, <1>2, EndedStep, PathInvariant, PTL DEF Spec

-----------------------------------------------------------------------------
\* No vote of the replica makes the updater fail, so it never exits.
AliveInv == pc # "exited"

\* A client that was connected before the first number was taken has every
\* vote that was broadcast, or some task of its connection does.
EarlyInv ==
  conn = "open" /\ since = 0 /\ funnel # "exited" =>
    \A j \in 1..Len(bcast) : Streamed(C!ToVote(bcast[j]))

\* Every step preserves AliveInv.
LEMMA AliveStep == AliveInv /\ [Next]_vars => AliveInv'
<1>. SUFFICES ASSUME AliveInv, [Next]_vars PROVE AliveInv'
  OBVIOUS
<1>1. CASE UNCHANGED pc
  BY <1>1 DEF AliveInv
<1>2. CASE Updater
  <2>1. ASSUME NEW u \in Wire, U!RecvUnknown(u) PROVE FALSE
    BY <2>1, WireType DEF U!RecvUnknown
  <2>. QED
    BY <1>1, <1>2, <2>1 DEF AliveInv, Updater, U!Updater, U!RecvIgnored, U!RecvFuture, U!RecvNext,
         U!ProcessVote, U!DrainNext, U!DrainDone
<1>. QED
  BY <1>1, <1>2 DEF Next, Tick, Write, LogService, HbService, Accept, Funnel, CatchUp,
       Forwarder, Close, Receive, U!Deliver, clientvars, vars

\* A vote that is broadcast is still ahead of the funnel.
LEMMA StreamedSent ==
  ASSUME PathInv, [Next]_vars, NEW j \in 1..Len(bcast'), j \notin 1..Len(bcast),
         NEW v, v = C!ToVote(bcast'[j])
  PROVE  Streamed(v)'
<1>1. Len(bcast) \in Nat /\ Len(bcast') \in Nat /\ cursor \in 1..(Len(bcast) + 1)
  BY ReplicaGrows DEF PathInv, ConnInv
<1>2. UNCHANGED <<connvars>> \/ UNCHANGED bcast
  BY DEF Next, Tick, Write, LogService, HbService, Accept, Funnel, CatchUp, Forwarder, Close,
       Receive, Updater, replicavars, vars
<1>3. cursor' = cursor
  BY <1>2 DEF connvars
<1>4. j \in cursor'..Len(bcast')
  BY <1>1, <1>3
<1>. QED
  BY <1>4 DEF Streamed, OnTheWay, FunnelHas, C!ToVote

\* Every step preserves EarlyInv.
LEMMA EarlyStep == PathInv /\ RP!SnInv /\ EarlyInv /\ [Next]_vars => EarlyInv'
<1>. SUFFICES ASSUME PathInv, RP!SnInv, EarlyInv, [Next]_vars, conn' = "open", since' = 0,
                     funnel' # "exited", NEW j \in 1..Len(bcast'),
                     NEW v, v = C!ToVote(bcast'[j])
              PROVE  Streamed(v)'
  BY DEF EarlyInv, C!ToVote
<1>1. CASE j \notin 1..Len(bcast)
  BY <1>1, StreamedSent
<1>2. CASE j \in 1..Len(bcast) /\ Accept
  <2>1. nextsn = 0 /\ bcast[j] \in RP!VoteRecord
    BY <1>2, ReplicaTypes DEF Accept
  <2>2. bcast[j].sn \in Nat /\ bcast[j].sn < 0
    BY <1>2, <2>1 DEF RP!SnInv, RP!SnBelow, RP!VoteRecord
  <2>. QED
    BY <2>2
<1>3. CASE j \in 1..Len(bcast) /\ ~Accept
  <2>1. conn = "open" /\ ~Close /\ funnel # "exited" /\ since = 0
    BY <1>3, OpenBefore
  <2>2. bcast[j] \in RP!VoteRecord /\ bcast'[j] = bcast[j]
    BY <1>3, ReplicaTypes, ReplicaGrows DEF PathInv
  <2>3. v = C!ToVote(bcast[j]) /\ v \in Genuine
    BY <2>2 DEF Genuine
  <2>4. Streamed(v)
    BY <1>3, <2>1, <2>3 DEF EarlyInv
  <2>. QED
    BY <1>3, <2>1, <2>3, <2>4, StreamedKept
<1>. QED
  BY <1>1, <1>2, <1>3

\* Where the votes are when no task can go on: none is between the replica and
\* the client.  Going backwards from the client, a channel that is not drained is
\* empty, so the one before it is not blocked and is empty too.
LEMMA QuietIsEmpty ==
  ASSUME PathInv, AliveInv, conn = "open", funnel # "exited",
         ~ConnectionReady, ~ReceiveReady, ~UpdaterReady
  PROVE  /\ pc = "recv" /\ votes = <<>> /\ sock = <<>> /\ merged = <<>>
         /\ funnel = "recv" /\ cursor = Len(bcast) + 1
         /\ catchup \in {"done", "failed"}
<1>0. ConnInv /\ votes \in Seq(Wire) /\ Len(bcast) \in Nat
  BY ClientTypes, ReplicaTypes DEF PathInv
<1>1. pc = "recv" /\ votes = <<>>
  <2>1. pc \in {"recv", "process", "drain", "exited"}
    BY DEF PathInv, UP!TypeOK
  <2>. QED
    BY <2>1 DEF AliveInv, UpdaterReady
<1>2. sock = <<>>
  BY <1>1, VotePathAssumption DEF ReceiveReady
<1>3. forwarder = "runs" /\ merged = <<>>
  BY <1>0, <1>2, VotePathAssumption DEF ConnInv, ConnectionReady, C!ForwarderReady
<1>4. C!Room
  BY <1>3, VotePathAssumption DEF C!Room, C!ReceiverGone
<1>5. funnel = "recv" /\ catchup \in {"done", "failed"}
  BY <1>0, <1>4 DEF ConnInv, ConnectionReady, C!FunnelReady, C!CatchUpReady, C!Connected
<1>6. ~(cursor <= Len(bcast))
  BY <1>5 DEF ConnectionReady, C!FunnelReady, C!Connected
<1>7. cursor = Len(bcast) + 1
  BY <1>0, <1>6 DEF ConnInv
<1>. QED
  BY <1>1, <1>2, <1>3, <1>5, <1>7

\* Then the number the client waits for is not in the stream.
LEMMA QuietNotStreamed ==
  ASSUME PathInv, AliveInv, conn = "open", funnel # "exited", logpc = "recv",
         ~ConnectionReady, ~ReceiveReady, ~UpdaterReady
  PROVE  /\ expected[Rid] \in Nat
         /\ expected[Rid] = Len(applied[Rid])
         /\ \A v : Streamed(v) => v.sequence_number # expected[Rid]
<1>1. /\ pc = "recv" /\ votes = <<>> /\ sock = <<>> /\ merged = <<>>
      /\ funnel = "recv" /\ cursor = Len(bcast) + 1
  BY QuietIsEmpty
<1>2. Len(bcast) \in Nat /\ expected[Rid] \in Nat /\ backlog[Rid] \subseteq Issued
  BY ReplicaTypes, ClientTypes DEF PathInv
<1>3. ASSUME NEW v, Streamed(v)
      PROVE  \/ v.sequence_number < expected[Rid]
             \/ \E w \in backlog[Rid] : w.sequence_number = v.sequence_number
  <2>1. ~At(<<>>, v)
    BY DEF At
  <2>2. ~FunnelHas(v)
    BY <1>1, <1>2 DEF FunnelHas
  <2>. QED
    BY <1>1, <1>3, <2>1, <2>2 DEF Streamed, OnTheWay
<1>4. \A w \in backlog[Rid] : w.sequence_number > expected[Rid]
  BY <1>1 DEF PathInv, UP!OrderInv, UP!BacklogInv, UP!Busy
<1>5. expected[Rid] = Len(applied[Rid])
  BY <1>1 DEF PathInv, UP!OrderInv, UP!CountInv
<1>6. ASSUME NEW v, Streamed(v) PROVE v.sequence_number # expected[Rid]
  BY <1>2, <1>3, <1>4, <1>6
<1>. QED
  BY <1>2, <1>5, <1>6

\* Nor is the client owed a vote for it.
LEMMA UnowedIfQuiet ==
  ASSUME PathInv, AliveInv, HoleInv
  PROVE  StopsOnlyAtUnowed
<1>. SUFFICES ASSUME conn = "open", funnel # "exited", NEW i \in 1..Len(wal),
                     wal[i].sn = Len(applied[Rid]), Owed(i), logpc = "recv",
                     ~ConnectionReady, ~ReceiveReady, ~UpdaterReady
              PROVE  FALSE
  BY DEF StopsOnlyAtUnowed
<1>1. Streamed(C!ToVote(wal[i])) \/ LeftToCatchUp(i)
  BY DEF HoleInv, Owed, Burnt, PathInv, RP!TypeOK
<1>2. ~LeftToCatchUp(i)
  BY QuietIsEmpty DEF LeftToCatchUp, CatchUpHas, Owed
<1>3. C!ToVote(wal[i]).sequence_number = wal[i].sn
  BY ReplicaTypes, ToVoteType
<1>. QED
  BY <1>1, <1>2, <1>3, QuietNotStreamed

\* A client that was there from the start has every number that was taken.
LEMMA KeptUpIfQuiet ==
  ASSUME PathInv, RP!SnInv, AliveInv, EarlyInv
  PROVE  EarlyClientKeepsUp
<1>. SUFFICES ASSUME conn = "open", since = 0, funnel # "exited", lost = {}, ~VoteInHand,
                     ~ConnectionReady, ~ReceiveReady, ~UpdaterReady
              PROVE  Len(applied[Rid]) >= nextsn
  BY DEF EarlyClientKeepsUp
<1>1. logpc = "recv" /\ hbpc = "tick" /\ nextsn \in Nat
  BY DEF VoteInHand, PathInv, RP!TypeOK
<1>2. \A n \in 0..(nextsn - 1) : \E j \in 1..Len(bcast) : bcast[j].sn = n
  BY <1>1 DEF RP!SnInv, RP!SnAccounted, RP!LogHolds, RP!HbHolds
<1>3. /\ expected[Rid] \in Nat
      /\ expected[Rid] = Len(applied[Rid])
      /\ \A v : Streamed(v) => v.sequence_number # expected[Rid]
  BY <1>1, QuietNotStreamed
<1>4. \A n \in 0..(nextsn - 1) : n # expected[Rid]
  <2>. SUFFICES ASSUME NEW n \in 0..(nextsn - 1) PROVE n # expected[Rid]
    OBVIOUS
  <2>1. PICK j \in 1..Len(bcast) : bcast[j].sn = n
    BY <1>2
  <2>2. Streamed(C!ToVote(bcast[j])) /\ C!ToVote(bcast[j]).sequence_number = n
    BY <2>1, ReplicaTypes, ToVoteType DEF EarlyInv
  <2>. QED
    BY <1>3, <2>2
<1>. QED
  BY <1>1, <1>3, <1>4

\* Whenever a client connects, and for channels and logs of any size, it only ever
\* stops at a number for which it is owed no vote.
THEOREM StopsAtUnowed == Spec => []StopsOnlyAtUnowed
<1>1. Init => AliveInv
  BY DEF Init, U!Init, AliveInv
<1>. QED
  BY <1>1, AliveStep, UnowedIfQuiet, PathInvariant, HoleInvariant, PTL DEF Spec

\* A client that was there from the start keeps up, for channels of any size:
\* as long as it has not applied a vote for every number taken, some task can
\* go on, unless the funnel fell behind, an append failed or the connection broke.
THEOREM EarlyKeepsUp == Spec => []EarlyClientKeepsUp
<1>1. Init => AliveInv /\ EarlyInv
  BY DEF Init, C!Init, U!Init, AliveInv, EarlyInv
<1>. QED
  BY <1>1, AliveStep, EarlyStep, KeptUpIfQuiet, PathInvariant, ReplicaInvariant, PTL DEF Spec
=============================================================================
