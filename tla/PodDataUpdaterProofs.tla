------------------------ MODULE PodDataUpdaterProofs ------------------------
(***************************************************************************)
(* Proofs about PodDataUpdater: type correctness, that no vote is stranded *)
(* in the backlog, that the updater implements VoteOrder, and what mrt and *)
(* tsps are in terms of the votes applied.  The second and the third rest  *)
(* on one inductive invariant, OrderInv.                                   *)
(***************************************************************************)
EXTENDS PodDataUpdater, TLAPS

\* The updater is between taking a vote of r and going back to the channel.
Busy(r) == pc \in {"process", "drain"} /\ vote.replica_id = r

\* Backlog entries are checked votes of the replica they are filed under, not
\* yet passed, and only while the updater is busy with the replica may the
\* expected vote be among them.
BacklogInv ==
  \A r \in Replicas : \A w \in backlog[r] :
    /\ w.replica_id = r
    /\ w.sequence_number >= nextsn[r]
    /\ ~Busy(r) => w.sequence_number > nextsn[r]

\* A backlog is a map: no two of its entries have the same number.
UniqueInv ==
  \A r \in Replicas : \A u, w \in backlog[r] :
    u.sequence_number = w.sequence_number => u = w

\* nextsn counts the votes applied, and the one being processed.
CountInv ==
  \A r \in Replicas :
    nextsn[r] = IF pc = "process" /\ vote.replica_id = r
                  THEN Len(applied[r]) + 1 ELSE Len(applied[r])

\* The vote being processed is the one whose turn it is.
TurnInv ==
  pc = "process" => nextsn[vote.replica_id] = vote.sequence_number + 1

OrderInv == BacklogInv /\ UniqueInv /\ CountInv /\ TurnInv

-----------------------------------------------------------------------------
\* A vote that may arrive has the fields of a vote.
LEMMA InboundType ==
  ASSUME NEW v \in Inbound
  PROVE  /\ v.timestamp \in Nat
         /\ v.sequence_number \in Nat
         /\ Valid(v) => v.replica_id \in Replicas /\ v.transaction \in Payloads
                        /\ v.signature = v.replica_id
  BY UpdaterAssumption DEF Vote, Valid, verify_vote_signature

\* Taking a vote from the channel leaves a channel of at most the same length.
LEMMA RecvType ==
  ASSUME TypeOK, NEW v \in Inbound, Recv(v)
  PROVE  votes' \in Seq(Inbound) /\ Len(votes') <= ChannelSize
  BY UpdaterAssumption DEF TypeOK, Recv

\* process_vote preserves the types of the view it writes.
LEMMA ProcessVoteType ==
  ASSUME TypeOK, ProcessVote
  PROVE  TypeOK'
<1>1. vote \in Inbound /\ Valid(vote)
  BY DEF TypeOK, ProcessVote, VotesAfter, MrtAfter, TspsAfter, NewEvidence
<1>2. /\ vote.timestamp \in Nat
      /\ vote.replica_id \in Replicas
      /\ vote.transaction \in Payloads
  BY <1>1, InboundType
<1>3. mrt' \in [Replicas -> Nat]
  BY <1>2 DEF TypeOK, ProcessVote, VotesAfter, MrtAfter, TspsAfter, NewEvidence
<1>4. tsps' \in [Payloads -> [Replicas -> Nat \cup {Absent}]]
  BY <1>2 DEF TypeOK, ProcessVote, VotesAfter, MrtAfter, TspsAfter, NewEvidence
<1>5. applied' \in [Replicas -> Seq(Inbound)]
  BY <1>1, <1>2 DEF TypeOK, ProcessVote, VotesAfter, MrtAfter, TspsAfter, NewEvidence
<1>6. ts_vote_msg' \subseteq Inbound
  BY <1>1 DEF TypeOK, ProcessVote, VotesAfter, MrtAfter, TspsAfter, NewEvidence
<1>7. /\ votes' \in Seq(Inbound) /\ Len(votes') <= ChannelSize
      /\ nextsn' \in [Replicas -> Nat]
      /\ backlog' \in [Replicas -> SUBSET Checked]
  BY DEF TypeOK, ProcessVote, VotesAfter, MrtAfter, TspsAfter, NewEvidence
<1>8. pc' = "drain" /\ vote' \in Inbound /\ Valid(vote')
  BY <1>1 DEF ProcessVote, VotesAfter, MrtAfter, TspsAfter, NewEvidence
<1>. QED
  BY <1>3, <1>4, <1>5, <1>6, <1>7, <1>8 DEF TypeOK, Valid, verify_vote_signature

\* Every step preserves the types.
LEMMA TypeStep == TypeOK /\ [Next]_vars => TypeOK'
<1>. SUFFICES ASSUME TypeOK, [Next]_vars PROVE TypeOK'
  OBVIOUS
<1>1. ASSUME NEW v \in Inbound, Deliver(v) PROVE TypeOK'
  BY <1>1, UpdaterAssumption DEF TypeOK, Deliver, Room, view, Valid, verify_vote_signature
<1>2. ASSUME NEW v \in Inbound, RecvIgnored(v) PROVE TypeOK'
  BY <1>2, RecvType DEF TypeOK, RecvIgnored, view, Valid, verify_vote_signature
<1>3. ASSUME NEW v \in Inbound, RecvUnknown(v) PROVE TypeOK'
  BY <1>3, RecvType DEF TypeOK, RecvUnknown, view
<1>4. ASSUME NEW v \in Inbound, RecvFuture(v) PROVE TypeOK'
  <2>1. v.replica_id \in Replicas
    BY <1>4, InboundType DEF RecvFuture
  <2>2. BacklogInsert(backlog[v.replica_id], v) \in SUBSET Checked
    BY <1>4, <2>1 DEF TypeOK, RecvFuture, BacklogInsert, Checked
  <2>3. backlog' \in [Replicas -> SUBSET Checked]
    BY <1>4, <2>1, <2>2 DEF TypeOK, RecvFuture, Checked
  <2>. QED
    BY <1>4, <2>3, RecvType
       DEF TypeOK, RecvFuture, Recv, view, Checked, Valid, verify_vote_signature
<1>5. ASSUME NEW v \in Inbound, RecvNext(v) PROVE TypeOK'
  <2>1. nextsn' \in [Replicas -> Nat]
    BY <1>5, InboundType DEF TypeOK, RecvNext, Expected
  <2>. QED
    BY <1>5, <2>1, RecvType DEF TypeOK, RecvNext, Expected, view, Valid, verify_vote_signature
<1>6. CASE ProcessVote
  BY <1>6, ProcessVoteType
<1>7. ASSUME NEW w \in Inbound, DrainNext(w) PROVE TypeOK'
  <2>1. vote.replica_id \in Replicas
    BY <1>7, InboundType DEF TypeOK, DrainNext
  <2>2. Valid(w)
    BY <1>7, <2>1 DEF TypeOK, DrainNext, First, Checked
  <2>3. backlog' \in [Replicas -> SUBSET Checked] /\ nextsn' \in [Replicas -> Nat]
    BY <1>7, <2>1 DEF TypeOK, DrainNext, Checked
  <2>. QED
    BY <1>7, <2>2, <2>3 DEF TypeOK, DrainNext, view, Checked, Valid, verify_vote_signature
<1>8. CASE DrainDone
  BY <1>8 DEF TypeOK, DrainDone, NothingToDrain, view
<1>9. CASE UNCHANGED vars
  BY <1>9 DEF TypeOK, vars, Valid, verify_vote_signature
<1>. QED
  BY <1>1, <1>2, <1>3, <1>4, <1>5, <1>6, <1>7, <1>8, <1>9 DEF Next, Updater

\* The initial values have their types.
LEMMA TypeInit == Init => TypeOK
  BY UpdaterAssumption DEF Init, TypeOK, Checked

\* Every variable of the updater always has its type, and the vote channel
\* never exceeds its capacity, for any set of replicas and any votes.
THEOREM TypeCorrect == Spec => []TypeOK
  BY TypeInit, TypeStep, PTL DEF Spec

-----------------------------------------------------------------------------
\* Initially nothing is applied and nothing is in a backlog.
LEMMA OrderInit == Init => OrderInv
  BY DEF Init, OrderInv, BacklogInv, UniqueInv, CountInv, TurnInv

\* A step that leaves alone what OrderInv is about, and leaves the updater
\* neither more nor less busy, preserves it.
LEMMA OrderFrame ==
  ASSUME OrderInv, UNCHANGED <<nextsn, backlog, applied, vote>>,
         pc' = pc \/ (pc = "recv" /\ pc' = "exited")
  PROVE  OrderInv'
  BY DEF OrderInv, BacklogInv, UniqueInv, CountInv, TurnInv, Busy

\* Taking the expected vote from the channel preserves OrderInv.
LEMMA OrderRecvNext ==
  ASSUME TypeOK, OrderInv, NEW v \in Inbound, RecvNext(v)
  PROVE  OrderInv'
<1>1. /\ v.replica_id \in Replicas
      /\ v.sequence_number \in Nat
      /\ pc = "recv" /\ pc' = "process" /\ vote' = v
      /\ nextsn' = [nextsn EXCEPT ![v.replica_id] = @ + 1]
      /\ UNCHANGED <<backlog, applied>>
      /\ v.sequence_number = nextsn[v.replica_id]
  BY InboundType DEF RecvNext, Expected, Recv
<1>2. nextsn \in [Replicas -> Nat] /\ backlog \in [Replicas -> SUBSET Checked]
  BY DEF TypeOK
<1>3. \A r \in Replicas : \A w \in backlog[r] : w.sequence_number \in Nat
  BY <1>2, InboundType DEF Checked
<1>4. BacklogInv'
  BY <1>1, <1>2, <1>3 DEF OrderInv, BacklogInv, Busy
<1>5. CountInv' /\ TurnInv'
  BY <1>1, <1>2 DEF OrderInv, CountInv, TurnInv
<1>. QED
  BY <1>1, <1>4, <1>5 DEF OrderInv, UniqueInv

\* Putting an early vote into the backlog preserves OrderInv.
LEMMA OrderRecvFuture ==
  ASSUME TypeOK, OrderInv, NEW v \in Inbound, RecvFuture(v)
  PROVE  OrderInv'
<1>1. /\ v.replica_id \in Replicas
      /\ v.sequence_number \in Nat
      /\ pc = "recv" /\ UNCHANGED <<pc, vote, nextsn, applied>>
      /\ v.sequence_number > nextsn[v.replica_id]
      /\ backlog' = [backlog EXCEPT ![v.replica_id] = BacklogInsert(@, v)]
  BY InboundType DEF RecvFuture, Recv
<1>2. nextsn \in [Replicas -> Nat] /\ backlog \in [Replicas -> SUBSET Checked]
  BY DEF TypeOK
<1>3. \A r \in Replicas : \A w \in backlog'[r] :
        w \in backlog[r] \/ (r = v.replica_id /\ w = v)
  BY <1>1, <1>2 DEF BacklogInsert
<1>4. BacklogInv'
  BY <1>1, <1>2, <1>3 DEF OrderInv, BacklogInv, Busy
<1>5. UniqueInv'
  BY <1>1, <1>2 DEF OrderInv, UniqueInv, BacklogInsert
<1>. QED
  BY <1>1, <1>4, <1>5 DEF OrderInv, CountInv, TurnInv

\* Processing the vote preserves OrderInv.
LEMMA OrderProcess ==
  ASSUME TypeOK, OrderInv, ProcessVote
  PROVE  OrderInv'
<1>1. /\ vote \in Inbound /\ Valid(vote) /\ vote.replica_id \in Replicas
      /\ pc = "process" /\ pc' = "drain" /\ UNCHANGED <<vote, nextsn, backlog>>
      /\ applied' = [applied EXCEPT ![vote.replica_id] = Append(@, vote)]
  BY InboundType DEF ProcessVote, VotesAfter, MrtAfter, TspsAfter, NewEvidence, TypeOK
<1>2. applied \in [Replicas -> Seq(Inbound)]
  BY DEF TypeOK
<1>3. BacklogInv'
  BY <1>1 DEF OrderInv, BacklogInv, Busy
<1>4. CountInv'
  BY <1>1, <1>2 DEF OrderInv, CountInv
<1>. QED
  BY <1>1, <1>3, <1>4 DEF OrderInv, UniqueInv, TurnInv

\* Taking the expected vote from the backlog preserves OrderInv.
LEMMA OrderDrainNext ==
  ASSUME TypeOK, OrderInv, NEW w \in Inbound, DrainNext(w)
  PROVE  OrderInv'
<1>. DEFINE r == vote.replica_id
<1>1. /\ r \in Replicas
      /\ w \in backlog[r] /\ w.sequence_number \in Nat
      /\ \A u \in backlog[r] : w.sequence_number <= u.sequence_number
      /\ w.sequence_number = nextsn[r]
      /\ pc = "drain" /\ pc' = "process" /\ vote' = w
      /\ nextsn' = [nextsn EXCEPT ![r] = @ + 1]
      /\ backlog' = [backlog EXCEPT ![r] = @ \ {w}]
      /\ applied' = applied
  BY InboundType DEF DrainNext, First, TypeOK
<1>2. nextsn \in [Replicas -> Nat] /\ backlog \in [Replicas -> SUBSET Checked]
  BY DEF TypeOK
<1>3. w.replica_id = r
  BY <1>1 DEF OrderInv, BacklogInv
<1>4. \A q \in Replicas : \A u \in backlog[q] : u.sequence_number \in Nat
  BY <1>2, InboundType DEF Checked
<1>5. \A u \in backlog[r] \ {w} : u.sequence_number >= nextsn[r] + 1
  BY <1>1, <1>2, <1>4 DEF OrderInv, UniqueInv
<1>6. BacklogInv'
  BY <1>1, <1>2, <1>3, <1>5 DEF OrderInv, BacklogInv, Busy
<1>7. UniqueInv'
  BY <1>1, <1>2 DEF OrderInv, UniqueInv
<1>8. CountInv' /\ TurnInv'
  BY <1>1, <1>2, <1>3 DEF OrderInv, CountInv, TurnInv
<1>. QED
  BY <1>6, <1>7, <1>8 DEF OrderInv

\* Leaving the backlog loop preserves OrderInv: the first entry is not the
\* expected vote, so no entry is.
LEMMA OrderDrainDone ==
  ASSUME TypeOK, OrderInv, DrainDone
  PROVE  OrderInv'
<1>. DEFINE r == vote.replica_id
<1>1. /\ r \in Replicas
      /\ pc = "drain" /\ pc' = "recv"
      /\ UNCHANGED <<nextsn, backlog, applied>>
  BY InboundType DEF DrainDone, NothingToDrain, TypeOK
<1>2. nextsn \in [Replicas -> Nat] /\ backlog \in [Replicas -> SUBSET Checked]
  BY DEF TypeOK
<1>3. \A q \in Replicas : \A w \in backlog[q] : w.sequence_number \in Nat
  BY <1>2, InboundType DEF Checked
<1>4. ASSUME NEW w \in backlog[r], w.sequence_number = nextsn[r] PROVE FALSE
  <2>1. First(backlog[r], w)
    BY <1>1, <1>4 DEF First, OrderInv, BacklogInv
  <2>. QED
    BY <1>4, <2>1 DEF DrainDone, NothingToDrain
<1>5. \A w \in backlog[r] : w.sequence_number > nextsn[r]
  BY <1>1, <1>2, <1>3, <1>4 DEF OrderInv, BacklogInv
<1>6. BacklogInv'
  BY <1>1, <1>5 DEF OrderInv, BacklogInv, Busy
<1>. QED
  BY <1>1, <1>6 DEF OrderInv, UniqueInv, CountInv, TurnInv

\* Every step preserves OrderInv.
LEMMA OrderStep == TypeOK /\ OrderInv /\ [Next]_vars => OrderInv'
<1>. SUFFICES ASSUME TypeOK, OrderInv, [Next]_vars PROVE OrderInv'
  OBVIOUS
<1>1. ASSUME NEW v \in Inbound, Deliver(v) PROVE OrderInv'
  BY <1>1, OrderFrame DEF Deliver, Room
<1>2. ASSUME NEW v \in Inbound, RecvIgnored(v) PROVE OrderInv'
  BY <1>2, OrderFrame DEF RecvIgnored
<1>3. ASSUME NEW v \in Inbound, RecvUnknown(v) PROVE OrderInv'
  BY <1>3, OrderFrame DEF RecvUnknown, Recv
<1>4. CASE UNCHANGED vars
  BY <1>4, OrderFrame DEF vars
<1>. QED
  BY <1>1, <1>2, <1>3, <1>4, OrderRecvNext, OrderRecvFuture, OrderProcess,
     OrderDrainNext, OrderDrainDone DEF Next, Updater

\* OrderInv is an invariant of the updater.
THEOREM OrderInvariant == Spec => [](TypeOK /\ OrderInv)
  BY TypeInit, OrderInit, TypeStep, OrderStep, PTL DEF Spec

\* Whenever the updater waits for a vote, no backlog holds the expected vote or
\* one already passed: the backlog loop, which looks at the first entry only,
\* never leaves a replica blocked behind such an entry.
THEOREM NothingStranded == Spec => []NoStrandedVote
<1>1. TypeOK /\ OrderInv => NoStrandedVote
  BY DEF OrderInv, BacklogInv, NoStrandedVote, Busy
<1>. QED
  BY <1>1, OrderInvariant, PTL

\* An updater with nothing left to do has applied all it can: the votes of each
\* replica up to the first number that never arrived.
NothingLeft ==
  pc = "recv" /\ votes = <<>> =>
    \A r \in Replicas, n \in Nat : 0..n \subseteq Held(r) => Len(applied[r]) > n

\* It is what the updater comes to rest with, for any votes in any order; that it
\* comes to rest is the liveness in EventuallyApplied.
THEOREM RestsWhenApplied == Spec => []NothingLeft
<1>1. TypeOK /\ OrderInv => NothingLeft
  <2>. SUFFICES ASSUME TypeOK, OrderInv, pc = "recv", votes = <<>>, NEW r \in Replicas,
                       NEW n \in Nat, 0..n \subseteq Held(r), ~(Len(applied[r]) > n)
                PROVE  FALSE
    BY DEF NothingLeft
  <2>1. nextsn[r] \in Nat /\ nextsn[r] = Len(applied[r])
    BY DEF TypeOK, OrderInv, CountInv
  <2>2. nextsn[r] \in Held(r)
    BY <2>1
  <2>3. \A w \in backlog[r] : w \in Checked /\ w.sequence_number > nextsn[r]
    BY DEF TypeOK, OrderInv, BacklogInv, Busy
  <2>4. Len(votes) = 0
    OBVIOUS
  <2>5. PICK w \in backlog[r] : w.sequence_number = nextsn[r]
    BY <2>1, <2>2, <2>4 DEF Held
  <2>. QED
    BY <2>1, <2>3, <2>5
<1>. QED
  BY <1>1, OrderInvariant, PTL

-----------------------------------------------------------------------------
\* A call of process_vote is a step of VoteOrder.
LEMMA ProcessIsApply ==
  ASSUME TypeOK, OrderInv, ProcessVote
  PROVE  Order!Next
<1>1. /\ vote \in Inbound /\ vote.replica_id \in Replicas
      /\ vote.signature = vote.replica_id
      /\ vote.sequence_number \in Nat
      /\ pc = "process"
      /\ applied' = [applied EXCEPT ![vote.replica_id] = Append(@, vote)]
  BY InboundType DEF ProcessVote, VotesAfter, MrtAfter, TspsAfter, NewEvidence, TypeOK
<1>2. PICK r \in Replicas : r = vote.replica_id
  BY <1>1
<1>3. nextsn[r] = Len(applied[r]) + 1 /\ nextsn[r] = vote.sequence_number + 1
  BY <1>1, <1>2 DEF OrderInv, CountInv, TurnInv
<1>4. Len(applied[r]) \in Nat
  BY DEF TypeOK
<1>5. vote.sequence_number = Len(applied[vote.replica_id])
  BY <1>1, <1>2, <1>3, <1>4
<1>. QED
  BY <1>1, <1>5 DEF Order!Next, Order!Apply

\* Every step is a step of VoteOrder or leaves what was applied alone.
LEMMA VoteOrderStep == TypeOK /\ OrderInv /\ [Next]_vars => [Order!Next]_applied
<1>. SUFFICES ASSUME TypeOK, OrderInv, [Next]_vars, ~ProcessVote
              PROVE  UNCHANGED applied
  BY ProcessIsApply
<1>. QED
  BY DEF Next, Updater, Deliver, Room, RecvIgnored, RecvUnknown, RecvFuture, RecvNext, Expected,
         DrainNext, DrainDone, vars

\* The updater implements VoteOrder, for any replicas and whatever arrives: it
\* applies each replica's signed votes in the order of their numbers, from 0,
\* without gaps and each once.
THEOREM ImplementsVoteOrder == Spec => AppliesInOrder
<1>1. Init => Order!Init
  BY DEF Init, Order!Init
<1>. QED
  BY <1>1, VoteOrderStep, OrderInvariant, PTL DEF Spec, AppliesInOrder, Order!Spec

-----------------------------------------------------------------------------
\* process_vote keeps mrt the newest timestamp applied: an older one is
\* ignored, any other one becomes the maximum.
LEMMA MrtProcess ==
  ASSUME TypeOK, MrtIsNewest, ProcessVote, NEW r \in Replicas
  PROVE  Newest(r, mrt[r])'
<1>. DEFINE n == Len(applied[r])
<1>1. /\ vote \in Inbound /\ vote.replica_id \in Replicas
      /\ vote.timestamp \in Nat
      /\ applied' = [applied EXCEPT ![vote.replica_id] = Append(@, vote)]
      /\ mrt' = IF Stale(vote) THEN mrt
                 ELSE [mrt EXCEPT ![vote.replica_id] = vote.timestamp]
  BY InboundType DEF ProcessVote, VotesAfter, MrtAfter, TspsAfter, NewEvidence, TypeOK
<1>2. /\ mrt \in [Replicas -> Nat]
      /\ applied \in [Replicas -> Seq(Inbound)]
      /\ Newest(r, mrt[r])
      /\ \A i \in 1..n : applied[r][i] \in Inbound
  BY DEF TypeOK, MrtIsNewest
<1>3. \A i \in 1..n : applied[r][i].timestamp \in Nat
  BY <1>2, InboundType
<1>4. CASE vote.replica_id # r
  BY <1>1, <1>2, <1>4 DEF Newest
<1>5. CASE vote.replica_id = r
  <2>1. /\ Len(applied'[r]) = n + 1
        /\ applied'[r][n + 1] = vote
        /\ \A i \in 1..n : applied'[r][i] = applied[r][i]
        /\ n \in Nat
    BY <1>1, <1>2, <1>5
  <2>2. CASE Stale(vote)
    BY <1>1, <1>2, <1>5, <2>1, <2>2 DEF Newest, Stale
  <2>3. CASE ~Stale(vote)
    <3>1. mrt'[r] = vote.timestamp /\ mrt[r] <= vote.timestamp
      BY <1>1, <1>2, <1>5, <2>3 DEF Stale
    <3>2. \A i \in 1..(n + 1) : applied'[r][i].timestamp <= vote.timestamp
      <4>. SUFFICES ASSUME NEW i \in 1..(n + 1)
                    PROVE  applied'[r][i].timestamp <= vote.timestamp
        OBVIOUS
      <4>1. CASE i \in 1..n
        BY <1>1, <1>2, <1>3, <2>1, <3>1, <4>1 DEF Newest
      <4>2. CASE i = n + 1
        BY <1>1, <2>1, <4>2
      <4>. QED
        BY <2>1, <4>1, <4>2
    <3>3. n + 1 \in 1..Len(applied'[r]) /\ applied'[r][n + 1].timestamp = mrt'[r]
      BY <2>1, <3>1
    <3>. QED
      BY <2>1, <3>1, <3>2, <3>3 DEF Newest
  <2>. QED
    BY <2>2, <2>3
<1>. QED
  BY <1>4, <1>5

\* mrt is the newest timestamp among the votes applied from a replica,
\* although the order of application is that of the numbers.
THEOREM MrtCorrect == Spec => []MrtIsNewest
<1>1. Init => MrtIsNewest
  BY DEF Init, MrtIsNewest, Newest
<1>2. TypeOK /\ MrtIsNewest /\ [Next]_vars => MrtIsNewest'
  <2>. SUFFICES ASSUME TypeOK, MrtIsNewest, [Next]_vars PROVE MrtIsNewest'
    OBVIOUS
  <2>1. CASE ProcessVote
    BY <2>1, MrtProcess DEF MrtIsNewest
  <2>2. CASE ~ProcessVote
    <3>1. UNCHANGED <<mrt, applied>>
      BY <2>2 DEF Next, Updater, Deliver, Room, RecvIgnored, RecvUnknown, RecvFuture,
                  RecvNext, DrainNext, DrainDone, vars, view
    <3>. QED
      BY <3>1 DEF MrtIsNewest, Newest
  <2>. QED
    BY <2>1, <2>2
<1>. QED
  BY <1>1, <1>2, TypeCorrect, PTL DEF Spec
-----------------------------------------------------------------------------
\* A heartbeat, and a transaction without a fresh vote of r, has no entry; any
\* other one has the timestamp of its first fresh vote.  TspsIsFirstFresh with
\* the CHOOSE replaced by its witness, which makes it inductive together with
\* MrtIsNewest: the set of fresh votes only grows at its upper end.
FirstFresh(r, tx) ==
  IF FreshFor(r, tx) = {} \/ is_heartbeat(tx)
    THEN tsps[tx][r] = Absent
    ELSE \E i \in FreshFor(r, tx) :
           /\ \A j \in FreshFor(r, tx) : i <= j
           /\ tsps[tx][r] = applied[r][i].timestamp
FirstFreshInv == \A r \in Replicas, tx \in Payloads : FirstFresh(r, tx)

\* Fresh votes are positions of applied.
LEMMA FreshForType ==
  ASSUME TypeOK, NEW r \in Replicas, NEW tx \in Payloads
  PROVE  FreshFor(r, tx) \subseteq 1..Len(applied[r]) /\ Len(applied[r]) \in Nat
  BY DEF TypeOK, FreshFor

\* The first fresh vote is the one CHOOSE picks.
LEMMA FirstIsChosen ==
  ASSUME TypeOK, FirstFreshInv
  PROVE  TspsIsFirstFresh
<1>. SUFFICES ASSUME NEW r \in Replicas, NEW tx \in Payloads,
                     FreshFor(r, tx) # {}, ~is_heartbeat(tx)
              PROVE  tsps[tx][r] = applied[r][CHOOSE i \in FreshFor(r, tx) :
                                     \A j \in FreshFor(r, tx) : i <= j].timestamp
  BY DEF TspsIsFirstFresh, FirstFreshInv, FirstFresh
<1>. DEFINE S == FreshFor(r, tx)
            c == CHOOSE i \in S : \A j \in S : i <= j
<1>1. PICK i \in S : (\A j \in S : i <= j) /\ tsps[tx][r] = applied[r][i].timestamp
  BY DEF FirstFreshInv, FirstFresh
<1>2. c \in S /\ \A j \in S : c <= j
  BY <1>1
<1>3. S \subseteq Nat
  BY FreshForType
<1>. HIDE DEF S, c
<1>4. i = c
  BY <1>1, <1>2, <1>3
<1>. QED
  BY <1>1, <1>4 DEF S, c

\* The vote process_vote is called with is fresh exactly if the check against
\* old timestamps lets it pass.
LEMMA FreshIfNotStale ==
  ASSUME TypeOK, MrtIsNewest, ProcessVote, NEW r \in Replicas, vote.replica_id = r,
         NEW n, n = Len(applied[r])
  PROVE  /\ n \in Nat /\ Len(applied'[r]) = n + 1 /\ applied'[r][n + 1] = vote
         /\ \A i \in 1..n : applied'[r][i] = applied[r][i]
         /\ \A i \in 1..n : Fresh(r, i)' <=> Fresh(r, i)
         /\ Fresh(r, n + 1)' <=> ~Stale(vote)
<1>1. /\ vote \in Inbound /\ vote.timestamp \in Nat
      /\ applied' = [applied EXCEPT ![r] = Append(@, vote)]
      /\ applied \in [Replicas -> Seq(Inbound)] /\ mrt \in [Replicas -> Nat]
  BY InboundType DEF ProcessVote, TypeOK
<1>2. /\ n \in Nat /\ Len(applied'[r]) = n + 1 /\ applied'[r][n + 1] = vote
      /\ \A i \in 1..n : applied'[r][i] = applied[r][i]
  BY <1>1
<1>3. \A i \in 1..n : applied[r][i] \in Inbound
  BY <1>1
<1>4. \A i \in 1..n : applied[r][i].timestamp \in Nat
  BY <1>3, InboundType
<1>5. (\A j \in 1..n : applied[r][j].timestamp <= vote.timestamp) <=> ~Stale(vote)
  <2>1. /\ \A j \in 1..n : applied[r][j].timestamp <= mrt[r]
        /\ mrt[r] = 0 \/ \E j \in 1..n : applied[r][j].timestamp = mrt[r]
    BY DEF MrtIsNewest, Newest
  <2>2. mrt[r] \in Nat /\ (Stale(vote) <=> vote.timestamp < mrt[r])
    BY <1>1 DEF Stale
  <2>. QED
    BY <1>1, <1>4, <2>1, <2>2
<1>6. \A i \in 1..n : Fresh(r, i)' <=> Fresh(r, i)
  <2>. SUFFICES ASSUME NEW i \in 1..n PROVE Fresh(r, i)' <=> Fresh(r, i)
    OBVIOUS
  <2>1. i \in 1..n /\ \A j \in 1..(i - 1) : j \in 1..n
    BY <1>2
  <2>. QED
    BY <1>2, <2>1 DEF Fresh
<1>7. Fresh(r, n + 1)' <=> \A j \in 1..n : applied[r][j].timestamp <= vote.timestamp
  <2>1. Fresh(r, n + 1)' <=>
          \A j \in 1..((n + 1) - 1) : applied'[r][j].timestamp <= applied'[r][n + 1].timestamp
    BY <1>2 DEF Fresh
  <2>2. 1..((n + 1) - 1) = 1..n
    BY <1>2
  <2>. QED
    BY <1>2, <2>1, <2>2
<1>. QED
  BY <1>2, <1>5, <1>6, <1>7

\* process_vote records the first fresh vote of a replica for a transaction, and
\* no later one.
LEMMA FirstFreshProcess ==
  ASSUME TypeOK, MrtIsNewest, FirstFreshInv, ProcessVote,
         NEW r \in Replicas, NEW tx \in Payloads
  PROVE  FirstFresh(r, tx)'
<1>0. PICK n : n = Len(applied[r])
  OBVIOUS
<1>1. /\ vote \in Inbound /\ vote.replica_id \in Replicas
      /\ vote.timestamp \in Nat /\ vote.transaction \in Payloads
      /\ applied' = [applied EXCEPT ![vote.replica_id] = Append(@, vote)]
      /\ tsps' = TspsAfter(vote)
      /\ tsps \in [Payloads -> [Replicas -> Nat \cup {Absent}]]
      /\ applied \in [Replicas -> Seq(Inbound)]
  BY InboundType DEF ProcessVote, TypeOK
<1>2. ASSUME tsps'[tx][r] = tsps[tx][r], FreshFor(r, tx)' = FreshFor(r, tx),
             \A i \in FreshFor(r, tx) : applied'[r][i] = applied[r][i]
      PROVE  FirstFresh(r, tx)'
  BY <1>2 DEF FirstFreshInv, FirstFresh
<1>3. CASE vote.replica_id # r
  <2>1. applied'[r] = applied[r] /\ tsps'[tx][r] = tsps[tx][r]
    BY <1>1, <1>3 DEF TspsAfter
  <2>. QED
    BY <1>2, <2>1 DEF FreshFor, Fresh
<1>4. CASE vote.replica_id = r
  <2>1. FreshFor(r, tx)' = {i \in 1..(n + 1) :
          applied'[r][i].transaction = tx /\ Fresh(r, i)'}
    BY <1>0, <1>4, FreshIfNotStale DEF FreshFor
  <2>2. \A i : i \in FreshFor(r, tx)' <=>
          \/ i \in FreshFor(r, tx)
          \/ i = n + 1 /\ vote.transaction = tx /\ ~Stale(vote)
    BY <1>0, <1>4, <2>1, FreshIfNotStale DEF FreshFor
  <2>3. \A i \in FreshFor(r, tx) : i \in 1..n /\ applied'[r][i] = applied[r][i]
    BY <1>0, <1>4, FreshIfNotStale, FreshForType
  <2>4. CASE Stale(vote) \/ vote.transaction # tx
    <3>1. FreshFor(r, tx)' = FreshFor(r, tx)
      BY <2>2, <2>4
    <3>2. tsps'[tx][r] = tsps[tx][r]
      BY <1>1, <2>4 DEF TspsAfter
    <3>. QED
      BY <1>2, <2>3, <3>1, <3>2
  <2>5. CASE ~Stale(vote) /\ vote.transaction = tx /\ is_heartbeat(tx)
    <3>1. tsps' = tsps /\ tsps[tx][r] = Absent
      BY <1>1, <2>5 DEF TspsAfter, FirstFreshInv, FirstFresh
    <3>. QED
      BY <2>5, <3>1 DEF FirstFresh, is_heartbeat
  <2>6. CASE ~Stale(vote) /\ vote.transaction = tx /\ ~is_heartbeat(tx)
    <3>0. n \in Nat /\ n + 1 \in FreshFor(r, tx)' /\ applied'[r][n + 1] = vote
      BY <1>0, <1>4, <2>2, <2>6, FreshIfNotStale
    <3>1. CASE FreshFor(r, tx) = {}
      <4>1. tsps'[tx][r] = vote.timestamp
        BY <1>1, <1>4, <2>6, <3>1 DEF TspsAfter, Recorded, FirstFreshInv, FirstFresh
      <4>2. \A j \in FreshFor(r, tx)' : n + 1 <= j
        BY <2>2, <3>0, <3>1
      <4>. QED
        BY <2>6, <3>0, <4>1, <4>2 DEF FirstFresh, is_heartbeat
    <3>2. CASE FreshFor(r, tx) # {}
      <4>1. PICK i \in FreshFor(r, tx) :
              (\A j \in FreshFor(r, tx) : i <= j) /\ tsps[tx][r] = applied[r][i].timestamp
        BY <2>6, <3>2 DEF FirstFreshInv, FirstFresh
      <4>2. applied[r][i] \in Inbound
        BY <1>0, <1>1, <2>3
      <4>3. tsps[tx][r] \in Nat
        BY <4>1, <4>2, InboundType
      <4>4. tsps' = tsps
        BY <1>1, <1>4, <2>6, <4>3 DEF TspsAfter, Recorded, Absent
      <4>5. i \in FreshFor(r, tx)' /\ \A j \in FreshFor(r, tx)' : i <= j
        BY <2>2, <2>3, <3>0, <4>1
      <4>6. tsps'[tx][r] = applied'[r][i].timestamp
        BY <2>3, <4>1, <4>4
      <4>. QED
        BY <2>6, <4>5, <4>6 DEF FirstFresh, is_heartbeat
    <3>. QED
      BY <3>1, <3>2
  <2>. QED
    BY <2>4, <2>5, <2>6
<1>. QED
  BY <1>3, <1>4

\* tsps is a function of the votes applied from each replica alone: the
\* timestamp of its first fresh vote for the transaction, whatever else arrives
\* in between.
THEOREM TspsCorrect == Spec => []TspsIsFirstFresh
<1>1. Init => FirstFreshInv
  <2>. SUFFICES ASSUME Init, NEW r \in Replicas, NEW tx \in Payloads PROVE FirstFresh(r, tx)
    BY DEF FirstFreshInv
  <2>1. applied[r] = <<>> /\ tsps[tx][r] = Absent
    BY DEF Init
  <2>2. FreshFor(r, tx) = {}
    BY <2>1 DEF FreshFor
  <2>. QED
    BY <2>1, <2>2 DEF FirstFresh
<1>2. TypeOK /\ MrtIsNewest /\ FirstFreshInv /\ [Next]_vars => FirstFreshInv'
  <2>. SUFFICES ASSUME TypeOK, MrtIsNewest, FirstFreshInv, [Next]_vars PROVE FirstFreshInv'
    OBVIOUS
  <2>1. CASE ProcessVote
    BY <2>1, FirstFreshProcess DEF FirstFreshInv
  <2>2. CASE ~ProcessVote
    <3>1. UNCHANGED <<tsps, applied>>
      BY <2>2 DEF Next, Updater, Deliver, Room, RecvIgnored, RecvUnknown, RecvFuture,
                  RecvNext, DrainNext, DrainDone, vars, view
    <3>. QED
      BY <3>1 DEF FirstFreshInv, FirstFresh, FreshFor, Fresh
  <2>. QED
    BY <2>1, <2>2
<1>. QED
  BY <1>1, <1>2, FirstIsChosen, MrtCorrect, TypeCorrect, PTL DEF Spec
=============================================================================
