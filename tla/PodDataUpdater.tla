--------------------------- MODULE PodDataUpdater ---------------------------
(***************************************************************************)
(* The client's pod data updater (client/src/pod_data_updater.rs): one     *)
(* task that takes the votes of all replicas from an mpsc channel, puts    *)
(* the votes of each replica back into sequence-number order with a        *)
(* backlog, and folds them into the client's view of the pod: mrt (most    *)
(* recent timestamp of each replica), tsps (timestamp each replica gave    *)
(* each transaction) and ts_vote_msg (one vote kept for each timestamp).   *)
(*                                                                         *)
(* Granularity: the task releases its locks between the sequence-number    *)
(* section, the mrt section (process_vote) and every turn of the backlog   *)
(* loop, so each of these is an action of its own and RPC readers may look *)
(* in between.  Module ReadLocks models the locks inside the mrt section.  *)
(***************************************************************************)
EXTENDS Integers, Sequences, FiniteSets

CONSTANTS
  Replicas,     \* the ids in the client's replica configuration
  ReplicaIds,   \* the ids a vote message may carry
  Payloads,     \* transaction data
  Heartbeat,    \* the payload b"HEARTBEAT"
  NoTx,         \* a Vote message whose transaction field is absent
  NoSig,        \* a signature no key verifies
  Inbound,      \* the votes that may arrive over the replica connections
  ChannelSize   \* capacity of the vote channel (100 in the code)

(***************************************************************************)
(* A vote.  Data, timestamp and sequence number are concatenated with the  *)
(* last two at fixed width, so a signature determines all three; it is     *)
(* abstracted to the id of the key that made it.                           *)
(***************************************************************************)
Vote == [replica_id : ReplicaIds, timestamp : Nat, sequence_number : Nat,
         signature : ReplicaIds \cup {NoSig},
         transaction : Payloads \cup {NoTx}]

ASSUME UpdaterAssumption ==
  /\ Replicas \subseteq ReplicaIds
  /\ IsFiniteSet(Replicas)
  /\ Heartbeat \in Payloads
  /\ NoTx \notin Payloads
  /\ NoSig \notin ReplicaIds
  /\ Inbound \subseteq Vote
  /\ ChannelSize \in Nat \ {0}

\* No entry in an inner map of tsps (timestamps are unsigned).
Absent == -1

\* No vote is being processed.
NoVote == <<>>

VARIABLES
  votes,        \* vote_message_receiver: decoded votes not yet taken
  nextsn,       \* next sequence number expected from each replica
  backlog,      \* votes that arrived early, at most one per sequence number
  mrt,          \* most recent timestamp of each replica
  tsps,         \* tsps[tx][r]: the timestamp r gave tx, or Absent
  ts_vote_msg,  \* one vote for each timestamp seen
  pc,           \* where the updater task is
  vote,         \* the vote being processed
  applied       \* history: the votes process_vote was called with, in order

view == <<mrt, tsps, ts_vote_msg>>
vars == <<votes, nextsn, backlog, mrt, tsps, ts_vote_msg, pc, vote, applied>>

Init ==
  /\ votes = <<>>
  /\ nextsn = [r \in Replicas |-> 0]
  /\ backlog = [r \in Replicas |-> {}]
  /\ mrt = [r \in Replicas |-> 0]
  /\ tsps = [tx \in Payloads |-> [r \in Replicas |-> Absent]]
  /\ ts_vote_msg = {}
  /\ pc = "recv"
  /\ vote = NoVote
  /\ applied = [r \in Replicas |-> <<>>]

-----------------------------------------------------------------------------
\* Mutant: the sender does not wait for room in the channel.
NoLimit == TRUE

\* The vote channel has room.
Room == Len(votes) < ChannelSize

\* A replica connection hands a decoded vote to the channel; it waits while
\* the channel is full.
Deliver(v) ==
  /\ pc # "exited"
  /\ Room
  /\ votes' = Append(votes, v)
  /\ UNCHANGED <<nextsn, backlog, view, pc, vote, applied>>

verify_vote_signature(v) == v.signature = v.replica_id

is_heartbeat(tx) == tx = Heartbeat

\* The updater takes the next vote from the channel.
Recv(v) ==
  /\ pc = "recv"
  /\ votes # <<>>
  /\ v = Head(votes)
  /\ votes' = Tail(votes)

\* A vote that passes the checks made before the sequence number is looked at.
Valid(v) ==
  /\ v.transaction # NoTx
  /\ v.replica_id \in Replicas
  /\ verify_vote_signature(v)

\* The vote is dropped: no transaction, bad signature, or already processed.
RecvIgnored(v) ==
  /\ Recv(v)
  /\ \/ v.transaction = NoTx
     \/ v.replica_id \in Replicas /\ ~verify_vote_signature(v)
     \/ Valid(v) /\ v.sequence_number < nextsn[v.replica_id]
  /\ UNCHANGED <<nextsn, backlog, view, pc, vote, applied>>

\* The replica is not configured: the task returns an error, and with it the
\* select! that runs the client.
RecvUnknown(v) ==
  /\ Recv(v)
  /\ v.transaction # NoTx
  /\ v.replica_id \notin Replicas
  /\ pc' = "exited"
  /\ UNCHANGED <<nextsn, backlog, view, vote, applied>>

\* backlog[r].insert(sequence_number, vote) replaces an earlier vote.
BacklogInsert(b, v) ==
  {w \in b : w.sequence_number # v.sequence_number} \cup {v}

\* The vote is early: it waits in the backlog.
RecvFuture(v) ==
  /\ Recv(v)
  /\ Valid(v)
  /\ v.sequence_number > nextsn[v.replica_id]
  /\ backlog' = [backlog EXCEPT ![v.replica_id] = BacklogInsert(@, v)]
  /\ UNCHANGED <<nextsn, view, pc, vote, applied>>

\* Mutant: any vote that is not old counts as the expected one.
ExpectedOrLater(v) == v.sequence_number >= nextsn[v.replica_id]

\* The vote is the expected one.
Expected(v) == v.sequence_number = nextsn[v.replica_id]

RecvNext(v) ==
  /\ Recv(v)
  /\ Valid(v)
  /\ Expected(v)
  /\ nextsn' = [nextsn EXCEPT ![v.replica_id] = @ + 1]
  /\ vote' = v
  /\ pc' = "process"
  /\ UNCHANGED <<backlog, view, applied>>

\* Mutants: the old-timestamp check is missing; a later vote of a replica for
\* the same transaction replaces the first.
NeverStale(v) == FALSE
NeverRecorded(v) == FALSE

\* A vote whose timestamp is older than one already taken from its replica.
Stale(v) == v.timestamp < mrt[v.replica_id]

\* tsps keeps the first timestamp a replica gives a transaction.
Recorded(v) == tsps[v.transaction][v.replica_id] # Absent

\* Mutant: heartbeats return before their vote is kept in ts_vote_msg.
NewTxEvidence(v) ==
  ~is_heartbeat(v.transaction) /\ \A w \in ts_vote_msg : w.timestamp # v.timestamp

\* ts_vote_msg keeps the first vote with a timestamp.
NewEvidence(v) == \A w \in ts_vote_msg : w.timestamp # v.timestamp

\* What a vote makes of the three maps.
VotesAfter(v) == IF NewEvidence(v) THEN ts_vote_msg \cup {v} ELSE ts_vote_msg
MrtAfter(v) == IF Stale(v) THEN mrt ELSE [mrt EXCEPT ![v.replica_id] = v.timestamp]
TspsAfter(v) ==
  IF Stale(v) \/ is_heartbeat(v.transaction) \/ Recorded(v)
    THEN tsps
    ELSE [tsps EXCEPT ![v.transaction][v.replica_id] = v.timestamp]

\* process_vote, under the mrt write lock.
ProcessVote ==
  /\ pc = "process"
  /\ ts_vote_msg' = VotesAfter(vote)
  /\ mrt' = MrtAfter(vote)
  /\ tsps' = TspsAfter(vote)
  /\ applied' = [applied EXCEPT ![vote.replica_id] = Append(@, vote)]
  /\ pc' = "drain"
  /\ UNCHANGED <<votes, nextsn, backlog, vote>>

\* The entry first_key_value() finds in a replica's backlog.
First(b, w) == w \in b /\ \A u \in b : w.sequence_number <= u.sequence_number

\* One turn of the backlog loop: the first entry is the expected one.
DrainNext(w) ==
  /\ pc = "drain"
  /\ First(backlog[vote.replica_id], w)
  /\ w.sequence_number = nextsn[vote.replica_id]
  /\ backlog' = [backlog EXCEPT ![vote.replica_id] = @ \ {w}]
  /\ nextsn' = [nextsn EXCEPT ![vote.replica_id] = @ + 1]
  /\ vote' = w
  /\ pc' = "process"
  /\ UNCHANGED <<votes, view, applied>>

\* Mutant: the backlog loop may stop although the expected vote is there.
MayStop == TRUE

\* The backlog is empty, or its first entry is not the expected one.
NothingToDrain ==
  \A w \in backlog[vote.replica_id] :
    First(backlog[vote.replica_id], w) => w.sequence_number # nextsn[vote.replica_id]

DrainDone ==
  /\ pc = "drain"
  /\ NothingToDrain
  /\ pc' = "recv"
  /\ vote' = NoVote
  /\ UNCHANGED <<votes, nextsn, backlog, view, applied>>

Updater ==
  \/ \E v \in Inbound : \/ RecvIgnored(v)
                        \/ RecvUnknown(v)
                        \/ RecvFuture(v)
                        \/ RecvNext(v)
  \/ ProcessVote
  \/ \E w \in Inbound : DrainNext(w)
  \/ DrainDone

Next == Updater \/ \E v \in Inbound : Deliver(v)

\* The updater is a future the tokio runtime polls whenever it can go on; the
\* replicas owe nothing.
Spec == Init /\ [][Next]_vars /\ WF_vars(Updater)

-----------------------------------------------------------------------------
(***************************************************************************)
(* Properties.                                                             *)
(***************************************************************************)

\* The votes that pass the checks.
Checked == {v \in Inbound : Valid(v)}

\* Every variable has its type, only checked votes are in the backlogs, and
\* the channel never exceeds its capacity.
TypeOK ==
  /\ votes \in Seq(Inbound)
  /\ Len(votes) <= ChannelSize
  /\ nextsn \in [Replicas -> Nat]
  /\ backlog \in [Replicas -> SUBSET Checked]
  /\ mrt \in [Replicas -> Nat]
  /\ tsps \in [Payloads -> [Replicas -> Nat \cup {Absent}]]
  /\ ts_vote_msg \subseteq Inbound
  /\ pc \in {"recv", "process", "drain", "exited"}
  /\ pc \in {"process", "drain"} => vote \in Inbound /\ Valid(vote)
  /\ applied \in [Replicas -> Seq(Inbound)]

\* Whenever the updater goes back to wait for a vote, no backlog holds a vote
\* it could have applied or one it has already passed: the loop compares only
\* the first key with nextsn, so such an entry would block its replica for good.
NoStrandedVote ==
  pc = "recv" =>
    \A r \in Replicas : \A w \in backlog[r] : w.sequence_number > nextsn[r]

\* The updater implements VoteOrder: in-order, gap-free, exactly-once
\* application of each replica's signed votes.
Order == INSTANCE VoteOrder WITH Votes <- Inbound
AppliesInOrder == Order!Spec

\* mrt[r] is the newest timestamp among the votes applied from r: the check
\* against old timestamps makes mrt a maximum although sequence numbers, not
\* timestamps, decide the order of application.
Newest(r, t) ==
  /\ \A i \in 1..Len(applied[r]) : applied[r][i].timestamp <= t
  /\ t = 0 \/ \E i \in 1..Len(applied[r]) : applied[r][i].timestamp = t
MrtIsNewest == \A r \in Replicas : Newest(r, mrt[r])

\* The i-th vote applied from r is at least as new as all the ones before it.
Fresh(r, i) ==
  \A j \in 1..(i - 1) : applied[r][j].timestamp <= applied[r][i].timestamp
FreshFor(r, tx) ==
  {i \in 1..Len(applied[r]) : applied[r][i].transaction = tx /\ Fresh(r, i)}

\* tsps[tx][r] is the timestamp of the first fresh vote of r for tx, and no
\* heartbeat is ever recorded: a function of the votes applied from r alone,
\* independent of how they interleave with other replicas and with repeats.
TspsIsFirstFresh ==
  \A r \in Replicas, tx \in Payloads :
    LET S == FreshFor(r, tx) IN
    tsps[tx][r] = IF S = {} \/ is_heartbeat(tx) THEN Absent
                  ELSE applied[r][CHOOSE i \in S : \A j \in S : i <= j].timestamp

\* The sequence numbers of r the updater has applied or holds.
Held(r) ==
  {n \in 0..(nextsn[r] - 1) : TRUE}
    \cup {w.sequence_number : w \in backlog[r]}
    \cup {votes[i].sequence_number : i \in
            {j \in 1..Len(votes) : Valid(votes[j]) /\ votes[j].replica_id = r}}

\* Once all the votes of a replica up to some number have arrived, in
\* whatever order, they are all applied, unless the task fails first.
EventuallyApplied ==
  \A r \in Replicas, n \in {v.sequence_number : v \in Inbound} :
    0..n \subseteq Held(r) ~> Len(applied[r]) > n \/ pc = "exited"
=============================================================================
