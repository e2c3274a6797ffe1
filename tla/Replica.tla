------------------------------ MODULE Replica ------------------------------
(***************************************************************************)
(* A replica's vote production: the log and vote service, which gives each *)
(* transaction from the write channel a sequence number and a round, makes *)
(* it durable and broadcasts it (pod/src/log_vote_service.rs), and the     *)
(* heartbeat service, which takes numbers from the same atomic counter for *)
(* votes it broadcasts without logging (pod/src/heartbeat_service.rs), as  *)
(* started by pod/src/pod_network_node.rs.                                 *)
(*                                                                         *)
(* The two services are tasks of a multi-threaded runtime: between         *)
(* fetch_add on nextsn and get_current_round, and between these and the    *)
(* broadcast, the other task may run.  Signing is deterministic and shares *)
(* no state, so a vote's signature is implied by its other fields.         *)
(* The log is its whole records and the places where an append that did    *)
(* not end well left bytes; module ReplicaLog looks inside an append.      *)
(***************************************************************************)
EXTENDS Integers, Sequences, FiniteSets

CONSTANTS
  Txs,         \* transaction data that clients write
  Heartbeat,   \* the payload b"HEARTBEAT"
  WriteCap,    \* capacity of the write channel (100 in the code)
  MaxSn,       \* bound: sequence numbers taken in one run of the process
  MaxRound,    \* bound: the last round of the clock
  MaxBoots     \* bound: restarts of the process

ASSUME ReplicaAssumption ==
  /\ WriteCap \in Nat \ {0}
  /\ MaxSn \in Nat
  /\ MaxRound \in Nat
  /\ MaxBoots \in Nat

\* A vote, and the record of it in the log.
VoteRecord == [tx : Txs \cup {Heartbeat}, ts : Nat, sn : Nat]

\* A task holds no vote.
Nothing == <<>>

VARIABLES
  round,    \* get_current_round(): wall-clock time in rounds
  nextsn,   \* the atomic counter both services share
  writes,   \* write_receiver: transactions not yet taken
  wal,      \* the whole records in the log file
  torn,     \* k: left-over bytes lie in front of record k, or at the end
  bcast,    \* votes sent to the broadcast channel since the process started
  logpc,    \* where the log and vote service is
  logvote,  \* the vote it is making
  hbpc,     \* where the heartbeat service is
  hbvote,   \* the vote it is making
  boots,    \* restarts so far
  base,     \* history: the length of wal when the process started
  lost      \* history: numbers of this run whose append failed

logvars == <<logpc, logvote>>
hbvars == <<hbpc, hbvote>>
bootvars == <<boots, base>>
filevars == <<wal, torn>>
vars == <<round, nextsn, writes, filevars, bcast, logvars, hbvars, bootvars, lost>>

\* The process starts with the log file earlier ones left, all of it written
\* before now, and with a counter at 0.
Start(log, left) ==
  /\ round \in 0..MaxRound
  /\ \A i \in 1..Len(log) : log[i].ts <= round
  /\ nextsn = 0
  /\ writes = <<>>
  /\ wal = log
  /\ torn = left
  /\ bcast = <<>>
  /\ logpc = "recv"
  /\ logvote = Nothing
  /\ hbpc = "tick"
  /\ hbvote = Nothing
  /\ boots = 0
  /\ base = Len(log)
  /\ lost = {}

Init == Start(<<>>, {})

-----------------------------------------------------------------------------
\* Mutant: the connection does not wait for room in the channel.
NoLimit == TRUE

\* The write channel has room.
Room == Len(writes) < WriteCap

\* A connection's write task forwards a transaction of its client; it waits
\* while the channel is full.
Write(tx) ==
  /\ Room
  /\ writes' = Append(writes, tx)
  /\ UNCHANGED <<round, nextsn, filevars, bcast, logvars, hbvars, bootvars, lost>>

\* Time passes.
Tick ==
  /\ round < MaxRound
  /\ round' = round + 1
  /\ UNCHANGED <<nextsn, writes, filevars, bcast, logvars, hbvars, bootvars, lost>>

\* Mutant: the number is read before another task takes it.
StaleNumber == IF nextsn > 0 THEN nextsn - 1 ELSE 0

\* fetch_add(1) on the counter: the number, and what it leaves.
Number == nextsn

\* The log and vote service takes a transaction and a sequence number.
LogTake ==
  /\ logpc = "recv"
  /\ writes # <<>>
  /\ nextsn < MaxSn
  /\ writes' = Tail(writes)
  /\ logvote' = [tx |-> Head(writes), ts |-> 0, sn |-> Number]
  /\ nextsn' = Number + 1
  /\ logpc' = "stamp"
  /\ UNCHANGED <<round, filevars, bcast, hbvars, bootvars, lost>>

\* Mutant: the round is kept in too few bits.
StampedNarrow(v) == [v EXCEPT !.ts = round % 2]

\* A vote with the current round.
Stamped(v) == [v EXCEPT !.ts = round]

\* It reads the clock.
LogStamp ==
  /\ logpc = "stamp"
  /\ logvote' = Stamped(logvote)
  /\ logpc' = "append"
  /\ UNCHANGED <<round, nextsn, writes, filevars, bcast, hbvars, bootvars, lost>>

\* Mutant: the record is not appended.
NotLogged(v) == wal

\* The log with the record of a vote.
Logged(v) == Append(wal, v)

\* The record is durable.
LogAppend ==
  /\ logpc = "append"
  /\ wal' = Logged(logvote)
  /\ logpc' = "broadcast"
  /\ UNCHANGED <<round, nextsn, writes, torn, bcast, logvote, hbvars, bootvars, lost>>

\* An append that stops on its way leaves nothing in the file, the whole record
\* (only the sync was missing), or a part of it, which nothing removes.
AppendStops ==
  \/ UNCHANGED filevars
  \/ wal' = Logged(logvote) /\ UNCHANGED torn
  \/ torn' = torn \cup {Len(wal) + 1} /\ UNCHANGED wal

\* The append fails: the service goes on with the next transaction, and no vote
\* with this number is broadcast.
LogAppendFails ==
  /\ logpc = "append"
  /\ AppendStops
  /\ lost' = lost \cup {logvote.sn}
  /\ logpc' = "recv"
  /\ logvote' = Nothing
  /\ UNCHANGED <<round, nextsn, writes, bcast, hbvars, bootvars>>

\* Mutant: a vote that has its number is not sent.
NotBroadcast(v) == bcast

\* A vote goes to all connections.  (The comms service holds a receiver for
\* as long as the process runs, so the send succeeds.)
Broadcast(v) == Append(bcast, v)

LogBroadcast ==
  /\ logpc = "broadcast"
  /\ bcast' = Broadcast(logvote)
  /\ logpc' = "recv"
  /\ logvote' = Nothing
  /\ UNCHANGED <<round, nextsn, writes, filevars, hbvars, bootvars, lost>>

\* A tick of the heartbeat's interval, whose phase and missed ticks may put
\* any number of them into a round: the service takes a sequence number.
HbTake ==
  /\ hbpc = "tick"
  /\ nextsn < MaxSn
  /\ hbvote' = [tx |-> Heartbeat, ts |-> 0, sn |-> Number]
  /\ nextsn' = Number + 1
  /\ hbpc' = "stamp"
  /\ UNCHANGED <<round, writes, filevars, bcast, logvars, bootvars, lost>>

\* It reads the clock.
HbStamp ==
  /\ hbpc = "stamp"
  /\ hbvote' = Stamped(hbvote)
  /\ hbpc' = "broadcast"
  /\ UNCHANGED <<round, nextsn, writes, filevars, bcast, logvars, bootvars, lost>>

\* It sends the heartbeat to all connections; nothing is logged.
HbBroadcast ==
  /\ hbpc = "broadcast"
  /\ bcast' = Broadcast(hbvote)
  /\ hbpc' = "tick"
  /\ hbvote' = Nothing
  /\ UNCHANGED <<round, nextsn, writes, filevars, logvars, bootvars, lost>>

\* The process dies, perhaps inside an append, and is started again with the
\* same log file: the log is opened for appending, and the counter starts
\* from 0.  (The machine stays up, and so does what was written; module
\* ReplicaLog has the crashes that take what was not synced.)
Restart ==
  /\ boots < MaxBoots
  /\ boots' = boots + 1
  /\ IF logpc = "append" THEN AppendStops ELSE UNCHANGED filevars
  /\ base' = Len(wal')
  /\ nextsn' = 0
  /\ writes' = <<>>
  /\ bcast' = <<>>
  /\ logpc' = "recv"
  /\ logvote' = Nothing
  /\ hbpc' = "tick"
  /\ hbvote' = Nothing
  /\ lost' = {}
  /\ UNCHANGED round

LogService == LogTake \/ LogStamp \/ LogAppend \/ LogAppendFails \/ LogBroadcast
HbService == HbTake \/ HbStamp \/ HbBroadcast

Next ==
  \/ \E tx \in Txs : Write(tx)
  \/ Tick
  \/ LogService
  \/ HbService
  \/ Restart

\* Both services are tasks the runtime polls whenever they can go on.
Spec == Init /\ [][Next]_vars /\ WF_vars(LogService) /\ WF_vars(HbService)

-----------------------------------------------------------------------------
(***************************************************************************)
(* Properties.                                                             *)
(***************************************************************************)

\* Every variable has its type; the write channel never exceeds its capacity.
TypeOK ==
  /\ round \in Nat
  /\ nextsn \in Nat
  /\ writes \in Seq(Txs)
  /\ Len(writes) <= WriteCap
  /\ wal \in Seq(VoteRecord)
  /\ torn \subseteq 1..(Len(wal) + 1)
  /\ bcast \in Seq(VoteRecord)
  /\ logpc \in {"recv", "stamp", "append", "broadcast"}
  /\ IF logpc = "recv" THEN logvote = Nothing ELSE logvote \in VoteRecord
  /\ hbpc \in {"tick", "stamp", "broadcast"}
  /\ IF hbpc = "tick" THEN hbvote = Nothing ELSE hbvote \in VoteRecord
  /\ boots \in Nat
  /\ base \in 0..Len(wal)
  /\ lost \subseteq Nat

\* The sequence numbers the tasks hold.
LogHolds(n) == logpc # "recv" /\ logvote.sn = n
HbHolds(n) == hbpc # "tick" /\ hbvote.sn = n

\* No number is used twice in one run of the process: no two broadcast votes,
\* and no vote still in a task's hands, share one, although two tasks draw from
\* the counter and broadcast in any order.  (The next run starts from 0 again.)
SnUsedOnce ==
  /\ \A i, j \in 1..Len(bcast) : bcast[i].sn = bcast[j].sn => i = j
  /\ \A i \in 1..Len(bcast) : /\ ~LogHolds(bcast[i].sn)
                              /\ ~HbHolds(bcast[i].sn)
                              /\ bcast[i].sn \notin lost
  /\ \A n \in lost : ~LogHolds(n) /\ ~HbHolds(n)
  /\ logpc # "recv" => ~HbHolds(logvote.sn)

\* No number is skipped either: every number below the counter was broadcast,
\* is in a task's hands, or belongs to a record whose append failed.
\* Clients apply a replica's votes in the order of their numbers, without
\* gaps, so a number that is none of these would stop them for good.
SnAccounted ==
  \A n \in 0..(nextsn - 1) :
    \/ \E i \in 1..Len(bcast) : bcast[i].sn = n
    \/ LogHolds(n)
    \/ HbHolds(n)
    \/ n \in lost

\* The votes sent since the process started, and the one it is about to send.
Outgoing == IF logpc = "broadcast" THEN Append(bcast, logvote) ELSE bcast

\* The positions of this run's transactions in the log and among these votes.
IsTx(v) == v.tx # Heartbeat /\ v.sn \notin lost
LoggedTx == {i \in (base + 1)..Len(wal) : IsTx(wal[i])}
SentTx == {j \in 1..Len(Outgoing) : IsTx(Outgoing[j])}

\* The transaction votes of this run of the process are broadcast in the order
\* of the log, each once and after its record is durable; at most the last
\* record is not broadcast yet, failed appends aside.  Connections rely on it
\* when they join the log's records and the broadcast into one stream.
BroadcastFollowsLog ==
  /\ {wal[i] : i \in LoggedTx} = {Outgoing[j] : j \in SentTx}
  /\ \A i, k \in LoggedTx, j, l \in SentTx :
       wal[i] = Outgoing[j] /\ wal[k] = Outgoing[l] => (i < k <=> j < l)

\* The numbers of this run that the log and vote service gave to its records;
\* the other votes are the heartbeat service's.
LogNos == {wal[i].sn : i \in (base + 1)..Len(wal)}
SameService(v, w) == v.sn \in LogNos <=> w.sn \in LogNos

\* A vote can have a smaller number and a later round than another, and a
\* client then drops the other as stale.  It only happens to votes the other
\* service makes while this one is between number and clock: from the next
\* number this service takes on, no vote has an earlier round.
OvertakenOnlyInHand ==
  \A i, j, k \in 1..Len(bcast) :
    /\ SameService(bcast[i], bcast[k])
    /\ bcast[i].sn < bcast[k].sn
    /\ bcast[k].sn <= bcast[j].sn
    => bcast[i].ts <= bcast[j].ts

\* A number that was taken is settled in the end: broadcast, lost with its
\* record, or forgotten in a restart.
NumbersSettle ==
  \A n \in 0..(MaxSn - 1), b \in 0..MaxBoots :
    (nextsn > n /\ boots = b) ~>
      \/ boots > b
      \/ \E i \in 1..Len(bcast) : bcast[i].sn = n
      \/ n \in lost
=============================================================================
