------------------------------ MODULE VotePath ------------------------------
(***************************************************************************)
(* The way of a vote from a replica to a client's view: a Replica, one     *)
(* ClientConnection, the client's end of it (handle_replica_connection in  *)
(* client/src/replica_comms_service.rs) and its PodDataUpdater.  The       *)
(* client may connect at any time, also after the replica restarted.  A    *)
(* connection may break; the client never makes it again, so a restart     *)
(* after the client connected is no more than that.                        *)
(***************************************************************************)
EXTENDS Integers, Sequences, FiniteSets

CONSTANTS
  Txs, Heartbeat, WriteCap, MaxSn, MaxRound,   \* module Replica
  Rid, RingSize, MergeCap, SockCap,            \* module ClientConnection
  ChannelSize, NoTx, NoSig,                    \* module PodDataUpdater
  EarlierLogs   \* log files that earlier runs of the process can leave

VARIABLES
  round, nextsn, writes, wal, torn, bcast, logpc, logvote, hbpc, hbvote, boots, base,
  lost,
  conn, cursor, funnel, held, catchup, pos, mapped, merged, forwarder, sock,
  votes, expected, backlog, mrt, tsps, ts_vote_msg, pc, vote, applied,
  since,        \* history: the counter when the client was accepted
  known         \* history: the length of the log when it was accepted

replicavars == <<round, nextsn, writes, wal, torn, bcast, logpc, logvote, hbpc, hbvote,
                 boots, base, lost>>
connvars == <<conn, cursor, funnel, held, catchup, pos, mapped, merged, forwarder, sock>>
clientvars == <<votes, expected, backlog, mrt, tsps, ts_vote_msg, pc, vote, applied>>
historyvars == <<since, known>>
vars == <<replicavars, connvars, clientvars, historyvars>>

R == INSTANCE Replica WITH MaxBoots <- 0

\* A vote whose signature does not verify, as misread bytes make it.
Garbled ==
  [replica_id |-> Rid, timestamp |-> 0, sequence_number |-> 0,
   signature |-> NoSig, transaction |-> NoTx]

C == INSTANCE ClientConnection

\* Every record and every vote the replica can make within the bounds, and what
\* can be on the wire.
Records == [tx : Txs \cup {Heartbeat}, ts : 0..MaxRound, sn : 0..(MaxSn - 1)]
Issued == {C!ToVote(v) : v \in Records}
Wire == Issued \cup {Garbled}

U == INSTANCE PodDataUpdater
       WITH Replicas <- {Rid}, ReplicaIds <- {Rid},
            Payloads <- Txs \cup {Heartbeat}, Inbound <- Wire,
            nextsn <- expected

ASSUME VotePathAssumption ==
  /\ {RingSize, MergeCap, SockCap, ChannelSize, WriteCap} \subseteq Nat \ {0}
  /\ MaxSn \in Nat
  /\ MaxRound \in Nat
  /\ NoTx \notin Txs \cup {Heartbeat}
  /\ NoSig # Rid

ASSUME EarlierLogsAssumption ==
  \A file \in EarlierLogs :
    file.log \in Seq(Records) /\ file.torn \subseteq 1..(Len(file.log) + 1)

Init ==
  /\ \E file \in EarlierLogs : R!Start(file.log, file.torn)
  /\ C!Init /\ U!Init
  /\ since = 0 /\ known = 0

-----------------------------------------------------------------------------
\* This client or another one writes a transaction.
Write(tx) == R!Write(tx) /\ UNCHANGED <<connvars, clientvars, historyvars>>

Accept ==
  /\ C!Accept
  /\ since' = nextsn
  /\ known' = Len(wal)
  /\ UNCHANGED <<replicavars, clientvars>>

Close == C!Close /\ UNCHANGED <<replicavars, clientvars, historyvars>>

\* handle_replica_connection decodes a vote and hands it to the vote channel;
\* it reads nothing more from the socket while the channel is full.
Receive(v) ==
  /\ C!Take(v)
  /\ U!Deliver(v)
  /\ UNCHANGED <<replicavars, historyvars>>

Tick == R!Tick /\ UNCHANGED <<connvars, clientvars, historyvars>>
LogService == R!LogService /\ UNCHANGED <<connvars, clientvars, historyvars>>
HbService == R!HbService /\ UNCHANGED <<connvars, clientvars, historyvars>>
Funnel == C!Funnel /\ UNCHANGED <<replicavars, clientvars, historyvars>>
CatchUp == C!CatchUp /\ UNCHANGED <<replicavars, clientvars, historyvars>>
Forwarder == C!Forwarder /\ UNCHANGED <<replicavars, clientvars, historyvars>>
Updater == U!Updater /\ UNCHANGED <<replicavars, connvars, historyvars>>

ConnectionTasks == Funnel \/ CatchUp \/ Forwarder

Next ==
  \/ Tick
  \/ \E tx \in Txs : Write(tx)
  \/ LogService
  \/ HbService
  \/ Accept
  \/ Funnel
  \/ CatchUp
  \/ Forwarder
  \/ Close
  \/ \E v \in Wire : Receive(v)
  \/ Updater

\* Every task is polled by its runtime whenever it can go on.  Nobody has to
\* write, to connect or to leave.
Spec ==
  /\ Init /\ [][Next]_vars
  /\ WF_vars(LogService) /\ WF_vars(HbService)
  /\ WF_vars(Funnel) /\ WF_vars(CatchUp) /\ WF_vars(Forwarder)
  /\ WF_vars(\E v \in Wire : Receive(v))
  /\ WF_vars(Updater)

-----------------------------------------------------------------------------
(***************************************************************************)
(* Properties.                                                             *)
(***************************************************************************)

\* The client applied a vote, keeps it for later or is working on it.
At(s, v) == \E i \in 1..Len(s) : s[i] = v
Has(v) ==
  \/ At(applied[Rid], v)
  \/ v \in backlog[Rid]
  \/ pc = "process" /\ vote = v

\* It will come to the client by way of the funnel, or in the catch-up.
FunnelHas(v) ==
  \/ funnel = "send" /\ C!ToVote(held) = v
  \/ \E j \in cursor..Len(bcast) : C!ToVote(bcast[j]) = v
CatchUpHas(i) == catchup = "open" \/ (catchup = "send" /\ i \in pos..mapped)
OnTheWay(v) == At(votes, v) \/ At(sock, v) \/ At(merged, v) \/ FunnelHas(v)

\* A record is readable if the file is in order up to it.  A client is owed the
\* vote of every record that was appended after it connected, and of every
\* readable one from before, if the log can be opened: except where the append
\* was reported to have failed.
Readable(i) == \A k \in torn : k > i
Owed(i) ==
  /\ i <= base \/ wal[i].sn \notin lost
  /\ i > known \/ (catchup # "failed" /\ Readable(i))

\* The client has another vote with this number, of another run of the process.
Replaced(i) ==
  \E w \in Issued :
    /\ Has(w) /\ w.sequence_number = wal[i].sn
    /\ i <= base \/ \E j \in 1..base : w = C!ToVote(wal[j])

\* Joining the log and the broadcast leaves no hole: once a client is
\* connected, every vote it is owed is with it, on the way to it, or about to
\* be broadcast, because the subscription is made before the log is opened and
\* records are appended before they are broadcast.  The exceptions are a funnel
\* that fell behind and, since the counter starts again with the process, a
\* number for which the client has the vote of another run.
NoHoleInStream ==
  conn = "open" /\ funnel # "exited" =>
    \A i \in 1..Len(wal) : Owed(i) =>
      LET v == C!ToVote(wal[i])
      IN  \/ Has(v) \/ OnTheWay(v) \/ CatchUpHas(i)
          \/ logpc = "broadcast" /\ C!ToVote(logvote) = v
          \/ Replaced(i)

\* End to end, over the two ways a vote can take and the repeats they cause:
\* what the client applied from the replica as vote n is what the replica
\* sent or logged as vote n, in the same order and without gaps.
AppliedAsIssued ==
  \A i \in 1..Len(applied[Rid]) :
    \/ \E j \in 1..Len(bcast) : C!ToVote(bcast[j]) = applied[Rid][i] /\ bcast[j].sn = i - 1
    \/ \E j \in 1..Len(wal) : C!ToVote(wal[j]) = applied[Rid][i] /\ wal[j].sn = i - 1

\* The tasks that have something to do.
ReceiveReady == sock # <<>> /\ pc # "exited" /\ Len(votes) < ChannelSize
UpdaterReady == pc \in {"process", "drain"} \/ (pc = "recv" /\ votes # <<>>)
ConnectionReady == C!FunnelReady \/ C!CatchUpReady \/ C!ForwarderReady
VoteInHand == logpc # "recv" \/ hbpc # "tick"

\* A client that was connected before the replica took its first number applies
\* a vote for every number, unless the funnel falls behind, an append fails or
\* the connection breaks: until it has, some task can go on, and once none can,
\* it has a vote for every number taken.  (A behaviour within the
\* bounds has no cycles, so with fair tasks this is the liveness.)
EarlyClientKeepsUp ==
  conn = "open" /\ since = 0 /\ funnel # "exited" /\ lost = {}
    => \/ Len(applied[Rid]) >= nextsn
       \/ VoteInHand \/ ConnectionReady \/ ReceiveReady \/ UpdaterReady

\* Whenever a client connects, it only ever stops at a number for which it is
\* owed no vote, a heartbeat's, a lost one or one the catch-up cannot read: if it
\* is owed the vote it waits for, some task can go on, unless the funnel fell
\* behind or the connection broke.
StopsOnlyAtUnowed ==
  conn = "open" /\ funnel # "exited" =>
    \A i \in 1..Len(wal) :
      wal[i].sn = Len(applied[Rid]) /\ Owed(i) =>
        logpc # "recv" \/ ConnectionReady \/ ReceiveReady \/ UpdaterReady

\* A client that is gone ties up nothing for good.  No task is told that the
\* connection ended, and each may be blocked on the next one's full channel;
\* still none is left with a vote in its hands.
DepartedClientFreed ==
  conn = "closed" /\ (merged # <<>> \/ funnel = "send" \/ catchup \in {"open", "send"})
    => ConnectionReady

\* README: heartbeat_service "ensures liveness": whatever the replica logged
\* reaches the view of a client that is connected, unless the funnel falls
\* behind, an append fails, or the log cannot be read.
LoggedVotesApplied ==
  \A n \in 0..(MaxSn - 1) :
    (conn = "open" /\ \E i \in 1..Len(wal) : wal[i].sn = n) ~>
      \/ Len(applied[Rid]) > n
      \/ funnel = "exited" \/ lost # {} \/ conn = "closed"
      \/ catchup = "failed" \/ torn # {}
=============================================================================
