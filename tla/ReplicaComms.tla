---------------------------- MODULE ReplicaComms ----------------------------
(***************************************************************************)
(* The way of a transaction from the client's Write RPC to the replicas:   *)
(* write in client/src/client_api_service.rs, the task that                *)
(* client/src/replica_comms_service.rs runs for each replica (connect with *)
(* retries, then a select! between the write-request broadcast channel and *)
(* the socket), and the end of the service, which ends the client.         *)
(*                                                                         *)
(* Transactions are numbered in the order of the Write calls.  What a vote *)
(* says is left to module VotePath; here it takes room in the vote channel *)
(* that all tasks share, and the task's time.                              *)
(***************************************************************************)
EXTENDS Integers, Sequences, FiniteSets

CONSTANTS
  Replicas,      \* the configured replicas
  MaxWrites,     \* bound: Write calls
  RingSize,      \* transactions the broadcast channel keeps (128: 100 rounded up)
  ChannelSize,   \* capacity of the vote channel (100)
  SockCap,       \* bound: transactions in a socket's buffers
  MaxAttempts    \* connection attempts (5)

ASSUME CommsAssumption ==
  /\ IsFiniteSet(Replicas)
  /\ MaxWrites \in Nat
  /\ {RingSize, ChannelSize, SockCap, MaxAttempts} \subseteq Nat \ {0}

VARIABLES
  client,    \* "running", then "ok" or "err": what init_pod_network_client returns
  written,   \* number of transactions handed to write_request_sender
  votes,     \* number of votes in the vote channel
  task,      \* where the task of each replica is
  attempts,  \* its connection attempts that timed out
  next,      \* the next transaction its receiver yields
  peer,      \* the replica: "starting", "up", or "gone": it closed its sockets
  updater,   \* the pod data updater: "runs", or "stuck" waiting for a lock
  sent,      \* the transactions the task wrote to the socket, in order
  got,       \* how many of them the replica has read
  since,     \* history: the transactions written before the task subscribed
  skipped    \* history: the transactions its receiver lost by lagging

vars == <<client, written, votes, task, attempts, next, peer, updater, sent, got,
          since, skipped>>

\* A message of a replica: a vote, another type of message, or binary data
\* that is no Vote.
Messages == {"vote", "other", "garbage"}

Init ==
  /\ client = "running"
  /\ written = 0
  /\ votes = 0
  /\ task = [r \in Replicas |-> "connect"]
  /\ attempts = [r \in Replicas |-> 0]
  /\ next = [r \in Replicas |-> 1]
  /\ peer \in [Replicas -> {"starting", "up"}]
  /\ updater = "runs"
  /\ sent = [r \in Replicas |-> <<>>]
  /\ got = [r \in Replicas |-> 0]
  /\ since = [r \in Replicas |-> 0]
  /\ skipped = [r \in Replicas |-> {}]

\* The task of r goes to another place in its code.
Goto(r, place) == task' = [task EXCEPT ![r] = place]
At(r, places) == client = "running" /\ task[r] \in places

-----------------------------------------------------------------------------
\* The Write RPC answers success once the transaction is in the broadcast
\* channel.  send fails only without a receiver, and the service keeps the
\* one it was started with.
Write ==
  /\ client = "running"
  /\ written < MaxWrites
  /\ written' = written + 1
  /\ UNCHANGED <<client, votes, task, attempts, next, peer, updater, sent, got, since, skipped>>

\* Mutant: the attempts are not counted.
NotCounted(n) == n
CountAttempt(n) == n + 1

\* An attempt times out after 5 seconds.
ConnectTimeout(r) ==
  /\ At(r, {"connect"})
  /\ attempts' = [attempts EXCEPT ![r] = CountAttempt(@)]
  /\ Goto(r, "pause")
  /\ UNCHANGED <<client, written, votes, next, peer, updater, sent, got, since, skipped>>

\* A second later there is another one, MaxAttempts in all.
Retry(r) ==
  /\ At(r, {"pause"})
  /\ Goto(r, IF attempts[r] = MaxAttempts THEN "failed" ELSE "connect")
  /\ UNCHANGED <<client, written, votes, attempts, next, peer, updater, sent,
                 got, since, skipped>>

\* Any other connection error ends the task at once.
ConnectRefused(r) ==
  /\ At(r, {"connect"})
  /\ Goto(r, "failed")
  /\ UNCHANGED <<client, written, votes, attempts, next, peer, updater, sent,
                 got, since, skipped>>

\* resubscribe() starts at the end of the broadcast channel.
Resubscribe(r) == written + 1

\* Connected: the count of attempts is dropped, the task subscribes and enters
\* its loop.
Connect(r) ==
  /\ At(r, {"connect"})
  /\ peer[r] = "up"
  /\ next' = [next EXCEPT ![r] = Resubscribe(r)]
  /\ since' = [since EXCEPT ![r] = written]
  /\ attempts' = [attempts EXCEPT ![r] = 0]
  /\ Goto(r, "select")
  /\ UNCHANGED <<client, written, votes, peer, updater, sent, got, skipped>>

\* The oldest transaction the broadcast channel still has.
Oldest == IF written > RingSize THEN written - RingSize + 1 ELSE 1

\* Mutant: the last transaction is left in the channel.
ReadyButLast(r) == next[r] \in Oldest..(written - 1)

\* recv() has a transaction for the task.
Ready(r) == next[r] \in Oldest..written

\* select! takes a transaction: next[r] - 1 is being sent from here on, and
\* the task reads nothing from the socket meanwhile.
TakeWrite(r) ==
  /\ At(r, {"select"})
  /\ Ready(r)
  /\ next' = [next EXCEPT ![r] = @ + 1]
  /\ Goto(r, "send")
  /\ UNCHANGED <<client, written, votes, attempts, peer, updater, sent, got, since, skipped>>

\* recv() returns Lagged and moves to the oldest transaction.  The pattern
\* Ok(transaction) does not match, so select! only waits for the socket.
TakeLagged(r) ==
  /\ At(r, {"select"})
  /\ next[r] < Oldest
  /\ skipped' = [skipped EXCEPT ![r] = @ \cup next[r]..(Oldest - 1)]
  /\ next' = [next EXCEPT ![r] = Oldest]
  /\ Goto(r, "read only")
  /\ UNCHANGED <<client, written, votes, attempts, peer, updater, sent, got, since>>

\* The transaction is written to the socket, when there is room; what a
\* replica that is gone is sent is lost.
SendWrite(r) ==
  /\ At(r, {"send"})
  /\ Len(sent[r]) - got[r] < SockCap \/ peer[r] = "gone"
  /\ sent' = [sent EXCEPT ![r] = Append(@, next[r] - 1)]
  /\ Goto(r, "select")
  /\ UNCHANGED <<client, written, votes, attempts, next, peer, updater, got, since, skipped>>

\* The send fails and the task with it.
SendFails(r) ==
  /\ At(r, {"send"})
  /\ peer[r] = "gone"
  /\ Goto(r, "failed")
  /\ UNCHANGED <<client, written, votes, attempts, next, peer, updater, sent,
                 got, since, skipped>>

\* Where the task goes with a message: a vote has to be passed on, what does
\* not decode is an error, anything else is ignored.
After(m) ==
  CASE m = "vote" -> "deliver" [] m = "garbage" -> "failed" [] OTHER -> "select"

\* Mutant: the send is a branch of select!, and a message cancels it.
ReadCancelsSend(r, m) ==
  /\ At(r, {"select", "read only", "send"})
  /\ peer[r] = "up"
  /\ Goto(r, After(m))
  /\ UNCHANGED <<client, written, votes, attempts, next, peer, updater, sent, got,
                 since, skipped>>

\* select! takes a message from the socket.
ReadMessage(r, m) ==
  /\ At(r, {"select", "read only"})
  /\ peer[r] = "up"
  /\ Goto(r, After(m))
  /\ UNCHANGED <<client, written, votes, attempts, next, peer, updater, sent,
                 got, since, skipped>>

\* The vote is handed to the updater's channel, when there is room; the task
\* sends no transaction meanwhile.
DeliverVote(r) ==
  /\ At(r, {"deliver"})
  /\ votes < ChannelSize
  /\ votes' = votes + 1
  /\ Goto(r, "select")
  /\ UNCHANGED <<client, written, attempts, next, peer, updater, sent, got, since, skipped>>

\* The socket is at its end or broken: the loop breaks, without an error.
SocketEnds(r) ==
  /\ At(r, {"select", "read only"})
  /\ peer[r] = "gone"
  /\ Goto(r, "ended")
  /\ UNCHANGED <<client, written, votes, attempts, next, peer, updater, sent,
                 got, since, skipped>>

\* All tasks are joined: the service returns, an error if any of them failed,
\* and select! in init_pod_network_client ends the client.
Finished(states) == \A r \in Replicas : task[r] \in states
ServiceReturns ==
  /\ client = "running"
  /\ Finished({"ended", "failed"})
  /\ client' = IF Finished({"ended"}) THEN "ok" ELSE "err"
  /\ UNCHANGED <<written, votes, task, attempts, next, peer, updater, sent, got, since, skipped>>

\* The pod data updater takes a vote, and may fail on it (module
\* PodDataUpdater), which ends the client too.
UpdaterTakes ==
  /\ client = "running"
  /\ updater = "runs"
  /\ votes > 0
  /\ votes' = votes - 1
  /\ client' \in {"running", "err"}
  /\ UNCHANGED <<written, task, attempts, next, peer, updater, sent, got, since, skipped>>

\* It takes a vote and never finishes with it: process_vote and a Read each
\* wait for a lock the other holds (module ReadLocks).
UpdaterSticks ==
  /\ client = "running"
  /\ updater = "runs"
  /\ votes > 0
  /\ votes' = votes - 1
  /\ updater' = "stuck"
  /\ UNCHANGED <<client, written, task, attempts, next, peer, sent, got, since, skipped>>

-----------------------------------------------------------------------------
\* The replicas, as the code relies on them: one may start late, fall silent
\* while its socket stays open, and go at any time with what is in its socket.
\* (Messages it sent before it went are read while it is "up": the task cannot
\* tell the difference.)
ReplicaStarts(r) ==
  /\ client = "running"
  /\ peer[r] = "starting"
  /\ peer' = [peer EXCEPT ![r] = "up"]
  /\ UNCHANGED <<client, written, votes, task, attempts, next, updater, sent,
                 got, since, skipped>>

ReplicaGoes(r) ==
  /\ client = "running"
  /\ peer[r] # "gone"
  /\ peer' = [peer EXCEPT ![r] = "gone"]
  /\ UNCHANGED <<client, written, votes, task, attempts, next, updater, sent,
                 got, since, skipped>>

Connected(r) ==
  peer[r] = "up" /\ At(r, {"select", "read only", "send", "deliver"})

ReplicaReads(r) ==
  /\ Connected(r)
  /\ got[r] < Len(sent[r])
  /\ got' = [got EXCEPT ![r] = @ + 1]
  /\ UNCHANGED <<client, written, votes, task, attempts, next, peer, updater,
                 sent, since, skipped>>

-----------------------------------------------------------------------------
\* What the task does by itself, and when the replica sends something.
Works(r) ==
  \/ ConnectTimeout(r) \/ Retry(r) \/ ConnectRefused(r) \/ Connect(r)
  \/ TakeWrite(r) \/ TakeLagged(r) \/ SendWrite(r) \/ SendFails(r)
  \/ DeliverVote(r) \/ SocketEnds(r)
Task(r) == Works(r) \/ \E m \in Messages : ReadMessage(r, m)

Next ==
  \/ Write
  \/ \E r \in Replicas :
       \/ Task(r)
       \/ ReplicaStarts(r) \/ ReplicaGoes(r) \/ ReplicaReads(r)
  \/ ServiceReturns
  \/ UpdaterTakes
  \/ UpdaterSticks

\* The runtime polls every task that can go on: an attempt to connect is bounded
\* by its timeout, a connected replica reads its socket.  select! polls its
\* branches in random order, so a receiver that is ready time and again is taken
\* some time, and a full mpsc channel serves its senders in turn: strong
\* fairness.  Nobody has to write, and no replica to start or to send: the task
\* that passes votes on to this client may end while the socket stays open
\* (FunnelLagged of module ClientConnection).
Spec ==
  /\ Init /\ [][Next]_vars
  /\ WF_vars(ServiceReturns) /\ WF_vars(UpdaterTakes)
  /\ \A r \in Replicas :
       /\ WF_vars(Works(r))
       /\ SF_vars(TakeWrite(r) \/ TakeLagged(r))
       /\ SF_vars(DeliverVote(r))
       /\ WF_vars(ReplicaReads(r))

-----------------------------------------------------------------------------
(***************************************************************************)
(* Properties.                                                             *)
(***************************************************************************)

\* What a replica is sent is what was written after its task subscribed, each
\* transaction once and in the order of the Write calls, except for those the
\* receiver lost by lagging and the one whose send is under way or failed:
\* neither a dropped recv() in select!, nor a vote, nor an error loses another.
Sent(r) == {sent[r][i] : i \in 1..Len(sent[r])}
SentAsWritten ==
  \A r \in Replicas :
    LET due == ((since[r] + 1)..(next[r] - 1)) \ skipped[r]
    IN  /\ \A i, j \in 1..Len(sent[r]) : i < j => sent[r][i] < sent[r][j]
        /\ Sent(r) \subseteq due
        /\ due \ Sent(r) \subseteq IF task[r] \in {"send", "failed"} THEN {next[r] - 1} ELSE {}

\* Every transaction written while the task of r is connected reaches r, unless
\* its receiver loses it by lagging or the connection or the client ends.  There
\* are two more exceptions, both for ever: a task that lagged waits for a message
\* of the replica before it looks at transactions again, and a task with a vote
\* to hand on waits for an updater that is stuck.
CaughtUp(r) ==
  (since[r] + 1)..written \subseteq {sent[r][i] : i \in 1..got[r]} \cup skipped[r]
Blocked(r) == task[r] = "deliver" /\ updater = "stuck" /\ votes = ChannelSize
WritesReachReplica ==
  \A r \in Replicas :
    \/ Connected(r) ~> CaughtUp(r) \/ ~Connected(r) \/ Blocked(r)
    \/ <>[](task[r] = "read only")

\* A client whose replicas have all closed their sockets ends, whether the task of
\* each was connecting, sending, or waiting for a vote to be taken; unless one of
\* them holds a vote for which an updater that is stuck leaves no room.
EndsWithReplicas ==
  (\A r \in Replicas : peer[r] = "gone") ~>
    client # "running" \/ \E r \in Replicas : Blocked(r)

\* The steps the task of r can still take once r is gone: attempts to connect
\* and the pauses between them, transactions to take, a send or a vote to finish.
StepsLeft(r) ==
  LET tries == MaxAttempts - attempts[r]
      unsent == MaxWrites + 1 - next[r]
  IN  CASE task[r] = "connect"                 -> 2 * tries + 1
        [] task[r] = "pause"                   -> 2 * tries + 2
        [] task[r] \in {"select", "read only"} -> 2 * unsent + 1
        [] task[r] \in {"send", "deliver"}     -> 2 * unsent + 2
        [] OTHER                               -> 0

\* The task of a replica that is gone comes nearer to its end with every step it
\* takes, wherever it was, and nothing others do takes it further away: it
\* connects no more, and neither retries nor transactions keep it going.
GoneTaskNearsEnd ==
  [][\A r \in Replicas : peer[r] = "gone" =>
       StepsLeft(r)' \in 0..(StepsLeft(r) - IF task'[r] = task[r] THEN 0 ELSE 1)]_vars
=============================================================================
