# Pod network: TLA+ models, checks and proofs

podnet implements the pod protocol (`pod-core.pdf`): clients send transactions
to a set of replicas, each replica answers every transaction with a signed vote
(transaction, round, sequence number), and clients derive from the votes when a
transaction is confirmed. This directory models the parts of it that keep state,
checks them with TLC and proves the central invariants with TLAPS. Source paths
below are relative to `src/`; `PROJECT.json` maps every definition to its lines.

## 1. Inventory

### The system's parts

| Part | State | Operations | Talks to |
|---|---|---|---|
| Log and vote service, `pod/src/log_vote_service.rs` | the vote in its hands | take a transaction and a number, read the clock, append, broadcast | write channel (in), counter `nextsn` (shared), log, broadcast channel (out) |
| Heartbeat service, `pod/src/heartbeat_service.rs` | the vote in its hands | take a number, read the clock, broadcast | counter (shared), broadcast channel |
| Replica log, `pod/src/replica_log.rs` | a file; a memory map and a position for each iterator | append, open, next, refresh | log service (append), catch-up tasks (iterate) |
| Client communications service, `pod/src/client_comms_service.rs` | for each connection a subscription, a channel, four tasks | accept, funnel, catch up, forward, read transactions | broadcast channel, log, WebSocket, write channel |
| Replica node, `pod/src/pod_network_node.rs` | – | start everything, counter at 0 | all of the above |
| Replica communication of the client, `client/src/replica_comms_service.rs` | for each replica a connection | connect with retries, receive votes, send transactions | WebSocket, vote channel, write broadcast |
| Pod data updater, `client/src/pod_data_updater.rs` | `nextsn`, `backlog`, `mrt`, `tsps`, `ts_vote_msg` | reject, put aside, apply, drain the backlog | vote channel (in), the view's locks |
| Client API, `client/src/client_api_service.rs` | none of its own | `Read`, `Write` | the view's locks, write broadcast |
| Start-up, key and configuration files, command line client, NetHammer stub | – | – | – |

A vote travels: log or heartbeat service → broadcast channel (and log file) →
funnel and catch-up task of the connection → one mpsc channel → forwarder →
socket → `handle_replica_connection` → vote channel → updater → view → `Read`.

### What is hard here

* Two tasks draw numbers from one counter and broadcast in any order; number and
  round are taken in two steps; an append may fail after its number is taken.
* A connection joins the log's records and a live subscription into one stream
  without any handshake. Votes arrive early, late and twice.
* The client must turn that stream back into the order of the numbers, forever,
  and never loses a number that is gone (a burnt or an unlogged one blocks it).
* `Read` looks at three maps in many lock sections while the updater changes them
  under three locks, taken in another order.
* Order statistics over votes, padded with `beta` values and cut to `alpha`.
* Torn appends, crashes, and iterators that map the file in the middle of an append; a
  replay that stops at what it cannot read, or misreads it.
* A restart keeps the log and not the counter: two votes get one number.
* Channels and a broadcast ring of bounded size; a lagging subscription, after which
  `select!` ignores the channel until the socket has a message.
* Tasks that are not told that their connection ended, each blocked on the next.
* Replicas that start late, refuse, go, send garbage, or tell each client something else.

`hazards` in `PROJECT.json` lists each at its line with the properties aimed at it.

### What makes each part correct

* Replica: in one run no number twice, none skipped; the broadcast follows the log; numbers
  and rounds disagree only while a vote is in the making; every number taken is settled.
* Log: acknowledged records survive; iterators return the records once, in order.
* Connection: no hole between replay and subscription, for the votes a client can be
  owed; nothing left behind by a client that went.
* Replica communication: each replica gets what was written since it was connected, once
  and in order; the client ends when it has none left.
* Updater: in-order, gap-free, exactly-once application; nothing stranded; `mrt` and
  `tsps` are determined by what was applied; what can be applied is applied.
* Read: one state of the view, bounds in order, an answer in the end, the votes that
  verify a record; from one Read to the next, `rperf` and recorded timestamps that stay;
  across clients, past-perfection and confirmation bounds although `beta` replicas are
  faulty.

## 2. Modules

| Module | Models | Notes |
|---|---|---|
| `VoteOrder` | abstract specification of the updater | only the history `applied` |
| `PodDataUpdater` | the updater task | one action for each section between two lock releases |
| `ClientApi` | `Read` | extends `PodDataUpdater`; the reply as functions of the view |
| `Pod` | several clients of the same replicas, some of which restart or do not follow the protocol | instantiates `ClientApi` for each client; the updater's order (proved) replaces channel and backlog |
| `ReplicaComms` | `Write`, the client's task for each replica, the end of the client | votes are counted only; their content is `VotePath` |
| `ReadLocks` | the tokio RwLocks around the view | asking and being granted are separate steps; data reduced to versions |
| `Replica` | log and vote service, heartbeat service, clock, restart | one action for each point where the other task may run |
| `ClientConnection` | the replica's end of a connection | used through `VotePath` |
| `VotePath` | Replica + ClientConnection + the client's receiving end + PodDataUpdater | composition by `INSTANCE`; conjoins `C!Take` and `U!Deliver` |
| `ReplicaLog` | the log file inside an append, crashes, iterators | cells instead of bytes |
| `MC...` | TLC instances: the inbound votes, the earlier logs, symmetry | `Replica`, `ReplicaLog` and `ReplicaComms` need none and are run as they are |
| `PodDataUpdaterProofs`, `ClientApiProofs`, `PodProofs`, `ReadLocksProofs`, `ReplicaProofs`, `ReplicaCommsProofs`, `ReplicaLogProofs`, `VotePathProofs` | theorems about the module of that name | section 5 |

How state and actions correspond to the code:

* **PodDataUpdater.** `votes` is the mpsc channel; `Deliver` is the send in
  `handle_replica_connection` and waits while it is full. The body of the task's loop is
  split at its lock releases: `RecvIgnored`, `RecvUnknown`, `RecvFuture`, `RecvNext` are
  the early `continue`s, the `bail!`, the insertion into the backlog and the match on the
  expected number; `ProcessVote` is `process_vote`; `DrainNext` and `DrainDone` are one
  turn and the end of the backlog loop. A signature is abstracted to the key that made
  it: the signed bytes (data, then timestamp and number at fixed width) determine all
  three fields. `tsps[tx][r] = Absent` stands for a missing key. `applied` is a history
  variable.
* **ClientApi.** `Read` changes nothing, so its replies are operators. Medians are order
  statistics (`Kth`) rather than sorted lists. `rconf_choices` is a set because the code
  takes the middle of a list in hash map order. `max_possible_ts_panics` is the underflow
  of `len() - alpha`.
* **ReadLocks.** Tokio's fair queue: first come, first served, readers do not overtake
  a waiting writer. `version[l]` is the number of the `process_vote` call that last
  changed the data behind `l`, `seen` what a Read has looked at. `ReadPanics` is the panic
  of `max_possible_ts`, for which module `ClientApi` says when it happens; unwinding drops
  the guards, and a tokio lock is not poisoned.
* **Replica.** `LogTake`/`LogStamp`/`LogAppend`/`LogAppendFails`/`LogBroadcast` and
  `HbTake`/`HbStamp`/`HbBroadcast`; `Restart` keeps the log file and the clock and loses
  the rest. An append that fails, or that the process dies in, leaves nothing, the whole
  record (only `sync_data` was missing) or a part of it in the file (`AppendStops`); `torn`
  has the places of such parts between the whole records `wal`.
* **ClientConnection.** The broadcast channel is `bcast` with a `cursor`; a receiver more
  than `RingSize` behind gets an error and the funnel ends (the other tasks go on). The
  catch-up task may fail to open the log (`CatchUpOpenFails`), which ends it alone. From the
  first left-over bytes on (`OutOfStep`) the iterator takes lengths and records from the
  wrong places: it ends with an error (`CatchUpStops`), or reads something it takes for a
  record and goes on somewhere behind (`CatchUpMisread`). Such a vote has no valid signature:
  `Garbled`. A part of an append that is still under way when the file is mapped is an error
  at its end, where the task is done anyway. `Close`
  breaks the socket; the forwarder notices when it next writes (`ForwardEnds`), which drops
  `vote_rx`, which the funnel (`FunnelSendFails`) and the catch-up task notice when they next
  send. That order is the code's: `select!` at the end of `handle_client_connection` drops
  the tasks' handles, not the tasks.
* **VotePath.** The replica starts with a log that earlier runs left, whose numbers the new run
  uses again: any records and any left-over bytes for the theorems (`EarlierLogs`, a constant),
  those of `MCEarlierLogs` for the runs. `known` and `since` remember the log and the counter
  at the time the client was accepted, to say which votes it is owed (`Owed`).
* **ReplicaComms.** `task[r]` is where the spawned task of a replica is: in
  `connect_to_replica` (`"connect"`, `"pause"`), in the `select!` of
  `handle_replica_connection` (`"select"`, or `"read only"` after `Lagged` disabled the
  first branch), in one of its branches (`"send"`, `"deliver"`), or over (`"ended"`,
  `"failed"`). Transactions are their position in the broadcast channel; `next[r]` is the
  receiver. `ServiceReturns` is `join_all` and `process_connection_results`, and with them the
  `select!` of `init_pod_network_client`. The updater takes votes, and may get stuck with one
  for ever (`UpdaterSticks`: the lock cycle of `ReadDeadlock`). The replicas are external: they
  start, read, send or fall silent, and go.
* **Pod.** A replica is steady as long as it has not restarted and follows the protocol; its
  `history`, chosen at the start, has the votes it comes to issue, and `Hear` applies the next
  of them, the same for all clients. `Restart` ends that. What can follow in the code is that
  a client applies a vote of the new run, or a logged one of an earlier run, under a number that
  another client knows with another vote (`pod_network_node.rs:39`); the model lets it apply any
  vote (`HearUnsteady`), which covers these and all that a replica can do that does not follow
  the protocol. Both change the view with `MrtAfter` and `TspsAfter` of `PodDataUpdater`.
* **ReplicaLog.** A record is `LenCells` cells of length and 1 to `MaxData` of data. What
  an iterator reads from cells that are not one record is left open: any length, an error
  or a bogus record. `torn` remembers that an append stopped part of the way.

## 3. Runs

Passing runs:

| Run | Question | Bounds |
|---|---|---|
| `UpdaterOrder` | Does the updater order whatever arrives, and has it applied what Reads show? | one replica with numbers 0..2, timestamps 1..3, a transaction and the heartbeat, and each reason for rejection; another with a vote that shares a timestamp; any order and number of repeats |
| `PodReads` | What do two clients' Reads say about each other? | six replicas, `alpha` 5, `beta` 1: the smallest configuration `client.rs` accepts with `beta` > 0; a replica votes in round 1, or in round 2 after a heartbeat; one may restart at any time and from then on sends any votes, any number of them |
| `ReadLocks` | Does a Read see one state, does it end, and how can it hang? | two Reads, repeated, against three votes of any kind, two transactions |
| `ReplicaVotes` | Are numbers, rounds, log and broadcast consistent? | three numbers a run, three rounds, one restart, failing and torn appends |
| `VoteStream` | Is there a hole between replay and subscription, does an early client get everything, where can any other stop, does one that leaves tie up anything? | two numbers, two rounds, an earlier log of at most one record, of the last round, with or without left-over bytes behind it, every channel and the ring of one; the client connects and leaves at any time |
| `WriteFlow` | Is what is written sent once and in order, does it reach the replicas, and does the client end without them? | two replicas, two writes, two attempts, every channel and the ring of one |
| `LogAppend` | Do iterators follow the log, do acknowledged records last? | four records of one or two data cells, one iterator, failures at each cell, any number of crashes |

* `UpdaterOrder`: three numbers are the least with which the drain loop takes two turns
  and a gap can open again behind a filled one; three timestamps let the order of time
  disagree with the order of numbers in every way. Votes of one replica touch no state of
  another but `ts_vote_msg` and the channel, for which the second replica is there.
* `PodReads`: two rounds are enough to separate a bound from what it bounds; that a client
  knows a transaction and another does not, with `rperf` of the other at round 2, needs the
  replica that restarted and steady ones on both sides. `ReadsOnlyWiden` says how far one can
  rely on an earlier Read: `rperf` and recorded timestamps stay, but `rmin`, `rmax` and `rconf` are not final. The bounds do not close in
  on the confirmation round as votes come, they widen, because a replica that has not voted
  is left out of them.
* `WriteFlow`: a ring of one with two writes makes a receiver lag; with two replicas one task
  blocks on the vote channel the other filled, and on one that an updater that is stuck no
  longer empties.
* `VoteStream`: two numbers beside an earlier record give a vote that is only replayed, one
  that is replayed and broadcast, one that is only broadcast, and a number used twice. The
  earlier log may end in half a record, and the appends of this run may tear too, so records
  come to lie behind left-over bytes that were there before the client and after it. A ring
  of one makes lagging possible at every vote.
* `ReadLocks`: the three kinds of vote change different sets of maps, so three calls
  produce every order of changes a Read can fall between.
* `LogAppend`: records before, in and after a failing append, and a second failure.
* All safety properties of these runs are also proved, for every value of the constants
  (section 5).

What some of them do not say: `SnUsedOnce` is about one run of the process, the next one starts
from 0 again. After that, `AppliedAsIssued` accepts either of the two votes with one number, and
`NoHoleInStream` and `StopsOnlyAtUnowed` count a number as reached when the client has the vote of
another run (`Replaced`); what this does to Reads is the subject of `Pod`. `PastPerfection` bounds the
maximum a Read reports and not the round it confirms at, which is what the paper bounds and the
code does not (below). `BoundsOrdered` says nothing about replicas that have not voted: the
bounds leave them out. `SentAsWritten` and `WritesReachReplica` speak of transactions written since the task subscribed.

Violation runs, each a disagreement between the code and its documents (`findings`):

| Run | Property | What happens |
|---|---|---|
| `ApiPanic` | `ReadAnswers` | one vote for a transaction and a Read panics: `len() - alpha` underflows until `alpha - beta` replicas have voted |
| `PodBounds` | `ConfirmationBounds` | with three votes for round 1 and one for round 2 a Read may confirm at round 2, above its own `rmax` of 1 |
| `ReadDeadlock` | `NoCircularWait` | a Read has `tsps` and `ts_vote_msg` and waits for `mrt`; the updater has `mrt` and waits for `ts_vote_msg`; also a Read that locks `tsps` twice with the updater queued between |
| `VoteLateJoin` | `LoggedVotesApplied` | a heartbeat takes number 0 and is not logged; a client that connects afterwards waits for it for ever, with every later vote in its backlog |
| `LogTorn` | `AckedReadable` | half a record stays in the file, the next acknowledged one is written behind it and is misread |

`PodBounds` is about two deviations from the paper's algorithm at once: `rconf` is the middle
of an unsorted list, present with fewer than `alpha` votes too
(`client/src/client_api_service.rs:121`); and a replica that has not voted is left out of
the bounds instead of counting with its `mrt`, or with infinity (`:38`, `:69`).

Further disagreements met while modelling, which have no run of their own:

* `Write` answers success for a transaction no task is subscribed to yet, or that a lagging
  receiver skips. `SentAsWritten` and `WritesReachReplica` say exactly which ones these are.
* An iterator opened between the two writes of an append returns an error;
  `IteratorsFollowLog` shows that it recovers with a refresh. The catch-up task does not
  refresh, and gets what is missing from the subscription.
* `src/README.md:23` says that a record's "associated votes" enable "clients to verify the
  network's consensus state". They are looked up in `ts_vote_msg` by timestamp alone
  (`client_api_service.rs:119`), and that map keeps the first vote of each timestamp: the record
  of a transaction may show another replica's heartbeat of the same round instead of the votes
  it counts. `EvidenceApplied` says what does hold.
* `src/pod-core.pdf` (past-perfection safety) bounds confirmed rounds: a transaction confirmed at
  a round below an honest client's `rperf` is in that client's view. The code confirms at the
  timestamp of any vote, so this fails as soon as a vote is older than `rperf` elsewhere; and
  with one replica, as in `just minimal-network`, it fails through a restart: one client applies
  the vote for `a` in round 1 as number 0, the replica restarts with its counter at 0
  (`pod_network_node.rs:39`), another client applies the new run's heartbeat of round 2 as number
  0 and reports `rperf` 2 without `a`. `PastPerfection` is what is left of it.
* The paper also relies (page 11) on "if a vote has a larger sequence number than another vote, it
  will have a larger or equal timestamp than the other". Number and round are taken in two steps
  (`log_vote_service.rs:33`): the heartbeat service takes number 0, the log service takes 1 and
  stamps it with round 0, the heartbeat is stamped with round 1, and every client drops the
  transaction's vote as stale. `OvertakenOnlyInHand` says between which votes this can happen.
* `src/client/tests/client_binary_tests.rs:66` says that a client without its replica "would run
  indefinitely waiting for connections". A refused connection is final for its task
  (`replica_comms_service.rs:61`), and when all tasks have failed the client ends.

`CHECK_DEADLOCK FALSE` stands where the system may stop: the updater ends at an unknown
replica (`UpdaterOrder`), the numbers or votes of the bounded instance are used up
(`Replica...`, `Vote...`, `Pod...`), the client ends (`WriteFlow`), and the locks really
deadlock (`ReadLocks`, `ReadDeadlock`).

## 4. Fairness

Weak fairness of the updater, the two replica services, the connection's tasks and the
lock queues: tokio polls a task that can go on, a channel wakes its waiting task, and
the RwLock's queue is first come, first served. Nothing is assumed of clients (nobody has
to write, connect or read), of the clock, of restarts, or of the choice between success
and failure of an append or of the catch-up (fairness is on the whole task). Liveness
properties are `EventuallyApplied`, `NumbersSettle`, `ReadEndsOrCycle`, `WritesReachReplica`,
`EndsWithReplicas`; the violated `LoggedVotesApplied` is checked under the same fairness.

The updater and the lock cycle: `ReadDeadlock` shows that `process_vote` can wait for ever for a
lock that a Read holds. `PodDataUpdater` and `VotePath` have no Reads, so `EventuallyApplied`,
`EarlyClientKeepsUp` and `StopsOnlyAtUnowed` hold of a client whose updater is not in such a
cycle. `ReplicaComms` has the updater that is stuck as an action, since what the client does
then is its subject.

In `ReplicaComms` a replica that is up need not send anything: the task that passes the
votes on to this client may have ended while the socket stays open (`FunnelLagged` and
`ForwardEnds` of `ClientConnection`). A task that lagged and waits in "read only" may then wait
for ever, and so may one that holds a vote when the updater is stuck and the channel full
(`Blocked`). `WritesReachReplica` and `EndsWithReplicas` name these as the only exceptions. A
connected replica does read its socket, as its write task does. Strong fairness is used twice:
`select!` polls its branches in random order, so a broadcast receiver that is ready time and
again is not passed over for ever in favour of a socket full of votes (`TakeWrite`,
`TakeLagged`); and the vote channel serves its waiting senders in turn, so a task is not kept
out for ever by the others (`DeliverVote`).

Four invariants are liveness stated as safety: `EarlyClientKeepsUp`, `StopsOnlyAtUnowed` and
`DepartedClientFreed` of `VotePath`, and `StuckOnlyInCycle` of `ReadLocks`. Each says that as
long as the goal is not reached some task has something to do. The conditions under which a
task has are written out guard by guard (`FunnelReady`, `CatchUpReady`, `ForwarderReady`,
`ReceiveReady`, `UpdaterReady`, `CanGoOn`), so that the prover can use them. Every action of
`VotePath` uses up a number, a round, a record or a place further on, except that another client
may write, and writes are bounded by the write channel and the numbers; a bounded instance
therefore has no infinite behaviour but one that stutters, and with fair tasks it stops only
where none is enabled. For `ReadLocks`, `ReadEndsOrCycle` is the same claim as a liveness
property.

`GoneTaskNearsEnd` is the safety half of `EndsWithReplicas`: `StepsLeft` bounds the steps the
task of a gone replica can still take, every step of it lowers the bound, and no other step
raises it. It rests on the bound on writes: a client that is written to without end goes on
as long as `select!` prefers the write to the broken socket. It does not say that a next step is
possible, which a stuck updater can prevent.

The clock never goes back (`Tick`): `get_current_round` reads the system time, which an
administrator can set back. `OvertakenOnlyInHand` and no other property of `Replica` needs this.

## 5. Proofs

Every module `XProofs` extends module `X`, proves an inductive invariant and derives the
properties from it. The bounds of the runs (numbers, records, votes, Reads, replicas) are
constants here, so each theorem holds for all of them.

**`PodDataUpdaterProofs`**, from `UpdaterAssumption` (the configured replicas are finitely many
of the possible ids, the heartbeat is a payload, inbound votes are votes, the channel has
room for at least one):

* `TypeCorrect` (`TypeOK`).
* `OrderInvariant`: `NoStrandedVote` is not inductive, it speaks of the waiting updater only.
  `OrderInv` says what holds in between: every backlog entry belongs to its replica and lies
  above `nextsn`, or at it while that replica's turn is not over (`BacklogInv`); a backlog has
  one vote for a number (`UniqueInv`); `nextsn` counts the applied votes and the one in hand
  (`CountInv`); the vote in hand has the number before `nextsn` (`TurnInv`).
* `NothingStranded` (`NoStrandedVote`), from `OrderInv`, and `RestsWhenApplied`: an updater with
  an empty channel has applied the votes of each replica up to the first number that never came.
* `ImplementsVoteOrder` (`AppliesInOrder`): `ProcessVote` is an `Apply` step because of
  `CountInv` and `TurnInv`; every other action leaves `applied` alone.
* `MrtCorrect` (`MrtIsNewest`), inductive with `TypeOK`.
* `TspsCorrect` (`TspsIsFirstFresh`): `FirstFreshInv` names the first fresh vote by its index
  in `applied`; an applied vote adds an index above all others, fresh just when it is not
  older than `mrt`, which is where `MrtIsNewest` comes in.

**`ClientApiProofs`**: `EvidenceAlwaysApplied` (`EvidenceApplied`). `EvidenceInv` says that
`ts_vote_msg` has a vote at every timestamp in `tsps` and at every `mrt` that was set, `KeptInv`
that it holds applied votes, at most one for a timestamp: `process_vote` inserts the vote it
applies, before it looks at `mrt`, and only where there is none.

**`PodProofs`**, from `PodAssumption`: finitely many replicas, and
`alpha >= 4 * beta + 1` and `|Replicas| >= alpha + beta`, which `client.rs` checks before it
starts the client (`client/src/bin/client.rs:50`, `:56`). Timestamps are below `U64MAX`, which
the code uses as infinity. Any of the replicas may restart.

* `PodInvariant`: `PodInv` ties `mrt` and `tsps` of every client to the prefix of a replica's votes
  it has applied (`PrefixInv`), if the replica is steady. Of the others it says nothing but the
  types; a restart takes a replica from the first kind to the second.
* The second half is about order statistics: `HasRank` characterises an element of the sorted
  list by how many values are below it. Such an element exists (`RankExists`, from the
  least subset of a finite set with a property), is what `Kth` chooses (`KthHasRank`), and is
  monotone in the values (`RankOrder`) and in the set they are taken from (`MoreValues`).
* `PastPerfect` (`PastPerfection`): a steady replica, whose vote for a transaction one client has
  recorded and another client has no record of, is not further at the other client than that
  vote (`BehindUnknown`). So a maximum below the other's `rperf` would need more replicas below it
  than are behind `rperf` or among the at most `beta` that are not steady: at most
  `alpha/2 - beta` are behind, and the rank of the maximum is at least `alpha/2`. The bound on
  replicas that restarted or do not follow the protocol is a hypothesis of `PastPerfection`;
  beyond it, a restart is enough to break it.
* `BoundsInOrder` (`BoundsOrdered`), and `OnlyWiden` (the action property `ReadsOnlyWiden`): the
  replicas with a timestamp for a transaction only become more, so an order statistic counted
  from below does not rise and one counted from above does not fall (`MoreValues`).

**`ReadLocksProofs`**, from `LocksAssumption`: `ReadsSnapshot` (`ReadIsSnapshot`). The
inductive invariant has four layers.

* `LocksInv`: a task is in at most one place of a queue and waits for what its label says
  (`QueueInv`); nobody reads what is locked for writing (`MutexInv`); a Read has at least the
  guards its label calls for (`GuardInv`), and the updater those it writes under (`UpdInv`).
* `SeenInv`: what an unfinished Read has looked at has not changed since, and once it has looked
  at `mrt` the updater is not past its change of `ts_vote_msg`.
* `VersionInv`: how far the current call of `process_vote` has changed the three maps.
* `SnapInv`: what a finished Read has seen. At `ReadReply` the guard on `mrt` shows that the
  updater is between two votes, so the versions are those after a number of complete calls.

`HangsOnlyInCycle` (`StuckOnlyInCycle`) needs the converse of `GuardInv` and `UpdInv`: a Read has
no guard but those its label calls for, so none is left behind by a panic (`FreeInv`), and
the updater has locked for writing only what its label says (`UnlockedInv`). When nothing can go
on, every unfinished task waits (`StuckWaits`), and at the head of its queue is a task kept out
by the updater, or the updater kept out by a guard (`StuckHead`). The updater can then have
`mrt` at most (`StuckUpdater`), so the lock it waits for is in the hands of an unfinished Read,
which waits in turn for `mrt` or behind the updater for that same lock (`StuckIsCycle`). With
`ReadDeadlock`, which reaches both cases, this says exactly how the view's locks can block.

**`ReplicaProofs`**, from `ReplicaAssumption` (the bounds are natural numbers, the channel has
room for at least one):

* `TypeCorrect` (`TypeOK`).
* `SnInvariant`, and from it `NoNumberTwice` (`SnUsedOnce`) and `NoNumberSkipped`
  (`SnAccounted`). The strengthening `SnBelow` says that every number in use, broadcast, held
  or lost, is below the counter: without it a fresh number could be one in use.
* `OvertakenInHand` (`OvertakenOnlyInHand`). `RoundInv` says that nothing is from the future, and
  that once a service has sent a vote no number from its next one on gets an earlier round,
  also while that next number is still in its hands. Which service made a vote is told by the
  numbers in the log, so it takes `LoggedSent` (every record of this run was sent, is about to be,
  or is lost) and `SnInv`. This rests on the clock not going back.
* `BroadcastInLogOrder` (`BroadcastFollowsLog`), inductive once the heartbeat service is known
  to hold heartbeats only.

**`ReplicaCommsProofs`**, from `CommsAssumption`: `CommsBounded` (the waiting votes and the
connection attempts stay in bounds) and `SentInOrder` (`SentAsWritten`). `StreamInv` says of each
replica that what it was sent is increasing, and is what is due up to the receiver's place but
for the transaction in the task's hands. `GoneTaskEnds` (`GoneTaskNearsEnd`): the steps a task can
take when its replica is gone are a few (`GoneStep`), each lowers `StepsLeft` (`GoneNears`), and
that is a natural number because no receiver is ahead of the writes (`BehindInv`).

**`VotePathProofs`**, from `VotePathAssumption` and `EarlierLogsAssumption` (earlier logs are rows of
records with left-over bytes anywhere between them). The proof is compositional: every step of
`VotePath` is a step of `Replica` and of `PodDataUpdater` or leaves them alone
(`ReplicaSteps`, `UpdaterSteps`), so their invariants hold in the composition without being
proved again (`RP`, `UP`).

* `PathInvariant`: these invariants and the types of the connection.
* `AppliedFromReplica` (`AppliedAsIssued`): everything on the way to the client comes from the
  replica (`SourceInv`), and the client applies number `i` as its `i+1`st vote (`NumberInv`).
* `StreamHasNoHole` (`NoHoleInStream`). `HoleInv` is the inductive form: every record of the log is
  in the stream (`Streamed`: on the way, about to be broadcast, or its number is passed or kept
  at the client), or its append failed (`Burnt`), or it is left to the catch-up, which may still
  send it, could not open the log, or has left-over bytes before it (`LeftToCatchUp`). A vote in
  the stream stays in it (`StreamedKept`), for which the updater must neither drop a valid vote
  nor apply a misread one.
* `ImplementsUpdater`: seen at the client, the composition is the updater with its channel (the
  initial states and the steps; fairness is not part of it). `PathAppliesInOrder`: it implements
  `VoteOrder`, through `PodDataUpdater`.
* `DepartedFreed` (`DepartedClientFreed`): an ended forwarder leaves an empty channel behind and
  nobody fills it again (`EndedInv`); until it has ended, a broken socket wakes it.
* `EarlyKeepsUp` (`EarlyClientKeepsUp`) and `StopsAtUnowed` (`StopsOnlyAtUnowed`). Going
  backwards from the client, a channel that nobody can drain further is empty, so the one before
  it is not blocked and is empty too (`QuietIsEmpty`, with `AliveInv`: no vote of the replica
  makes the updater exit). So when no task has anything to do the number the client waits for is
  nowhere on the way (`QuietUncovered`). By `NoHoleInStream` the client is then owed no vote for it;
  and for a client that was there before the first number, to which every broadcast vote
  came (`EarlyInv`) and none is missing (`SnInv` of the replica), it is the next one to be taken.

**`ReplicaLogProofs`**, from `LogAssumption`:

* `TypeCorrect` (`TypeOK`), with the lengths of file, maps and positions.
* `AckedSurvive` (`AckedDurable`): what append has written of its record is the end of the file,
  in one piece (`WriterInv`); every acknowledged record is a piece below the synced end
  (`SafeInv`), which neither appending nor losing the unsynced rest disturbs.
* `IteratorsFollow` (`IteratorsFollowLog`): as long as no append stopped in the middle, the file
  is a row of records, all complete but the one being written (`LayoutInv`), and every iterator
  stands between two of them and has returned those before (`FollowInv`).

`BroadcastFollowsLog` and `IteratorsFollowLog` are stated with indices instead of
subsequences, because the prover has no induction over sequences.

Only model-checked, and why:

* All liveness: `EventuallyApplied`, `NumbersSettle`, `ReadEndsOrCycle`,
  `WritesReachReplica`, `EndsWithReplicas`. Fairness is outside TLAPS here.
* The violated properties of section 3, which are false.

## 6. Not modelled

* `client/src/bin/rpccli.rs`, `pod/src/bin/replica.rs`,
  `common/src/bin/generate_replica_config.rs`: arguments, files, printing.
* `nethammer`: a stub.
* Protobuf encoding, ed25519, WebSocket framing: libraries; their outcome is modelled.
* `client/src/lib.rs` and the parsing in `client/src/bin/client.rs`: types, hex encoding of
  keys, reading the configuration; what `main` checks of it is `args_accepted`.
* Several connections of one replica: they share the write channel, the broadcast channel and
  the log, which one connection sees filled by others already (`Write`, `Tick`, `HbService`
  happen at any time), and no other state.
* A failed bind of either server, which ends the process before anything happens.

## 7. Plan

1. Done: `PodDataUpdater` with `VoteOrder`, `ClientApi`, `ReadLocks`, `Replica`,
   `ClientConnection`, `VotePath`, `ReplicaLog`; the theorems of section 5.
2. Done: `ReplicaComms` (Write, connecting, the select loop, the end of the client); the end of a
   connection and an earlier run of the replica in `VotePath`; `Pod`, several clients and a
   faulty replica.
3. Done: a theorem for every safety property of the passing runs; the enabling conditions of
   `VotePath` and `ReadLocks` written out, so that where the tasks can come to a stop is proved
   too; restarts in `Pod`, torn appends and a failing replay in `VotePath`.
4. Left: the liveness properties themselves, and an abstract specification of a replica that
   `VotePath` implements from the client's side across several connections.
