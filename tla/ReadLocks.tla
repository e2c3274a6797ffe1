----------------------------- MODULE ReadLocks -----------------------------
(***************************************************************************)
(* The locks the pod data updater and the Read RPCs of a client share:     *)
(* tokio RwLocks around mrt, tsps and ts_vote_msg.  The updater takes them *)
(* in process_vote (client/src/pod_data_updater.rs), a Read in read and in *)
(* the three functions it calls (client/src/client_api_service.rs).        *)
(*                                                                         *)
(* A tokio RwLock is fair: tasks queue in the order in which they ask, and *)
(* a reader does not overtake a waiting writer.  Asking is one step, being *)
(* granted the lock another.  Data is reduced to versions: the number of   *)
(* the process_vote call that last changed it.                             *)
(***************************************************************************)
EXTENDS Integers, Sequences, FiniteSets

CONSTANTS
  Readers,    \* concurrent Read RPCs
  Upd,        \* the updater task
  Nobody,     \* no task, or no lock
  MaxCalls,   \* bound: calls of process_vote
  MaxKeys     \* bound: transactions in tsps

ASSUME LocksAssumption ==
  /\ Upd \notin Readers
  /\ Nobody \notin Readers \cup {Upd}
  /\ MaxCalls \in Nat
  /\ MaxKeys \in Nat

Tasks == Readers \cup {Upd}
Locks == {"mrt", "tsps", "ts_vote_msg"}

\* What a vote makes process_vote do: record a transaction, count as a
\* heartbeat, or be ignored for its old timestamp.
Kinds == {"tx", "heartbeat", "stale"}

VARIABLES
  queue,     \* the tasks waiting for each lock, first come first served
  reading,   \* the number of read guards each task has on each lock
  writing,   \* the task with the write guard of each lock
  pc,        \* where each task is
  version,   \* the version of the data behind each lock
  calls,     \* the kinds of the votes process_vote was called with
  keys,      \* the number of transactions in tsps
  left,      \* the number of them a Read has not looked at yet
  seen       \* history: the versions a Read has looked at

lockvars == <<queue, reading, writing>>
datavars == <<version, calls, keys>>
vars == <<lockvars, pc, datavars, left, seen>>

NothingSeen == [l \in Locks |-> {}]

Init ==
  /\ queue = [l \in Locks |-> <<>>]
  /\ reading = [l \in Locks |-> [t \in Tasks |-> 0]]
  /\ writing = [l \in Locks |-> Nobody]
  /\ pc = [t \in Tasks |-> "idle"]
  /\ version = [l \in Locks |-> 0]
  /\ calls = <<>>
  /\ keys = 0
  /\ left = [t \in Readers |-> 0]
  /\ seen = [t \in Readers |-> NothingSeen]

-----------------------------------------------------------------------------
(***************************************************************************)
(* The locks.                                                              *)
(***************************************************************************)
Waiting(t, l) == \E i \in 1..Len(queue[l]) : queue[l][i].task = t
Running(t) == \A l \in Locks : ~Waiting(t, l)
Free(l) == writing[l] = Nobody /\ \A t \in Tasks : reading[l][t] = 0

\* Task t gives up read guards on the locks R and asks for lock l.
Ask(t, R, l, m) ==
  /\ reading' = [k \in Locks |-> [reading[k] EXCEPT ![t] = IF k \in R THEN @ - 1 ELSE @]]
  /\ queue' = [queue EXCEPT ![l] = Append(@, [task |-> t, mode |-> m])]

\* Task t gives up all its read guards.
ReleaseAll(t) == reading' = [k \in Locks |-> [reading[k] EXCEPT ![t] = 0]]

\* The first task in the queue gets a read guard.
GrantRead(l) ==
  /\ queue[l] # <<>>
  /\ Head(queue[l]).mode = "read"
  /\ writing[l] = Nobody
  /\ queue' = [queue EXCEPT ![l] = Tail(@)]
  /\ reading' = [reading EXCEPT ![l][Head(queue[l]).task] = @ + 1]
  /\ UNCHANGED <<writing, pc, datavars, left, seen>>

\* The first task in the queue gets the write guard.
GrantWrite(l) ==
  /\ queue[l] # <<>>
  /\ Head(queue[l]).mode = "write"
  /\ Free(l)
  /\ queue' = [queue EXCEPT ![l] = Tail(@)]
  /\ writing' = [writing EXCEPT ![l] = Head(queue[l]).task]
  /\ UNCHANGED <<reading, pc, datavars, left, seen>>

-----------------------------------------------------------------------------
(***************************************************************************)
(* The updater: one vote through process_vote.                             *)
(***************************************************************************)
At(t, label) == pc[t] = label /\ Running(t)
Goto(t, label) == pc' = [pc EXCEPT ![t] = label]
Kind == calls[Len(calls)]
Changed(l) == version' = [version EXCEPT ![l] = Len(calls)]

\* A vote is due: mrt.write().
UpdateMrt(kind) ==
  /\ At(Upd, "idle")
  /\ Len(calls) < MaxCalls
  /\ calls' = Append(calls, kind)
  /\ Ask(Upd, {}, "mrt", "write")
  /\ Goto(Upd, "evidence")
  /\ UNCHANGED <<writing, version, keys, left, seen>>

\* ts_vote_msg.write(), with mrt locked.
UpdateEvidence ==
  /\ At(Upd, "evidence")
  /\ Ask(Upd, {}, "ts_vote_msg", "write")
  /\ Goto(Upd, "insert")
  /\ UNCHANGED <<writing, datavars, left, seen>>

\* The vote is kept and ts_vote_msg unlocked.
UpdateInsert ==
  /\ At(Upd, "insert")
  /\ Changed("ts_vote_msg")
  /\ writing' = [writing EXCEPT !["ts_vote_msg"] = Nobody]
  /\ Goto(Upd, "stamp")
  /\ UNCHANGED <<queue, reading, calls, keys, left, seen>>

\* Mutant: the early return leaves mrt locked.
StampOnlyKeepsMrt ==
  /\ At(Upd, "stamp")
  /\ Kind # "tx"
  /\ IF Kind = "stale" THEN UNCHANGED version ELSE Changed("mrt")
  /\ Goto(Upd, "idle")
  /\ UNCHANGED <<queue, reading, writing, calls, keys, left, seen>>

\* A heartbeat, or an old timestamp: mrt is set in the first case only, and
\* unlocked.
UpdateStampOnly ==
  /\ At(Upd, "stamp")
  /\ Kind # "tx"
  /\ IF Kind = "stale" THEN UNCHANGED version ELSE Changed("mrt")
  /\ writing' = [writing EXCEPT !["mrt"] = Nobody]
  /\ Goto(Upd, "idle")
  /\ UNCHANGED <<queue, reading, calls, keys, left, seen>>

\* A transaction: mrt is set, then tsps.write().
UpdateStamp ==
  /\ At(Upd, "stamp")
  /\ Kind = "tx"
  /\ Changed("mrt")
  /\ Ask(Upd, {}, "tsps", "write")
  /\ Goto(Upd, "record")
  /\ UNCHANGED <<writing, calls, keys, left, seen>>

\* The timestamp is recorded, for a new transaction or a known one; tsps and
\* mrt are unlocked.
UpdateRecord ==
  /\ At(Upd, "record")
  /\ Changed("tsps")
  /\ keys' \in {keys, keys + 1} \cap 1..MaxKeys
  /\ writing' = [writing EXCEPT !["tsps"] = Nobody, !["mrt"] = Nobody]
  /\ Goto(Upd, "idle")
  /\ UNCHANGED <<queue, reading, calls, left, seen>>

Updater ==
  \/ \E kind \in Kinds : UpdateMrt(kind)
  \/ UpdateEvidence \/ UpdateInsert \/ UpdateStampOnly \/ UpdateStamp \/ UpdateRecord

-----------------------------------------------------------------------------
(***************************************************************************)
(* A Read.                                                                 *)
(***************************************************************************)
Sees(t, S) ==
  seen' = [seen EXCEPT ![t] = [l \in Locks |->
             @[l] \cup (IF l \in S THEN {version[l]} ELSE {})]]

\* Mutant: tsps is locked for writing.
WriteMode == "write"

\* How Read locks tsps.
TspsMode == "read"

\* tsps.read(), held to the end.
ReadTsps(t) ==
  /\ At(t, "idle")
  /\ Ask(t, {}, "tsps", TspsMode)
  /\ seen' = [seen EXCEPT ![t] = NothingSeen]
  /\ Goto(t, "votes")
  /\ UNCHANGED <<writing, datavars, left>>

\* Mutant: the guard on tsps is only held while its keys are copied.
DropsTsps == {"tsps"}

\* The guards Read drops before its end.
Drops == {}

\* ts_vote_msg.read(), held to the end.
ReadVotes(t) ==
  /\ At(t, "votes")
  /\ Ask(t, Drops, "ts_vote_msg", "read")
  /\ left' = [left EXCEPT ![t] = keys]
  /\ Sees(t, {"tsps"})
  /\ Goto(t, "loop")
  /\ UNCHANGED <<writing, datavars>>

\* Next transaction: min_possible_ts locks tsps again.
ReadMin(t) ==
  /\ At(t, "loop")
  /\ left[t] > 0
  /\ Ask(t, {}, "tsps", "read")
  /\ Goto(t, "minmrt")
  /\ UNCHANGED <<writing, datavars, left, seen>>

\* min_possible_ts locks mrt.
ReadMinMrt(t) ==
  /\ At(t, "minmrt")
  /\ Ask(t, {}, "mrt", "read")
  /\ Goto(t, "max")
  /\ UNCHANGED <<writing, datavars, left, seen>>

\* min_possible_ts returns; max_possible_ts locks tsps.
ReadMax(t) ==
  /\ At(t, "max")
  /\ Sees(t, {"tsps", "mrt"})
  /\ Ask(t, {"tsps", "mrt"}, "tsps", "read")
  /\ Goto(t, "record")
  /\ UNCHANGED <<writing, datavars, left>>

\* max_possible_ts returns; rconf and ctx are looked up.
ReadRecord(t) ==
  /\ At(t, "record")
  /\ Sees(t, {"tsps", "ts_vote_msg"})
  /\ reading' = [reading EXCEPT !["tsps"][t] = @ - 1]
  /\ left' = [left EXCEPT ![t] = @ - 1]
  /\ Goto(t, "loop")
  /\ UNCHANGED <<queue, writing, datavars>>

\* max_possible_ts panics for want of votes (module ClientApi says when): the
\* Read ends without a reply, and unwinding drops its guards.
ReadPanics(t) ==
  /\ At(t, "record")
  /\ ReleaseAll(t)
  /\ seen' = [seen EXCEPT ![t] = NothingSeen]
  /\ left' = [left EXCEPT ![t] = 0]
  /\ Goto(t, "idle")
  /\ UNCHANGED <<queue, writing, datavars>>

\* No transaction is left: min_possible_ts_for_new_tx locks mrt.
ReadPerf(t) ==
  /\ At(t, "loop")
  /\ left[t] = 0
  /\ Ask(t, {}, "mrt", "read")
  /\ Goto(t, "perf")
  /\ UNCHANGED <<writing, datavars, left, seen>>

\* It returns, and read locks mrt itself for cpp.
ReadCpp(t) ==
  /\ At(t, "perf")
  /\ Sees(t, {"mrt"})
  /\ Ask(t, {"mrt"}, "mrt", "read")
  /\ Goto(t, "cpp")
  /\ UNCHANGED <<writing, datavars, left>>

\* The reply is complete and all guards are dropped.
ReadReply(t) ==
  /\ At(t, "cpp")
  /\ Sees(t, {"mrt", "ts_vote_msg"})
  /\ ReleaseAll(t)
  /\ Goto(t, "idle")
  /\ UNCHANGED <<queue, writing, datavars, left>>

Reader(t) ==
  \/ ReadVotes(t) \/ ReadMin(t) \/ ReadMinMrt(t) \/ ReadMax(t) \/ ReadRecord(t)
  \/ ReadPanics(t) \/ ReadPerf(t) \/ ReadCpp(t) \/ ReadReply(t)

Grant == \E l \in Locks : GrantRead(l) \/ GrantWrite(l)

Next ==
  \/ Updater
  \/ \E t \in Readers : ReadTsps(t) \/ Reader(t)
  \/ Grant

\* The runtime runs every task that can go on, and a lock wakes the first task
\* in its queue; no caller has to issue a Read.
Spec ==
  /\ Init /\ [][Next]_vars
  /\ WF_vars(Updater)
  /\ \A t \in Readers : WF_vars(Reader(t))
  /\ \A l \in Locks : WF_vars(GrantRead(l)) /\ WF_vars(GrantWrite(l))

-----------------------------------------------------------------------------
(***************************************************************************)
(* Properties.                                                             *)
(***************************************************************************)

\* The last call up to k of one of the kinds K, or 0.
Latest(k, K) ==
  LET S == {i \in 1..k : calls[i] \in K}
  IN  IF S = {} THEN 0 ELSE CHOOSE i \in S : \A j \in S : j <= i

\* The versions after k complete calls of process_vote.
After(k) == [l \in Locks |-> CASE l = "ts_vote_msg" -> k
                               [] l = "mrt" -> Latest(k, {"tx", "heartbeat"})
                               [] l = "tsps" -> Latest(k, {"tx"})]

\* A Read that completes has looked at one state of the view: all it saw, over
\* a dozen separate lock sections, is what some number of complete
\* process_vote calls left behind, although process_vote changes the three
\* maps under three locks.
ReadIsSnapshot ==
  \A t \in Readers :
    pc[t] = "idle" =>
      \E k \in 0..Len(calls) : \A l \in Locks : seen[t][l] \subseteq {After(k)[l]}

\* The updater waits for a lock that Read t has, and t waits for a lock the
\* updater has or asked for first.
CircularWait(t) ==
  \E l, k \in Locks :
    /\ Waiting(Upd, l) /\ reading[l][t] > 0
    /\ Waiting(t, k) /\ (writing[k] = Upd \/ k = l)

\* A task in the middle of a Read or of a vote runs, or a lock can be granted.
Unfinished(t) == pc[t] # "idle"
Grantable(l) ==
  /\ queue[l] # <<>>
  /\ IF Head(queue[l]).mode = "read" THEN writing[l] = Nobody ELSE Free(l)
CanGoOn == (\E t \in Tasks : Unfinished(t) /\ Running(t)) \/ \E l \in Locks : Grantable(l)

\* Waiting for each other is the only way to hang: when a Read is unfinished
\* and neither a task nor a lock can go on, some Read and the updater form a
\* cycle.  No guard is left behind by an early return, no queue is blocked by a
\* task that is done, and three locks and many Reads make no longer cycle.
StuckOnlyInCycle ==
  (\E t \in Readers : Unfinished(t)) /\ ~CanGoOn => \E s \in Readers : CircularWait(s)

\* Every Read ends, with a reply or in a panic, unless some Read and the updater
\* wait for each other: fairness of the locks rules out every other way to hang,
\* and a panic leaves no lock behind.
ReadEndsOrCycle ==
  \A t \in Readers :
    pc[t] # "idle" ~> pc[t] = "idle" \/ \E s \in Readers : CircularWait(s)

\* pod_data_updater.rs drops a lock early "to avoid deadlocks": no Read and
\* updater ever wait for each other.
NoCircularWait == \A t \in Readers : ~CircularWait(t)
=============================================================================
