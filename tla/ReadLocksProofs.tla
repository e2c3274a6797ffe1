-------------------------- MODULE ReadLocksProofs --------------------------
(***************************************************************************)
(* Proof that a Read sees one state of the view (ReadIsSnapshot), for any  *)
(* number of Reads and of votes.  The guards each task has follow from     *)
(* where it is and whether it waits; they keep the updater from changing   *)
(* what an unfinished Read has looked at; and a Read that completes has    *)
(* the guard of mrt, so the updater is between two votes.                  *)
(* The second half turns this around: a task has no guard but those its    *)
(* label calls for, so a Read can only hang in a cycle with the updater    *)
(* (StuckOnlyInCycle).                                                     *)
(***************************************************************************)
EXTENDS ReadLocks, TLAPS

Entry == [task : Tasks, mode : {"read", "write"}]
UpdLabels == {"idle", "evidence", "insert", "stamp", "record"}
ReadLabels == {"idle", "votes", "loop", "minmrt", "max", "record", "perf", "cpp"}

\* The types of the variables the proof is about; only the updater writes.
LockType ==
  /\ queue \in [Locks -> Seq(Entry)]
  /\ reading \in [Locks -> [Tasks -> Nat]]
  /\ writing \in [Locks -> {Nobody, Upd}]
  /\ pc \in [Tasks -> UpdLabels \cup ReadLabels]
  /\ pc[Upd] \in UpdLabels
  /\ \A t \in Readers : pc[t] \in ReadLabels
  /\ version \in [Locks -> Nat]
  /\ calls \in Seq(Kinds)
  /\ seen \in [Readers -> [Locks -> SUBSET Nat]]

\* Task t is in the queue q; no task is there twice.
InQ(q, t) == \E i \in 1..Len(q) : q[i].task = t
Once(q) == \A i, j \in 1..Len(q) : q[i].task = q[j].task => i = j

\* The lock a task may wait for at each label.
UpdWants == {<<"evidence", "mrt">>, <<"insert", "ts_vote_msg">>, <<"record", "tsps">>}
ReadWants ==
  {<<"votes", "tsps">>, <<"loop", "ts_vote_msg">>, <<"minmrt", "tsps">>, <<"max", "mrt">>,
   <<"record", "tsps">>, <<"perf", "mrt">>, <<"cpp", "mrt">>}

\* A task at label p has reason to be in the queue of lock l with entry e.
Due(l, e, p) ==
  IF e.task = Upd THEN e.mode = "write" /\ <<p, l>> \in UpdWants
                  ELSE e.mode = "read" /\ <<p, l>> \in ReadWants

\* Every task in the queue q of lock l waits for what it has asked for last.
Queued(q, l, labels) ==
  /\ Once(q)
  /\ \A i \in 1..Len(q) : Due(l, q[i], labels[q[i].task])

QueueInv == \A l \in Locks : Queued(queue[l], l, pc)

\* Nobody reads what the updater has locked for writing.
MutexInv == \A l \in Locks : writing[l] # Nobody => \A t \in Tasks : reading[l][t] = 0

\* The least numbers of read guards on tsps (a), ts_vote_msg (b) and mrt (c) of
\* a Read at label p, when it runs and while it waits.
Holds(p, run, a, b, c) ==
  /\ p \notin {"idle", "votes"} \/ (p = "votes" /\ run) => a >= 1
  /\ p \notin {"idle", "votes", "loop"} \/ (p = "loop" /\ run) => b >= 1
  /\ p = "max" \/ (p \in {"minmrt", "record"} /\ run) => a >= 2
  /\ p \in {"max", "perf", "cpp"} /\ run => c >= 1

GuardInv ==
  \A t \in Readers :
    Holds(pc[t], Running(t), reading["tsps"][t], reading["ts_vote_msg"][t], reading["mrt"][t])

\* The write guards of the updater.
UpdInv ==
  /\ pc[Upd] \in {"insert", "stamp", "record"} \/ At(Upd, "evidence") => writing["mrt"] = Upd
  /\ At(Upd, "insert") => writing["ts_vote_msg"] = Upd
  /\ At(Upd, "record") => writing["tsps"] = Upd

\* What an unfinished Read at label p has looked at (sn) has not changed since;
\* v are the versions now.  Once it has looked at mrt, the updater (at label u)
\* is not behind a change of ts_vote_msg that mrt does not show yet.
SeenOk(sn, v, p, run, u) ==
  p # "idle" =>
    /\ \A l \in Locks : sn[l] \subseteq {v[l]}
    /\ p = "votes" => \A l \in Locks : sn[l] = {}
    /\ p = "loop" /\ ~run => sn["ts_vote_msg"] = {} /\ sn["mrt"] = {}
    /\ sn["mrt"] # {} => u \in {"idle", "evidence", "insert"}

SeenInv == \A t \in Readers : SeenOk(seen[t], version, pc[t], Running(t), pc[Upd])

\* Latest as an operator of the calls.
Top(S) == IF S = {} THEN 0 ELSE CHOOSE i \in S : \A j \in S : j <= i
LatestIn(c, k, K) == Top({i \in 1..k : c[i] \in K})

\* The versions v of the maps after kv, km and kt of the calls c.
VersionsAre(v, c, kv, km, kt) ==
  /\ v["ts_vote_msg"] = kv
  /\ v["mrt"] = LatestIn(c, km, {"tx", "heartbeat"})
  /\ v["tsps"] = LatestIn(c, kt, {"tx"})

\* How far the current call of process_vote has changed the maps.
VersionInv ==
  LET K == Len(calls) IN
  /\ pc[Upd] # "idle" => K > 0
  /\ pc[Upd] = "idle" => VersionsAre(version, calls, K, K, K)
  /\ pc[Upd] \in {"evidence", "insert"} => VersionsAre(version, calls, K - 1, K - 1, K - 1)
  /\ pc[Upd] = "stamp" => VersionsAre(version, calls, K, K - 1, K - 1)
  /\ pc[Upd] = "record" => Kind = "tx" /\ VersionsAre(version, calls, K, K, K - 1)

LocksInv == LockType /\ QueueInv /\ MutexInv /\ GuardInv /\ UpdInv

-----------------------------------------------------------------------------
(***************************************************************************)
(* Queues.                                                                 *)
(***************************************************************************)

\* The queue u is q with e at its end, or q without its head.
Longer(q, e, u) ==
  /\ u \in Seq(Entry) /\ Len(u) = Len(q) + 1 /\ u[Len(q) + 1] = e
  /\ \A i \in 1..Len(q) : u[i] = q[i]
  /\ \A t : InQ(u, t) <=> InQ(q, t) \/ e.task = t
Shorter(q, u) ==
  /\ u \in Seq(Entry) /\ Once(u)
  /\ \A i \in 1..Len(u) : \E j \in 1..Len(q) : u[i] = q[j]
  /\ \A t : InQ(u, t) <=> InQ(q, t) /\ t # Head(q).task
  /\ Head(q) \in Entry /\ InQ(q, Head(q).task) /\ 1 \in 1..Len(q) /\ Head(q) = q[1]

\* Only task t is somewhere else.
SameBut(f, g, t) == \A s \in Tasks \ {t} : g[s] = f[s]

\* A task that asks is added to the queue.
LEMMA InAppend ==
  ASSUME NEW q \in Seq(Entry), NEW e \in Entry
  PROVE  Longer(q, e, Append(q, e))
<1> DEFINE u == Append(q, e)
<1>1. /\ u \in Seq(Entry) /\ Len(u) = Len(q) + 1 /\ u[Len(q) + 1] = e
      /\ \A i \in 1..Len(q) : u[i] = q[i]
  OBVIOUS
<1>2. 1..Len(u) = 1..Len(q) \cup {Len(q) + 1}
  BY <1>1
<1>3. ASSUME NEW t PROVE InQ(u, t) <=> InQ(q, t) \/ e.task = t
  <2> HIDE DEF u
  <2> QED
    BY <1>1, <1>2 DEF InQ
<1>4. Longer(q, e, u)
  <2> HIDE DEF u
  <2> QED
    BY <1>1, <1>3 DEF Longer
<1> QED
  BY <1>4

\* It is there once if it was not there.
LEMMA OnceAppend ==
  ASSUME NEW q \in Seq(Entry), NEW e \in Entry, NEW u, Longer(q, e, u),
         Once(q), ~InQ(q, e.task)
  PROVE  Once(u)
<1>1. /\ Len(u) = Len(q) + 1 /\ u[Len(q) + 1] = e /\ Len(q) \in Nat
      /\ \A i \in 1..Len(q) : u[i] = q[i]
  BY DEF Longer
<1>2. \A i \in 1..Len(u) : i \in 1..Len(q) \/ i = Len(q) + 1
  BY <1>1
<1> QED
  BY <1>1, <1>2 DEF Once, InQ

\* The first task leaves the queue, the others stay.
LEMMA TailQueue ==
  ASSUME NEW q \in Seq(Entry), q # <<>>, Once(q)
  PROVE  Shorter(q, Tail(q))
<1> DEFINE u == Tail(q)
<1>1. /\ u \in Seq(Entry) /\ Len(u) = Len(q) - 1 /\ Len(q) \in Nat /\ Len(q) > 0
      /\ Head(q) = q[1] /\ Head(q) \in Entry
      /\ \A i \in 1..Len(u) : u[i] = q[i + 1]
  OBVIOUS
<1> HIDE DEF u
<1>2. \A i \in 1..Len(u) : i + 1 \in 1..Len(q)
  BY <1>1
<1>3. \A j \in 1..Len(q) : j # 1 => j - 1 \in 1..Len(u) /\ (j - 1) + 1 = j
  BY <1>1
<1>4. Once(u)
  <2> SUFFICES ASSUME NEW i \in 1..Len(u), NEW j \in 1..Len(u), u[i].task = u[j].task PROVE i = j
    BY DEF Once
  <2>1. i + 1 = j + 1
    BY <1>1, <1>2 DEF Once
  <2> QED
    BY <1>1, <2>1
<1>5. 1 \in 1..Len(q)
  BY <1>1
<1>6. ASSUME NEW t PROVE InQ(u, t) <=> InQ(q, t) /\ t # Head(q).task
  <2>1. ASSUME NEW i \in 1..Len(u), u[i].task = t PROVE InQ(q, t) /\ t # Head(q).task
    <3>1. i + 1 # 1 /\ q[i + 1].task = t
      BY <1>1, <2>1
    <3> QED
      BY <1>1, <1>2, <1>5, <3>1 DEF InQ, Once
  <2>2. ASSUME NEW j \in 1..Len(q), q[j].task = t, t # Head(q).task PROVE InQ(u, t)
    <3>1. j # 1
      BY <1>1, <2>2
    <3>2. u[j - 1] = q[j]
      BY <1>1, <1>3, <3>1
    <3> QED
      BY <1>3, <2>2, <3>1, <3>2 DEF InQ
  <2> QED
    BY <2>1, <2>2 DEF InQ
<1>7. Shorter(q, u)
  BY <1>1, <1>2, <1>4, <1>5, <1>6 DEF InQ, Shorter
<1> QED
  BY <1>7 DEF u

\* Running, in terms of queues.
LEMMA RunningIs ==
  ASSUME NEW t
  PROVE  Running(t) <=> \A l \in Locks : ~InQ(queue[l], t)
BY DEF Running, Waiting, InQ

\* A queue does not care where a task goes that is not in it.
LEMMA QueuedGo ==
  ASSUME NEW q \in Seq(Entry), NEW l, NEW f, NEW g, NEW t, Queued(q, l, f), ~InQ(q, t),
         SameBut(f, g, t)
  PROVE  Queued(q, l, g)
<1>1. ASSUME NEW i \in 1..Len(q) PROVE Due(l, q[i], g[q[i].task])
  <2>1. q[i] \in Entry
    OBVIOUS
  <2>2. q[i].task \in Tasks
    BY <2>1 DEF Entry
  <2>3. q[i].task # t
    BY DEF InQ
  <2>4. g[q[i].task] = f[q[i].task]
    BY <2>2, <2>3 DEF SameBut
  <2> QED
    BY <2>4 DEF Queued
<1> QED
  BY <1>1 DEF Queued

\* A running task t asks for lock l on its way to label p.
LEMMA QueueAsk ==
  ASSUME LockType, QueueInv, NEW t \in Tasks, Running(t), NEW l \in Locks,
         NEW e \in Entry, e.task = t, NEW p, Due(l, e, p),
         queue' = [queue EXCEPT ![l] = Append(@, e)],
         pc' = [pc EXCEPT ![t] = p]
  PROVE  /\ queue' \in [Locks -> Seq(Entry)] /\ QueueInv'
         /\ ~Running(t)' /\ \A s \in Tasks \ {t} : Running(s)' <=> Running(s)
<1>1. queue \in [Locks -> Seq(Entry)] /\ queue[l] \in Seq(Entry)
  BY DEF LockType
<1>2. PICK q \in Seq(Entry) : q = queue[l]
  BY <1>1
<1>3. PICK u : u = Append(q, e)
  OBVIOUS
<1>4. Longer(q, e, u)
  BY <1>3, InAppend, Zenon
<1>5. /\ queue'[l] = u /\ \A k \in Locks \ {l} : queue'[k] = queue[k]
      /\ queue' \in [Locks -> Seq(Entry)]
  BY <1>1, <1>2, <1>3, <1>4 DEF Longer
<1>6. pc'[t] = p /\ SameBut(pc, pc', t)
  BY DEF LockType, SameBut
<1>7. \A k \in Locks : ~InQ(queue[k], t)
  BY RunningIs
<1>8. ASSUME NEW k \in Locks PROVE Queued(queue[k], k, pc')
  <2>1. queue[k] \in Seq(Entry) /\ Queued(queue[k], k, pc) /\ ~InQ(queue[k], t)
    BY <1>1, <1>7 DEF QueueInv
  <2> QED
    BY <1>6, <2>1, QueuedGo, Zenon
<1>9. Queued(u, l, pc')
  <2>1. Once(u)
    BY <1>2, <1>4, <1>7, <1>8, OnceAppend DEF Queued
  <2>2. ASSUME NEW i \in 1..Len(u) PROVE Due(l, u[i], pc'[u[i].task])
    <3>1. CASE i \in 1..Len(q)
      BY <1>2, <1>4, <1>8, <3>1 DEF Queued, Longer
    <3>2. CASE i = Len(q) + 1
      BY <1>4, <1>6, <3>2 DEF Longer
    <3>3. Len(q) \in Nat
      OBVIOUS
    <3> QED
      BY <1>4, <3>1, <3>2, <3>3 DEF Longer
  <2> QED
    BY <2>1, <2>2 DEF Queued
<1>10. QueueInv'
  <2> SUFFICES ASSUME NEW k \in Locks PROVE Queued(queue'[k], k, pc')
    BY DEF QueueInv
  <2>1. CASE k = l
    BY <1>5, <1>9, <2>1
  <2>2. CASE k # l
    BY <1>5, <1>8, <2>2
  <2> QED
    BY <2>1, <2>2
<1>11. ASSUME NEW s PROVE Running(s)' <=> Running(s) /\ s # t
  <2>1. \A k \in Locks : InQ(queue'[k], s) <=> InQ(queue[k], s) \/ (k = l /\ s = t)
    BY <1>2, <1>4, <1>5 DEF Longer
  <2>2. Running(s)' <=> \A k \in Locks : ~InQ(queue'[k], s)
    BY DEF Running, Waiting, InQ
  <2> QED
    BY <1>7, <2>1, <2>2, RunningIs
<1> QED
  BY <1>5, <1>10, <1>11

\* The first task in the queue of lock l gets it.
LEMMA QueueGrant ==
  ASSUME LockType, QueueInv, NEW l \in Locks, queue[l] # <<>>,
         queue' = [queue EXCEPT ![l] = Tail(@)], UNCHANGED pc
  PROVE  /\ queue' \in [Locks -> Seq(Entry)] /\ QueueInv'
         /\ Head(queue[l]) \in Entry /\ Due(l, Head(queue[l]), pc[Head(queue[l]).task])
         /\ ~Running(Head(queue[l]).task)
         /\ \A s \in Tasks \ {Head(queue[l]).task} : Running(s)' <=> Running(s)
<1>1. queue \in [Locks -> Seq(Entry)] /\ queue[l] \in Seq(Entry) /\ Once(queue[l])
  BY DEF LockType, QueueInv, Queued
<1>2. PICK q \in Seq(Entry) : q = queue[l] /\ q # <<>> /\ Once(q)
  BY <1>1
<1>3. PICK u : u = Tail(q)
  OBVIOUS
<1>0. Shorter(q, u)
  BY <1>2, <1>3, TailQueue, Zenon
<1>4. /\ u \in Seq(Entry) /\ Once(u)
      /\ \A i \in 1..Len(u) : \E j \in 1..Len(q) : u[i] = q[j]
      /\ \A t : InQ(u, t) <=> InQ(q, t) /\ t # Head(q).task
      /\ Head(q) \in Entry /\ InQ(q, Head(q).task) /\ 1 \in 1..Len(q) /\ Head(q) = q[1]
  BY <1>0 DEF Shorter
<1>5. /\ queue'[l] = u /\ \A k \in Locks \ {l} : queue'[k] = queue[k]
      /\ queue' \in [Locks -> Seq(Entry)]
  BY <1>1, <1>2, <1>3, <1>4
<1>6. Queued(q, l, pc)
  BY <1>2 DEF QueueInv
<1>7. Queued(u, l, pc)
  BY <1>4, <1>6 DEF Queued
<1>8. QueueInv'
  <2> SUFFICES ASSUME NEW k \in Locks PROVE Queued(queue'[k], k, pc)
    BY DEF QueueInv
  <2>1. CASE k = l
    BY <1>5, <1>7, <2>1
  <2>2. CASE k # l
    BY <1>5, <2>2 DEF QueueInv
  <2> QED
    BY <2>1, <2>2
<1>9. Due(l, Head(q), pc[Head(q).task])
  BY <1>4, <1>6 DEF Queued
<1>10. ~Running(Head(q).task)
  BY <1>2, <1>4, RunningIs
<1>11. ASSUME NEW s, s # Head(q).task PROVE Running(s)' <=> Running(s)
  <2>1. \A k \in Locks : InQ(queue'[k], s) <=> InQ(queue[k], s)
    BY <1>2, <1>4, <1>5, <1>11
  <2>2. Running(s)' <=> \A k \in Locks : ~InQ(queue'[k], s)
    BY DEF Running, Waiting, InQ
  <2> QED
    BY <2>1, <2>2, RunningIs
<1> QED
  BY <1>2, <1>4, <1>5, <1>8, <1>9, <1>10, <1>11

\* A running task goes on without asking for a lock.
LEMMA QueueGo ==
  ASSUME LockType, QueueInv, NEW t \in Tasks, Running(t), NEW p,
         UNCHANGED queue, pc' = [pc EXCEPT ![t] = p]
  PROVE  QueueInv' /\ \A s : Running(s)' <=> Running(s)
<1>1. SameBut(pc, pc', t)
  BY DEF LockType, SameBut
<1>2. ASSUME NEW k \in Locks PROVE Queued(queue[k], k, pc')
  <2>1. queue[k] \in Seq(Entry) /\ Queued(queue[k], k, pc) /\ ~InQ(queue[k], t)
    BY RunningIs DEF QueueInv, LockType
  <2> QED
    BY <1>1, <2>1, QueuedGo
<1> QED
  BY <1>2 DEF QueueInv, Running, Waiting

-----------------------------------------------------------------------------
(***************************************************************************)
(* The steps of the tasks.                                                 *)
(***************************************************************************)

\* The names of the three locks and of the tasks are different.
LEMMA Names ==
  /\ "mrt" \in Locks /\ "tsps" \in Locks /\ "ts_vote_msg" \in Locks
  /\ \A l \in Locks : l \in {"mrt", "tsps", "ts_vote_msg"}
  /\ Upd \in Tasks /\ Nobody # Upd /\ \A t \in Readers : t \in Tasks /\ t # Upd
  /\ \A t \in Tasks : t = Upd \/ t \in Readers
BY LocksAssumption DEF Locks, Tasks

\* What a Read adds to what it has seen is a version.
LEMMA SeesType ==
  ASSUME LockType, NEW t \in Readers, NEW S, Sees(t, S)
  PROVE  seen' \in [Readers -> [Locks -> SUBSET Nat]]
<1>1. ASSUME NEW l \in Locks
      PROVE  seen[t][l] \cup (IF l \in S THEN {version[l]} ELSE {}) \in SUBSET Nat
  BY DEF LockType
<1> DEFINE new == [l \in Locks |-> seen[t][l] \cup (IF l \in S THEN {version[l]} ELSE {})]
<1>2. new \in [Locks -> SUBSET Nat]
  BY <1>1
<1>3. seen' = [seen EXCEPT ![t] = new]
  BY DEF Sees
<1> HIDE DEF new
<1> QED
  BY <1>2, <1>3 DEF LockType

\* The types of the data are kept.
LEMMA DataStep ==
  ASSUME LockType, [Next]_vars
  PROVE  /\ version' \in [Locks -> Nat] /\ calls' \in Seq(Kinds)
         /\ seen' \in [Readers -> [Locks -> SUBSET Nat]]
<1>0. /\ version \in [Locks -> Nat] /\ calls \in Seq(Kinds) /\ Len(calls) \in Nat
      /\ seen \in [Readers -> [Locks -> SUBSET Nat]]
  BY DEF LockType
<1>1. ASSUME Updater PROVE UNCHANGED seen /\ calls' \in Seq(Kinds) /\ version' \in [Locks -> Nat]
  <2>1. CASE \E kind \in Kinds : UpdateMrt(kind)
    BY <1>0, <2>1 DEF UpdateMrt
  <2>2. CASE UpdateEvidence
    BY <1>0, <2>2 DEF UpdateEvidence, datavars
  <2>3. CASE UpdateInsert \/ UpdateStampOnly \/ UpdateStamp \/ UpdateRecord
    <3>1. UNCHANGED <<seen, calls>> /\ (UNCHANGED version \/ \E l : Changed(l))
      BY <2>3 DEF UpdateInsert, UpdateStampOnly, UpdateStamp, UpdateRecord
    <3> QED
      BY <1>0, <3>1 DEF Changed
  <2> QED
    BY <1>1, <2>1, <2>2, <2>3 DEF Updater
<1>2. ASSUME NEW t \in Readers, ReadTsps(t) \/ Reader(t) \/ Grant
      PROVE  UNCHANGED <<version, calls>>
  BY <1>2 DEF ReadTsps, Reader, ReadVotes, ReadMin, ReadMinMrt, ReadMax, ReadRecord, ReadPerf,
              ReadPanics, ReadCpp, ReadReply, Grant, GrantRead, GrantWrite, datavars
<1>3. ASSUME NEW t \in Readers, ReadTsps(t)
      PROVE  seen' \in [Readers -> [Locks -> SUBSET Nat]]
  <2>1. NothingSeen \in [Locks -> SUBSET Nat]
    BY DEF NothingSeen
  <2> QED
    BY <1>0, <1>3, <2>1 DEF ReadTsps
<1>4. ASSUME NEW t \in Readers, Reader(t)
      PROVE  UNCHANGED seen \/ seen' = [seen EXCEPT ![t] = NothingSeen] \/ \E S : Sees(t, S)
  <2> USE DEF Reader, ReadVotes, ReadMin, ReadMinMrt, ReadMax, ReadRecord, ReadPanics, ReadPerf,
              ReadCpp, ReadReply
  <2> QED
    BY <1>4
<1>5. ASSUME Grant PROVE UNCHANGED <<version, calls, seen>>
  BY <1>5 DEF Grant, GrantRead, GrantWrite, datavars
<1>6. ASSUME UNCHANGED vars PROVE UNCHANGED <<version, calls, seen>>
  BY <1>6 DEF vars, datavars
<1>7. ASSUME NEW t \in Readers, ReadTsps(t) \/ Reader(t)
      PROVE  UNCHANGED <<version, calls>> /\ seen' \in [Readers -> [Locks -> SUBSET Nat]]
  <2>1. NothingSeen \in [Locks -> SUBSET Nat]
    BY DEF NothingSeen
  <2>2. CASE seen' = [seen EXCEPT ![t] = NothingSeen]
    BY <1>0, <1>2, <1>7, <2>1, <2>2
  <2> QED
    BY <1>0, <1>2, <1>3, <1>4, <1>7, <2>2, SeesType
<1> QED
  BY <1>0, <1>1, <1>5, <1>6, <1>7 DEF Next

\* Task t is at label p now, and runs if r; the other tasks are where they were.
Moved(t, p, r) ==
  /\ pc' \in [Tasks -> UpdLabels \cup ReadLabels] /\ pc'[t] = p /\ SameBut(pc, pc', t)
  /\ Running(t)' <=> r
  /\ \A s \in Tasks \ {t} : Running(s)' <=> Running(s)

\* Task t has given up a read guard on the locks R.
Dropped(t, R) ==
  /\ reading' \in [Locks -> [Tasks -> Nat]]
  /\ \A k \in Locks : \A s \in Tasks \ {t} : reading'[k][s] = reading[k][s]
  /\ \A k \in Locks : reading'[k][t] = IF k \in R THEN reading[k][t] - 1 ELSE reading[k][t]

\* A running task asks for a lock.
LEMMA AskStep ==
  ASSUME LockType, QueueInv, NEW t \in Tasks, Running(t), NEW R, NEW l \in Locks,
         NEW m \in {"read", "write"}, NEW p \in UpdLabels \cup ReadLabels,
         Due(l, [task |-> t, mode |-> m], p),
         Ask(t, R, l, m), Goto(t, p), \A k \in R : reading[k][t] >= 1
  PROVE  /\ queue' \in [Locks -> Seq(Entry)] /\ QueueInv'
         /\ Moved(t, p, FALSE) /\ Dropped(t, R)
<1>1. PICK e \in Entry : e = [task |-> t, mode |-> m]
  BY DEF Entry
<1>2. e.task = t /\ Due(l, e, p)
  BY <1>1
<1>3. queue' = [queue EXCEPT ![l] = Append(@, e)] /\ pc' = [pc EXCEPT ![t] = p]
  BY <1>1 DEF Ask, Goto
<1>4. /\ queue' \in [Locks -> Seq(Entry)] /\ QueueInv'
      /\ ~Running(t)' /\ \A s \in Tasks \ {t} : Running(s)' <=> Running(s)
  BY <1>2, <1>3, QueueAsk, Zenon
<1>5. pc' \in [Tasks -> UpdLabels \cup ReadLabels] /\ pc'[t] = p /\ SameBut(pc, pc', t)
  BY <1>3 DEF LockType, SameBut
<1>6. ASSUME NEW k \in Locks
      PROVE  /\ reading'[k] \in [Tasks -> Nat]
             /\ \A s \in Tasks \ {t} : reading'[k][s] = reading[k][s]
             /\ reading'[k][t] = IF k \in R THEN reading[k][t] - 1 ELSE reading[k][t]
  <2>1. reading[k] \in [Tasks -> Nat] /\ reading[k][t] \in Nat
    BY DEF LockType
  <2>2. reading'[k] = [reading[k] EXCEPT ![t] = IF k \in R THEN @ - 1 ELSE @]
    BY DEF Ask
  <2>3. (IF k \in R THEN reading[k][t] - 1 ELSE reading[k][t]) \in Nat
    BY <2>1
  <2> QED
    BY <2>1, <2>2, <2>3
<1>7. reading' = [k \in Locks |-> reading'[k]]
  BY DEF Ask
<1>8. Dropped(t, R)
  BY <1>6, <1>7 DEF Dropped
<1> QED
  BY <1>4, <1>5, <1>8 DEF Moved

\* A running task goes on without a lock.
LEMMA GoStep ==
  ASSUME LockType, QueueInv, NEW t \in Tasks, Running(t), NEW p \in UpdLabels \cup ReadLabels,
         UNCHANGED queue, Goto(t, p)
  PROVE  queue' \in [Locks -> Seq(Entry)] /\ QueueInv' /\ Moved(t, p, TRUE)
<1>1. pc' = [pc EXCEPT ![t] = p]
  BY DEF Goto
<1>2. QueueInv' /\ \A s : Running(s)' <=> Running(s)
  BY <1>1, QueueGo, Zenon
<1> QED
  BY <1>1, <1>2 DEF LockType, SameBut, Moved

\* The types of the data behind the locks, and of what was seen of it.
DataType ==
  /\ version \in [Locks -> Nat]
  /\ calls \in Seq(Kinds)
  /\ seen \in [Readers -> [Locks -> SUBSET Nat]]

\* No task but t has other read guards than before, and t has not more.
Fewer(t) ==
  /\ reading' \in [Locks -> [Tasks -> Nat]]
  /\ \A k \in Locks : \A s \in Tasks \ {t} : reading'[k][s] = reading[k][s]
  /\ \A k \in Locks : reading'[k][t] <= reading[k][t]

\* What follows for the locks when a task moves without being granted one.
LEMMA TaskStep ==
  ASSUME LocksInv, DataType', NEW t \in Tasks, NEW p, NEW r \in BOOLEAN,
         IF t = Upd THEN p \in UpdLabels ELSE p \in ReadLabels,
         queue' \in [Locks -> Seq(Entry)], QueueInv', Moved(t, p, r), Fewer(t),
         writing' \in [Locks -> {Nobody, Upd}],
         \A l \in Locks : writing'[l] # Nobody => writing[l] # Nobody,
         t # Upd => /\ UNCHANGED writing
                    /\ Holds(p, r, reading'["tsps"][t], reading'["ts_vote_msg"][t],
                             reading'["mrt"][t])
  PROVE  LockType' /\ QueueInv' /\ MutexInv' /\ GuardInv' /\ (t # Upd => UpdInv')
<1>0. /\ LockType /\ MutexInv /\ GuardInv /\ UpdInv
      /\ pc' \in [Tasks -> UpdLabels \cup ReadLabels] /\ pc'[t] = p
      /\ \A s \in Tasks \ {t} : pc'[s] = pc[s]
      /\ Running(t)' <=> r
      /\ \A s \in Tasks \ {t} : Running(s)' <=> Running(s)
  BY DEF LocksInv, Moved, SameBut
<1>1. LockType'
  <2>1. pc'[Upd] \in UpdLabels
    BY <1>0, Names DEF LockType
  <2>2. ASSUME NEW s \in Readers PROVE pc'[s] \in ReadLabels
    BY <1>0, Names DEF LockType
  <2> QED
    BY <1>0, <2>1, <2>2 DEF LockType, DataType, Fewer
<1>2. MutexInv'
  <2> SUFFICES ASSUME NEW l \in Locks, writing'[l] # Nobody, NEW s \in Tasks
               PROVE  reading'[l][s] = 0
    BY DEF MutexInv
  <2>1. reading[l][s] = 0
    BY <1>0 DEF MutexInv
  <2>2. reading'[l][s] \in Nat /\ reading[l][s] \in Nat
    BY <1>0 DEF Fewer, LockType
  <2>3. reading'[l][s] <= reading[l][s]
    <3>1. CASE s = t
      BY <3>1 DEF Fewer
    <3>2. CASE s # t
      <4>1. reading'[l][s] = reading[l][s]
        BY <3>2 DEF Fewer
      <4> QED
        BY <2>2, <4>1
    <3> QED
      BY <3>1, <3>2
  <2> QED
    BY <2>1, <2>2, <2>3
<1>3. GuardInv'
  <2> SUFFICES ASSUME NEW s \in Readers
               PROVE  Holds(pc'[s], Running(s)', reading'["tsps"][s],
                            reading'["ts_vote_msg"][s], reading'["mrt"][s])
    BY DEF GuardInv
  <2>1. CASE s = t
    BY <1>0, <2>1, Names DEF Holds
  <2>2. CASE s # t
    <3>1. /\ s \in Tasks /\ pc'[s] = pc[s] /\ (Running(s)' <=> Running(s))
          /\ reading'["tsps"][s] = reading["tsps"][s] /\ reading'["mrt"][s] = reading["mrt"][s]
          /\ reading'["ts_vote_msg"][s] = reading["ts_vote_msg"][s]
      BY <1>0, <2>2, Names DEF Fewer
    <3>2. Holds(pc[s], Running(s), reading["tsps"][s], reading["ts_vote_msg"][s],
                reading["mrt"][s])
      BY <1>0 DEF GuardInv
    <3> QED
      BY <3>1, <3>2 DEF Holds
  <2> QED
    BY <2>1, <2>2
<1>4. ASSUME t # Upd PROVE UpdInv'
  <2>1. pc'[Upd] = pc[Upd] /\ (Running(Upd)' <=> Running(Upd)) /\ UNCHANGED writing
    BY <1>0, <1>4, Names
  <2> QED
    BY <1>0, <2>1 DEF UpdInv, At
<1> QED
  BY <1>1, <1>2, <1>3, <1>4

\* Giving up a guard leaves a task with fewer.
LEMMA DroppedFewer ==
  ASSUME LockType, NEW t \in Tasks, NEW R, Dropped(t, R)
  PROVE  Fewer(t)
<1>1. \A k \in Locks : reading[k][t] \in Nat
  BY DEF LockType
<1> QED
  BY <1>1 DEF Dropped, Fewer

\* The updater asks for a lock.
LEMMA UpdAsk ==
  ASSUME LocksInv, DataType', Running(Upd), NEW l \in Locks, NEW p \in UpdLabels,
         <<p, l>> \in UpdWants, Ask(Upd, {}, l, "write"), Goto(Upd, p), UNCHANGED writing,
         p # "evidence" => writing["mrt"] = Upd
  PROVE  LocksInv' /\ Moved(Upd, p, FALSE)
<1>1. Due(l, [task |-> Upd, mode |-> "write"], p)
  BY DEF Due
<1>2. LockType /\ QueueInv /\ Upd \in Tasks /\ p \in UpdLabels \cup ReadLabels
  BY Names DEF LocksInv
<1>3. /\ queue' \in [Locks -> Seq(Entry)] /\ QueueInv'
      /\ Moved(Upd, p, FALSE) /\ Dropped(Upd, {})
  BY <1>1, <1>2, AskStep
<1>4. Fewer(Upd)
  BY <1>2, <1>3, DroppedFewer
<1>5. writing' \in [Locks -> {Nobody, Upd}]
  BY <1>2 DEF LockType
<1>6. LockType' /\ QueueInv' /\ MutexInv' /\ GuardInv'
  BY <1>2, <1>3, <1>4, <1>5, TaskStep
<1>7. UpdInv'
  BY <1>3 DEF UpdInv, At, Moved, UpdWants
<1> QED
  BY <1>3, <1>6, <1>7 DEF LocksInv

\* The updater goes on after a change, and may unlock what it has locked.
LEMMA UpdGo ==
  ASSUME LocksInv, DataType', Running(Upd), NEW p \in {"idle", "stamp"},
         UNCHANGED <<queue, reading>>, Goto(Upd, p),
         writing' \in [Locks -> {Nobody, Upd}],
         \A l \in Locks : writing'[l] # Nobody => writing[l] # Nobody,
         p = "stamp" => writing'["mrt"] = Upd
  PROVE  LocksInv' /\ Moved(Upd, p, TRUE)
<1>1. LockType /\ QueueInv /\ Upd \in Tasks /\ p \in UpdLabels \cup ReadLabels /\ p \in UpdLabels
  BY Names DEF LocksInv, UpdLabels
<1>2. queue' \in [Locks -> Seq(Entry)] /\ QueueInv' /\ Moved(Upd, p, TRUE)
  BY <1>1, GoStep
<1>3. Fewer(Upd)
  <2>1. \A k \in Locks : reading[k][Upd] \in Nat
    BY <1>1 DEF LockType
  <2> QED
    BY <1>1, <2>1 DEF LockType, Fewer
<1>4. LockType' /\ QueueInv' /\ MutexInv' /\ GuardInv'
  BY <1>1, <1>2, <1>3, TaskStep
<1>5. UpdInv'
  BY <1>2 DEF UpdInv, At, Moved
<1> QED
  BY <1>2, <1>4, <1>5 DEF LocksInv

\* The guards a Read has on lock k after giving up those on R.
Rest(t, R, k) == IF k \in R THEN reading[k][t] - 1 ELSE reading[k][t]

\* A Read asks for a lock.
LEMMA ReadAsk ==
  ASSUME LocksInv, DataType', NEW t \in Readers, Running(t), NEW R, NEW l \in Locks,
         NEW p \in ReadLabels, <<p, l>> \in ReadWants, Ask(t, R, l, "read"), Goto(t, p),
         UNCHANGED writing, \A k \in R : reading[k][t] >= 1,
         Holds(p, FALSE, Rest(t, R, "tsps"), Rest(t, R, "ts_vote_msg"), Rest(t, R, "mrt"))
  PROVE  LocksInv' /\ Moved(t, p, FALSE)
<1>1. Due(l, [task |-> t, mode |-> "read"], p)
  BY Names DEF Due
<1>2. LockType /\ QueueInv /\ t \in Tasks /\ t # Upd /\ p \in UpdLabels \cup ReadLabels
  BY Names DEF LocksInv
<1>3. /\ queue' \in [Locks -> Seq(Entry)] /\ QueueInv'
      /\ Moved(t, p, FALSE) /\ Dropped(t, R)
  BY <1>1, <1>2, AskStep
<1>4. Fewer(t)
  BY <1>2, <1>3, DroppedFewer
<1>5. writing' \in [Locks -> {Nobody, Upd}]
  BY <1>2 DEF LockType
<1>6. Holds(p, FALSE, reading'["tsps"][t], reading'["ts_vote_msg"][t], reading'["mrt"][t])
  BY <1>3, Names DEF Dropped, Rest
<1>7. LockType' /\ QueueInv' /\ MutexInv' /\ GuardInv' /\ UpdInv'
  BY <1>2, <1>3, <1>4, <1>5, <1>6, TaskStep
<1> QED
  BY <1>3, <1>7 DEF LocksInv

\* A Read asks for a lock and keeps its guards.
LEMMA ReadAskMore ==
  ASSUME LocksInv, DataType', NEW t \in Readers, Running(t), NEW l \in Locks,
         NEW p \in ReadLabels, <<p, l>> \in ReadWants, Ask(t, {}, l, "read"), Goto(t, p),
         UNCHANGED writing,
         Holds(p, FALSE, reading["tsps"][t], reading["ts_vote_msg"][t], reading["mrt"][t])
  PROVE  LocksInv' /\ Moved(t, p, FALSE)
<1>1. PICK R : R = {}
  OBVIOUS
<1>2. Holds(p, FALSE, Rest(t, R, "tsps"), Rest(t, R, "ts_vote_msg"), Rest(t, R, "mrt"))
  BY <1>1 DEF Rest
<1>3. Ask(t, R, l, "read") /\ \A k \in R : reading[k][t] >= 1
  BY <1>1
<1> QED
  BY <1>2, <1>3, ReadAsk

\* A Read goes on without a lock.
LEMMA ReadGo ==
  ASSUME LocksInv, DataType', NEW t \in Readers, Running(t), NEW p \in ReadLabels,
         UNCHANGED <<queue, writing>>, Goto(t, p), Fewer(t),
         Holds(p, TRUE, reading'["tsps"][t], reading'["ts_vote_msg"][t], reading'["mrt"][t])
  PROVE  LocksInv' /\ Moved(t, p, TRUE)
<1>1. LockType /\ QueueInv /\ t \in Tasks /\ t # Upd /\ p \in UpdLabels \cup ReadLabels
  BY Names DEF LocksInv
<1>2. queue' \in [Locks -> Seq(Entry)] /\ QueueInv' /\ Moved(t, p, TRUE)
  BY <1>1, GoStep
<1>3. writing' \in [Locks -> {Nobody, Upd}]
  BY <1>1 DEF LockType
<1>4. LockType' /\ QueueInv' /\ MutexInv' /\ GuardInv' /\ UpdInv'
  BY <1>1, <1>2, <1>3, TaskStep
<1> QED
  BY <1>2, <1>4 DEF LocksInv

\* The first task in a queue gets a read guard: it is a Read, and has one more.
LEMMA ReadGranted ==
  ASSUME LocksInv, DataType', NEW l \in Locks, GrantRead(l)
  PROVE  LocksInv' /\ \A s \in Tasks : Running(s) => Running(s)'
<1>1. /\ queue[l] # <<>> /\ Head(queue[l]).mode = "read" /\ writing[l] = Nobody
      /\ queue' = [queue EXCEPT ![l] = Tail(@)] /\ UNCHANGED <<writing, pc>>
      /\ LockType /\ QueueInv /\ MutexInv /\ GuardInv /\ UpdInv
  BY DEF GrantRead, LocksInv
<1>2. PICK h : h = Head(queue[l])
  OBVIOUS
<1>3. /\ queue' \in [Locks -> Seq(Entry)] /\ QueueInv'
      /\ h \in Entry /\ Due(l, h, pc[h.task]) /\ ~Running(h.task)
      /\ \A s \in Tasks \ {h.task} : Running(s)' <=> Running(s)
  BY <1>1, <1>2, QueueGrant, Zenon
<1>4. PICK t \in Tasks : t = h.task
  BY <1>3 DEF Entry
<1>5. t \in Readers /\ t # Upd /\ <<pc[t], l>> \in ReadWants
  BY <1>1, <1>2, <1>3, <1>4, Names DEF Due
<1>6. reading' = [reading EXCEPT ![l][t] = @ + 1]
  BY <1>2, <1>4 DEF GrantRead
<1>7. /\ reading' \in [Locks -> [Tasks -> Nat]]
      /\ reading'[l][t] = reading[l][t] + 1
      /\ \A k \in Locks \ {l} : reading'[k] = reading[k]
      /\ \A s \in Tasks \ {t} : reading'[l][s] = reading[l][s]
  BY <1>1, <1>6 DEF LockType
<1>8. \A k \in Locks, s \in Tasks : reading'[k][s] \in Nat /\ reading[k][s] \in Nat
  BY <1>1, <1>7 DEF LockType
<1>9. LockType'
  BY <1>1, <1>3, <1>7 DEF LockType, DataType
<1>10. MutexInv'
  BY <1>1, <1>7 DEF MutexInv
<1>11. GuardInv'
  <2> SUFFICES ASSUME NEW s \in Readers
               PROVE  Holds(pc[s], Running(s)', reading'["tsps"][s],
                            reading'["ts_vote_msg"][s], reading'["mrt"][s])
    BY <1>1 DEF GuardInv
  <2>1. Holds(pc[s], Running(s), reading["tsps"][s], reading["ts_vote_msg"][s],
              reading["mrt"][s])
    BY <1>1 DEF GuardInv
  <2>2. CASE s # t
    <3>1. /\ s \in Tasks /\ (Running(s)' <=> Running(s))
          /\ \A k \in Locks : reading'[k][s] = reading[k][s]
      BY <1>3, <1>4, <1>7, <2>2, Names
    <3>2. /\ reading'["tsps"][s] = reading["tsps"][s] /\ reading'["mrt"][s] = reading["mrt"][s]
          /\ reading'["ts_vote_msg"][s] = reading["ts_vote_msg"][s]
      BY <3>1, Names
    <3> QED
      BY <2>1, <3>1, <3>2 DEF Holds
  <2>3. CASE s = t
    <3>1. \A k \in Locks : reading'[k][t] = IF k = l THEN reading[k][t] + 1 ELSE reading[k][t]
      BY <1>7
    <3>2. \A k \in Locks : reading[k][t] \in Nat
      BY <1>8
    <3>3. \A q \in ReadWants : q \in {<<"votes", "tsps">>, <<"loop", "ts_vote_msg">>,
             <<"minmrt", "tsps">>, <<"max", "mrt">>, <<"record", "tsps">>, <<"perf", "mrt">>,
             <<"cpp", "mrt">>}
      BY DEF ReadWants
    <3>4. \/ pc[t] = "votes" /\ l = "tsps"
          \/ pc[t] = "loop" /\ l = "ts_vote_msg"
          \/ pc[t] = "minmrt" /\ l = "tsps"
          \/ pc[t] = "max" /\ l = "mrt"
          \/ pc[t] = "record" /\ l = "tsps"
          \/ pc[t] = "perf" /\ l = "mrt"
          \/ pc[t] = "cpp" /\ l = "mrt"
      BY <1>5, <3>3
    <3>5. Holds(pc[t], FALSE, reading["tsps"][t], reading["ts_vote_msg"][t], reading["mrt"][t])
      BY <1>3, <1>4, <2>1, <2>3 DEF Holds
    <3>6. Holds(pc[t], TRUE, reading'["tsps"][t], reading'["ts_vote_msg"][t], reading'["mrt"][t])
      BY <3>1, <3>2, <3>4, <3>5, Names DEF Holds
    <3> QED
      BY <2>3, <3>6 DEF Holds
  <2> QED
    BY <2>2, <2>3
<1>12. UpdInv'
  <2>1. Running(Upd)' <=> Running(Upd)
    BY <1>3, <1>4, <1>5, Names
  <2> QED
    BY <1>1, <2>1 DEF UpdInv, At
<1> QED
  BY <1>3, <1>9, <1>10, <1>11, <1>12 DEF LocksInv

\* The first task in a queue gets the write guard: it is the updater.
LEMMA WriteGranted ==
  ASSUME LocksInv, DataType', NEW l \in Locks, GrantWrite(l)
  PROVE  LocksInv' /\ \A s \in Tasks : Running(s) => Running(s)'
<1>1. /\ queue[l] # <<>> /\ Head(queue[l]).mode = "write" /\ Free(l)
      /\ queue' = [queue EXCEPT ![l] = Tail(@)] /\ UNCHANGED <<reading, pc>>
      /\ LockType /\ QueueInv /\ MutexInv /\ GuardInv /\ UpdInv
  BY DEF GrantWrite, LocksInv
<1>2. PICK h : h = Head(queue[l])
  OBVIOUS
<1>3. /\ queue' \in [Locks -> Seq(Entry)] /\ QueueInv'
      /\ h \in Entry /\ Due(l, h, pc[h.task]) /\ ~Running(h.task)
      /\ \A s \in Tasks \ {h.task} : Running(s)' <=> Running(s)
  BY <1>1, <1>2, QueueGrant, Zenon
<1>4. h.task = Upd /\ <<pc[Upd], l>> \in UpdWants
  BY <1>1, <1>2, <1>3 DEF Due
<1>5. writing' = [writing EXCEPT ![l] = Upd]
  BY <1>2, <1>4 DEF GrantWrite
<1>6. LockType'
  BY <1>1, <1>3, <1>5 DEF LockType, DataType
<1>7. MutexInv'
  BY <1>1, <1>5 DEF MutexInv, Free, LockType
<1>8. GuardInv'
  <2>1. \A s \in Readers : Running(s)' <=> Running(s)
    BY <1>3, <1>4, Names
  <2> QED
    BY <1>1, <2>1 DEF GuardInv, Holds
<1>9. \/ pc[Upd] = "evidence" /\ l = "mrt"
      \/ pc[Upd] = "insert" /\ l = "ts_vote_msg"
      \/ pc[Upd] = "record" /\ l = "tsps"
  <2>1. \A q \in UpdWants : q \in {<<"evidence", "mrt">>, <<"insert", "ts_vote_msg">>,
                                   <<"record", "tsps">>}
    BY DEF UpdWants
  <2> QED
    BY <1>4, <2>1
<1>10. writing'[l] = Upd /\ \A k \in Locks \ {l} : writing'[k] = writing[k]
  BY <1>1, <1>5 DEF LockType
<1>11. UpdInv'
  BY <1>1, <1>9, <1>10, Names DEF UpdInv, At
<1> QED
  BY <1>3, <1>6, <1>7, <1>8, <1>11 DEF LocksInv

\* Every step of the updater keeps the invariant of the locks.
LEMMA UpdaterStep ==
  ASSUME LocksInv, DataType'
  PROVE  /\ \A kind \in Kinds : UpdateMrt(kind) => LocksInv' /\ Moved(Upd, "evidence", FALSE)
         /\ UpdateEvidence => LocksInv' /\ Moved(Upd, "insert", FALSE)
         /\ UpdateInsert => LocksInv' /\ Moved(Upd, "stamp", TRUE)
         /\ UpdateStampOnly => LocksInv' /\ Moved(Upd, "idle", TRUE)
         /\ UpdateStamp => LocksInv' /\ Moved(Upd, "record", FALSE)
         /\ UpdateRecord => LocksInv' /\ Moved(Upd, "idle", TRUE)
<1>0. UpdInv /\ writing \in [Locks -> {Nobody, Upd}]
  BY DEF LocksInv, LockType
<1>1. ASSUME NEW kind \in Kinds, UpdateMrt(kind)
      PROVE  LocksInv' /\ Moved(Upd, "evidence", FALSE)
  <2>1. /\ Running(Upd) /\ Ask(Upd, {}, "mrt", "write") /\ Goto(Upd, "evidence")
        /\ UNCHANGED writing
    BY <1>1 DEF UpdateMrt, At
  <2>2. <<"evidence", "mrt">> \in UpdWants /\ "evidence" \in UpdLabels
    BY DEF UpdWants, UpdLabels
  <2> QED
    BY <2>1, <2>2, UpdAsk, Names
<1>2. ASSUME UpdateEvidence PROVE LocksInv' /\ Moved(Upd, "insert", FALSE)
  <2>1. /\ Running(Upd) /\ Ask(Upd, {}, "ts_vote_msg", "write") /\ Goto(Upd, "insert")
        /\ UNCHANGED writing /\ writing["mrt"] = Upd
    BY <1>0, <1>2 DEF UpdateEvidence, At, UpdInv
  <2>2. <<"insert", "ts_vote_msg">> \in UpdWants /\ "insert" \in UpdLabels
    BY DEF UpdWants, UpdLabels
  <2> QED
    BY <2>1, <2>2, UpdAsk, Names
<1>3. ASSUME UpdateInsert PROVE LocksInv' /\ Moved(Upd, "stamp", TRUE)
  <2>1. /\ Running(Upd) /\ UNCHANGED <<queue, reading>> /\ Goto(Upd, "stamp")
        /\ writing' = [writing EXCEPT !["ts_vote_msg"] = Nobody] /\ writing["mrt"] = Upd
    BY <1>0, <1>3 DEF UpdateInsert, At, UpdInv
  <2>2. /\ writing' \in [Locks -> {Nobody, Upd}] /\ writing'["mrt"] = Upd
        /\ \A l \in Locks : writing'[l] # Nobody => writing[l] # Nobody
    BY <1>0, <2>1, Names
  <2> QED
    BY <2>1, <2>2, UpdGo
<1>4. ASSUME UpdateStampOnly PROVE LocksInv' /\ Moved(Upd, "idle", TRUE)
  <2>1. /\ Running(Upd) /\ UNCHANGED <<queue, reading>> /\ Goto(Upd, "idle")
        /\ writing' = [writing EXCEPT !["mrt"] = Nobody]
    BY <1>4 DEF UpdateStampOnly, At
  <2>2. /\ writing' \in [Locks -> {Nobody, Upd}]
        /\ \A l \in Locks : writing'[l] # Nobody => writing[l] # Nobody
    BY <1>0, <2>1
  <2> QED
    BY <2>1, <2>2, UpdGo
<1>5. ASSUME UpdateStamp PROVE LocksInv' /\ Moved(Upd, "record", FALSE)
  <2>1. /\ Running(Upd) /\ Ask(Upd, {}, "tsps", "write") /\ Goto(Upd, "record")
        /\ UNCHANGED writing /\ writing["mrt"] = Upd
    BY <1>0, <1>5 DEF UpdateStamp, At, UpdInv
  <2>2. <<"record", "tsps">> \in UpdWants /\ "record" \in UpdLabels
    BY DEF UpdWants, UpdLabels
  <2> QED
    BY <2>1, <2>2, UpdAsk, Names
<1>6. ASSUME UpdateRecord PROVE LocksInv' /\ Moved(Upd, "idle", TRUE)
  <2>1. /\ Running(Upd) /\ UNCHANGED <<queue, reading>> /\ Goto(Upd, "idle")
        /\ writing' = [writing EXCEPT !["tsps"] = Nobody, !["mrt"] = Nobody]
    BY <1>6 DEF UpdateRecord, At
  <2>2. /\ writing' \in [Locks -> {Nobody, Upd}]
        /\ \A l \in Locks : writing'[l] # Nobody => writing[l] # Nobody
    BY <1>0, <2>1
  <2> QED
    BY <2>1, <2>2, UpdGo
<1> QED
  BY <1>1, <1>2, <1>3, <1>4, <1>5, <1>6

\* Every step of a Read keeps the invariant of the locks.
LEMMA ReaderStep ==
  ASSUME LocksInv, DataType', NEW t \in Readers
  PROVE  /\ ReadTsps(t) => LocksInv' /\ Moved(t, "votes", FALSE)
         /\ ReadVotes(t) => LocksInv' /\ Moved(t, "loop", FALSE)
         /\ ReadMin(t) => LocksInv' /\ Moved(t, "minmrt", FALSE)
         /\ ReadMinMrt(t) => LocksInv' /\ Moved(t, "max", FALSE)
         /\ ReadMax(t) => LocksInv' /\ Moved(t, "record", FALSE)
         /\ ReadRecord(t) => LocksInv' /\ Moved(t, "loop", TRUE)
         /\ ReadPerf(t) => LocksInv' /\ Moved(t, "perf", FALSE)
         /\ ReadCpp(t) => LocksInv' /\ Moved(t, "cpp", FALSE)
         /\ ReadReply(t) => LocksInv' /\ Moved(t, "idle", TRUE)
         /\ ReadPanics(t) => LocksInv' /\ Moved(t, "idle", TRUE)
<1> DEFINE a == reading["tsps"][t]
           b == reading["ts_vote_msg"][t]
           c == reading["mrt"][t]
<1>0. Holds(pc[t], Running(t), a, b, c)
  BY DEF LocksInv, GuardInv
<1>1. /\ a \in Nat /\ b \in Nat /\ c \in Nat /\ t \in Tasks
      /\ \A k \in Locks : reading[k] \in [Tasks -> Nat]
      /\ reading \in [Locks -> [Tasks -> Nat]]
  BY Names DEF LocksInv, LockType
<1>2. ASSUME NEW R PROVE
        /\ Rest(t, R, "tsps") = IF "tsps" \in R THEN a - 1 ELSE a
        /\ Rest(t, R, "ts_vote_msg") = IF "ts_vote_msg" \in R THEN b - 1 ELSE b
        /\ Rest(t, R, "mrt") = IF "mrt" \in R THEN c - 1 ELSE c
  BY DEF Rest
<1> HIDE DEF a, b, c
<1>3. ASSUME ReadTsps(t) PROVE LocksInv' /\ Moved(t, "votes", FALSE)
  <2>1. /\ Running(t) /\ Ask(t, {}, "tsps", "read") /\ Goto(t, "votes") /\ UNCHANGED writing
    BY <1>3 DEF ReadTsps, At, TspsMode
  <2>2. <<"votes", "tsps">> \in ReadWants /\ "votes" \in ReadLabels
    BY DEF ReadWants, ReadLabels
  <2>3. Holds("votes", FALSE, a, b, c)
    BY DEF Holds
  <2> QED
    BY <2>1, <2>2, <2>3, ReadAskMore, Names DEF a, b, c
<1>4. ASSUME ReadVotes(t) PROVE LocksInv' /\ Moved(t, "loop", FALSE)
  <2>1. /\ Running(t) /\ Ask(t, {}, "ts_vote_msg", "read") /\ Goto(t, "loop") /\ UNCHANGED writing
        /\ pc[t] = "votes"
    BY <1>4 DEF ReadVotes, At, Drops
  <2>2. <<"loop", "ts_vote_msg">> \in ReadWants /\ "loop" \in ReadLabels
    BY DEF ReadWants, ReadLabels
  <2>3. Holds("loop", FALSE, a, b, c)
    BY <1>0, <1>1, <2>1 DEF Holds
  <2> QED
    BY <2>1, <2>2, <2>3, ReadAskMore, Names DEF a, b, c
<1>5. ASSUME ReadMin(t) PROVE LocksInv' /\ Moved(t, "minmrt", FALSE)
  <2>1. /\ Running(t) /\ Ask(t, {}, "tsps", "read") /\ Goto(t, "minmrt") /\ UNCHANGED writing
        /\ pc[t] = "loop"
    BY <1>5 DEF ReadMin, At
  <2>2. <<"minmrt", "tsps">> \in ReadWants /\ "minmrt" \in ReadLabels
    BY DEF ReadWants, ReadLabels
  <2>3. Holds("minmrt", FALSE, a, b, c)
    BY <1>0, <1>1, <2>1 DEF Holds
  <2> QED
    BY <2>1, <2>2, <2>3, ReadAskMore, Names DEF a, b, c
<1>6. ASSUME ReadMinMrt(t) PROVE LocksInv' /\ Moved(t, "max", FALSE)
  <2>1. /\ Running(t) /\ Ask(t, {}, "mrt", "read") /\ Goto(t, "max") /\ UNCHANGED writing
        /\ pc[t] = "minmrt"
    BY <1>6 DEF ReadMinMrt, At
  <2>2. <<"max", "mrt">> \in ReadWants /\ "max" \in ReadLabels
    BY DEF ReadWants, ReadLabels
  <2>3. Holds("max", FALSE, a, b, c)
    BY <1>0, <1>1, <2>1 DEF Holds
  <2> QED
    BY <2>1, <2>2, <2>3, ReadAskMore, Names DEF a, b, c
<1>7. ASSUME ReadMax(t) PROVE LocksInv' /\ Moved(t, "record", FALSE)
  <2> DEFINE R == {"tsps", "mrt"}
  <2>1. /\ Running(t) /\ Ask(t, R, "tsps", "read") /\ Goto(t, "record") /\ UNCHANGED writing
        /\ pc[t] = "max"
    BY <1>7 DEF ReadMax, At
  <2>2. <<"record", "tsps">> \in ReadWants /\ "record" \in ReadLabels
    BY DEF ReadWants, ReadLabels
  <2>3. a >= 2 /\ b >= 1 /\ c >= 1
    BY <1>0, <2>1 DEF Holds
  <2>4. Holds("record", FALSE, Rest(t, R, "tsps"), Rest(t, R, "ts_vote_msg"), Rest(t, R, "mrt"))
    BY <1>1, <1>2, <2>3 DEF Holds
  <2>5. \A k \in R : reading[k][t] >= 1
    BY <1>1, <2>3 DEF a, c
  <2> HIDE DEF R
  <2> QED
    BY <2>1, <2>2, <2>4, <2>5, ReadAsk, Names
<1>8. ASSUME ReadRecord(t) PROVE LocksInv' /\ Moved(t, "loop", TRUE)
  <2>1. /\ Running(t) /\ UNCHANGED <<queue, writing>> /\ Goto(t, "loop") /\ pc[t] = "record"
        /\ reading' = [reading EXCEPT !["tsps"][t] = @ - 1]
    BY <1>8 DEF ReadRecord, At
  <2>2. a >= 2 /\ b >= 1
    BY <1>0, <2>1 DEF Holds
  <2>3. a - 1 \in Nat /\ a - 1 <= a /\ a - 1 >= 1 /\ "loop" \in ReadLabels
    BY <1>1, <2>2 DEF ReadLabels
  <2>4. /\ reading'["tsps"] = [reading["tsps"] EXCEPT ![t] = a - 1]
        /\ \A k \in Locks \ {"tsps"} : reading'[k] = reading[k]
        /\ reading' \in [Locks -> [Tasks -> Nat]]
    BY <1>1, <2>1, <2>3, Names DEF a
  <2>5. /\ \A k \in Locks : \A s \in Tasks \ {t} : reading'[k][s] = reading[k][s]
        /\ reading'["tsps"][t] = a - 1 /\ \A k \in Locks \ {"tsps"} : reading'[k][t] = reading[k][t]
    BY <1>1, <2>4, Names
  <2>6. Fewer(t)
    <3>1. ASSUME NEW k \in Locks PROVE reading'[k][t] <= reading[k][t]
      BY <1>1, <2>3, <2>5 DEF a
    <3> QED
      BY <2>4, <2>5, <3>1 DEF Fewer
  <2>7. Holds("loop", TRUE, reading'["tsps"][t], reading'["ts_vote_msg"][t], reading'["mrt"][t])
    BY <2>2, <2>3, <2>5, Names DEF Holds, b
  <2> QED
    BY <2>1, <2>3, <2>6, <2>7, ReadGo
<1>9. ASSUME ReadPerf(t) PROVE LocksInv' /\ Moved(t, "perf", FALSE)
  <2>1. /\ Running(t) /\ Ask(t, {}, "mrt", "read") /\ Goto(t, "perf") /\ UNCHANGED writing
        /\ pc[t] = "loop"
    BY <1>9 DEF ReadPerf, At
  <2>2. <<"perf", "mrt">> \in ReadWants /\ "perf" \in ReadLabels
    BY DEF ReadWants, ReadLabels
  <2>3. Holds("perf", FALSE, a, b, c)
    BY <1>0, <1>1, <2>1 DEF Holds
  <2> QED
    BY <2>1, <2>2, <2>3, ReadAskMore, Names DEF a, b, c
<1>10. ASSUME ReadCpp(t) PROVE LocksInv' /\ Moved(t, "cpp", FALSE)
  <2> DEFINE R == {"mrt"}
  <2>1. /\ Running(t) /\ Ask(t, R, "mrt", "read") /\ Goto(t, "cpp") /\ UNCHANGED writing
        /\ pc[t] = "perf"
    BY <1>10 DEF ReadCpp, At
  <2>2. <<"cpp", "mrt">> \in ReadWants /\ "cpp" \in ReadLabels
    BY DEF ReadWants, ReadLabels
  <2>3. a >= 1 /\ b >= 1 /\ c >= 1
    BY <1>0, <2>1 DEF Holds
  <2>4. Holds("cpp", FALSE, Rest(t, R, "tsps"), Rest(t, R, "ts_vote_msg"), Rest(t, R, "mrt"))
    BY <1>1, <1>2, <2>3 DEF Holds
  <2>5. \A k \in R : reading[k][t] >= 1
    BY <1>1, <2>3 DEF c
  <2> HIDE DEF R
  <2> QED
    BY <2>1, <2>2, <2>4, <2>5, ReadAsk, Names
<1>11. ASSUME ReadReply(t) \/ ReadPanics(t) PROVE LocksInv' /\ Moved(t, "idle", TRUE)
  <2>1. /\ Running(t) /\ UNCHANGED <<queue, writing>> /\ Goto(t, "idle") /\ ReleaseAll(t)
    BY <1>11 DEF ReadReply, ReadPanics, At
  <2>2. ASSUME NEW k \in Locks
        PROVE  /\ reading'[k] \in [Tasks -> Nat]
               /\ \A s \in Tasks \ {t} : reading'[k][s] = reading[k][s]
               /\ reading'[k][t] <= reading[k][t]
    <3>1. reading'[k] = [reading[k] EXCEPT ![t] = 0] /\ reading[k] \in [Tasks -> Nat]
      BY <1>1, <2>1 DEF ReleaseAll
    <3> QED
      BY <1>1, <3>1
  <2>3. reading' = [k \in Locks |-> reading'[k]]
    BY <2>1 DEF ReleaseAll
  <2>4. Fewer(t)
    BY <2>2, <2>3 DEF Fewer
  <2>5. /\ Holds("idle", TRUE, reading'["tsps"][t], reading'["ts_vote_msg"][t], reading'["mrt"][t])
        /\ "idle" \in ReadLabels
    BY DEF Holds, ReadLabels
  <2> QED
    BY <2>1, <2>4, <2>5, ReadGo
<1> QED
  BY <1>3, <1>4, <1>5, <1>6, <1>7, <1>8, <1>9, <1>10, <1>11

\* The locks keep their invariant.
LEMMA LocksStep ==
  ASSUME LocksInv, [Next]_vars
  PROVE  LocksInv' /\ DataType'
<1>1. DataType'
  BY DataStep DEF LocksInv, DataType
<1>2. ASSUME Updater PROVE LocksInv'
  BY <1>1, <1>2, UpdaterStep DEF Updater
<1>3. ASSUME NEW t \in Readers, ReadTsps(t) \/ Reader(t) PROVE LocksInv'
  BY <1>1, <1>3, ReaderStep DEF Reader
<1>4. ASSUME Grant PROVE LocksInv'
  BY <1>1, <1>4, ReadGranted, WriteGranted DEF Grant
<1>5. ASSUME UNCHANGED vars PROVE LocksInv'
  <2>1. UNCHANGED <<queue, reading, writing, pc, version, calls, seen>>
    BY <1>5 DEF vars, lockvars, datavars
  <2> QED
    BY <2>1 DEF LocksInv, LockType, QueueInv, MutexInv, GuardInv, UpdInv, At, Running, Waiting
<1> QED
  BY <1>1, <1>2, <1>3, <1>4, <1>5 DEF Next

-----------------------------------------------------------------------------
(***************************************************************************)
(* What a Read has looked at does not change before it is done.            *)
(***************************************************************************)

\* Sees adds the current versions of the locks S.
LEMMA SeesIs ==
  ASSUME LockType, NEW t \in Readers, NEW S, Sees(t, S)
  PROVE  /\ \A s \in Readers \ {t} : seen'[s] = seen[s]
         /\ \A l \in Locks : seen'[t][l] = seen[t][l] \cup (IF l \in S THEN {version[l]} ELSE {})
BY DEF LockType, Sees

\* A Read with a guard on mrt meets the updater before its change of the maps.
LEMMA MrtGuard ==
  ASSUME LocksInv, NEW t \in Readers, At(t, "max") \/ At(t, "perf") \/ At(t, "cpp")
  PROVE  pc[Upd] \in {"idle", "evidence"}
<1>1. reading["mrt"][t] >= 1
  BY DEF LocksInv, GuardInv, Holds, At
<1>2. writing["mrt"] = Nobody
  BY <1>1, Names DEF LocksInv, MutexInv
<1> QED
  BY <1>2, Names DEF LocksInv, UpdInv, LockType, UpdLabels

\* A Read that has looked at ts_vote_msg or mrt has a guard on ts_vote_msg, and
\* one that has looked at anything has a guard on tsps.
LEMMA SeenGuarded ==
  ASSUME LocksInv, SeenInv, NEW t \in Readers, pc[t] # "idle"
  PROVE  /\ writing["ts_vote_msg"] = Upd => seen[t]["ts_vote_msg"] = {} /\ seen[t]["mrt"] = {}
         /\ writing["tsps"] = Upd => \A l \in Locks : seen[t][l] = {}
<1>1. /\ Holds(pc[t], Running(t), reading["tsps"][t], reading["ts_vote_msg"][t], reading["mrt"][t])
      /\ SeenOk(seen[t], version, pc[t], Running(t), pc[Upd])
      /\ MutexInv /\ t \in Tasks
  BY Names DEF LocksInv, GuardInv, SeenInv
<1>2. ASSUME writing["ts_vote_msg"] = Upd PROVE seen[t]["ts_vote_msg"] = {} /\ seen[t]["mrt"] = {}
  <2>1. ~(reading["ts_vote_msg"][t] >= 1)
    BY <1>1, <1>2, Names DEF MutexInv
  <2>2. pc[t] = "votes" \/ (pc[t] = "loop" /\ ~Running(t))
    BY <1>1, <2>1 DEF Holds
  <2> QED
    BY <1>1, <2>2, Names DEF SeenOk
<1>3. ASSUME writing["tsps"] = Upd PROVE \A l \in Locks : seen[t][l] = {}
  <2>1. ~(reading["tsps"][t] >= 1)
    BY <1>1, <1>3, Names DEF MutexInv
  <2>2. pc[t] = "votes"
    BY <1>1, <2>1 DEF Holds
  <2> QED
    BY <1>1, <2>2 DEF SeenOk
<1> QED
  BY <1>2, <1>3

\* The updater changes nothing an unfinished Read has looked at.
LEMMA SeenUpdater ==
  ASSUME LocksInv, SeenInv, Updater, DataType'
  PROVE  SeenInv'
<1>0. /\ \A t \in Readers : SeenOk(seen[t], version, pc[t], Running(t), pc[Upd])
      /\ version \in [Locks -> Nat] /\ UpdInv
  BY DEF SeenInv, LocksInv, LockType
<1>1. ASSUME NEW p, NEW r \in BOOLEAN, Moved(Upd, p, r), UNCHANGED seen,
             \A t \in Readers : pc[t] # "idle" =>
               /\ \A l \in Locks : seen[t][l] = {} \/ version'[l] = version[l]
               /\ seen[t]["mrt"] # {} => p \in {"idle", "evidence", "insert"}
      PROVE  SeenInv'
  <2> SUFFICES ASSUME NEW t \in Readers
               PROVE  SeenOk(seen'[t], version', pc'[t], Running(t)', pc'[Upd])
    BY DEF SeenInv
  <2>1. /\ seen'[t] = seen[t] /\ pc'[t] = pc[t] /\ (Running(t)' <=> Running(t)) /\ pc'[Upd] = p
    BY <1>1, Names DEF Moved, SameBut
  <2>2. SeenOk(seen[t], version, pc[t], Running(t), pc[Upd])
    BY <1>0
  <2>3. pc[t] # "idle" => \A l \in Locks : seen[t][l] \subseteq {version'[l]}
    BY <1>1, <2>2 DEF SeenOk
  <2>4. pc[t] # "idle" => (seen[t]["mrt"] # {} => p \in {"idle", "evidence", "insert"})
    BY <1>1
  <2> QED
    BY <2>1, <2>2, <2>3, <2>4 DEF SeenOk
<1>2. ASSUME \E kind \in Kinds : UpdateMrt(kind) PROVE SeenInv'
  <2>1. Moved(Upd, "evidence", FALSE) /\ UNCHANGED <<seen, version>>
    BY <1>2, UpdaterStep DEF UpdateMrt
  <2> QED
    BY <1>1, <2>1
<1>3. ASSUME UpdateEvidence PROVE SeenInv'
  <2>1. Moved(Upd, "insert", FALSE) /\ UNCHANGED <<seen, version>>
    BY <1>3, UpdaterStep DEF UpdateEvidence, datavars
  <2> QED
    BY <1>1, <2>1
<1>4. ASSUME UpdateInsert PROVE SeenInv'
  <2>1. /\ Moved(Upd, "stamp", TRUE) /\ UNCHANGED seen
        /\ \A l \in Locks \ {"ts_vote_msg"} : version'[l] = version[l]
        /\ writing["ts_vote_msg"] = Upd
    BY <1>0, <1>4, UpdaterStep DEF UpdateInsert, Changed, UpdInv
  <2>2. \A t \in Readers : pc[t] # "idle" =>
          seen[t]["ts_vote_msg"] = {} /\ seen[t]["mrt"] = {}
    BY <2>1, SeenGuarded
  <2> QED
    BY <1>1, <2>1, <2>2
<1>5. \A t \in Readers : pc[t] # "idle" /\ pc[Upd] \in {"stamp", "record"} => seen[t]["mrt"] = {}
  BY <1>0 DEF SeenOk
<1>6. ASSUME UpdateStampOnly PROVE SeenInv'
  <2>1. /\ Moved(Upd, "idle", TRUE) /\ UNCHANGED seen /\ pc[Upd] = "stamp"
        /\ \A l \in Locks \ {"mrt"} : version'[l] = version[l]
    BY <1>0, <1>6, UpdaterStep DEF UpdateStampOnly, Changed, At
  <2> QED
    BY <1>1, <1>5, <2>1
<1>7. ASSUME UpdateStamp PROVE SeenInv'
  <2>1. /\ Moved(Upd, "record", FALSE) /\ UNCHANGED seen /\ pc[Upd] = "stamp"
        /\ \A l \in Locks \ {"mrt"} : version'[l] = version[l]
    BY <1>0, <1>7, UpdaterStep DEF UpdateStamp, Changed, At
  <2> QED
    BY <1>1, <1>5, <2>1
<1>8. ASSUME UpdateRecord PROVE SeenInv'
  <2>1. /\ Moved(Upd, "idle", TRUE) /\ UNCHANGED seen /\ writing["tsps"] = Upd
    BY <1>0, <1>8, UpdaterStep DEF UpdateRecord, UpdInv
  <2>2. \A t \in Readers : pc[t] # "idle" => \A l \in Locks : seen[t][l] = {}
    BY <2>1, SeenGuarded
  <2> QED
    BY <1>1, <2>1, <2>2
<1> QED
  BY <1>2, <1>3, <1>4, <1>6, <1>7, <1>8 DEF Updater

\* A step of a Read adds current versions to what it has looked at.
LEMMA SeenReader ==
  ASSUME LocksInv, SeenInv, DataType', NEW t \in Readers, ReadTsps(t) \/ Reader(t)
  PROVE  SeenInv'
<1>0. /\ \A s \in Readers : SeenOk(seen[s], version, pc[s], Running(s), pc[Upd])
      /\ LockType
  BY DEF SeenInv, LocksInv
<1>1. UNCHANGED version
  BY DEF ReadTsps, Reader, ReadVotes, ReadMin, ReadMinMrt, ReadMax, ReadRecord, ReadPerf,
         ReadPanics, ReadCpp, ReadReply, datavars
<1>2. ASSUME NEW p, NEW r \in BOOLEAN, Moved(t, p, r), \A s \in Readers \ {t} : seen'[s] = seen[s],
             SeenOk(seen'[t], version, p, r, pc[Upd])
      PROVE  SeenInv'
  <2> SUFFICES ASSUME NEW s \in Readers
               PROVE  SeenOk(seen'[s], version, pc'[s], Running(s)', pc[Upd])
    BY <1>1, <1>2, Names DEF SeenInv, Moved, SameBut
  <2>1. CASE s = t
    BY <1>2, <2>1 DEF Moved, SeenOk
  <2>2. CASE s # t
    <3>1. seen'[s] = seen[s] /\ pc'[s] = pc[s] /\ (Running(s)' <=> Running(s))
      BY <1>2, <2>2, Names DEF Moved, SameBut
    <3> QED
      BY <1>0, <3>1 DEF SeenOk
  <2> QED
    BY <2>1, <2>2
<1>3. ASSUME ReadTsps(t) PROVE SeenInv'
  <2>1. /\ Moved(t, "votes", FALSE) /\ \A s \in Readers \ {t} : seen'[s] = seen[s]
        /\ seen'[t] = NothingSeen
    BY <1>0, <1>3, ReaderStep DEF ReadTsps, LockType
  <2>2. SeenOk(seen'[t], version, "votes", FALSE, pc[Upd])
    BY <2>1, Names DEF SeenOk, NothingSeen
  <2> QED
    BY <1>2, <2>1, <2>2
<1>4. ASSUME ReadVotes(t) PROVE SeenInv'
  <2>1. Moved(t, "loop", FALSE) /\ Sees(t, {"tsps"}) /\ pc[t] = "votes"
    BY <1>4, ReaderStep DEF ReadVotes, At
  <2>2. /\ \A s \in Readers \ {t} : seen'[s] = seen[s]
        /\ \A l \in Locks : seen'[t][l] = seen[t][l] \cup (IF l \in {"tsps"} THEN {version[l]} ELSE {})
    BY <1>0, <2>1, SeesIs
  <2>3. \A l \in Locks : seen[t][l] = {}
    BY <1>0, <2>1 DEF SeenOk
  <2>4. SeenOk(seen'[t], version, "loop", FALSE, pc[Upd])
    BY <2>2, <2>3, Names DEF SeenOk
  <2> QED
    BY <1>2, <2>1, <2>2, <2>4
<1>5. ASSUME ReadMin(t) \/ ReadMinMrt(t) \/ ReadPerf(t) PROVE SeenInv'
  <2>1. PICK p \in {"minmrt", "max", "perf"} : Moved(t, p, FALSE)
    BY <1>5, ReaderStep
  <2>2. UNCHANGED seen /\ pc[t] \in {"loop", "minmrt"}
    BY <1>5 DEF ReadMin, ReadMinMrt, ReadPerf, At
  <2>3. SeenOk(seen'[t], version, p, FALSE, pc[Upd])
    BY <1>0, <2>1, <2>2 DEF SeenOk
  <2> QED
    BY <1>2, <2>1, <2>2, <2>3
<1>6. ASSUME ReadMax(t) \/ ReadCpp(t) PROVE SeenInv'
  <2>1. PICK p \in {"record", "cpp"} : Moved(t, p, FALSE)
    BY <1>6, ReaderStep
  <2>2. PICK S : Sees(t, S)
    BY <1>6 DEF ReadMax, ReadCpp
  <2>3. (At(t, "max") \/ At(t, "perf")) /\ pc[t] # "idle"
    BY <1>6 DEF ReadMax, ReadCpp, At
  <2>4. /\ \A s \in Readers \ {t} : seen'[s] = seen[s]
        /\ \A l \in Locks : seen'[t][l] = seen[t][l] \cup (IF l \in S THEN {version[l]} ELSE {})
    BY <1>0, <2>2, SeesIs
  <2>5. pc[Upd] \in {"idle", "evidence", "insert"}
    BY <2>3, MrtGuard
  <2>6. \A l \in Locks : seen'[t][l] \subseteq {version[l]}
    BY <1>0, <2>3, <2>4 DEF SeenOk
  <2>7. SeenOk(seen'[t], version, p, FALSE, pc[Upd])
    BY <2>1, <2>5, <2>6 DEF SeenOk
  <2> QED
    BY <1>2, <2>1, <2>4, <2>7
<1>7. ASSUME ReadRecord(t) PROVE SeenInv'
  <2>1. Moved(t, "loop", TRUE) /\ Sees(t, {"tsps", "ts_vote_msg"}) /\ pc[t] = "record"
    BY <1>7, ReaderStep DEF ReadRecord, At
  <2>2. /\ \A s \in Readers \ {t} : seen'[s] = seen[s]
        /\ \A l \in Locks : seen'[t][l] = seen[t][l] \cup
             (IF l \in {"tsps", "ts_vote_msg"} THEN {version[l]} ELSE {})
    BY <1>0, <2>1, SeesIs
  <2>3. seen'[t]["mrt"] = seen[t]["mrt"]
    BY <2>2, Names
  <2>4. \A l \in Locks : seen'[t][l] \subseteq {version[l]}
    BY <1>0, <2>1, <2>2 DEF SeenOk
  <2>5. SeenOk(seen'[t], version, "loop", TRUE, pc[Upd])
    BY <1>0, <2>1, <2>3, <2>4 DEF SeenOk
  <2> QED
    BY <1>2, <2>1, <2>2, <2>5
<1>8. ASSUME ReadReply(t) PROVE SeenInv'
  <2>1. Moved(t, "idle", TRUE) /\ Sees(t, {"mrt", "ts_vote_msg"})
    BY <1>8, ReaderStep DEF ReadReply
  <2>2. \A s \in Readers \ {t} : seen'[s] = seen[s]
    BY <1>0, <2>1, SeesIs
  <2>3. SeenOk(seen'[t], version, "idle", TRUE, pc[Upd])
    BY DEF SeenOk
  <2> QED
    BY <1>2, <2>1, <2>2, <2>3
<1>9. ASSUME ReadPanics(t) PROVE SeenInv'
  <2>1. Moved(t, "idle", TRUE) /\ \A s \in Readers \ {t} : seen'[s] = seen[s]
    BY <1>0, <1>9, ReaderStep DEF ReadPanics, LockType
  <2>2. SeenOk(seen'[t], version, "idle", TRUE, pc[Upd])
    BY DEF SeenOk
  <2> QED
    BY <1>2, <2>1, <2>2
<1> QED
  BY <1>3, <1>4, <1>5, <1>6, <1>7, <1>8, <1>9 DEF Reader

\* No step of Read or updater changes what an unfinished Read has looked at.
LEMMA SeenStep ==
  ASSUME LocksInv, SeenInv, [Next]_vars
  PROVE  SeenInv'
<1>1. DataType'
  BY LocksStep
<1>2. ASSUME Grant PROVE SeenInv'
  <2>1. UNCHANGED <<version, seen, pc>>
    BY <1>2 DEF Grant, GrantRead, GrantWrite, datavars
  <2>2. \A s \in Tasks : Running(s) => Running(s)'
    BY <1>1, <1>2, ReadGranted, WriteGranted DEF Grant
  <2> QED
    BY <2>1, <2>2, Names DEF SeenInv, SeenOk
<1>3. ASSUME UNCHANGED vars PROVE SeenInv'
  BY <1>3 DEF vars, lockvars, datavars, SeenInv, SeenOk, Running, Waiting
<1> QED
  BY <1>1, <1>2, <1>3, SeenUpdater, SeenReader DEF Next

-----------------------------------------------------------------------------
(***************************************************************************)
(* The versions after a number of calls.                                   *)
(***************************************************************************)

\* The last call counts if it is of the kind.
LEMMA LatestHit ==
  ASSUME NEW c, NEW k \in Nat, k > 0, NEW K, c[k] \in K
  PROVE  LatestIn(c, k, K) = k
<1> DEFINE S == {i \in 1..k : c[i] \in K}
<1>1. k \in S /\ \A j \in S : j <= k
  OBVIOUS
<1>2. \A i \in S : (\A j \in S : j <= i) => i = k
  OBVIOUS
<1>3. LatestIn(c, k, K) = CHOOSE i \in S : \A j \in S : j <= i
  BY <1>1 DEF LatestIn, Top
<1> HIDE DEF S
<1> QED
  BY <1>1, <1>2, <1>3

\* It does not if it is of another.
LEMMA LatestMiss ==
  ASSUME NEW c, NEW k \in Nat, k > 0, NEW K, c[k] \notin K
  PROVE  LatestIn(c, k, K) = LatestIn(c, k - 1, K)
<1>1. {i \in 1..k : c[i] \in K} = {i \in 1..(k - 1) : c[i] \in K}
  OBVIOUS
<1> QED
  BY <1>1 DEF LatestIn

\* Later calls do not matter.
LEMMA LatestKept ==
  ASSUME NEW c, NEW d, NEW k \in Nat, \A i \in 1..k : d[i] = c[i], NEW K
  PROVE  LatestIn(d, k, K) = LatestIn(c, k, K)
<1>1. {i \in 1..k : d[i] \in K} = {i \in 1..k : c[i] \in K}
  OBVIOUS
<1> QED
  BY <1>1 DEF LatestIn

\* Versions after k calls are the same when more calls follow.
LEMMA VersionsKept ==
  ASSUME NEW v, NEW c, NEW d, NEW k \in Nat, \A i \in 1..k : d[i] = c[i],
         VersionsAre(v, c, k, k, k)
  PROVE  VersionsAre(v, d, k, k, k)
BY LatestKept DEF VersionsAre

\* The calls before are the same.
LEMMA CallsGrow ==
  ASSUME LockType, [Next]_vars
  PROVE  Len(calls') >= Len(calls) /\ \A i \in 1..Len(calls) : calls'[i] = calls[i]
<1>0. calls \in Seq(Kinds) /\ Len(calls) \in Nat
  BY DEF LockType
<1>1. UNCHANGED calls \/ \E kind \in Kinds : calls' = Append(calls, kind)
  BY DEF Next, Updater, UpdateMrt, UpdateEvidence, UpdateInsert, UpdateStampOnly, UpdateStamp,
         UpdateRecord, ReadTsps, Reader, ReadVotes, ReadMin, ReadMinMrt, ReadMax, ReadRecord,
         ReadPanics, ReadPerf, ReadCpp, ReadReply, Grant, GrantRead, GrantWrite, datavars, vars
<1> QED
  BY <1>0, <1>1

\* The versions keep step with where the updater is in process_vote.
LEMMA VersionStep ==
  ASSUME LocksInv, VersionInv, [Next]_vars
  PROVE  VersionInv'
<1> DEFINE K == Len(calls)
<1>0. /\ calls \in Seq(Kinds) /\ K \in Nat /\ version \in [Locks -> Nat]
      /\ DataType'
  BY LocksStep DEF LocksInv, LockType
<1>1. ASSUME UNCHANGED <<version, calls>>, pc'[Upd] = pc[Upd] PROVE VersionInv'
  BY <1>1 DEF VersionInv, Kind
<1>2. ASSUME NEW kind \in Kinds, UpdateMrt(kind) PROVE VersionInv'
  <2>1. /\ pc[Upd] = "idle" /\ pc'[Upd] = "evidence" /\ calls' = Append(calls, kind)
        /\ version' = version
    BY <1>0, <1>2, UpdaterStep DEF UpdateMrt, At, Moved
  <2>2. Len(calls') = K + 1 /\ \A i \in 1..K : calls'[i] = calls[i]
    BY <1>0, <2>1
  <2>3. VersionsAre(version, calls, K, K, K)
    BY <2>1 DEF VersionInv
  <2>4. VersionsAre(version, calls', K, K, K)
    <3> HIDE DEF K
    <3> QED
      BY <1>0, <2>2, <2>3, VersionsKept
  <2>5. Len(calls') > 0 /\ Len(calls') - 1 = K
    BY <1>0, <2>2
  <2> QED
    BY <2>1, <2>4, <2>5 DEF VersionInv
<1>3. ASSUME UpdateEvidence PROVE VersionInv'
  <2>1. pc[Upd] = "evidence" /\ pc'[Upd] = "insert" /\ UNCHANGED <<version, calls>>
    BY <1>0, <1>3, UpdaterStep DEF UpdateEvidence, At, Moved, datavars
  <2> QED
    BY <2>1 DEF VersionInv
<1>4. ASSUME UpdateInsert PROVE VersionInv'
  <2>1. /\ pc[Upd] = "insert" /\ pc'[Upd] = "stamp" /\ UNCHANGED calls
        /\ version'["ts_vote_msg"] = K /\ version'["mrt"] = version["mrt"]
        /\ version'["tsps"] = version["tsps"]
    BY <1>0, <1>4, UpdaterStep, Names DEF UpdateInsert, At, Moved, Changed
  <2> QED
    BY <2>1 DEF VersionInv, VersionsAre
<1>5. ASSUME pc[Upd] \in {"stamp", "record"} PROVE K \in Nat /\ K > 0 /\ calls[K] = Kind
  BY <1>0, <1>5 DEF VersionInv, Kind
<1>6. ASSUME UpdateStampOnly PROVE VersionInv'
  <2>1. /\ pc[Upd] = "stamp" /\ pc'[Upd] = "idle" /\ UNCHANGED calls /\ Kind # "tx"
        /\ version'["mrt"] = IF Kind = "stale" THEN version["mrt"] ELSE K
        /\ version'["ts_vote_msg"] = version["ts_vote_msg"] /\ version'["tsps"] = version["tsps"]
    BY <1>0, <1>6, UpdaterStep, Names DEF UpdateStampOnly, At, Moved, Changed
  <2>2. K \in Nat /\ K > 0 /\ calls[K] = Kind /\ Kind \in Kinds
    BY <1>0, <1>5, <2>1
  <2>3. VersionsAre(version, calls, K, K - 1, K - 1)
    BY <2>1 DEF VersionInv
  <2> HIDE DEF K
  <2>4. LatestIn(calls, K, {"tx"}) = LatestIn(calls, K - 1, {"tx"})
    BY <2>1, <2>2, LatestMiss
  <2>5. ASSUME Kind = "stale"
        PROVE  LatestIn(calls, K, {"tx", "heartbeat"}) = LatestIn(calls, K - 1, {"tx", "heartbeat"})
    <3>1. calls[K] \notin {"tx", "heartbeat"}
      BY <2>2, <2>5
    <3> QED
      BY <2>2, <3>1, LatestMiss
  <2>6. ASSUME Kind # "stale" PROVE LatestIn(calls, K, {"tx", "heartbeat"}) = K
    <3>1. calls[K] \in {"tx", "heartbeat"}
      BY <2>1, <2>2, <2>6 DEF Kinds
    <3> QED
      BY <2>2, <3>1, LatestHit
  <2>7. VersionsAre(version', calls, K, K, K)
    BY <2>1, <2>3, <2>4, <2>5, <2>6 DEF VersionsAre
  <2> QED
    BY <2>1, <2>7 DEF VersionInv, K
<1>7. ASSUME UpdateStamp PROVE VersionInv'
  <2>1. /\ pc[Upd] = "stamp" /\ pc'[Upd] = "record" /\ UNCHANGED calls /\ Kind = "tx"
        /\ version'["mrt"] = K
        /\ version'["ts_vote_msg"] = version["ts_vote_msg"] /\ version'["tsps"] = version["tsps"]
    BY <1>0, <1>7, UpdaterStep, Names DEF UpdateStamp, At, Moved, Changed
  <2>2. K \in Nat /\ K > 0 /\ calls[K] \in {"tx", "heartbeat"}
    BY <1>5, <2>1
  <2>3. VersionsAre(version, calls, K, K - 1, K - 1)
    BY <2>1 DEF VersionInv
  <2>4. LatestIn(calls, K, {"tx", "heartbeat"}) = K
    <3> HIDE DEF K
    <3> QED
      BY <2>2, LatestHit
  <2>5. VersionsAre(version', calls, K, K, K - 1)
    <3> HIDE DEF K
    <3> QED
      BY <2>1, <2>3, <2>4 DEF VersionsAre
  <2> QED
    BY <2>1, <2>2, <2>5 DEF VersionInv, Kind
<1>8. ASSUME UpdateRecord PROVE VersionInv'
  <2>1. /\ pc[Upd] = "record" /\ pc'[Upd] = "idle" /\ UNCHANGED calls /\ version'["tsps"] = K
        /\ version'["ts_vote_msg"] = version["ts_vote_msg"] /\ version'["mrt"] = version["mrt"]
    BY <1>0, <1>8, UpdaterStep, Names DEF UpdateRecord, At, Moved, Changed
  <2>2. Kind = "tx" /\ VersionsAre(version, calls, K, K, K - 1)
    BY <2>1 DEF VersionInv
  <2>3. K \in Nat /\ K > 0 /\ calls[K] \in {"tx"}
    BY <1>5, <2>1, <2>2
  <2>4. LatestIn(calls, K, {"tx"}) = K
    <3> HIDE DEF K
    <3> QED
      BY <2>3, LatestHit
  <2>5. VersionsAre(version', calls, K, K, K)
    <3> HIDE DEF K
    <3> QED
      BY <2>1, <2>2, <2>4 DEF VersionsAre
  <2> QED
    BY <2>1, <2>5 DEF VersionInv
<1>9. ASSUME NEW t \in Readers, ReadTsps(t) \/ Reader(t) PROVE VersionInv'
  <2>1. UNCHANGED <<version, calls>>
    BY <1>9 DEF ReadTsps, Reader, ReadVotes, ReadMin, ReadMinMrt, ReadMax, ReadRecord, ReadPerf,
           ReadPanics, ReadCpp, ReadReply, datavars
  <2>2. \E p, r : Moved(t, p, r)
    BY <1>0, <1>9, ReaderStep DEF Reader
  <2>3. pc'[Upd] = pc[Upd]
    BY <2>2, Names DEF Moved, SameBut
  <2> QED
    BY <1>1, <2>1, <2>3
<1>10. ASSUME Grant \/ UNCHANGED vars PROVE VersionInv'
  <2>1. UNCHANGED <<version, calls, pc>>
    BY <1>10 DEF Grant, GrantRead, GrantWrite, datavars, vars
  <2> QED
    BY <1>1, <2>1
<1> QED
  BY <1>2, <1>3, <1>4, <1>6, <1>7, <1>8, <1>9, <1>10 DEF Next, Updater

-----------------------------------------------------------------------------
(***************************************************************************)
(* A Read that completes has looked at one state of the view.              *)
(***************************************************************************)

\* What a Read has seen (sn) is what the first k of the calls c left behind.
SnapAt(sn, c, k) ==
  /\ sn["ts_vote_msg"] \subseteq {k}
  /\ sn["mrt"] \subseteq {LatestIn(c, k, {"tx", "heartbeat"})}
  /\ sn["tsps"] \subseteq {LatestIn(c, k, {"tx"})}

SnapInv ==
  \A t \in Readers : pc[t] = "idle" => \E k \in 0..Len(calls) : SnapAt(seen[t], calls, k)

\* SnapInv is ReadIsSnapshot, with the cases of After written out.
LEMMA SnapIs == SnapInv => ReadIsSnapshot
<1>1. ASSUME NEW sn, NEW k, SnapAt(sn, calls, k)
      PROVE  \A l \in Locks : sn[l] \subseteq {After(k)[l]}
  <2>1. /\ After(k)["ts_vote_msg"] = k
        /\ After(k)["mrt"] = LatestIn(calls, k, {"tx", "heartbeat"})
        /\ After(k)["tsps"] = LatestIn(calls, k, {"tx"})
    BY DEF After, Latest, LatestIn, Top, Locks
  <2> QED
    BY <1>1, <2>1 DEF SnapAt, Locks
<1> QED
  BY <1>1 DEF SnapInv, ReadIsSnapshot

\* A step keeps it: the reply of a Read is the step to look at.
LEMMA SnapStep ==
  ASSUME LocksInv, SeenInv, VersionInv, SnapInv, [Next]_vars
  PROVE  SnapInv'
<1>0. LockType /\ DataType' /\ Len(calls) \in Nat /\ Len(calls') \in Nat
  BY LocksStep DEF LocksInv, LockType, DataType
<1>1. Len(calls') >= Len(calls) /\ \A i \in 1..Len(calls) : calls'[i] = calls[i]
  BY <1>0, CallsGrow
<1> SUFFICES ASSUME NEW t \in Readers, pc'[t] = "idle"
             PROVE  \E k \in 0..Len(calls') : SnapAt(seen'[t], calls', k)
  BY DEF SnapInv
<1>2. ASSUME NEW k \in 0..Len(calls), SnapAt(seen'[t], calls, k)
      PROVE  \E j \in 0..Len(calls') : SnapAt(seen'[t], calls', j)
  <2>1. k \in Nat /\ k \in 0..Len(calls') /\ \A i \in 1..k : calls'[i] = calls[i]
    BY <1>0, <1>1
  <2>2. SnapAt(seen'[t], calls', k)
    <3>1. ASSUME NEW K PROVE LatestIn(calls', k, K) = LatestIn(calls, k, K)
      BY <2>1, LatestKept
    <3> QED
      BY <1>2, <3>1 DEF SnapAt
  <2> QED
    BY <2>1, <2>2
<1>3. CASE pc[t] = "idle" /\ seen'[t] = seen[t]
  <2>1. PICK k \in 0..Len(calls) : SnapAt(seen[t], calls, k)
    BY <1>3 DEF SnapInv
  <2> QED
    BY <1>2, <1>3, <2>1
<1>4. CASE ReadReply(t)
  <2>1. Sees(t, {"mrt", "ts_vote_msg"}) /\ At(t, "cpp") /\ pc[t] # "idle"
    BY <1>4 DEF ReadReply, At
  <2>2. \A l \in Locks : seen'[t][l] \subseteq {version[l]}
    <3>1. SeenOk(seen[t], version, pc[t], Running(t), pc[Upd])
      BY DEF SeenInv
    <3>2. \A l \in Locks : seen[t][l] \subseteq {version[l]}
      BY <2>1, <3>1 DEF SeenOk
    <3> QED
      BY <1>0, <2>1, <3>2, SeesIs
  <2>3. pc[Upd] \in {"idle", "evidence"}
    BY <2>1, MrtGuard
  <2>4. \E k \in 0..Len(calls) : VersionsAre(version, calls, k, k, k)
    <3>1. CASE pc[Upd] = "idle"
      BY <1>0, <3>1 DEF VersionInv
    <3>2. CASE pc[Upd] = "evidence"
      <4>1. Len(calls) - 1 \in 0..Len(calls)
        BY <1>0, <3>2 DEF VersionInv
      <4> QED
        BY <3>2, <4>1 DEF VersionInv
    <3> QED
      BY <2>3, <3>1, <3>2
  <2>5. PICK k \in 0..Len(calls) : VersionsAre(version, calls, k, k, k)
    BY <2>4
  <2>6. SnapAt(seen'[t], calls, k)
    BY <2>2, <2>5, Names DEF SnapAt, VersionsAre
  <2> QED
    BY <1>2, <2>6
<1>5. CASE ReadPanics(t)
  <2>1. seen'[t] = NothingSeen
    BY <1>0, <1>5 DEF ReadPanics, LockType
  <2>2. 0 \in 0..Len(calls) /\ SnapAt(seen'[t], calls, 0)
    BY <1>0, <2>1, Names DEF SnapAt, NothingSeen
  <2> QED
    BY <1>2, <2>2
<1>6. (pc[t] = "idle" /\ seen'[t] = seen[t]) \/ ReadReply(t) \/ ReadPanics(t)
  <2>1. ASSUME NEW s \in Tasks, NEW p, NEW r, Moved(s, p, r), s # t PROVE pc'[t] = pc[t]
    BY <2>1, Names DEF Moved, SameBut
  <2>2. CASE Updater
    <3>1. UNCHANGED seen /\ \E p, r : Moved(Upd, p, r)
      BY <1>0, <2>2, UpdaterStep DEF Updater, UpdateMrt, UpdateEvidence, UpdateInsert,
         UpdateStampOnly, UpdateStamp, UpdateRecord
    <3> QED
      BY <2>1, <3>1, Names
  <2>3. CASE Grant \/ UNCHANGED vars
    BY <2>3 DEF Grant, GrantRead, GrantWrite, vars
  <2>4. ASSUME NEW s \in Readers, s # t, ReadTsps(s) \/ Reader(s)
        PROVE  pc[t] = "idle" /\ seen'[t] = seen[t]
    <3>1. \E p, r : Moved(s, p, r)
      BY <1>0, <2>4, ReaderStep DEF Reader
    <3>2. seen'[t] = seen[t]
      <4>1. \/ UNCHANGED seen \/ seen' = [seen EXCEPT ![s] = NothingSeen]
            \/ \E S : Sees(s, S)
        BY <2>4 DEF ReadTsps, Reader, ReadVotes, ReadMin, ReadMinMrt, ReadMax, ReadRecord,
           ReadPanics, ReadPerf, ReadCpp, ReadReply
      <4> QED
        BY <1>0, <2>4, <4>1, SeesIs DEF LockType
    <3> QED
      BY <2>1, <2>4, <3>1, <3>2, Names
  <2>5. ASSUME ReadTsps(t) \/ Reader(t) PROVE ReadReply(t) \/ ReadPanics(t)
    BY <1>0, <2>5, ReaderStep DEF Reader, Moved
  <2> QED
    BY <2>2, <2>3, <2>4, <2>5 DEF Next
<1> QED
  BY <1>3, <1>4, <1>5, <1>6

-----------------------------------------------------------------------------
\* The inductive invariant of the locks and of what is behind them.
SnapshotInv == LocksInv /\ SeenInv /\ VersionInv /\ SnapInv

\* Nothing is locked, seen or changed at the start.
LEMMA SnapshotInit == Init => SnapshotInv
<1> SUFFICES ASSUME Init PROVE SnapshotInv
  OBVIOUS
<1>1. LockType
  BY Names DEF Init, LockType, UpdLabels, ReadLabels, NothingSeen
<1>2. QueueInv
  BY DEF Init, QueueInv, Queued, Once
<1>3. MutexInv /\ GuardInv /\ UpdInv
  BY Names DEF Init, MutexInv, GuardInv, UpdInv, Holds, At
<1>4. SeenInv
  BY Names DEF Init, SeenInv, SeenOk
<1>5. Len(calls) = 0 /\ pc[Upd] = "idle"
  BY Names DEF Init
<1>6. \A K : LatestIn(calls, 0, K) = 0
  BY DEF LatestIn, Top
<1>7. VersionInv
  BY <1>5, <1>6, Names DEF VersionInv, VersionsAre, Init
<1>8. SnapInv
  BY <1>5, <1>6, Names DEF SnapInv, SnapAt, Init, NothingSeen
<1> QED
  BY <1>1, <1>2, <1>3, <1>4, <1>7, <1>8 DEF SnapshotInv, LocksInv

\* In every reachable state the guards and queues follow from where the tasks
\* are, and what an unfinished Read has looked at is unchanged.
THEOREM SnapshotInvariant == Spec => []SnapshotInv
<1>1. SnapshotInv /\ [Next]_vars => SnapshotInv'
  BY LocksStep, SeenStep, VersionStep, SnapStep DEF SnapshotInv
<1> QED
  BY <1>1, SnapshotInit, PTL DEF Spec

\* A Read that completes has looked at one state of the view, the one some
\* number of complete process_vote calls left behind.
THEOREM ReadsSnapshot == Spec => []ReadIsSnapshot
<1>1. SnapshotInv => ReadIsSnapshot
  BY SnapIs DEF SnapshotInv
<1> QED
  BY <1>1, SnapshotInvariant, PTL

-----------------------------------------------------------------------------
(***************************************************************************)
(* The only way to hang.                                                   *)
(***************************************************************************)

\* The Read at label p that runs, or waits, has a guard on mrt.
HasMrt(p, run) == run /\ p \in {"max", "perf", "cpp"}

\* The other half of the guards: what the tasks do not have.  The updater reads
\* nothing, a Read that is done has no guard left, and a Read has one guard on
\* mrt at most and none while it waits.
FreeOf(p, run, a, b, c) ==
  /\ p = "idle" => a = 0 /\ b = 0
  /\ c = IF HasMrt(p, run) THEN 1 ELSE 0
FreeInv ==
  /\ \A l \in Locks : reading[l][Upd] = 0
  /\ \A t \in Readers :
       FreeOf(pc[t], Running(t), reading["tsps"][t], reading["ts_vote_msg"][t],
              reading["mrt"][t])

\* The updater has locked for writing only what its label says.
UnlockedInv ==
  /\ writing["mrt"] = Upd => pc[Upd] \in {"insert", "stamp", "record"} \/ At(Upd, "evidence")
  /\ writing["ts_vote_msg"] = Upd => At(Upd, "insert")
  /\ writing["tsps"] = Upd => At(Upd, "record")

\* The lock a task that waits at label p waits for.
WaitsFor(t, p, l) ==
  IF t = Upd
    THEN \/ p = "evidence" /\ l = "mrt"
         \/ p = "insert" /\ l = "ts_vote_msg"
         \/ p = "record" /\ l = "tsps"
    ELSE \/ p \in {"votes", "minmrt", "record"} /\ l = "tsps"
         \/ p = "loop" /\ l = "ts_vote_msg"
         \/ p \in {"max", "perf", "cpp"} /\ l = "mrt"

\* A task waits for the lock its label says, in the mode it takes it.
LEMMA QueueEntry ==
  ASSUME LockType, QueueInv, NEW l \in Locks, NEW i \in 1..Len(queue[l])
  PROVE  /\ queue[l][i] \in Entry /\ queue[l][i].task \in Tasks
         /\ WaitsFor(queue[l][i].task, pc[queue[l][i].task], l)
         /\ queue[l][i].mode = IF queue[l][i].task = Upd THEN "write" ELSE "read"
<1>0. PICK e : e = queue[l][i]
  OBVIOUS
<1>1. e \in Entry /\ Due(l, e, pc[e.task])
  BY <1>0 DEF LockType, QueueInv, Queued
<1>2. e.task \in Tasks
  BY <1>1 DEF Entry
<1>3. \A q \in UpdWants : q \in {<<"evidence", "mrt">>, <<"insert", "ts_vote_msg">>,
                                 <<"record", "tsps">>}
  BY DEF UpdWants
<1>4. \A q \in ReadWants : q \in {<<"votes", "tsps">>, <<"loop", "ts_vote_msg">>,
           <<"minmrt", "tsps">>, <<"max", "mrt">>, <<"record", "tsps">>, <<"perf", "mrt">>,
           <<"cpp", "mrt">>}
  BY DEF ReadWants
<1>5. CASE e.task = Upd
  <2>1. e.mode = "write" /\ <<pc[e.task], l>> \in UpdWants
    BY <1>1, <1>5 DEF Due
  <2> QED
    BY <1>0, <1>1, <1>2, <1>3, <1>5, <2>1 DEF WaitsFor
<1>6. CASE e.task # Upd
  <2>1. e.mode = "read" /\ <<pc[e.task], l>> \in ReadWants
    BY <1>1, <1>6 DEF Due
  <2> QED
    BY <1>0, <1>1, <1>2, <1>4, <1>6, <2>1 DEF WaitsFor
<1> QED
  BY <1>5, <1>6

\* So it waits for one lock only.
LEMMA OneLock ==
  ASSUME LockType, QueueInv, NEW t, NEW l \in Locks, InQ(queue[l], t)
  PROVE  /\ t \in Tasks /\ WaitsFor(t, pc[t], l)
         /\ \A k \in Locks : InQ(queue[k], t) => k = l
<1>1. ASSUME NEW k \in Locks, InQ(queue[k], t) PROVE t \in Tasks /\ WaitsFor(t, pc[t], k)
  <2>1. PICK i \in 1..Len(queue[k]) : queue[k][i].task = t
    BY <1>1 DEF InQ
  <2> QED
    BY <2>1, QueueEntry
<1>2. \A k \in Locks : WaitsFor(t, pc[t], k) /\ WaitsFor(t, pc[t], l) => k = l
  BY DEF WaitsFor
<1> QED
  BY <1>1, <1>2

\* The task that is granted a lock runs.
LEMMA GrantedRuns ==
  ASSUME LockType, QueueInv, NEW l \in Locks, queue[l] # <<>>,
         queue' = [queue EXCEPT ![l] = Tail(@)], NEW t, t = Head(queue[l]).task
  PROVE  Running(t)' /\ t \in Tasks /\ WaitsFor(t, pc[t], l)
<1>1. PICK q \in Seq(Entry) : q = queue[l] /\ q # <<>> /\ Once(q)
  BY DEF LockType, QueueInv, Queued
<1>2. PICK u : u = Tail(q)
  OBVIOUS
<1>3. Shorter(q, u)
  BY <1>1, <1>2, TailQueue, Zenon
<1>4. ~InQ(u, t) /\ InQ(q, t)
  BY <1>1, <1>3 DEF Shorter
<1>5. queue'[l] = u /\ \A k \in Locks \ {l} : queue'[k] = queue[k]
  BY <1>1, <1>2 DEF LockType
<1>6. /\ t \in Tasks /\ WaitsFor(t, pc[t], l)
      /\ \A k \in Locks : InQ(queue[k], t) => k = l
  BY <1>1, <1>4, OneLock
<1>7. \A k \in Locks : ~InQ(queue'[k], t)
  BY <1>4, <1>5, <1>6
<1>8. Running(t)' <=> \A k \in Locks : ~InQ(queue'[k], t)
  BY DEF Running, Waiting, InQ
<1> QED
  BY <1>6, <1>7, <1>8

-----------------------------------------------------------------------------
\* Task t has given up a guard on the locks R.
Guards(t, R) ==
  \A k \in Locks, s \in Tasks :
    reading'[k][s] = IF s = t /\ k \in R THEN reading[k][s] - 1 ELSE reading[k][s]

\* It does when it asks for a lock.
LEMMA AskGuards ==
  ASSUME LockType, NEW t \in Tasks, NEW R, NEW l, NEW m, Ask(t, R, l, m)
  PROVE  Guards(t, R)
<1> SUFFICES ASSUME NEW k \in Locks, NEW s \in Tasks
             PROVE  reading'[k][s] = IF s = t /\ k \in R THEN reading[k][s] - 1 ELSE reading[k][s]
  BY DEF Guards
<1>1. reading[k] \in [Tasks -> Nat]
  BY DEF LockType
<1>2. reading'[k] = [reading[k] EXCEPT ![t] = IF k \in R THEN @ - 1 ELSE @]
  BY DEF Ask
<1> QED
  BY <1>1, <1>2

\* A step of Read t, whose guards are right after it, changes nothing for the
\* other tasks.
LEMMA FreeRead ==
  ASSUME LocksInv, FreeInv, UnlockedInv, NEW t \in Readers, NEW p, NEW r \in BOOLEAN,
         Moved(t, p, r), UNCHANGED writing,
         \A k \in Locks, s \in Tasks \ {t} : reading'[k][s] = reading[k][s],
         FreeOf(p, r, reading'["tsps"][t], reading'["ts_vote_msg"][t], reading'["mrt"][t])
  PROVE  FreeInv' /\ UnlockedInv'
<1>1. ASSUME NEW s \in Tasks \ {t}
      PROVE  /\ pc'[s] = pc[s] /\ (Running(s)' <=> Running(s))
             /\ \A k \in Locks : reading'[k][s] = reading[k][s]
  BY DEF Moved, SameBut
<1>2. ASSUME NEW s \in Readers \ {t}
      PROVE  FreeOf(pc[s], Running(s), reading["tsps"][s], reading["ts_vote_msg"][s],
                    reading["mrt"][s])'
  <2>1. FreeOf(pc[s], Running(s), reading["tsps"][s], reading["ts_vote_msg"][s],
               reading["mrt"][s])
    BY DEF FreeInv
  <2>2. /\ reading'["tsps"][s] = reading["tsps"][s] /\ reading'["mrt"][s] = reading["mrt"][s]
        /\ reading'["ts_vote_msg"][s] = reading["ts_vote_msg"][s]
        /\ pc'[s] = pc[s] /\ (Running(s)' <=> Running(s))
    BY <1>1, Names
  <2> QED
    BY <2>1, <2>2 DEF FreeOf, HasMrt
<1>3. FreeOf(pc[t], Running(t), reading["tsps"][t], reading["ts_vote_msg"][t], reading["mrt"][t])'
  BY DEF Moved, FreeOf, HasMrt
<1>4. /\ \A l \in Locks : reading'[l][Upd] = 0
      /\ pc'[Upd] = pc[Upd] /\ (Running(Upd)' <=> Running(Upd))
  BY <1>1, Names DEF FreeInv
<1> QED
  BY <1>2, <1>3, <1>4 DEF FreeInv, UnlockedInv, At

\* Every step of a Read keeps FreeInv and UnlockedInv.
LEMMA FreeReader ==
  ASSUME LocksInv, DataType', FreeInv, UnlockedInv, NEW t \in Readers, ReadTsps(t) \/ Reader(t)
  PROVE  FreeInv' /\ UnlockedInv'
<1> DEFINE a == reading["tsps"][t]
           b == reading["ts_vote_msg"][t]
           c == reading["mrt"][t]
<1>0. /\ t \in Tasks /\ LockType /\ reading \in [Locks -> [Tasks -> Nat]]
      /\ a \in Nat /\ b \in Nat /\ c \in Nat
  BY Names DEF LocksInv, LockType
<1>1. FreeOf(pc[t], Running(t), a, b, c)
  BY DEF FreeInv
<1>2. ASSUME NEW R, NEW l, NEW m, Ask(t, R, l, m)
      PROVE  /\ \A k \in Locks, s \in Tasks \ {t} : reading'[k][s] = reading[k][s]
             /\ reading'["tsps"][t] = IF "tsps" \in R THEN a - 1 ELSE a
             /\ reading'["ts_vote_msg"][t] = IF "ts_vote_msg" \in R THEN b - 1 ELSE b
             /\ reading'["mrt"][t] = IF "mrt" \in R THEN c - 1 ELSE c
  <2>1. Guards(t, R)
    BY <1>0, <1>2, AskGuards
  <2> QED
    BY <1>0, <2>1, Names DEF Guards
<1> HIDE DEF a, b, c
\* A Read without a guard on mrt asks for a lock and keeps its guards.
<1>3. ASSUME NEW l, NEW m, NEW p, Ask(t, {}, l, m), Moved(t, p, FALSE), p # "idle",
             UNCHANGED writing, c = 0
      PROVE  FreeInv' /\ UnlockedInv'
  <2>1. PICK R : R = {}
    OBVIOUS
  <2>2. /\ \A k \in Locks, s \in Tasks \ {t} : reading'[k][s] = reading[k][s]
        /\ reading'["mrt"][t] = c
    BY <1>2, <1>3, <2>1
  <2>3. FreeOf(p, FALSE, reading'["tsps"][t], reading'["ts_vote_msg"][t], reading'["mrt"][t])
    BY <1>3, <2>2 DEF FreeOf, HasMrt
  <2> QED
    BY <1>3, <2>2, <2>3, FreeRead
<1>4. CASE ReadTsps(t)
  <2>1. Ask(t, {}, "tsps", TspsMode) /\ UNCHANGED writing /\ c = 0
    BY <1>1, <1>4 DEF ReadTsps, At, FreeOf, HasMrt
  <2> QED
    BY <1>3, <1>4, <2>1, ReaderStep
<1>5. CASE ReadVotes(t)
  <2>1. Ask(t, {}, "ts_vote_msg", "read") /\ UNCHANGED writing /\ c = 0
    BY <1>1, <1>5 DEF ReadVotes, At, FreeOf, HasMrt, Drops
  <2> QED
    BY <1>3, <1>5, <2>1, ReaderStep
<1>6. CASE ReadMin(t)
  <2>1. Ask(t, {}, "tsps", "read") /\ UNCHANGED writing /\ c = 0
    BY <1>1, <1>6 DEF ReadMin, At, FreeOf, HasMrt
  <2> QED
    BY <1>3, <1>6, <2>1, ReaderStep
<1>7. CASE ReadMinMrt(t)
  <2>1. Ask(t, {}, "mrt", "read") /\ UNCHANGED writing /\ c = 0
    BY <1>1, <1>7 DEF ReadMinMrt, At, FreeOf, HasMrt
  <2> QED
    BY <1>3, <1>7, <2>1, ReaderStep
<1>8. CASE ReadPerf(t)
  <2>1. Ask(t, {}, "mrt", "read") /\ UNCHANGED writing /\ c = 0
    BY <1>1, <1>8 DEF ReadPerf, At, FreeOf, HasMrt
  <2> QED
    BY <1>3, <1>8, <2>1, ReaderStep
<1>9. CASE ReadMax(t)
  <2> DEFINE R == {"tsps", "mrt"}
  <2>1. Ask(t, R, "tsps", "read") /\ UNCHANGED writing /\ c = 1 /\ "mrt" \in R
    BY <1>1, <1>9 DEF ReadMax, At, FreeOf, HasMrt
  <2> HIDE DEF R
  <2>2. /\ \A k \in Locks, s \in Tasks \ {t} : reading'[k][s] = reading[k][s]
        /\ reading'["mrt"][t] = 0
    BY <1>2, <2>1
  <2>3. FreeOf("record", FALSE, reading'["tsps"][t], reading'["ts_vote_msg"][t],
               reading'["mrt"][t])
    BY <2>2 DEF FreeOf, HasMrt
  <2> QED
    BY <1>9, <2>1, <2>2, <2>3, ReaderStep, FreeRead
<1>10. CASE ReadCpp(t)
  <2> DEFINE R == {"mrt"}
  <2>1. Ask(t, R, "mrt", "read") /\ UNCHANGED writing /\ c = 1 /\ "mrt" \in R
    BY <1>1, <1>10 DEF ReadCpp, At, FreeOf, HasMrt
  <2> HIDE DEF R
  <2>2. /\ \A k \in Locks, s \in Tasks \ {t} : reading'[k][s] = reading[k][s]
        /\ reading'["mrt"][t] = 0
    BY <1>2, <2>1
  <2>3. FreeOf("cpp", FALSE, reading'["tsps"][t], reading'["ts_vote_msg"][t],
               reading'["mrt"][t])
    BY <2>2 DEF FreeOf, HasMrt
  <2> QED
    BY <1>10, <2>1, <2>2, <2>3, ReaderStep, FreeRead
<1>11. CASE ReadRecord(t)
  <2>1. /\ reading' = [reading EXCEPT !["tsps"][t] = @ - 1] /\ UNCHANGED writing /\ c = 0
        /\ Moved(t, "loop", TRUE)
    BY <1>1, <1>11, ReaderStep DEF ReadRecord, At, FreeOf, HasMrt
  <2>2. /\ \A k \in Locks, s \in Tasks \ {t} : reading'[k][s] = reading[k][s]
        /\ reading'["mrt"][t] = c
    BY <1>0, <2>1, Names DEF c
  <2>3. FreeOf("loop", TRUE, reading'["tsps"][t], reading'["ts_vote_msg"][t],
               reading'["mrt"][t])
    BY <2>1, <2>2 DEF FreeOf, HasMrt
  <2> QED
    BY <2>1, <2>2, <2>3, FreeRead
<1>12. CASE ReadReply(t) \/ ReadPanics(t)
  <2>1. ReleaseAll(t) /\ UNCHANGED writing /\ Moved(t, "idle", TRUE)
    BY <1>12, ReaderStep DEF ReadReply, ReadPanics
  <2>2. ASSUME NEW k \in Locks
        PROVE  reading'[k][t] = 0 /\ \A s \in Tasks \ {t} : reading'[k][s] = reading[k][s]
    <3>1. reading'[k] = [reading[k] EXCEPT ![t] = 0] /\ reading[k] \in [Tasks -> Nat]
      BY <1>0, <2>1 DEF ReleaseAll
    <3> QED
      BY <1>0, <3>1
  <2>3. FreeOf("idle", TRUE, reading'["tsps"][t], reading'["ts_vote_msg"][t],
               reading'["mrt"][t])
    BY <2>2, Names DEF FreeOf, HasMrt
  <2> QED
    BY <2>1, <2>2, <2>3, FreeRead
<1> QED
  BY <1>4, <1>5, <1>6, <1>7, <1>8, <1>9, <1>10, <1>11, <1>12 DEF Reader

\* A step of the updater does not change the guards of the Reads.
LEMMA FreeUpdate ==
  ASSUME LocksInv, FreeInv, NEW p, NEW r \in BOOLEAN, Moved(Upd, p, r),
         \A k \in Locks, s \in Tasks : reading'[k][s] = reading[k][s]
  PROVE  FreeInv'
<1>1. ASSUME NEW s \in Readers
      PROVE  FreeOf(pc[s], Running(s), reading["tsps"][s], reading["ts_vote_msg"][s],
                    reading["mrt"][s])'
  <2>1. FreeOf(pc[s], Running(s), reading["tsps"][s], reading["ts_vote_msg"][s],
               reading["mrt"][s])
    BY DEF FreeInv
  <2>2. /\ reading'["tsps"][s] = reading["tsps"][s] /\ reading'["mrt"][s] = reading["mrt"][s]
        /\ reading'["ts_vote_msg"][s] = reading["ts_vote_msg"][s]
        /\ pc'[s] = pc[s] /\ (Running(s)' <=> Running(s))
    BY Names DEF Moved, SameBut
  <2> QED
    BY <2>1, <2>2 DEF FreeOf, HasMrt
<1>2. \A l \in Locks : reading'[l][Upd] = 0
  BY Names DEF FreeInv
<1> QED
  BY <1>1, <1>2 DEF FreeInv

\* Every step of the updater keeps FreeInv and UnlockedInv.
LEMMA FreeUpdater ==
  ASSUME LocksInv, DataType', FreeInv, UnlockedInv, Updater
  PROVE  FreeInv' /\ UnlockedInv'
<1>0. LockType /\ Upd \in Tasks /\ writing \in [Locks -> {Nobody, Upd}] /\ Nobody # Upd
  BY Names DEF LocksInv, LockType
<1>1. ASSUME NEW l, NEW m, Ask(Upd, {}, l, m)
      PROVE  \A k \in Locks, s \in Tasks : reading'[k][s] = reading[k][s]
  <2>1. Guards(Upd, {})
    BY <1>0, <1>1, AskGuards
  <2> QED
    BY <2>1 DEF Guards
<1>2. ASSUME NEW kind \in Kinds, UpdateMrt(kind) PROVE FreeInv' /\ UnlockedInv'
  <2>1. /\ Ask(Upd, {}, "mrt", "write") /\ UNCHANGED writing /\ At(Upd, "idle")
        /\ Moved(Upd, "evidence", FALSE)
    BY <1>2, UpdaterStep DEF UpdateMrt
  <2>2. FreeInv'
    BY <1>1, <2>1, FreeUpdate
  <2> QED
    BY <2>1, <2>2 DEF UnlockedInv, At
<1>3. CASE UpdateEvidence
  <2>1. /\ Ask(Upd, {}, "ts_vote_msg", "write") /\ UNCHANGED writing /\ At(Upd, "evidence")
        /\ Moved(Upd, "insert", FALSE)
    BY <1>3, UpdaterStep DEF UpdateEvidence
  <2>2. FreeInv'
    BY <1>1, <2>1, FreeUpdate
  <2> QED
    BY <2>1, <2>2 DEF UnlockedInv, At, Moved
<1>4. CASE UpdateInsert
  <2>1. /\ UNCHANGED reading /\ At(Upd, "insert") /\ Moved(Upd, "stamp", TRUE)
        /\ writing' = [writing EXCEPT !["ts_vote_msg"] = Nobody]
    BY <1>4, UpdaterStep DEF UpdateInsert
  <2>2. FreeInv'
    BY <2>1, FreeUpdate
  <2>3. writing'["ts_vote_msg"] = Nobody /\ writing'["tsps"] = writing["tsps"]
    BY <1>0, <2>1, Names
  <2> QED
    BY <1>0, <2>1, <2>2, <2>3 DEF UnlockedInv, At, Moved
<1>5. CASE UpdateStampOnly
  <2>1. /\ UNCHANGED reading /\ At(Upd, "stamp") /\ Moved(Upd, "idle", TRUE)
        /\ writing' = [writing EXCEPT !["mrt"] = Nobody]
    BY <1>5, UpdaterStep DEF UpdateStampOnly
  <2>2. FreeInv'
    BY <2>1, FreeUpdate
  <2>3. /\ writing'["mrt"] = Nobody /\ writing'["tsps"] = writing["tsps"]
        /\ writing'["ts_vote_msg"] = writing["ts_vote_msg"]
    BY <1>0, <2>1, Names
  <2> QED
    BY <1>0, <2>1, <2>2, <2>3 DEF UnlockedInv, At
<1>6. CASE UpdateStamp
  <2>1. /\ Ask(Upd, {}, "tsps", "write") /\ UNCHANGED writing /\ At(Upd, "stamp")
        /\ Moved(Upd, "record", FALSE)
    BY <1>6, UpdaterStep DEF UpdateStamp
  <2>2. FreeInv'
    BY <1>1, <2>1, FreeUpdate
  <2> QED
    BY <2>1, <2>2 DEF UnlockedInv, At, Moved
<1>7. CASE UpdateRecord
  <2>1. /\ UNCHANGED reading /\ At(Upd, "record") /\ Moved(Upd, "idle", TRUE)
        /\ writing' = [writing EXCEPT !["tsps"] = Nobody, !["mrt"] = Nobody]
    BY <1>7, UpdaterStep DEF UpdateRecord
  <2>2. FreeInv'
    BY <2>1, FreeUpdate
  <2>3. /\ writing'["mrt"] = Nobody /\ writing'["tsps"] = Nobody
        /\ writing'["ts_vote_msg"] = writing["ts_vote_msg"]
    BY <1>0, <2>1, Names
  <2> QED
    BY <1>0, <2>1, <2>2, <2>3 DEF UnlockedInv, At
<1> QED
  BY <1>2, <1>3, <1>4, <1>5, <1>6, <1>7 DEF Updater

\* A granted read guard is the one its Read waited for.
LEMMA FreeReadGranted ==
  ASSUME LocksInv, FreeInv, UnlockedInv, NEW l \in Locks, GrantRead(l)
  PROVE  FreeInv' /\ UnlockedInv'
<1>1. /\ queue[l] # <<>> /\ Head(queue[l]).mode = "read"
      /\ queue' = [queue EXCEPT ![l] = Tail(@)] /\ UNCHANGED <<writing, pc>>
      /\ LockType /\ QueueInv
  BY DEF GrantRead, LocksInv
<1>2. PICK h : h = Head(queue[l])
  OBVIOUS
<1>3. /\ h \in Entry /\ Due(l, h, pc[h.task]) /\ ~Running(h.task)
      /\ \A s \in Tasks \ {h.task} : Running(s)' <=> Running(s)
  BY <1>1, <1>2, QueueGrant, Zenon
<1>4. PICK t \in Tasks : t = h.task
  BY <1>3 DEF Entry
<1>5. t \in Readers /\ t # Upd
  BY <1>1, <1>2, <1>3, <1>4, Names DEF Due
<1>6. Running(t)' /\ WaitsFor(t, pc[t], l)
  BY <1>1, <1>2, <1>4, GrantedRuns
<1>7. reading' = [reading EXCEPT ![l][t] = @ + 1]
  BY <1>2, <1>4 DEF GrantRead
<1>8. /\ reading'[l][t] = reading[l][t] + 1
      /\ \A k \in Locks \ {l} : reading'[k] = reading[k]
      /\ \A k \in Locks, s \in Tasks \ {t} : reading'[k][s] = reading[k][s]
  BY <1>1, <1>7 DEF LockType
<1>9. Moved(t, pc[t], TRUE)
  BY <1>1, <1>3, <1>4, <1>6 DEF Moved, SameBut, LockType
<1>10. /\ FreeOf(pc[t], FALSE, reading["tsps"][t], reading["ts_vote_msg"][t], reading["mrt"][t])
       /\ pc[t] # "idle"
  BY <1>3, <1>4, <1>5, <1>6 DEF FreeInv, FreeOf, HasMrt, WaitsFor
<1>11. reading'["mrt"][t] = IF HasMrt(pc[t], TRUE) THEN 1 ELSE 0
  <2>1. reading["mrt"][t] = 0
    BY <1>10 DEF FreeOf, HasMrt
  <2>2. CASE l = "mrt"
    BY <1>5, <1>6, <1>8, <2>1, <2>2 DEF WaitsFor, HasMrt
  <2>3. CASE l # "mrt"
    BY <1>5, <1>6, <1>8, <2>1, <2>3, Names DEF WaitsFor, HasMrt
  <2> QED
    BY <2>2, <2>3
<1>12. FreeOf(pc[t], TRUE, reading'["tsps"][t], reading'["ts_vote_msg"][t], reading'["mrt"][t])
  BY <1>10, <1>11 DEF FreeOf
<1>13. PICK p : p = pc[t]
  OBVIOUS
<1> QED
  BY <1>1, <1>5, <1>8, <1>9, <1>12, <1>13, FreeRead

\* A granted write guard is the one the updater waited for.
LEMMA FreeWriteGranted ==
  ASSUME LocksInv, FreeInv, UnlockedInv, NEW l \in Locks, GrantWrite(l)
  PROVE  FreeInv' /\ UnlockedInv'
<1>1. /\ queue[l] # <<>> /\ Head(queue[l]).mode = "write"
      /\ queue' = [queue EXCEPT ![l] = Tail(@)] /\ UNCHANGED <<reading, pc>>
      /\ LockType /\ QueueInv /\ writing \in [Locks -> {Nobody, Upd}]
  BY DEF GrantWrite, LocksInv, LockType
<1>2. PICK h : h = Head(queue[l])
  OBVIOUS
<1>3. /\ h \in Entry /\ Due(l, h, pc[h.task]) /\ ~Running(h.task)
      /\ \A s \in Tasks \ {h.task} : Running(s)' <=> Running(s)
  BY <1>1, <1>2, QueueGrant, Zenon
<1>4. h.task = Upd /\ ~Running(Upd)
  BY <1>1, <1>2, <1>3 DEF Due
<1>5. Running(Upd)' /\ WaitsFor(Upd, pc[Upd], l)
  BY <1>1, <1>2, <1>4, GrantedRuns
<1>6. writing'[l] = Upd /\ \A k \in Locks \ {l} : writing'[k] = writing[k]
  BY <1>1, <1>2, <1>4 DEF GrantWrite
<1>7. Moved(Upd, pc[Upd], TRUE)
  BY <1>1, <1>3, <1>4, <1>5, Names DEF Moved, SameBut, LockType
<1>8. PICK p : p = pc[Upd]
  OBVIOUS
<1>9. FreeInv'
  BY <1>1, <1>7, <1>8, FreeUpdate
<1>10. UnlockedInv'
  BY <1>1, <1>4, <1>5, <1>6, Names DEF UnlockedInv, At, WaitsFor
<1> QED
  BY <1>9, <1>10

\* Every step keeps FreeInv and UnlockedInv.
LEMMA FreeStep ==
  ASSUME LocksInv, FreeInv, UnlockedInv, [Next]_vars
  PROVE  FreeInv' /\ UnlockedInv'
<1>1. DataType'
  BY LocksStep
<1>2. ASSUME UNCHANGED vars PROVE FreeInv' /\ UnlockedInv'
  <2>1. UNCHANGED <<queue, reading, writing, pc>>
    BY <1>2 DEF vars, lockvars
  <2> QED
    BY <2>1 DEF FreeInv, UnlockedInv, FreeOf, HasMrt, At, Running, Waiting
<1> QED
  BY <1>1, <1>2, FreeReader, FreeUpdater, FreeReadGranted, FreeWriteGranted DEF Next, Grant

-----------------------------------------------------------------------------
\* An unfinished task waits when nothing can go on.
LEMMA StuckWaits ==
  ASSUME LocksInv, ~CanGoOn, NEW t \in Tasks, pc[t] # "idle"
  PROVE  \E l \in Locks : Waiting(t, l) /\ InQ(queue[l], t) /\ WaitsFor(t, pc[t], l)
<1>1. ~Running(t)
  BY DEF CanGoOn, Unfinished
<1>2. PICK l \in Locks : Waiting(t, l)
  BY <1>1 DEF Running
<1>3. InQ(queue[l], t)
  BY <1>2 DEF Waiting, InQ
<1> QED
  BY <1>2, <1>3, OneLock DEF LocksInv

\* A queue that stands still has a Read at its head that the updater keeps out,
\* or the updater, which some guard keeps out.
LEMMA StuckHead ==
  ASSUME LocksInv, ~CanGoOn, NEW l \in Locks, NEW t, InQ(queue[l], t)
  PROVE  \/ writing[l] = Upd
         \/ Waiting(Upd, l) /\ InQ(queue[l], Upd) /\ ~Free(l)
<1>1. LockType /\ QueueInv /\ queue[l] \in Seq(Entry)
  BY DEF LocksInv, LockType
<1>2. queue[l] # <<>> /\ 1 \in 1..Len(queue[l]) /\ Head(queue[l]) = queue[l][1]
  BY <1>1 DEF InQ
<1>3. PICK h : h = queue[l][1]
  OBVIOUS
<1>4. h.task \in Tasks /\ h.mode = IF h.task = Upd THEN "write" ELSE "read"
  BY <1>1, <1>2, <1>3, QueueEntry
<1>5. ~(IF h.mode = "read" THEN writing[l] = Nobody ELSE Free(l))
  BY <1>2, <1>3 DEF CanGoOn, Grantable
<1>6. CASE h.task = Upd
  BY <1>2, <1>3, <1>4, <1>5, <1>6 DEF Waiting, InQ
<1>7. CASE h.task # Upd
  BY <1>1, <1>4, <1>5, <1>7 DEF LockType
<1> QED
  BY <1>6, <1>7

\* When nothing can go on, the updater has at most mrt locked.
LEMMA StuckUpdater ==
  ASSUME LocksInv, UnlockedInv, ~CanGoOn
  PROVE  /\ ~At(Upd, "evidence") /\ ~At(Upd, "insert") /\ ~At(Upd, "record")
         /\ \A l \in Locks : writing[l] = Upd => l = "mrt"
         /\ writing["mrt"] = Upd => pc[Upd] \in {"insert", "record"}
<1>1. ~At(Upd, "evidence") /\ ~At(Upd, "insert") /\ ~At(Upd, "record")
  BY Names DEF CanGoOn, Unfinished, At
<1>2. pc[Upd] # "stamp"
  <2>1. SUFFICES ASSUME pc[Upd] = "stamp" PROVE FALSE
    OBVIOUS
  <2>2. \E l \in Locks : WaitsFor(Upd, pc[Upd], l)
    BY <2>1, StuckWaits, Names
  <2> QED
    BY <2>1, <2>2 DEF WaitsFor
<1> QED
  BY <1>1, <1>2, Names DEF UnlockedInv

\* When nothing can go on and a Read is unfinished, the updater waits for a lock
\* that some unfinished Read has, and that Read, for mrt or for the same lock:
\* the third lock has no writer, so its queue would move.
LEMMA StuckIsCycle ==
  ASSUME LocksInv, FreeInv, UnlockedInv
  PROVE  StuckOnlyInCycle
<1> SUFFICES ASSUME NEW t \in Readers, pc[t] # "idle", ~CanGoOn
             PROVE  \E s \in Readers : CircularWait(s)
  BY DEF StuckOnlyInCycle, Unfinished
<1>1. pc[Upd] # "idle"
  <2>1. PICK l \in Locks : InQ(queue[l], t)
    BY StuckWaits, Names
  <2>2. CASE writing[l] = Upd
    BY <2>2, StuckUpdater
  <2>3. CASE InQ(queue[l], Upd)
    BY <2>3, OneLock DEF LocksInv, WaitsFor
  <2> QED
    BY <2>1, <2>2, <2>3, StuckHead
<1>2. PICK k \in Locks : Waiting(Upd, k) /\ InQ(queue[k], Upd) /\ WaitsFor(Upd, pc[Upd], k)
  BY <1>1, StuckWaits, Names
<1>3. writing[k] # Upd
  <2>1. ~Running(Upd)
    BY <1>2 DEF Running
  <2> QED
    BY <1>2, <2>1 DEF UnlockedInv, At, WaitsFor
<1>4. ~Free(k) /\ writing[k] = Nobody
  BY <1>2, <1>3, StuckHead DEF LocksInv, LockType
<1>5. PICK s \in Tasks : reading[k][s] # 0
  BY <1>4 DEF Free
<1>6. s \in Readers /\ reading[k][s] > 0
  <2>1. s \in Readers
    BY <1>5, Names DEF FreeInv
  <2>2. reading[k][s] \in Nat
    BY DEF LocksInv, LockType
  <2> QED
    BY <1>5, <2>1, <2>2
<1>7. FreeOf(pc[s], Running(s), reading["tsps"][s], reading["ts_vote_msg"][s], reading["mrt"][s])
  BY <1>6 DEF FreeInv
<1>8. pc[s] # "idle"
  BY <1>5, <1>7, Names DEF FreeOf, HasMrt
<1>9. PICK m \in Locks : Waiting(s, m) /\ InQ(queue[m], s)
  BY <1>8, StuckWaits
<1>10. k # "mrt"
  <2>1. ~Running(s)
    BY <1>9 DEF Running
  <2> QED
    BY <1>5, <1>7, <2>1 DEF FreeOf, HasMrt
<1>11. writing["mrt"] = Upd
  BY <1>2, <1>10 DEF WaitsFor, LocksInv, UpdInv
<1>12. m = k \/ m = "mrt"
  <2>1. CASE writing[m] = Upd
    BY <2>1, StuckUpdater
  <2>2. CASE InQ(queue[m], Upd)
    BY <1>2, <2>2, OneLock DEF LocksInv
  <2> QED
    BY <1>9, <2>1, <2>2, StuckHead
<1> QED
  BY <1>2, <1>6, <1>9, <1>11, <1>12 DEF CircularWait

\* The only way a Read can hang is a circular wait of a Read and the updater, for
\* any number of Reads: in every other state with an unfinished Read some task
\* runs or some lock can be granted.
THEOREM HangsOnlyInCycle == Spec => []StuckOnlyInCycle
<1>1. Init => FreeInv /\ UnlockedInv
  BY Names DEF Init, FreeInv, UnlockedInv, FreeOf, HasMrt
<1>2. SnapshotInv /\ FreeInv /\ UnlockedInv /\ [Next]_vars => FreeInv' /\ UnlockedInv'
  BY FreeStep DEF SnapshotInv
<1>3. SnapshotInv /\ FreeInv /\ UnlockedInv => StuckOnlyInCycle
  BY StuckIsCycle DEF SnapshotInv
<1> QED
  BY <1>1, <1>2, <1>3, SnapshotInvariant, PTL DEF Spec
=============================================================================
