------------------------- MODULE ReplicaCommsProofs -------------------------
(***************************************************************************)
(* Proofs about ReplicaComms: the bounds on the votes that wait and on the *)
(* attempts to connect, that each replica is sent what was written, once   *)
(* and in order, and that the task of a replica that is gone comes to its  *)
(* end.                                                                    *)
(***************************************************************************)
EXTENDS ReplicaComms, TLAPS

Places == {"connect", "pause", "select", "send", "read only", "deliver", "ended", "failed"}

\* The types of the variables, with the bounds on votes and attempts.
CommsType ==
  /\ client \in {"running", "ok", "err"}
  /\ written \in Nat
  /\ votes \in 0..ChannelSize
  /\ task \in [Replicas -> Places]
  /\ attempts \in [Replicas -> 0..MaxAttempts]
  /\ next \in [Replicas -> Nat]
  /\ peer \in [Replicas -> {"starting", "up", "gone"}]
  /\ updater \in {"runs", "stuck"}
  /\ sent \in [Replicas -> Seq(Nat)]
  /\ got \in [Replicas -> Nat]
  /\ since \in [Replicas -> Nat]
  /\ skipped \in [Replicas -> SUBSET Nat]

\* A task that is to connect has an attempt left, and transactions are numbered
\* from 1.
AttemptsInv ==
  \A r \in Replicas :
    /\ task[r] = "connect" => attempts[r] < MaxAttempts
    /\ next[r] > 0

(***************************************************************************)
(* The state of one task: its place tk, the next transaction nx of its     *)
(* receiver, what it sent (s), when it subscribed (sc), what it skipped    *)
(* (sk).  SentAsWritten says the last three conjuncts.  The receiver is    *)
(* past what was skipped and what was written before it subscribed; until  *)
(* then nothing is sent or skipped; and the transaction being sent is      *)
(* neither sent, nor skipped, nor an old one.                              *)
(***************************************************************************)
Elements(s) == {s[i] : i \in 1..Len(s)}
Due(nx, sc, sk) == ((sc + 1)..(nx - 1)) \ sk
Stream(tk, nx, s, sc, sk) ==
  /\ sc < nx
  /\ \A n \in sk : n < nx
  /\ tk \in {"connect", "pause"} => s = <<>> /\ sk = {}
  /\ tk = "send" => sc < nx - 1 /\ nx - 1 \notin Elements(s) /\ nx - 1 \notin sk
  /\ \A i, j \in 1..Len(s) : i < j => s[i] < s[j]
  /\ Elements(s) \subseteq Due(nx, sc, sk)
  /\ Due(nx, sc, sk) \ Elements(s) \subseteq IF tk \in {"send", "failed"} THEN {nx - 1} ELSE {}
StreamInv == \A r \in Replicas : Stream(task[r], next[r], sent[r], since[r], skipped[r])

CommsInv == CommsType /\ AttemptsInv /\ StreamInv

-----------------------------------------------------------------------------
\* A task may go from anywhere to anywhere else, without touching its stream,
\* except back to connecting, into a send, or out of a send that did not fail.
LEMMA StreamGoto ==
  ASSUME NEW tk, NEW tk2, NEW nx, NEW s, NEW sc, NEW sk, Stream(tk, nx, s, sc, sk),
         tk2 \in {"connect", "pause"} => tk \in {"connect", "pause"},
         tk2 # "send", tk # "failed", tk = "send" => tk2 = "failed"
  PROVE  Stream(tk2, nx, s, sc, sk)
  BY DEF Stream

\* Subscribing starts the stream after the w transactions written so far.
LEMMA StreamConnect ==
  ASSUME NEW nx, NEW s, NEW sc, NEW sk, NEW w \in Nat, Stream("connect", nx, s, sc, sk)
  PROVE  Stream("select", w + 1, s, w, sk)
<1>1. s = <<>> /\ sk = {} /\ Elements(s) = {}
  BY DEF Stream, Elements
<1>2. (w + 1)..((w + 1) - 1) = {}
  OBVIOUS
<1>3. Due(w + 1, w, sk) = {}
  BY <1>1, <1>2 DEF Due
<1>. QED
  BY <1>1, <1>3 DEF Stream

\* Taking the next transaction from the receiver.
LEMMA StreamTake ==
  ASSUME NEW nx \in Nat, NEW s \in Seq(Nat), NEW sc \in Nat, NEW sk \in SUBSET Nat,
         Stream("select", nx, s, sc, sk)
  PROVE  Stream("send", nx + 1, s, sc, sk)
<1>1. Elements(s) = Due(nx, sc, sk)
  BY DEF Stream
<1>2. sc < nx /\ nx \notin sk /\ nx \notin Due(nx, sc, sk)
  BY DEF Stream, Due
<1>3. Due(nx + 1, sc, sk) = Due(nx, sc, sk) \cup {nx}
  BY <1>2 DEF Due
<1>4. \A n \in sk : n < nx + 1
  BY DEF Stream
<1>. QED
  BY <1>1, <1>2, <1>3, <1>4 DEF Stream

\* A receiver that lagged moves on to o: what it passes over is skipped.
LEMMA StreamLag ==
  ASSUME NEW nx \in Nat, NEW s \in Seq(Nat), NEW sc \in Nat, NEW sk \in SUBSET Nat,
         NEW o \in Nat, nx < o, Stream("select", nx, s, sc, sk)
  PROVE  Stream("read only", o, s, sc, sk \cup nx..(o - 1))
<1>1. sc < nx /\ \A n \in sk : n < nx
  BY DEF Stream
<1>2. Due(o, sc, sk \cup nx..(o - 1)) = Due(nx, sc, sk)
  BY <1>1 DEF Due
<1>3. sc < o /\ \A n \in sk \cup nx..(o - 1) : n < o
  BY <1>1
<1>. QED
  BY <1>2, <1>3 DEF Stream

\* Writing the transaction to the socket.
LEMMA StreamSend ==
  ASSUME NEW nx \in Nat, NEW s \in Seq(Nat), NEW sc \in Nat, NEW sk \in SUBSET Nat,
         Stream("send", nx, s, sc, sk)
  PROVE  Stream("select", nx, Append(s, nx - 1), sc, sk)
<1>. DEFINE t == Append(s, nx - 1)
            m == Len(s)
<1>1. m \in Nat /\ Len(t) = m + 1 /\ t[m + 1] = nx - 1 /\ \A i \in 1..m : t[i] = s[i]
  OBVIOUS
<1>2. /\ Elements(s) \subseteq Due(nx, sc, sk)
      /\ Due(nx, sc, sk) \ Elements(s) \subseteq {nx - 1}
      /\ sc < nx - 1 /\ nx - 1 \notin Elements(s) /\ nx - 1 \notin sk
  BY DEF Stream
<1>3. nx - 1 \in Due(nx, sc, sk)
  BY <1>2 DEF Due
<1>4. Elements(t) = Elements(s) \cup {nx - 1}
  BY <1>1 DEF Elements
<1>5. \A i \in 1..m : s[i] \in Nat /\ s[i] < nx - 1
  <2>. SUFFICES ASSUME NEW i \in 1..m PROVE s[i] \in Nat /\ s[i] < nx - 1
    OBVIOUS
  <2>1. s[i] \in Elements(s) /\ s[i] \in Nat
    BY DEF Elements
  <2>2. s[i] \in (sc + 1)..(nx - 1) /\ s[i] # nx - 1
    BY <1>2, <2>1 DEF Due
  <2>. QED
    BY <2>1, <2>2
<1>6. \A i, j \in 1..m : i < j => s[i] < s[j]
  BY DEF Stream
<1>. HIDE DEF t, m
<1>7. ASSUME NEW i \in 1..Len(t), NEW j \in 1..Len(t), i < j PROVE t[i] < t[j]
  <2>1. CASE j = m + 1
    BY <1>1, <1>5, <1>7, <2>1
  <2>2. CASE j \in 1..m
    BY <1>1, <1>6, <1>7, <2>2
  <2>. QED
    BY <1>1, <2>1, <2>2
<1>8. sc < nx /\ \A n \in sk : n < nx
  BY DEF Stream
<1>. QED
  BY <1>2, <1>3, <1>4, <1>7, <1>8 DEF Stream, t

-----------------------------------------------------------------------------
\* A step that changes neither the places of the tasks nor their streams.
LEMMA StreamFrame ==
  ASSUME StreamInv, UNCHANGED <<task, next, sent, since, skipped>>
  PROVE  StreamInv'
  BY DEF StreamInv

\* A step of the task of r, which leaves the streams of the others alone.
LEMMA StreamChanges ==
  ASSUME StreamInv, NEW r \in Replicas,
         Stream(task'[r], next'[r], sent'[r], since'[r], skipped'[r]),
         \A q \in Replicas \ {r} :
           /\ task'[q] = task[q] /\ next'[q] = next[q] /\ sent'[q] = sent[q]
           /\ since'[q] = since[q] /\ skipped'[q] = skipped[q]
  PROVE  StreamInv'
<1>. SUFFICES ASSUME NEW q \in Replicas
              PROVE  Stream(task'[q], next'[q], sent'[q], since'[q], skipped'[q])
  BY DEF StreamInv
<1>1. CASE q = r
  BY <1>1
<1>2. CASE q # r
  BY <1>2 DEF StreamInv
<1>. QED
  BY <1>1, <1>2

\* A step that only takes the task of r to another place.
LEMMA StreamGoesTo ==
  ASSUME CommsType, StreamInv, NEW r \in Replicas, NEW tk, Goto(r, tk),
         UNCHANGED <<next, sent, since, skipped>>,
         tk \in {"connect", "pause"} => task[r] \in {"connect", "pause"},
         tk # "send", task[r] # "failed", task[r] = "send" => tk = "failed"
  PROVE  StreamInv'
<1>1. Stream(task[r], next[r], sent[r], since[r], skipped[r])
  BY DEF StreamInv
<1>2. Stream(tk, next[r], sent[r], since[r], skipped[r])
  BY <1>1, StreamGoto
<1>. SUFFICES ASSUME NEW q \in Replicas
              PROVE  Stream(task'[q], next[q], sent[q], since[q], skipped[q])
  BY DEF StreamInv
<1>3. CASE q = r
  BY <1>2, <1>3 DEF CommsType, Goto
<1>4. CASE q # r
  BY <1>4 DEF CommsType, StreamInv, Goto
<1>. QED
  BY <1>3, <1>4

-----------------------------------------------------------------------------
\* A step that only takes the task of r to another place, when it has an attempt
\* left if it is to connect.
LEMMA GotoType ==
  ASSUME CommsType, AttemptsInv, NEW r \in Replicas, NEW p \in Places, Goto(r, p),
         p = "connect" => attempts[r] < MaxAttempts, UNCHANGED <<attempts, next>>
  PROVE  task' \in [Replicas -> Places] /\ AttemptsInv'
  BY DEF CommsType, AttemptsInv, Goto

\* Every step preserves the types and the bounds.
LEMMA TypeStep == CommsType /\ AttemptsInv /\ [Next]_vars => CommsType' /\ AttemptsInv'
<1>. SUFFICES ASSUME CommsType, AttemptsInv, [Next]_vars PROVE CommsType' /\ AttemptsInv'
  OBVIOUS
<1>0. RingSize \in Nat /\ ChannelSize \in Nat /\ MaxAttempts \in Nat
  BY CommsAssumption
<1>1. CASE Write
  BY <1>1 DEF Write, CommsType, AttemptsInv
<1>2. CASE ServiceReturns
  BY <1>2 DEF ServiceReturns, CommsType, AttemptsInv
<1>3. CASE UpdaterTakes \/ UpdaterSticks
  BY <1>0, <1>3 DEF UpdaterTakes, UpdaterSticks, CommsType, AttemptsInv
<1>4. CASE UNCHANGED vars
  BY <1>4 DEF vars, CommsType, AttemptsInv
<1>5. ASSUME NEW r \in Replicas, ConnectTimeout(r) PROVE CommsType' /\ AttemptsInv'
  <2>1. attempts[r] + 1 \in 0..MaxAttempts
    BY <1>0, <1>5 DEF ConnectTimeout, At, CommsType, AttemptsInv
  <2>2. attempts' \in [Replicas -> 0..MaxAttempts]
    BY <1>5, <2>1 DEF ConnectTimeout, CountAttempt, CommsType
  <2>3. task' \in [Replicas -> Places]
    BY <1>5 DEF ConnectTimeout, Goto, Places, CommsType
  <2>4. AttemptsInv'
    BY <1>5 DEF ConnectTimeout, Goto, CommsType, AttemptsInv
  <2>. QED
    BY <1>5, <2>2, <2>3, <2>4 DEF ConnectTimeout, CommsType
<1>6. ASSUME NEW r \in Replicas, Retry(r) PROVE CommsType' /\ AttemptsInv'
  <2>1. CASE attempts[r] = MaxAttempts
    BY <1>6, <2>1, GotoType DEF Retry, CommsType, Places
  <2>2. CASE attempts[r] # MaxAttempts
    <3>1. attempts[r] < MaxAttempts
      BY <1>0, <2>2 DEF CommsType
    <3>. QED
      BY <1>6, <2>2, <3>1, GotoType DEF Retry, CommsType, Places
  <2>. QED
    BY <2>1, <2>2
<1>7. ASSUME NEW r \in Replicas, ConnectRefused(r) PROVE CommsType' /\ AttemptsInv'
  BY <1>7, GotoType DEF ConnectRefused, CommsType, Places
<1>8. ASSUME NEW r \in Replicas, Connect(r) PROVE CommsType' /\ AttemptsInv'
  <2>1. next' \in [Replicas -> Nat] /\ since' \in [Replicas -> Nat]
    BY <1>8 DEF Connect, Resubscribe, CommsType
  <2>2. task' \in [Replicas -> Places]
    BY <1>8 DEF Connect, Goto, CommsType, Places
  <2>3. AttemptsInv'
    BY <1>8 DEF Connect, Resubscribe, Goto, CommsType, AttemptsInv
  <2>4. attempts' \in [Replicas -> 0..MaxAttempts]
    BY <1>0, <1>8 DEF Connect, CommsType
  <2>. QED
    BY <1>8, <2>1, <2>2, <2>3, <2>4 DEF Connect, CommsType
<1>9. ASSUME NEW r \in Replicas, TakeWrite(r) PROVE CommsType' /\ AttemptsInv'
  <2>1. next' \in [Replicas -> Nat]
    BY <1>9 DEF TakeWrite, CommsType
  <2>2. task' \in [Replicas -> Places]
    BY <1>9 DEF TakeWrite, Goto, CommsType, Places
  <2>3. AttemptsInv'
    BY <1>9 DEF TakeWrite, Goto, CommsType, AttemptsInv
  <2>. QED
    BY <1>9, <2>1, <2>2, <2>3 DEF TakeWrite, CommsType
<1>10. ASSUME NEW r \in Replicas, TakeLagged(r) PROVE CommsType' /\ AttemptsInv'
  <2>1. written \in Nat /\ next[r] \in Nat
    BY DEF CommsType
  <2>2. Oldest \in Nat /\ Oldest > 0
    BY <1>0, <2>1 DEF Oldest
  <2>3. next[r]..(Oldest - 1) \subseteq Nat
    BY <2>1, <2>2
  <2>4. next' \in [Replicas -> Nat] /\ skipped' \in [Replicas -> SUBSET Nat]
    BY <1>10, <2>2, <2>3 DEF TakeLagged, CommsType
  <2>5. task' \in [Replicas -> Places]
    BY <1>10 DEF TakeLagged, Goto, CommsType, Places
  <2>6. AttemptsInv'
    BY <1>10, <2>2 DEF TakeLagged, Goto, CommsType, AttemptsInv
  <2>. QED
    BY <1>10, <2>4, <2>5, <2>6 DEF TakeLagged, CommsType
<1>11. ASSUME NEW r \in Replicas, SendWrite(r) PROVE CommsType' /\ AttemptsInv'
  <2>1. next[r] - 1 \in Nat /\ sent[r] \in Seq(Nat)
    BY DEF CommsType, AttemptsInv
  <2>2. Append(sent[r], next[r] - 1) \in Seq(Nat)
    BY <2>1
  <2>3. sent' \in [Replicas -> Seq(Nat)]
    BY <1>11, <2>2 DEF SendWrite, CommsType
  <2>. QED
    BY <1>11, <2>3, GotoType DEF SendWrite, CommsType, Places
<1>12. ASSUME NEW r \in Replicas, SendFails(r) PROVE CommsType' /\ AttemptsInv'
  BY <1>12, GotoType DEF SendFails, CommsType, Places
<1>13. ASSUME NEW r \in Replicas, NEW m \in Messages, ReadMessage(r, m)
       PROVE  CommsType' /\ AttemptsInv'
  <2>1. After(m) \in Places /\ After(m) # "connect"
    BY DEF After, Places
  <2>. QED
    BY <1>13, <2>1, GotoType DEF ReadMessage, CommsType
<1>14. ASSUME NEW r \in Replicas, DeliverVote(r) PROVE CommsType' /\ AttemptsInv'
  <2>1. votes' \in 0..ChannelSize
    BY <1>0, <1>14 DEF DeliverVote, CommsType
  <2>. QED
    BY <1>14, <2>1, GotoType DEF DeliverVote, CommsType, Places
<1>15. ASSUME NEW r \in Replicas, SocketEnds(r) PROVE CommsType' /\ AttemptsInv'
  BY <1>15, GotoType DEF SocketEnds, CommsType, Places
<1>16. ASSUME NEW r \in Replicas, ReplicaStarts(r) PROVE CommsType' /\ AttemptsInv'
  BY <1>16 DEF ReplicaStarts, CommsType, AttemptsInv
<1>17. ASSUME NEW r \in Replicas, ReplicaGoes(r) PROVE CommsType' /\ AttemptsInv'
  BY <1>17 DEF ReplicaGoes, CommsType, AttemptsInv
<1>18. ASSUME NEW r \in Replicas, ReplicaReads(r) PROVE CommsType' /\ AttemptsInv'
  BY <1>18 DEF ReplicaReads, CommsType, AttemptsInv
<1>. QED
  BY <1>1, <1>2, <1>3, <1>4, <1>5, <1>6, <1>7, <1>8, <1>9, <1>10, <1>11, <1>12, <1>13,
     <1>14, <1>15, <1>16, <1>17, <1>18 DEF Next, Task, Works

\* Every step preserves StreamInv.
LEMMA StreamStep == CommsType /\ StreamInv /\ [Next]_vars => StreamInv'
<1>. SUFFICES ASSUME CommsType, StreamInv, [Next]_vars PROVE StreamInv'
  OBVIOUS
<1>1. CASE Write
  BY <1>1, StreamFrame DEF Write
<1>2. CASE ServiceReturns
  BY <1>2, StreamFrame DEF ServiceReturns
<1>3. CASE UpdaterTakes \/ UpdaterSticks
  BY <1>3, StreamFrame DEF UpdaterTakes, UpdaterSticks
<1>4. CASE UNCHANGED vars
  BY <1>4, StreamFrame DEF vars
<1>5. ASSUME NEW r \in Replicas, ConnectTimeout(r) PROVE StreamInv'
  BY <1>5, StreamGoesTo DEF ConnectTimeout, At
<1>6. ASSUME NEW r \in Replicas, Retry(r) PROVE StreamInv'
  BY <1>6, StreamGoesTo DEF Retry, At
<1>7. ASSUME NEW r \in Replicas, ConnectRefused(r) PROVE StreamInv'
  BY <1>7, StreamGoesTo DEF ConnectRefused, At
<1>8. ASSUME NEW r \in Replicas, Connect(r) PROVE StreamInv'
  <2>1. Stream("connect", next[r], sent[r], since[r], skipped[r])
    BY <1>8 DEF StreamInv, Connect, At
  <2>2. Stream("select", written + 1, sent[r], written, skipped[r])
    BY <2>1, StreamConnect DEF CommsType
  <2>. QED
    BY <1>8, <2>2, StreamChanges DEF Connect, Resubscribe, Goto, CommsType
<1>9. ASSUME NEW r \in Replicas, TakeWrite(r) PROVE StreamInv'
  <2>1. Stream("select", next[r], sent[r], since[r], skipped[r])
    BY <1>9 DEF StreamInv, TakeWrite, At
  <2>2. Stream("send", next[r] + 1, sent[r], since[r], skipped[r])
    BY <2>1, StreamTake DEF CommsType
  <2>. QED
    BY <1>9, <2>2, StreamChanges DEF TakeWrite, Goto, CommsType
<1>10. ASSUME NEW r \in Replicas, TakeLagged(r) PROVE StreamInv'
  <2>1. Stream("select", next[r], sent[r], since[r], skipped[r])
    BY <1>10 DEF StreamInv, TakeLagged, At
  <2>2. Oldest \in Nat /\ next[r] < Oldest
    <3>1. RingSize \in Nat /\ written \in Nat
      BY CommsAssumption DEF CommsType
    <3>2. next[r] < Oldest
      BY <1>10 DEF TakeLagged
    <3>. QED
      BY <3>1, <3>2 DEF Oldest
  <2>3. Stream("read only", Oldest, sent[r], since[r], skipped[r] \cup next[r]..(Oldest - 1))
    BY <2>1, <2>2, StreamLag DEF CommsType
  <2>. QED
    BY <1>10, <2>3, StreamChanges DEF TakeLagged, Goto, CommsType
<1>11. ASSUME NEW r \in Replicas, SendWrite(r) PROVE StreamInv'
  <2>1. Stream("send", next[r], sent[r], since[r], skipped[r])
    BY <1>11 DEF StreamInv, SendWrite, At
  <2>2. Stream("select", next[r], Append(sent[r], next[r] - 1), since[r], skipped[r])
    BY <2>1, StreamSend DEF CommsType
  <2>. QED
    BY <1>11, <2>2, StreamChanges DEF SendWrite, Goto, CommsType
<1>12. ASSUME NEW r \in Replicas, SendFails(r) PROVE StreamInv'
  BY <1>12, StreamGoesTo DEF SendFails, At
<1>13. ASSUME NEW r \in Replicas, NEW m \in Messages, ReadMessage(r, m) PROVE StreamInv'
  <2>1. After(m) \in {"deliver", "failed", "select"}
    BY DEF After
  <2>. QED
    BY <1>13, <2>1, StreamGoesTo DEF ReadMessage, At
<1>14. ASSUME NEW r \in Replicas, DeliverVote(r) PROVE StreamInv'
  BY <1>14, StreamGoesTo DEF DeliverVote, At
<1>15. ASSUME NEW r \in Replicas, SocketEnds(r) PROVE StreamInv'
  BY <1>15, StreamGoesTo DEF SocketEnds, At
<1>16. ASSUME NEW r \in Replicas, ReplicaStarts(r) \/ ReplicaGoes(r) \/ ReplicaReads(r)
       PROVE  StreamInv'
  BY <1>16, StreamFrame DEF ReplicaStarts, ReplicaGoes, ReplicaReads
<1>. QED
  BY <1>1, <1>2, <1>3, <1>4, <1>5, <1>6, <1>7, <1>8, <1>9, <1>10, <1>11, <1>12, <1>13,
     <1>14, <1>15, <1>16 DEF Next, Task, Works

-----------------------------------------------------------------------------
\* The types hold, no more votes wait than the channel takes, and no task tries
\* to connect more than MaxAttempts times, for any replicas and bounds.
THEOREM CommsBounded == Spec => [](CommsType /\ AttemptsInv)
<1>1. Init => CommsType /\ AttemptsInv
  BY CommsAssumption DEF Init, CommsType, AttemptsInv, Places
<1>. QED
  BY <1>1, TypeStep, PTL DEF Spec

\* CommsInv is an invariant.
THEOREM CommsInvariant == Spec => []CommsInv
<1>1. Init => StreamInv
  <2>. SUFFICES ASSUME Init, NEW r \in Replicas
                PROVE  Stream(task[r], next[r], sent[r], since[r], skipped[r])
    BY DEF StreamInv
  <2>1. task[r] = "connect" /\ next[r] = 1 /\ sent[r] = <<>> /\ since[r] = 0 /\ skipped[r] = {}
    BY DEF Init
  <2>2. Elements(<<>>) = {} /\ Due(1, 0, {}) = {}
    BY DEF Elements, Due
  <2>. QED
    BY <2>1, <2>2 DEF Stream
<1>. QED
  BY <1>1, StreamStep, CommsBounded, PTL DEF Spec, CommsInv

\* Each replica is sent the transactions written after its task subscribed, once
\* and in the order of the Write calls, except for those the receiver lost by
\* lagging and one whose send is under way or failed.
THEOREM SentInOrder == Spec => []SentAsWritten
<1>1. CommsInv => SentAsWritten
  <2>. SUFFICES ASSUME StreamInv PROVE SentAsWritten
    BY DEF CommsInv
  <2>1. \A r \in Replicas : Sent(r) = Elements(sent[r])
    BY DEF Sent, Elements
  <2>. QED
    BY <2>1 DEF StreamInv, Stream, Due, SentAsWritten
<1>. QED
  BY <1>1, CommsInvariant, PTL

-----------------------------------------------------------------------------
\* No receiver is ahead of the writes, and those are bounded.
BehindInv == written <= MaxWrites /\ \A r \in Replicas : next[r] <= written + 1

\* Every step preserves BehindInv.
LEMMA BehindStep == CommsType /\ BehindInv /\ [Next]_vars => BehindInv'
<1>. SUFFICES ASSUME CommsType, BehindInv, [Next]_vars PROVE BehindInv'
  OBVIOUS
<1>0. MaxWrites \in Nat /\ written \in Nat /\ next \in [Replicas -> Nat] /\ RingSize \in Nat \ {0}
  BY CommsAssumption DEF CommsType
<1>1. CASE Write
  BY <1>0, <1>1 DEF Write, BehindInv
<1>2. ASSUME NEW r \in Replicas, Connect(r) PROVE BehindInv'
  BY <1>0, <1>2 DEF Connect, Resubscribe, BehindInv
<1>3. ASSUME NEW r \in Replicas, TakeWrite(r) PROVE BehindInv'
  <2>1. Oldest \in Nat
    BY <1>0 DEF Oldest
  <2>2. next[r] + 1 <= written + 1
    BY <1>0, <1>3, <2>1 DEF TakeWrite, Ready
  <2>. QED
    BY <1>0, <1>3, <2>2 DEF TakeWrite, BehindInv
<1>4. ASSUME NEW r \in Replicas, TakeLagged(r) PROVE BehindInv'
  <2>1. Oldest \in Nat /\ Oldest <= written + 1
    BY <1>0 DEF Oldest
  <2>. QED
    BY <1>0, <1>4, <2>1 DEF TakeLagged, BehindInv
<1>5. CASE UNCHANGED <<written, next>>
  BY <1>5 DEF BehindInv
<1>. QED
  BY <1>1, <1>2, <1>3, <1>4, <1>5 DEF Next, Task, Works, ServiceReturns, UpdaterTakes,
       UpdaterSticks, ConnectTimeout, Retry, ConnectRefused, SendWrite, SendFails,
       ReadMessage, DeliverVote, SocketEnds, ReplicaStarts, ReplicaGoes, ReplicaReads, vars

\* n is the value of StepsLeft for a task at place tk that may try to connect
\* another a times and take another b transactions.
Left(n, tk, a, b) ==
  /\ tk = "connect" => n = 2 * a + 1
  /\ tk = "pause" => n = 2 * a + 2
  /\ tk \in {"select", "read only"} => n = 2 * b + 1
  /\ tk \in {"send", "deliver"} => n = 2 * b + 2
  /\ tk \in {"ended", "failed"} => n = 0

\* It is never negative, and only that of an ended task is 0.
LEMMA LeftNat ==
  ASSUME NEW tk \in Places, NEW a \in Nat, NEW b \in Nat, NEW n, Left(n, tk, a, b)
  PROVE  n \in Nat /\ (tk \notin {"ended", "failed"} => n > 0)
<1>1. n \in {0, 2 * a + 1, 2 * a + 2, 2 * b + 1, 2 * b + 2}
  BY DEF Places, Left
<1>2. n \in {2 * a + 1, 2 * a + 2, 2 * b + 1, 2 * b + 2} \/ tk \in {"ended", "failed"}
  BY DEF Places, Left
<1>. QED
  BY <1>1, <1>2

\* What a task may still do is a natural number.
LEMMA LeftBounds ==
  ASSUME NEW at \in 0..MaxAttempts, NEW w \in Nat, w <= MaxWrites, NEW nx \in Nat, nx <= w + 1
  PROVE  MaxAttempts - at \in Nat /\ MaxWrites + 1 - nx \in Nat
<1>1. MaxAttempts \in Nat /\ MaxWrites \in Nat
  BY CommsAssumption
<1>. QED
  BY <1>1

\* The place of the task of r, its attempts and its receiver after a step: they
\* are as before, or the step is one the task can take when r is gone.
GoneMoves(r) ==
  LET from == task[r]
      to == task'[r]
      stays == attempts'[r] = attempts[r] /\ next'[r] = next[r]
  IN  \/ to = from /\ stays
      \/ from = "connect" /\ to = "pause" /\ attempts'[r] = attempts[r] + 1
      \/ from = "pause" /\ to = "connect" /\ stays
      \/ from = "select" /\ to \in {"send", "read only"} /\ next'[r] > next[r]
      \/ from \in {"send", "deliver"} /\ to = "select" /\ stays
      \/ from \notin {"ended", "failed"} /\ to \in {"ended", "failed"}

\* There are no other steps.
LEMMA GoneStep ==
  ASSUME CommsType, [Next]_vars, NEW r \in Replicas, peer[r] = "gone"
  PROVE  GoneMoves(r)
<1>1. CASE Write \/ ServiceReturns \/ UpdaterTakes \/ UpdaterSticks \/ UNCHANGED vars
  BY <1>1 DEF GoneMoves, Write, ServiceReturns, UpdaterTakes, UpdaterSticks, vars
<1>2. ASSUME NEW q \in Replicas, ReplicaStarts(q) \/ ReplicaGoes(q) \/ ReplicaReads(q)
      PROVE  GoneMoves(r)
  BY <1>2 DEF GoneMoves, ReplicaStarts, ReplicaGoes, ReplicaReads
<1>3. ASSUME NEW q \in Replicas, q # r, Task(q) PROVE GoneMoves(r)
  <2>1. task'[r] = task[r]
    BY <1>3 DEF CommsType, Goto, Task, Works, ConnectTimeout, Retry, ConnectRefused, Connect,
         TakeWrite, TakeLagged, SendWrite, SendFails, ReadMessage, DeliverVote, SocketEnds
  <2>2. attempts'[r] = attempts[r] /\ next'[r] = next[r]
    BY <1>3 DEF CommsType, Task, Works, ConnectTimeout, Retry, ConnectRefused, Connect,
         TakeWrite, TakeLagged, SendWrite, SendFails, ReadMessage, DeliverVote, SocketEnds
  <2>. QED
    BY <2>1, <2>2 DEF GoneMoves
<1>4. CASE ConnectTimeout(r)
  BY <1>4 DEF CommsType, GoneMoves, ConnectTimeout, CountAttempt, At, Goto
<1>5. CASE Retry(r)
  BY <1>5 DEF CommsType, GoneMoves, Retry, At, Goto
<1>6. CASE ConnectRefused(r) \/ SendFails(r) \/ SocketEnds(r)
  BY <1>6 DEF CommsType, GoneMoves, ConnectRefused, SendFails, SocketEnds, At, Goto
<1>7. CASE TakeWrite(r)
  BY <1>7 DEF CommsType, GoneMoves, TakeWrite, At, Goto
<1>8. CASE TakeLagged(r)
  <2>1. Oldest \in Nat
    BY CommsAssumption DEF CommsType, Oldest
  <2>. QED
    BY <1>8, <2>1 DEF CommsType, GoneMoves, TakeLagged, At, Goto
<1>9. CASE SendWrite(r) \/ DeliverVote(r)
  BY <1>9 DEF CommsType, GoneMoves, SendWrite, DeliverVote, At, Goto
<1>10. ~Connect(r) /\ \A m \in Messages : ~ReadMessage(r, m)
  BY DEF Connect, ReadMessage
<1>. QED
  BY <1>1, <1>2, <1>3, <1>4, <1>5, <1>6, <1>7, <1>8, <1>9, <1>10 DEF Next, Task, Works

\* Each of them leaves the task fewer steps, and never less than none.
LEMMA GoneNears ==
  ASSUME CommsType, CommsType', BehindInv, BehindInv', NEW r \in Replicas, GoneMoves(r)
  PROVE  StepsLeft(r)' \in 0..(StepsLeft(r) - IF task'[r] = task[r] THEN 0 ELSE 1)
<1>1. PICK tk \in Places, a \in Nat, b \in Nat :
         /\ tk = task[r] /\ Left(StepsLeft(r), tk, a, b)
         /\ a = MaxAttempts - attempts[r] /\ b = MaxWrites + 1 - next[r]
  <2>1. task[r] \in Places
    BY DEF CommsType
  <2>2. Left(StepsLeft(r), task[r], MaxAttempts - attempts[r], MaxWrites + 1 - next[r])
    BY DEF StepsLeft, Left
  <2>3. MaxAttempts - attempts[r] \in Nat /\ MaxWrites + 1 - next[r] \in Nat
    BY LeftBounds DEF CommsType, BehindInv
  <2>. QED
    BY <2>1, <2>2, <2>3
<1>2. PICK to \in Places, c \in Nat, d \in Nat :
         /\ to = task'[r] /\ Left(StepsLeft(r)', to, c, d)
         /\ c = MaxAttempts - attempts'[r] /\ d = MaxWrites + 1 - next'[r]
  <2>1. task'[r] \in Places
    BY DEF CommsType
  <2>2. Left(StepsLeft(r)', task'[r], MaxAttempts - attempts'[r], MaxWrites + 1 - next'[r])
    BY DEF StepsLeft, Left
  <2>3. MaxAttempts - attempts'[r] \in Nat /\ MaxWrites + 1 - next'[r] \in Nat
    BY LeftBounds DEF CommsType, BehindInv
  <2>. QED
    BY <2>1, <2>2, <2>3
<1>. DEFINE n == StepsLeft(r)
            m == StepsLeft(r)'
<1>. HIDE DEF n, m
<1>3. Left(n, tk, a, b) /\ Left(m, to, c, d)
  BY <1>1, <1>2 DEF n, m
<1>4. n \in Nat /\ m \in Nat /\ (tk \notin {"ended", "failed"} => n > 0)
  BY <1>1, <1>2, <1>3, LeftNat
<1>5. \/ to = tk /\ c = a /\ d = b
      \/ tk = "connect" /\ to = "pause" /\ c = a - 1
      \/ tk = "pause" /\ to = "connect" /\ c = a
      \/ tk = "select" /\ to \in {"send", "read only"} /\ d < b
      \/ tk \in {"send", "deliver"} /\ to = "select" /\ d = b
      \/ tk \notin {"ended", "failed"} /\ to \in {"ended", "failed"}
  <2>1. /\ MaxAttempts \in Nat /\ MaxWrites \in Nat /\ attempts[r] \in Nat /\ next[r] \in Nat
        /\ attempts'[r] \in Nat /\ next'[r] \in Nat
    BY CommsAssumption DEF CommsType
  <2>2. /\ attempts'[r] = attempts[r] => c = a
        /\ attempts'[r] = attempts[r] + 1 => c = a - 1
        /\ next'[r] = next[r] => d = b
        /\ next'[r] > next[r] => d < b
    BY <1>1, <1>2, <2>1
  <2>. QED
    BY <1>1, <1>2, <2>2 DEF GoneMoves
<1>6. IF to = tk THEN m = n ELSE m < n
  <2>1. CASE to = tk /\ c = a /\ d = b
    BY <1>1, <1>2, <1>3, <2>1 DEF Places, Left
  <2>2. CASE tk = "connect" /\ to = "pause" /\ c = a - 1
    BY <1>1, <1>2, <1>3, <2>2 DEF Left
  <2>3. CASE tk = "pause" /\ to = "connect" /\ c = a
    BY <1>1, <1>2, <1>3, <2>3 DEF Left
  <2>4. CASE tk = "select" /\ to \in {"send", "read only"} /\ d < b
    <3>1. n = 2 * b + 1 /\ m \in {2 * d + 1, 2 * d + 2} /\ to # tk
      BY <1>3, <2>4 DEF Left
    <3>2. 2 * d + 1 < 2 * b + 1 /\ 2 * d + 2 < 2 * b + 1
      <4>1. d \in Nat /\ b \in Nat /\ d < b
        BY <1>1, <1>2, <2>4, Zenon
      <4>2. d + 1 <= b
        BY <4>1
      <4>. QED
        BY <4>1, <4>2
    <3>. QED
      BY <3>1, <3>2
  <2>5. CASE tk \in {"send", "deliver"} /\ to = "select" /\ d = b
    <3>1. n = 2 * b + 2 /\ m = 2 * b + 1 /\ to # tk
      BY <1>3, <2>5 DEF Left
    <3>. QED
      BY <1>1, <3>1
  <2>6. CASE tk \notin {"ended", "failed"} /\ to \in {"ended", "failed"}
    BY <1>3, <1>4, <2>6 DEF Left
  <2>. QED
    BY <1>5, <2>1, <2>2, <2>3, <2>4, <2>5, <2>6
<1>. QED
  BY <1>1, <1>2, <1>4, <1>6 DEF n, m

\* Once a replica is gone its task runs to its end in a bounded number of steps of
\* its own, for any number of attempts and writes and whatever the others do.
\* With fair tasks this is why the client ends with its replicas, unless a step it
\* needs, the hand-over of a vote, never becomes possible.
THEOREM GoneTaskEnds == Spec => GoneTaskNearsEnd
<1>1. Init => BehindInv
  BY CommsAssumption DEF Init, BehindInv
<1>2. CommsType /\ CommsType' /\ BehindInv /\ BehindInv' /\ [Next]_vars =>
        [\A r \in Replicas : peer[r] = "gone" =>
           StepsLeft(r)' \in 0..(StepsLeft(r) - IF task'[r] = task[r] THEN 0 ELSE 1)]_vars
  BY GoneStep, GoneNears
<1>. QED
  BY <1>1, <1>2, BehindStep, CommsBounded, PTL DEF Spec, GoneTaskNearsEnd
=============================================================================
