-------------------------- MODULE ClientConnection --------------------------
(***************************************************************************)
(* A replica's end of one client connection, the direction of the votes    *)
(* (pod/src/client_comms_service.rs): the acceptor subscribes to the       *)
(* broadcast channel, then four tasks run for the connection.  The funnel  *)
(* moves votes from the broadcast channel to an mpsc channel, the catch-up *)
(* task copies the records of the log to the same channel, the forwarder   *)
(* writes what it finds there to the socket, and the fourth reads the      *)
(* client's transactions (action Write of module Replica).                 *)
(* handle_client_connection returns when any but the catch-up task ends,   *)
(* which stops none of the others: each ends by what it meets itself.      *)
(*                                                                         *)
(* The broadcast channel keeps the last RingSize votes; a receiver that    *)
(* falls behind gets an error, and the funnel stops at any error.  The     *)
(* catch-up task stops at any error too: it cannot open the log, or it     *)
(* meets the bytes of a broken append, from where on the iterator reads    *)
(* lengths and records at the wrong places.  The socket is reliable and in *)
(* order, until it breaks.  Variables wal, torn and bcast belong to module *)
(* Replica and are only read here.                                         *)
(***************************************************************************)
EXTENDS Integers, Sequences

CONSTANTS
  Rid,        \* the replica's id
  RingSize,   \* votes the broadcast channel keeps (128: 100 rounded up)
  MergeCap,   \* capacity of the connection's mpsc channel (100)
  SockCap,    \* bound: votes in the socket's buffers
  Garbled     \* a vote made of misread bytes

VARIABLES
  wal,        \* the whole records of the log file (module Replica)
  torn,       \* where bytes of broken appends lie between them (Replica)
  bcast,      \* the votes broadcast so far (module Replica)
  conn,       \* "none" before the client connects, then "open", then "closed"
  cursor,     \* the position of the next vote the subscription yields
  funnel,     \* where the funnel task is
  held,       \* the vote the funnel waits to pass on
  catchup,    \* where the catch-up task is, how it ended
  pos,        \* the next record it sends
  mapped,     \* the number of records in its memory map
  merged,     \* vote_rx: votes waiting for the forwarder
  forwarder,  \* "runs" or "ended", which drops vote_rx
  sock        \* votes on the way to the client

connvars == <<conn, cursor, funnel, held, catchup, pos, mapped, merged, forwarder, sock>>

Nothing == <<>>

Init ==
  /\ conn = "none"
  /\ cursor = 1
  /\ funnel = "recv"
  /\ held = Nothing
  /\ catchup = "open"
  /\ pos = 1
  /\ mapped = 0
  /\ merged = <<>>
  /\ forwarder = "runs"
  /\ sock = <<>>

\* What a log record and a broadcast vote look like to the client: the
\* forwarder sets the replica's id, the signature is the replica's.
ToVote(v) ==
  [replica_id |-> Rid, timestamp |-> v.ts, sequence_number |-> v.sn,
   signature |-> Rid, transaction |-> v.tx]

-----------------------------------------------------------------------------
\* Mutant: the subscription is made by the funnel task when it first runs, and
\* a vote is broadcast before that.
SubscribeLate == Len(bcast) + 2

\* vote_receiver.resubscribe() starts at the end of the broadcast channel.
Subscribe == Len(bcast) + 1

\* The client is accepted.
Accept ==
  /\ conn = "none"
  /\ conn' = "open"
  /\ cursor' = Subscribe
  /\ UNCHANGED <<funnel, held, catchup, pos, mapped, merged, forwarder, sock>>

\* The socket breaks: the client closes it or goes, with what is in it.
Close ==
  /\ conn = "open"
  /\ conn' = "closed"
  /\ sock' = <<>>
  /\ UNCHANGED <<cursor, funnel, held, catchup, pos, mapped, merged, forwarder>>

Connected == conn # "none"

\* The funnel receives a vote.
FunnelRecv ==
  /\ Connected
  /\ funnel = "recv"
  /\ cursor <= Len(bcast)
  /\ Len(bcast) - cursor < RingSize
  /\ held' = bcast[cursor]
  /\ cursor' = cursor + 1
  /\ funnel' = "send"
  /\ UNCHANGED <<conn, catchup, pos, mapped, merged, forwarder, sock>>

\* The vote it would receive was overwritten: recv() fails and the task ends.
FunnelLagged ==
  /\ Connected
  /\ funnel = "recv"
  /\ Len(bcast) - cursor >= RingSize
  /\ funnel' = "exited"
  /\ UNCHANGED <<conn, cursor, held, catchup, pos, mapped, merged, forwarder, sock>>

\* Mutant: vote_rx outlives the forwarder.
ReceiverKept == FALSE

\* vote_rx is dropped with the forwarder that owns it; until then a sender
\* waits for room.
ReceiverGone == forwarder = "ended"
Room == ~ReceiverGone /\ Len(merged) < MergeCap

\* It passes the vote on, when there is room.
FunnelSend ==
  /\ funnel = "send"
  /\ Room
  /\ merged' = Append(merged, ToVote(held))
  /\ held' = Nothing
  /\ funnel' = "recv"
  /\ UNCHANGED <<conn, cursor, catchup, pos, mapped, forwarder, sock>>

\* The forwarder is gone: the send fails and the channel is closed.
FunnelSendFails ==
  /\ funnel = "send"
  /\ ReceiverGone
  /\ held' = Nothing
  /\ funnel' = "exited"
  /\ UNCHANGED <<conn, cursor, catchup, pos, mapped, merged, forwarder, sock>>

\* The catch-up task maps the log file as it is now.
CatchUpOpen ==
  /\ Connected
  /\ catchup = "open"
  /\ mapped' = Len(wal)
  /\ catchup' = "send"
  /\ UNCHANGED <<conn, cursor, funnel, held, pos, merged, forwarder, sock>>

\* The log file cannot be opened or mapped: no record is sent, the connection
\* goes on.
CatchUpOpenFails ==
  /\ Connected
  /\ catchup = "open"
  /\ catchup' = "failed"
  /\ UNCHANGED <<conn, cursor, funnel, held, pos, mapped, merged, forwarder, sock>>

\* It sends the next record, when there is room.
CatchUpSend ==
  /\ catchup = "send"
  /\ pos <= mapped
  /\ Room
  /\ merged' = Append(merged, ToVote(wal[pos]))
  /\ pos' = pos + 1
  /\ UNCHANGED <<conn, cursor, funnel, held, catchup, mapped, forwarder, sock>>

\* It has sent all the records it mapped, or the forwarder is gone.
CatchUpDone ==
  /\ catchup = "send"
  /\ pos > mapped \/ ReceiverGone
  /\ catchup' = "done"
  /\ UNCHANGED <<conn, cursor, funnel, held, pos, mapped, merged, forwarder, sock>>

\* The iterator is where the bytes of a broken append lie, or behind them.
OutOfStep == \E k \in torn : k <= pos

\* Misread bytes are no record: the task ends.
CatchUpStops ==
  /\ catchup = "send"
  /\ OutOfStep
  /\ catchup' = "done"
  /\ UNCHANGED <<conn, cursor, funnel, held, pos, mapped, merged, forwarder, sock>>

\* Misread bytes look like a record: it is sent, and the iterator is wherever
\* the length it read has taken it.  Left-over bytes behind the last whole
\* record count as one more.
CatchUpMisread ==
  /\ catchup = "send"
  /\ OutOfStep
  /\ pos <= mapped + 1
  /\ Room
  /\ merged' = Append(merged, Garbled)
  /\ pos' \in (pos + 1)..(mapped + 2)
  /\ UNCHANGED <<conn, cursor, funnel, held, catchup, mapped, forwarder, sock>>

\* The forwarder writes a vote to the socket, when there is room.
Forward ==
  /\ forwarder = "runs"
  /\ conn = "open"
  /\ merged # <<>>
  /\ Len(sock) < SockCap
  /\ sock' = Append(sock, Head(merged))
  /\ merged' = Tail(merged)
  /\ UNCHANGED <<conn, cursor, funnel, held, catchup, pos, mapped, forwarder>>

\* It cannot write a vote to the broken socket, or both its senders are gone:
\* it ends.  In the second case the socket may well be open, since the task
\* that reads from it goes on.
ForwardEnds ==
  /\ forwarder = "runs"
  /\ \/ conn = "closed" /\ merged # <<>>
     \/ merged = <<>> /\ funnel = "exited" /\ catchup \in {"done", "failed"}
  /\ forwarder' = "ended"
  /\ merged' = <<>>
  /\ UNCHANGED <<conn, cursor, funnel, held, catchup, pos, mapped, sock>>

\* The client takes a vote from the socket.
Take(v) ==
  /\ sock # <<>>
  /\ v = Head(sock)
  /\ sock' = Tail(sock)
  /\ UNCHANGED <<conn, cursor, funnel, held, catchup, pos, mapped, merged, forwarder>>

Funnel == FunnelRecv \/ FunnelLagged \/ FunnelSend \/ FunnelSendFails
CatchUp ==
  \/ CatchUpOpen \/ CatchUpOpenFails
  \/ CatchUpSend \/ CatchUpMisread
  \/ CatchUpDone \/ CatchUpStops
Forwarder == Forward \/ ForwardEnds

-----------------------------------------------------------------------------
\* When each task has something to do; it waits otherwise.  A funnel that was
\* overtaken has: it ends.
FunnelReady ==
  \/ Connected /\ funnel = "recv" /\ cursor <= Len(bcast)
  \/ funnel = "send" /\ (Room \/ ReceiverGone)
CatchUpReady ==
  \/ Connected /\ catchup = "open"
  \/ catchup = "send" /\ (pos > mapped \/ OutOfStep \/ Room \/ ReceiverGone)
ForwarderReady ==
  /\ forwarder = "runs"
  /\ \/ conn = "open" /\ merged # <<>> /\ Len(sock) < SockCap
     \/ conn = "closed" /\ merged # <<>>
     \/ merged = <<>> /\ funnel = "exited" /\ catchup \in {"done", "failed"}
=============================================================================
