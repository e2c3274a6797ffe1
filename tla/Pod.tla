-------------------------------- MODULE Pod --------------------------------
(***************************************************************************)
(* Several clients of the same replicas, and what their Reads say about    *)
(* each other.  A client's view changes as process_vote changes it         *)
(* (modules PodDataUpdater and ClientApi, instantiated for each client);   *)
(* that a client applies the votes of a replica in the order of their      *)
(* numbers and without gaps is what AppliesInOrder shows of the updater,   *)
(* and is used here in place of channel and backlog.                       *)
(*                                                                         *)
(* In one run of its process a replica gives a number to one vote only     *)
(* (NoNumberTwice), and all clients apply prefixes of the same votes.  That *)
(* ends when it restarts: its counter starts again at 0 while its log      *)
(* keeps the votes of the runs before, so two clients may apply different  *)
(* votes under one number.  From then on it is taken to do what a replica  *)
(* that does not follow the protocol does: tell each client what it likes. *)
(***************************************************************************)
EXTENDS Integers, Sequences, FiniteSets

CONSTANTS
  Clients,
  Replicas,
  Restless,     \* the replicas that may restart, or cease to follow the protocol
  Payloads,     \* transaction data
  Heartbeat,    \* the payload b"HEARTBEAT"
  Votes,        \* the votes a replica may issue: a payload and a timestamp
  Histories,    \* the votes a replica may come to issue in one run, in order
  alpha, beta, U64MAX,   \* module ClientApi
  NoTx, NoSig            \* module PodDataUpdater

\* The last two lines are what client/src/bin/client.rs checks.
ASSUME PodAssumption ==
  /\ IsFiniteSet(Replicas)
  /\ Restless \subseteq Replicas
  /\ Heartbeat \in Payloads
  /\ Votes \subseteq [tx : Payloads, ts : 0..(U64MAX - 1)]
  /\ \A h \in Histories : h \in Seq(Votes)
  /\ {alpha, beta, U64MAX} \subseteq Nat
  /\ alpha >= 4 * beta + 1
  /\ Cardinality(Replicas) >= alpha + beta

VARIABLES
  steady,    \* the replicas that have run without a restart, and by the protocol
  history,   \* the votes each steady replica comes to issue
  nextsn,    \* how many of them each client has applied
  mrt,       \* mrt[c], tsps[c]: the view of client c
  tsps

vars == <<steady, history, nextsn, mrt, tsps>>

\* The client, between two votes; its votes come from action Hear.
Client(c) ==
  INSTANCE ClientApi
    WITH ReplicaIds <- Replicas, Inbound <- {}, ChannelSize <- 1,
         votes <- <<>>, nextsn <- nextsn[c], backlog <- <<>>, mrt <- mrt[c],
         tsps <- tsps[c], ts_vote_msg <- {}, pc <- "recv", vote <- <<>>,
         applied <- <<>>

Init ==
  /\ steady = Replicas
  /\ history \in [Replicas -> Histories]
  /\ nextsn = [c \in Clients |-> [r \in Replicas |-> 0]]
  /\ mrt = [c \in Clients |-> [r \in Replicas |-> 0]]
  /\ tsps = [c \in Clients |-> [tx \in Payloads |-> [r \in Replicas |-> -1]]]

\* Client c applies vote v of replica r.  (Its number and signature have been
\* checked and are not looked at again.)
Apply(c, r, v) ==
  LET vote == [replica_id |-> r, timestamp |-> v.ts, transaction |-> v.tx]
  IN  /\ mrt' = [mrt EXCEPT ![c] = Client(c)!MrtAfter(vote)]
      /\ tsps' = [tsps EXCEPT ![c] = Client(c)!TspsAfter(vote)]

\* The vote of a steady replica with the number the client waits for.
Hear(c, r, v) ==
  /\ r \in steady
  /\ nextsn[c][r] < Len(history[r])
  /\ v = history[r][nextsn[c][r] + 1]
  /\ nextsn' = [nextsn EXCEPT ![c][r] = @ + 1]
  /\ Apply(c, r, v)
  /\ UNCHANGED <<steady, history>>

\* A replica restarts, and numbers from 0 again, or ceases to follow the
\* protocol.  Clients keep what they know; how they number its votes no longer
\* says which votes these are, and is forgotten.
Restart(r) ==
  /\ r \in steady
  /\ steady' = steady \ {r}
  /\ history' = [history EXCEPT ![r] = <<>>]
  /\ nextsn' = [c \in Clients |-> [nextsn[c] EXCEPT ![r] = 0]]
  /\ UNCHANGED <<mrt, tsps>>

\* A vote of such a replica.  The client's next number may be that of a vote in
\* its log, of one it has just made, or of one made up for this client.
HearUnsteady(c, r, v) ==
  /\ r \in Replicas \ steady
  /\ Apply(c, r, v)
  /\ UNCHANGED <<steady, history, nextsn>>

Next ==
  \/ \E c \in Clients, r \in Replicas, v \in Votes : Hear(c, r, v) \/ HearUnsteady(c, r, v)
  \/ \E r \in Restless : Restart(r)

Spec == Init /\ [][Next]_vars

-----------------------------------------------------------------------------
(***************************************************************************)
(* Properties.  A Read changes nothing, so each is about a Read by c and   *)
(* one by d, c = d included, issued in any order.                          *)
(***************************************************************************)
Known(c) == Client(c)!Known
rperf(c) == Client(c)!min_possible_ts_for_new_tx
Answers(c) == Client(c)!ReadAnswers

\* Past-perfection, across clients: as long as at most beta replicas have
\* restarted or ceased to follow the protocol, and a Read of c reports rperf and
\* has no record of a transaction, no client's Read ever gives that transaction a
\* maximum below rperf.  This bounds the maximum, not the round the other client
\* confirms at.
PastPerfection ==
  Cardinality(Replicas \ steady) <= beta =>
    \A c, d \in Clients : \A tx \in Known(d) \ Known(c) :
      Answers(d) => Client(d)!max_possible_ts(tx) >= rperf(c)

\* Whenever a Read answers, the bounds of every record are in order.
BoundsOrdered == \A c \in Clients : Client(c)!BoundsOrdered

\* From one Read of a client to the next, rperf does not fall, recorded
\* timestamps stay, and the bounds of a record only widen, however many replicas
\* restart or do not follow the protocol.
ReadsOnlyWiden == [][\A c \in Clients : Client(c)!BoundsWiden]_vars

\* pod-core.pdf: "if c1 observes tx with rmin and rmax and c2 observes tx as
\* confirmed with confirmation round rconf, then rmin <= rconf <= rmax".
ConfirmationBounds ==
  \A c, d \in Clients : Answers(c) /\ Answers(d) =>
    \A tx \in Known(c) \cap Known(d) : \A rconf \in Client(d)!rconf_choices(tx) :
      Client(c)!min_possible_ts(tx) <= rconf /\ rconf <= Client(c)!max_possible_ts(tx)
=============================================================================
