----------------------------- MODULE ClientApi -----------------------------
(***************************************************************************)
(* The Read RPC of the client (client/src/client_api_service.rs), as       *)
(* functions of the view the pod data updater keeps.  Read changes no      *)
(* state, and its read guards on tsps and ts_vote_msg, held from its first *)
(* line to its last, make the reply a function of one state of the view    *)
(* (module ReadLocks checks that), so a property of the replies is an      *)
(* invariant over these functions, for a Read issued in any state.         *)
(***************************************************************************)
EXTENDS PodDataUpdater

CONSTANTS
  alpha,     \* --alpha: number of timestamps considered
  beta,      \* --beta: number of padding values
  U64MAX     \* u64::MAX, larger than every round

\* What client/src/bin/client.rs checks of its arguments and configuration.
args_accepted ==
  /\ alpha >= 4 * beta + 1
  /\ Cardinality(Replicas) >= alpha + beta

ASSUME ApiAssumption ==
  /\ alpha \in Nat
  /\ beta \in Nat
  /\ args_accepted
  /\ U64MAX \in Nat
  /\ \A v \in Inbound : v.timestamp < U64MAX

-----------------------------------------------------------------------------
\* Element k, counted from 0, of the values f[r], r \in S, sorted.
IsKth(S, f, k, t) ==
  /\ Cardinality({r \in S : f[r] < t}) <= k
  /\ Cardinality({r \in S : f[r] <= t}) > k
Kth(S, f, k) == CHOOSE t \in {f[r] : r \in S} : IsKth(S, f, k, t)

\* The keys of tsps, and of one of its inner maps.
Voters(tx) == {r \in Replicas : tsps[tx][r] # Absent}
Known == {tx \in Payloads : Voters(tx) # {}}

AtMost(m, n) == IF m <= n THEN m ELSE n

\* The median of the first alpha of beta zeros followed by the values of f
\* over S in increasing order.
LowMedian(S, f) ==
  LET i == AtMost(alpha, beta + Cardinality(S)) \div 2
  IN  IF i < beta THEN 0 ELSE Kth(S, f, i - beta)

\* The timestamps the votes for a known transaction carry.  A replica that has
\* not voted for it is left out: the else branch that falls back to mrt
\* belongs to the test on the transaction, which Read makes true.
min_possible_ts(tx) == LowMedian(Voters(tx), tsps[tx])

\* Mutant: an off-by-one in the index of the median.
NextAfterMedianForNewTx == Kth(Replicas, mrt, alpha \div 2 - beta + 1)

min_possible_ts_for_new_tx == LowMedian(Replicas, mrt)

\* len() - alpha underflows, and split_off panics, when fewer than alpha
\* values are there.
max_possible_ts_panics(tx) == Cardinality(Voters(tx)) + beta < alpha

\* Mutant: the first of the last alpha instead of their median.
MaxTakesFirst(tx) ==
  LET i == Cardinality(Voters(tx)) + beta - alpha
  IN  IF i < Cardinality(Voters(tx)) THEN Kth(Voters(tx), tsps[tx], i)
                                     ELSE U64MAX

\* The median of the last alpha of the votes' timestamps, sorted, followed by
\* beta times u64::MAX.
max_possible_ts(tx) ==
  LET i == Cardinality(Voters(tx)) + beta - alpha + alpha \div 2
  IN  IF i < Cardinality(Voters(tx)) THEN Kth(Voters(tx), tsps[tx], i)
                                     ELSE U64MAX

\* rconf is always Some: the middle element of the timestamps in the order in
\* which the hash map yields them, that is, any of them.
rconf_choices(tx) == {tsps[tx][r] : r \in Voters(tx)}

\* The vote kept for a timestamp; several replicas share it.
VoteAt(ts) == {w \in ts_vote_msg : w.timestamp = ts}

\* ctx: what a read returns as the votes for a transaction.
ctx(tx) == UNION {VoteAt(tsps[tx][r]) : r \in Voters(tx)}

-----------------------------------------------------------------------------
(***************************************************************************)
(* Properties.                                                             *)
(***************************************************************************)

\* The votes a Read shows are votes this client has verified and applied, no two
\* with one timestamp, and neither ctx nor cpp ever falls back to an empty Vote
\* for a timestamp the view holds: a vote is kept before it is found to be a
\* heartbeat or too old to change mrt and tsps.
AppliedVotes == UNION {{applied[r][i] : i \in 1..Len(applied[r])} : r \in Replicas}
EvidenceApplied ==
  /\ ts_vote_msg \subseteq AppliedVotes
  /\ \A v, w \in ts_vote_msg : v.timestamp = w.timestamp => v = w
  /\ \A tx \in Known : \A r \in Voters(tx) : VoteAt(tsps[tx][r]) # {}
  /\ \A r \in Replicas : mrt[r] # 0 => VoteAt(mrt[r]) # {}

\* README: Read "Returns a `ReadReply` with `PodData`", with a record for
\* each transaction the client knows.
ReadAnswers == \A tx \in Known : ~max_possible_ts_panics(tx)

\* What a step of the client makes of what Reads have reported.  rperf does not
\* decrease and a timestamp recorded for a transaction neither changes nor
\* disappears, but the bounds of a record are not final: as votes come in, its
\* minimum can only fall and its maximum can only rise.  (Module Pod states it
\* of every step.)
BoundsWiden ==
  /\ min_possible_ts_for_new_tx' >= min_possible_ts_for_new_tx
  /\ \A tx \in Payloads, r \in Replicas :
       tsps[tx][r] # Absent => tsps'[tx][r] = tsps[tx][r]
  /\ ReadAnswers /\ ReadAnswers' =>
       \A tx \in Known :
         /\ tx \in Known'
         /\ min_possible_ts(tx)' <= min_possible_ts(tx)
         /\ max_possible_ts(tx)' >= max_possible_ts(tx)

\* Whenever Read answers, the bounds of every record are in order.
BoundsOrdered ==
  ReadAnswers => \A tx \in Known : min_possible_ts(tx) <= max_possible_ts(tx)
=============================================================================
