---------------------------- MODULE MCClientApi ----------------------------
(***************************************************************************)
(* Instances of ClientApi, and with it of PodDataUpdater, for TLC.         *)
(***************************************************************************)
EXTENDS ClientApi, TLC

CONSTANTS
  MaxSn, MaxTs,   \* bounds on what the replicas send
  Terse,          \* replicas that send one vote only
  a               \* a transaction

\* Every vote with bounded numbers, correctly signed by a configured replica.
AnyVotes ==
  {v \in [replica_id : Replicas, timestamp : 1..MaxTs, sequence_number : 0..MaxSn,
          signature : Replicas, transaction : Payloads] :
     /\ v.signature = v.replica_id
     /\ v.replica_id \in Terse =>
          v.timestamp = 1 /\ v.sequence_number = 0 /\ v.transaction = a}

\* One vote for each reason to reject it.
Reject(r, sig, tx) ==
  [replica_id |-> r, timestamp |-> 1, sequence_number |-> 0, signature |-> sig,
   transaction |-> tx]
Rejects ==
  {Reject(r, r, NoTx) : r \in Replicas \ Terse}
    \cup {Reject(r, NoSig, Heartbeat) : r \in Replicas \ Terse}
    \cup {Reject(r, r, Heartbeat) : r \in ReplicaIds \ Replicas}

MCInbound == AnyVotes \cup Rejects

\* The replicas are interchangeable in every property checked.
Symmetry == Permutations(Replicas)
=============================================================================
