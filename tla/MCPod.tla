------------------------------- MODULE MCPod -------------------------------
(***************************************************************************)
(* An instance of Pod for TLC.                                             *)
(***************************************************************************)
EXTENDS Pod, TLC

CONSTANT a   \* a transaction

\* A replica votes for a in round 1, or has a heartbeat in round 2
\* before it does.
MCHistories ==
  {<<[tx |-> a, ts |-> 1]>>,
   <<[tx |-> Heartbeat, ts |-> 2], [tx |-> a, ts |-> 2]>>}

MCVotes == {[tx |-> a, ts |-> 1], [tx |-> a, ts |-> 2], [tx |-> Heartbeat, ts |-> 2]}

\* The clients, and the replicas that stay steady, are interchangeable in every
\* property checked.
Symmetry == Permutations(Replicas \ Restless) \cup Permutations(Clients)
=============================================================================
