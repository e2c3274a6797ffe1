----------------------------- MODULE VoteOrder -----------------------------
(***************************************************************************)
(* What the pod data updater promises about the votes it lets through: the *)
(* client applies the votes of each replica one at a time, each signed by  *)
(* that replica, in the order of their sequence numbers, from 0, leaving   *)
(* none out and applying none twice, however they were delayed, repeated   *)
(* or reordered on the way.                                                *)
(***************************************************************************)
EXTENDS Naturals, Sequences

CONSTANTS Replicas, Votes

VARIABLE applied   \* the votes applied so far, for each replica

Init == applied = [r \in Replicas |-> <<>>]

Apply(r, v) ==
  /\ v.replica_id = r
  /\ v.signature = r
  /\ v.sequence_number = Len(applied[r])
  /\ applied' = [applied EXCEPT ![r] = Append(@, v)]

Next == \E r \in Replicas, v \in Votes : Apply(r, v)

Spec == Init /\ [][Next]_applied
=============================================================================
