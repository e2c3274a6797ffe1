---------------------------- MODULE MCVotePath ----------------------------
(***************************************************************************)
(* The log files a replica starts with in the runs of VotePath: an empty   *)
(* one, and ones with a record of an earlier run, and with the bytes of an *)
(* append that run died in behind it.  Broken appends of this run put such *)
(* bytes elsewhere.  The records are from the last round, so that time     *)
(* passes only from the empty log on.                                      *)
(***************************************************************************)
EXTENDS VotePath

Earlier(n) == <<[tx |-> CHOOSE tx \in Txs : TRUE, ts |-> MaxRound, sn |-> n]>>

MCEarlierLogs ==
  {[log |-> <<>>, torn |-> {}], [log |-> Earlier(0), torn |-> {2}]}
    \cup {[log |-> Earlier(n), torn |-> {}] : n \in 0..(MaxSn - 1)}
=============================================================================
