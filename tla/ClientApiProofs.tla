-------------------------- MODULE ClientApiProofs --------------------------
(***************************************************************************)
(* Proof that the votes a Read shows are votes the client has applied, and *)
(* that there is one for every timestamp it reports.                       *)
(***************************************************************************)
EXTENDS ClientApi, PodDataUpdaterProofs

\* A vote is kept for every timestamp in tsps and for every mrt that was set.
EvidenceInv ==
  /\ \A r \in Replicas, tx \in Payloads :
       tsps[tx][r] # Absent => VoteAt(tsps[tx][r]) # {}
  /\ \A r \in Replicas : mrt[r] # 0 => VoteAt(mrt[r]) # {}

\* What is kept was applied, and is kept once for a timestamp.
KeptInv ==
  /\ ts_vote_msg \subseteq AppliedVotes
  /\ \A v, w \in ts_vote_msg : v.timestamp = w.timestamp => v = w

\* The two say what EvidenceApplied does.
LEMMA EvidenceEnough ==
  ASSUME EvidenceInv, KeptInv
  PROVE  EvidenceApplied
<1>1. ASSUME NEW tx \in Known, NEW r \in Voters(tx) PROVE VoteAt(tsps[tx][r]) # {}
  BY DEF Known, Voters, EvidenceInv
<1>. QED
  BY <1>1 DEF EvidenceInv, KeptInv, EvidenceApplied

\* process_vote preserves KeptInv: it keeps the vote it applies, if none is kept
\* for its timestamp.
LEMMA KeptProcess ==
  ASSUME TypeOK, KeptInv, ProcessVote
  PROVE  KeptInv'
<1>1. vote.replica_id \in Replicas /\ vote \in Inbound /\ applied \in [Replicas -> Seq(Inbound)]
  BY DEF TypeOK, ProcessVote, Valid
<1>2. PICK q \in Replicas, s \in Seq(Inbound) : q = vote.replica_id /\ s = applied[q]
  BY <1>1
<1>3. applied' = [applied EXCEPT ![q] = Append(s, vote)]
  BY <1>2 DEF ProcessVote
<1>4. /\ Len(s) \in Nat /\ Len(Append(s, vote)) = Len(s) + 1
      /\ Append(s, vote)[Len(s) + 1] = vote
      /\ \A i \in 1..Len(s) : Append(s, vote)[i] = s[i]
  BY <1>1
<1>5. ASSUME NEW w \in AppliedVotes PROVE w \in AppliedVotes'
  <2>1. PICK r \in Replicas : \E i \in 1..Len(applied[r]) : w = applied[r][i]
    BY DEF AppliedVotes
  <2>2. \E i \in 1..Len(applied'[r]) : w = applied'[r][i]
    BY <1>1, <1>2, <1>3, <1>4, <2>1
  <2>. QED
    BY <2>2 DEF AppliedVotes
<1>6. vote \in AppliedVotes'
  <2>1. Len(s) + 1 \in 1..Len(applied'[q]) /\ applied'[q][Len(s) + 1] = vote
    BY <1>1, <1>3, <1>4
  <2>. QED
    BY <2>1 DEF AppliedVotes
<1>7. ts_vote_msg' = ts_vote_msg \/ (ts_vote_msg' = ts_vote_msg \cup {vote} /\ NewEvidence(vote))
  BY DEF ProcessVote, VotesAfter
<1>. QED
  BY <1>5, <1>6, <1>7 DEF KeptInv, NewEvidence

\* process_vote preserves EvidenceInv: what it writes to mrt and tsps is the
\* timestamp of the vote, which it keeps first.
LEMMA EvidenceProcess ==
  ASSUME TypeOK, EvidenceInv, ProcessVote
  PROVE  EvidenceInv'
<1>1. /\ mrt \in [Replicas -> Nat]
      /\ tsps \in [Payloads -> [Replicas -> Nat \cup {Absent}]]
      /\ mrt' = MrtAfter(vote) /\ tsps' = TspsAfter(vote)
  BY DEF TypeOK, ProcessVote
<1>2. ASSUME NEW r \in Replicas, NEW tx \in Payloads
      PROVE  tsps'[tx][r] = tsps[tx][r] \/ tsps'[tx][r] = vote.timestamp
  BY <1>1 DEF TspsAfter
<1>3. ASSUME NEW r \in Replicas
      PROVE  mrt'[r] = mrt[r] \/ mrt'[r] = vote.timestamp
  BY <1>1 DEF MrtAfter
<1>4. ASSUME NEW t, VoteAt(t) # {} \/ t = vote.timestamp
      PROVE  \E w \in ts_vote_msg' : w.timestamp = t
  <2>1. CASE t = vote.timestamp
    BY <2>1 DEF ProcessVote, VotesAfter, NewEvidence
  <2>2. CASE VoteAt(t) # {}
    BY <2>2 DEF ProcessVote, VotesAfter, VoteAt
  <2>. QED
    BY <1>4, <2>1, <2>2
<1>5. ASSUME NEW r \in Replicas, NEW tx \in Payloads, tsps'[tx][r] # Absent
      PROVE  VoteAt(tsps[tx][r])' # {}
  <2>1. VoteAt(tsps'[tx][r]) # {} \/ tsps'[tx][r] = vote.timestamp
    BY <1>2, <1>5 DEF EvidenceInv
  <2>2. \E w \in ts_vote_msg' : w.timestamp = tsps'[tx][r]
    BY <1>4, <2>1
  <2>. QED
    BY <2>2 DEF VoteAt
<1>6. ASSUME NEW r \in Replicas, mrt'[r] # 0
      PROVE  VoteAt(mrt[r])' # {}
  <2>1. VoteAt(mrt'[r]) # {} \/ mrt'[r] = vote.timestamp
    BY <1>3, <1>6 DEF EvidenceInv
  <2>2. \E w \in ts_vote_msg' : w.timestamp = mrt'[r]
    BY <1>4, <2>1
  <2>. QED
    BY <2>2 DEF VoteAt
<1>. QED
  BY <1>5, <1>6 DEF EvidenceInv, Absent

\* The votes a Read shows are votes the client verified and applied, and there is
\* one for every timestamp it reports, for any replicas and any votes that arrive.
THEOREM EvidenceAlwaysApplied == Spec => []EvidenceApplied
<1>1. Init => EvidenceInv /\ KeptInv
  BY DEF Init, EvidenceInv, KeptInv
<1>2. TypeOK /\ EvidenceInv /\ KeptInv /\ [Next]_vars => EvidenceInv' /\ KeptInv'
  <2>. SUFFICES ASSUME TypeOK, EvidenceInv, KeptInv, [Next]_vars, ~ProcessVote
                PROVE  EvidenceInv' /\ KeptInv'
    BY EvidenceProcess, KeptProcess
  <2>1. UNCHANGED <<view, applied>>
    BY DEF Next, Updater, Deliver, Room, RecvIgnored, RecvUnknown, RecvFuture, RecvNext,
           DrainNext, DrainDone, vars, view
  <2>2. EvidenceInv'
    BY <2>1 DEF EvidenceInv, VoteAt, view, Absent
  <2>3. KeptInv'
    BY <2>1 DEF KeptInv, AppliedVotes, view
  <2>. QED
    BY <2>2, <2>3
<1>. QED
  BY <1>1, <1>2, EvidenceEnough, TypeCorrect, PTL DEF Spec
=============================================================================
