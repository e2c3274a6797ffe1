\* One replica with three sequence numbers, every timestamp and payload, and
\* another with a vote for the same transaction.
SPECIFICATION Spec
CONSTANTS
  Replicas = {r1, r2}
  ReplicaIds = {r1, r2, rx}
  Payloads = {a, hb}
  Heartbeat = hb
  NoTx = NoTx
  NoSig = NoSig
  Inbound <- MCInbound
  ChannelSize = 1
  MaxSn = 2
  MaxTs = 3
  Terse = {r2}
  a = a
  alpha = 1
  beta = 0
  U64MAX = 100
INVARIANTS
  TypeOK
  NoStrandedVote
  MrtIsNewest
  TspsIsFirstFresh
  EvidenceApplied
PROPERTY
  EventuallyApplied
  AppliesInOrder
CHECK_DEADLOCK FALSE
