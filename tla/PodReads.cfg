\* The smallest configuration that tolerates an unsteady replica; two clients.
SPECIFICATION Spec
CONSTANTS
  Clients = {c1, c2}
  Replicas = {h1, h2, h3, h4, h5, f}
  Restless = {f}
  Payloads = {a, hb}
  Heartbeat = hb
  a = a
  Histories <- MCHistories
  Votes <- MCVotes
  alpha = 5
  beta = 1
  U64MAX = 100
  NoTx = NoTx
  NoSig = NoSig
INVARIANTS
  PastPerfection
  BoundsOrdered
PROPERTY
  ReadsOnlyWiden
SYMMETRY Symmetry
CHECK_DEADLOCK FALSE
