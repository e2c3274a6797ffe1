\* A Read for every transaction the client knows.
SPECIFICATION Spec
CONSTANTS
  Replicas = {r1, r2, r3}
  ReplicaIds = {r1, r2, r3}
  Payloads = {a, hb}
  Heartbeat = hb
  NoTx = NoTx
  NoSig = NoSig
  Inbound <- AnyVotes
  ChannelSize = 1
  MaxSn = 1
  MaxTs = 2
  Terse = {}
  a = a
  alpha = 3
  beta = 0
  U64MAX = 100
INVARIANT
  ReadAnswers
SYMMETRY Symmetry
