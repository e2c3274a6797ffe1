\* Confirmation bounds across two clients.
SPECIFICATION Spec
CONSTANTS
  Clients = {c1, c2}
  Replicas = {h1, h2, h3, h4, h5, f}
  Restless = {f}
  Payloads = {a, hb}
  Heartbeat = hb
  a = a
  Histories <- MCHistories
  Votes <- MCVotes
  alpha = 5
  beta = 1
  U64MAX = 100
  NoTx = NoTx
  NoSig = NoSig
INVARIANT
  ConfirmationBounds
SYMMETRY Symmetry
CHECK_DEADLOCK FALSE
