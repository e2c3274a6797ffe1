\* A client that connects late, with fairness.
SPECIFICATION Spec
CONSTANTS
  Txs = {a}
  Heartbeat = hb
  WriteCap = 1
  MaxSn = 2
  MaxRound = 0
  Rid = r1
  RingSize = 2
  MergeCap = 1
  SockCap = 1
  ChannelSize = 1
  NoTx = NoTx
  NoSig = NoSig
  EarlierLogs <- MCEarlierLogs
PROPERTY
  LoggedVotesApplied
CHECK_DEADLOCK FALSE
