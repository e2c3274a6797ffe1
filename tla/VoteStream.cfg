\* A client that connects at any time, after a restart of the replica too, and
\* may lose the connection; every channel holds one vote.
SPECIFICATION Spec
CONSTANTS
  Txs = {a}
  Heartbeat = hb
  WriteCap = 1
  MaxSn = 2
  MaxRound = 1
  Rid = r1
  RingSize = 1
  MergeCap = 1
  SockCap = 1
  ChannelSize = 1
  NoTx = NoTx
  NoSig = NoSig
  EarlierLogs <- MCEarlierLogs
INVARIANTS
  NoHoleInStream
  AppliedAsIssued
  EarlyClientKeepsUp
  StopsOnlyAtUnowed
  DepartedClientFreed
CHECK_DEADLOCK FALSE
