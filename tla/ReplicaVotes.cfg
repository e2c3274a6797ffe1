\* Three numbers a run, three rounds of the clock, one restart.
SPECIFICATION Spec
CONSTANTS
  Txs = {a}
  Heartbeat = hb
  WriteCap = 1
  MaxSn = 3
  MaxRound = 2
  MaxBoots = 1
INVARIANTS
  TypeOK
  SnUsedOnce
  SnAccounted
  BroadcastFollowsLog
  OvertakenOnlyInHand
PROPERTY
  NumbersSettle
CHECK_DEADLOCK FALSE
