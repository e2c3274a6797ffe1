\* Two Reads against three calls of process_vote.
SPECIFICATION Spec
CONSTANTS
  Readers = {t1, t2}
  Upd = upd
  Nobody = nobody
  MaxCalls = 3
  MaxKeys = 2
INVARIANTS
  ReadIsSnapshot
  StuckOnlyInCycle
PROPERTY
  ReadEndsOrCycle
CHECK_DEADLOCK FALSE
