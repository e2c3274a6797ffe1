\* Two Reads against two calls of process_vote.
SPECIFICATION Spec
CONSTANTS
  Readers = {t1, t2}
  Upd = upd
  Nobody = nobody
  MaxCalls = 2
  MaxKeys = 1
INVARIANT
  NoCircularWait
CHECK_DEADLOCK FALSE
SYMMETRY Symmetry
