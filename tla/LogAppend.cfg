\* One iterator, four records, failing writes and crashes.
SPECIFICATION Spec
CONSTANTS
  Readers = {r1}
  LenCells = 2
  MaxData = 2
  MaxRecords = 4
  Bogus = bogus
INVARIANTS
  TypeOK
  IteratorsFollowLog
  AckedDurable
