\* An iterator after a torn append.
SPECIFICATION Spec
CONSTANTS
  Readers = {r1}
  LenCells = 2
  MaxData = 2
  MaxRecords = 3
  Bogus = bogus
INVARIANT
  AckedReadable
