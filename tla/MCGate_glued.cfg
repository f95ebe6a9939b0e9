\* A receipt whose append stopped before the newline, and the one behind it.
CONSTANTS
  i1 = i1
  i2 = i2
  t1 = t1
  t2 = t2
  Ids = {i1}
  Tools = {t1}
  MaxLines = 2
  MaxBatch = 1
  Faults = {"unended"}
  Peers = {}
SPECIFICATION Spec
INVARIANTS
  ResultsAreReceipted
CHECK_DEADLOCK FALSE
