\* A downstream that sends requests of its own, numbered by itself.
CONSTANTS
  i1 = i1
  t1 = t1
  Ids = {i1}
  Tools = {t1}
  MaxLines = 2
  MaxBatch = 1
  Faults = {}
  Peers = {"serverRequest"}
SPECIFICATION Spec
INVARIANTS
  ResultsAreReceipted
CHECK_DEADLOCK FALSE
