\* A session over a chain file whose appends may be refused, be cut short, or
\* land and throw all the same, with peers that keep their ids apart.
CONSTANTS
  i1 = i1
  i2 = i2
  t1 = t1
  t2 = t2
  Ids = {i1, i2}
  Tools = {t1, t2}
  MaxLines = 3
  MaxBatch = 2
  Faults = {"refused", "cut", "landed"}
  Peers = {}
SPECIFICATION Spec
SYMMETRY Symmetry
INVARIANTS
  TypeOK
  ReceiptsMatchExecution
  ResultsAreReceipted
  AllowsAreDelivered
  OneAnswerPerLine
PROPERTIES
  BrokenChainReleasesNothing
  KeepsPromise
CHECK_DEADLOCK FALSE
