\* A client that uses an id twice, a downstream that sends requests under the
\* client's ids, and a chain file whose appends may stop just before the newline:
\* denials are on record, and every call that ran is answered.
CONSTANTS
  i1 = i1
  i2 = i2
  t1 = t1
  t2 = t2
  Ids = {i1, i2}
  Tools = {t1}
  MaxLines = 3
  MaxBatch = 1
  Faults = {"unended"}
  Peers = {"sharedId", "serverRequest"}
SPECIFICATION FairSpec
INVARIANTS
  DenialsAreReceipted
PROPERTIES
  EveryRunIsAnswered
CHECK_DEADLOCK FALSE
