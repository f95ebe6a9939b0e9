\* Two writers, whose events name payments, and one edit, cut write or lost reply.
CONSTANTS
  w1 = w1
  w2 = w2
  key = key
  other = other
  Writers = {w1, w2}
  Pays = {w1, w2}
  Key = key
  OtherKey = other
  Skew = 1
  Unreadable = Unreadable
  Times = {0, 1, 2}
  Start = 2
  MaxSigned = 3
  MaxFaults = 1
  None = None
SYMMETRY WriterSymmetry
SPECIFICATION Spec
INVARIANTS
  ValidIsHistory
  OrderlyChainVerifies
  PassKeepsWitnessed
  HonestIsNotTampered
CHECK_DEADLOCK FALSE
