\* Two processes, two sessions, and more order references than uses.
CONSTANTS
  p1 = p1
  p2 = p2
  i1 = i1
  r1 = r1
  r2 = r2
  r3 = r3
  o1 = o1
  o2 = o2
  dear = dear
  Limit = 2
  Procs = {p1, p2}
  Instructions = {i1}
  Refs = {r1, r2, r3}
  Orders <- MCOrders
  Within <- MCWithin
  MaxUses <- MCMaxUses
  ValidFrom <- MCValidFrom
  ValidUntil <- MCValidUntil
  MaxInstant = 2
  Skew = 1
  MaxSessions = 2
  MaxRecords = 3
  None = None
SPECIFICATION Spec
SYMMETRY Symmetry
INVARIANTS
  TypeOK
  NoOverspend
  OneAllowPerRef
  ToldIsKept
  FilesVerify
PROPERTIES
  NothingAfterATornLine
  KeepsLedger
CHECK_DEADLOCK FALSE
