\* A checkpoint after every second receipt, with every fault.
CONSTANTS
  Every = 2
  MaxReceipts = 6
  Faults = {"unreadable", "sidecar", "late"}
SPECIFICATION FairSpec
INVARIANTS
  TypeOK
  SidecarInOrder
  NothingIsLost
  ShutdownCoversHead
  FailedHeadIsRetried
PROPERTIES
  CheckpointsAreRecorded
CHECK_DEADLOCK FALSE
