\* Receipts written while the shutdown waits for the witness.
CONSTANTS
  Every = 2
  MaxReceipts = 3
  Faults = {"late"}
SPECIFICATION Spec
INVARIANTS
  CleanEndCoversHead
CHECK_DEADLOCK FALSE
