\* Every program, with up to three fields of a case changed (bundles, orderings and instructions: two).
CONSTANTS
  None = None
  Malformed = Malformed
  Minute = 4
  Unreadable = Unreadable
  Skew = 0
  MaxPages = 2
  Genuine <- MCGenuine
  Alternatives <- MCAlternatives
  MaxAlterations <- MCMaxAlterations
SPECIFICATION Spec
INVARIANTS
  BundleVerdictHolds
  OrderingVerdictHolds
  OneSourceNeverDecides
  AcceptedIsWithinTheRules
  VerifyEarnsItsZero
  CommandsKeepTheirWord
CHECK_DEADLOCK FALSE
