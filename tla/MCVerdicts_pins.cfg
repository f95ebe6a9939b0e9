\* The pins of `chirindo verify`.
CONSTANTS
  None = None
  Malformed = Malformed
  Minute = 4
  Unreadable = Unreadable
  Skew = 0
  MaxPages = 2
  Genuine <- MCGenuine
  Alternatives <- MCAlternatives
  MaxAlterations <- MCMaxAlterations
SPECIFICATION Spec
INVARIANTS
  PinsAreNeverDropped
CHECK_DEADLOCK FALSE
