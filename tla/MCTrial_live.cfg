\* Four recorders over one directory, one after another: three may leave a tail
\* and more of them than a catch-up looks at (2) or sends (1).
CONSTANTS
  MaxSessions = 4
  MaxOpen = 1
  MaxEntries <- MCTails
  MaxFaults = 0
  Callers = {}
  Remembered = 1
  CatchUpChains = 2
  CatchUpPosts = 1
  None = None
SPECIFICATION Spec
PROPERTIES
  HeadsAreSent
  TailIsPickedUp
CHECK_DEADLOCK FALSE
