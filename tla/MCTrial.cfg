\* Two recorders over one directory, two entries and one, one caller.
CONSTANTS
  c1 = c1
  MaxSessions = 2
  MaxOpen = 2
  MaxEntries <- MCMaxEntries
  MaxFaults = 1
  Callers = {c1}
  Remembered = 1
  CatchUpChains = 1
  CatchUpPosts = 1
  None = None
SPECIFICATION Spec
INVARIANTS
  TypeOK
  AnswersAreWitnessed
  NoForgottenWaiter
  CloseAccountsForHead
  EntriesKeepTheirArguments
  SidecarInOrder
CHECK_DEADLOCK FALSE
