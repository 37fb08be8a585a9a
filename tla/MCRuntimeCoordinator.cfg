SPECIFICATION FairSpec
CONSTANTS
  None = None
  QueueLimit = 2
  Attempts <- MCAttempts
  Observed <- MCObserved
  Scripts <- MCScripts
CHECK_DEADLOCK FALSE
INVARIANTS
  TypesWithinLimit
  SettledByOwnTurn
  NothingOvertakes
  FirstTerminalDecides
PROPERTIES
  WaiterReturns
  EchoIsNoticed
  TerminalSettles
