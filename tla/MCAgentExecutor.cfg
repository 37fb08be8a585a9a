SPECIFICATION FairSpec
CONSTANTS
  None = None
  N = 3
  MaxRetries = 1
  MaxFaults = 1
  FaultKinds = {"ipc", "log", "begin", "reload"}
  Runs <- MCRuns
  Flows <- MCFlows
  Attended <- MCAttended
  Gated <- MCGated
  Attempts <- MCAttempts
CHECK_DEADLOCK FALSE
INVARIANTS
  TypeOK
  OneDriver
  GateHolds
PROPERTIES
  LifecycleRefined
  ChainProgress
