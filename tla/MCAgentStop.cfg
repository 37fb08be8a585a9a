SPECIFICATION Spec
CONSTANTS
  None = None
  N = 3
  MaxRetries = 0
  MaxFaults = 1
  FaultKinds = {"reload"}
  Runs <- MCRuns
  Flows <- MCFlows
  Attended <- MCAttended
  Gated <- MCGated
  Attempts <- MCAttempts
CHECK_DEADLOCK FALSE
PROPERTIES
  StopSettles
