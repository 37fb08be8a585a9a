SPECIFICATION Spec
CONSTANTS
  a1 = a1
  a2 = a2
  a3 = a3
  w1 = w1
  w2 = w2
  None = None
  MaxFacts = 4
  Attempts <- MCAttempts
  Workspaces <- MCWorkspaces
  Sessions <- MCSessions
  WorkspaceOf <- MCWorkspaceOf
  SessionOf <- MCSessionOf
  Times <- MCTimes
PROPERTIES
  NoInventedAuthority
