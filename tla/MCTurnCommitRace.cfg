SPECIFICATION Spec
CONSTANTS
  c1 = c1
  c2 = c2
  None = None
  Clients = {c1}
  Patient = TRUE
  Engines = {"codex"}
  MaxCrashes = 0
  Attempts <- OneAttempt
  Generations <- OneGeneration
CHECK_DEADLOCK FALSE
INVARIANTS
  CompletedLeavesUsable
