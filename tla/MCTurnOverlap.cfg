SPECIFICATION Spec
CONSTANTS
  c1 = c1
  c2 = c2
  None = None
  Clients = {c1}
  Patient = FALSE
  Engines = {"codex", "codex-import", "claude", "grok"}
  MaxCrashes = 1
  Attempts <- TwoAttempts
  Generations <- TwoGenerations
CHECK_DEADLOCK FALSE
INVARIANTS
  CompletedWasAccepted
  CursorsFollowDelivery
