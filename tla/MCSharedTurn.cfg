SPECIFICATION FairSpec
CONSTANTS
  c1 = c1
  c2 = c2
  None = None
  Clients = {c1}
  Patient = TRUE
  Engines = {"codex", "codex-import", "claude", "grok"}
  MaxCrashes = 1
  Attempts <- TwoAttempts
  Generations <- TwoGenerations
CHECK_DEADLOCK FALSE
INVARIANTS
  TypeOK
  SentOnce
  PendingIsOpen
  TrustIsEarned
PROPERTIES
  CursorsAdvance
  SentWhileOpen
  SettlementIsHandled
