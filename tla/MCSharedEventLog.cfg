SPECIFICATION FairSpec
CONSTANTS
  s1 = s1
  s2 = s2
  a1 = a1
  a2 = a2
  v0 = v0
  main = main
  Null = Null
  Callers = {c1, c2}
  MaxSends = 3
  MaxCrashes = 1
  Sessions <- MCSessions
  EventIds <- MCEventIds
  Attempts <- MCAttempts
  DedupeKeys <- MCDedupeKeys
  Payloads <- MCPayloads
  BindingKeys <- MCBindingKeys
  BindingValues <- MCBindingValues
  Requests <- MCRequests
CHECK_DEADLOCK FALSE
INVARIANTS
  TypeOK
  KeysUnique
  SequencesDense
  OneOpenTurn
  ToldIsDurable
PROPERTIES
  ImplementsLog
  EveryCallReturns
