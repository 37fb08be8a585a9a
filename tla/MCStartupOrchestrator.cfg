SPECIFICATION FairSpec
CONSTANTS
  None = None
  MaxRuns = 3
  Descriptors <- MCDescriptors
  PhaseLimit <- MCPhaseLimit
  HeavyLimit <- MCHeavyLimit
CHECK_DEADLOCK FALSE
INVARIANTS
  TypeOK
  SlotsAccounted
  NothingIdles
  CancelReaches
PROPERTIES
  EveryRequestAnswered
