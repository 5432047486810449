SPECIFICATION Spec
CONSTANTS
  Targets <- OneTarget
  Snapshots <- AllTargets
  Stems = {"s1"}
  LongStems = {}
  Groups = {"g1"}
  Receivers <- MCReceivers
  AlertLists <- Siblings
  AllowedReceivers <- MCAllowedReceivers
  PollInterval = 2
  PreRunDelay = 0
  PostRunDelay = 2
  MaxConcurrentTargets = 1
  BackoffInitial = 1
  BackoffMax = 2
  Outcomes = {}
  OLSConfigStates = {"running"}
  Responsive <- OneTarget
  LateCreates = TRUE
  MaxFaults = 2
  MaxTime = 6
  LastTick = 4
  QuietAfter = 9
INVARIANTS
  OneActivePerGroup
CHECK_DEADLOCK FALSE
