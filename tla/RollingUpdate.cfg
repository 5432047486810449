SPECIFICATION RollingSpec
CONSTANTS
  Targets <- OneTarget
  Snapshots <- AllTargets
  Stems = {"s1"}
  LongStems = {}
  Groups = {"g1"}
  Receivers <- MCReceivers
  AlertLists <- Three
  AllowedReceivers <- MCAllowedReceivers
  PollInterval = 2
  PreRunDelay = 0
  PostRunDelay = 1
  MaxConcurrentTargets = 1
  BackoffInitial = 1
  BackoffMax = 2
  Outcomes <- StopOnly
  OLSConfigStates = {"running"}
  Responsive <- OneTarget
  LateCreates = FALSE
  MaxFaults = 1
  MaxTime = 4
  LastTick = 2
  QuietAfter = 9
INVARIANTS
  OverlapBounded
  OneActivePerOccurrence
PROPERTIES
  DedupRestored
CHECK_DEADLOCK FALSE
