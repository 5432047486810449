SPECIFICATION Spec
CONSTANTS
  Targets <- HubAndSpoke
  Snapshots <- AllTargets
  Stems = {"s1"}
  LongStems = {}
  Groups = {"g1"}
  Receivers <- MCReceivers
  AlertLists <- OneAlert
  AllowedReceivers <- MCAllowedReceivers
  PollInterval = 2
  PreRunDelay = 0
  PostRunDelay = 2
  MaxConcurrentTargets = 1
  BackoffInitial = 1
  BackoffMax = 2
  Outcomes = {}
  OLSConfigStates = {"running", "suspended"}
  Responsive <- HubAndSpoke
  LateCreates = TRUE
  MaxFaults = 3
  MaxTime = 7
  LastTick = 7
  QuietAfter = 6
INVARIANTS
  BackoffInv
PROPERTIES
  BackoffHonoured
CHECK_DEADLOCK FALSE
