SPECIFICATION UnresponsiveSpec
CONSTANTS
  Targets <- HubAndSpoke
  Snapshots <- AnySnapshot
  Stems = {"s1"}
  LongStems = {}
  Groups = {"g1"}
  Receivers <- MCReceivers
  AlertLists <- OneAlert
  AllowedReceivers <- MCAllowedReceivers
  PollInterval = 2
  PreRunDelay = 0
  PostRunDelay = 2
  MaxConcurrentTargets = 1
  BackoffInitial = 1
  BackoffMax = 2
  Outcomes = {}
  OLSConfigStates = {"absent", "suspended"}
  Responsive <- HubAndSpoke
  LateCreates = FALSE
  MaxFaults = 1
  MaxTime = 7
  LastTick = 3
  QuietAfter = 8
INVARIANTS
  CycleBounded
  RoundsInv
PROPERTIES
  SuspensionTakesHold
  RemovalHonoured
  CycleEnds
  StopsOnSignal
CHECK_DEADLOCK FALSE
