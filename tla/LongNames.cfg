SPECIFICATION HealthySpec
CONSTANTS
  Targets <- HubAndSpoke
  Snapshots <- AllTargets
  Stems = {"s1"}
  LongStems = {"s1"}
  Groups = {"g1"}
  Receivers <- MCReceivers
  AlertLists <- OneAlert
  AllowedReceivers <- MCAllowedReceivers
  PollInterval = 2
  PreRunDelay = 0
  PostRunDelay = 1
  MaxConcurrentTargets = 2
  BackoffInitial = 1
  BackoffMax = 2
  Outcomes <- StopOnly
  OLSConfigStates = {"running"}
  Responsive <- HubAndSpoke
  LateCreates = FALSE
  MaxFaults = 0
  MaxTime = 10
  LastTick = 8
  QuietAfter = 3
PROPERTIES
  EmergencyStopReplaced
CHECK_DEADLOCK FALSE
