SPECIFICATION HealthySpec
CONSTANTS
  Targets <- HubAndSpoke
  Snapshots <- AnySnapshot
  Stems = {"s1"}
  LongStems = {}
  Groups = {"g1"}
  Receivers <- MCReceivers
  AlertLists <- OneAlert
  AllowedReceivers <- MCAllowedReceivers
  PollInterval = 2
  PreRunDelay = 0
  PostRunDelay = 2
  MaxConcurrentTargets = 1
  BackoffInitial = 1
  BackoffMax = 2
  Outcomes <- StopOnly
  OLSConfigStates = {"running"}
  Responsive <- SpokeOnly
  LateCreates = FALSE
  MaxFaults = 1
  MaxTime = 10
  LastTick = 8
  QuietAfter = 3
PROPERTIES
  FiringAlertServed
  EmergencyStopReplaced
CHECK_DEADLOCK FALSE
