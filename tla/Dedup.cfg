SPECIFICATION Spec
CONSTANTS
  Targets <- OneTarget
  Snapshots <- AllTargets
  Stems = {"s1"}
  LongStems = {}
  Groups = {"g1"}
  Receivers <- MCReceivers
  AlertLists <- BadSiblings
  AllowedReceivers <- MCAllowedReceivers
  PollInterval = 2
  PreRunDelay = 1
  PostRunDelay = 2
  MaxConcurrentTargets = 0
  BackoffInitial = 1
  BackoffMax = 2
  Outcomes <- AllEndings
  OLSConfigStates = {"running"}
  Responsive <- OneTarget
  LateCreates = FALSE
  MaxFaults = 2
  MaxTime = 5
  LastTick = 4
  QuietAfter = 9
INVARIANTS
  TypeOK
  OneActivePerGroup
  DedupInv
  EndKnown
PROPERTIES
  CooldownRespected
  ImplementsAdmission
CHECK_DEADLOCK FALSE
