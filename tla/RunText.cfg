SPECIFICATION Spec
CONSTANTS
  MaxLabel = 12
  HashLen = 3
  TargetHashLen = 3
  Digest <- MCDigest
  Itoa <- MCItoa
  Alerts <- MCAlerts
  SpokeNames <- MCSpokeNames
  MaxStops = 3
  ignoredLabels <- MCIgnored
  Base = 2
INVARIANTS
  NameUsable
  NameTellsApart
  TargetIDUnique
  LabelsAccepted
  PromptClean
  GroupIsStable
  GroupIsExact
CHECK_DEADLOCK FALSE
