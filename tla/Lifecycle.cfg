SPECIFICATION LifecycleSpec
CONSTANTS
  Starts <- MCStarts
  Edits <- MCEdits
  PollDefault = 30
  PostRunDefault = 3600
  MaxTargetsDefault = 4
  IgnoredDefault = {"pod", "instance", "endpoint", "uid"}
  Capacity = 1
  MaxSignals = 2
INVARIANTS
  HandoverInv
  SuccessMeansSignalled
  FailureMeansError
  SettingsUsable
  FailsClosed
  ListsAsWritten
  SkillsComplete
PROPERTIES
  ProcessEnds
CHECK_DEADLOCK FALSE
