SPECIFICATION ResyncSpec
CONSTANTS
  c1 = c1 s1 = s1 s2 = s2 v1 = v1 v2 = v2
  Clusters = {c1}
  Secrets = {s1, s2}
  Contents = {v1}
  ChangesDuringStartup = TRUE
  MaxChanges = 1
  MaxFaults = 0
PROPERTIES
  RemovalTakesHold
CHECK_DEADLOCK FALSE
