SPECIFICATION ResyncSpec
CONSTANTS
  c1 = c1 s1 = s1 s2 = s2 v1 = v1 v2 = v2
  Clusters = {c1}
  Secrets = {s1, s2}
  Contents = {v1, v2}
  ChangesDuringStartup = FALSE
  MaxChanges = 4
  MaxFaults = 2
INVARIANTS
  TypeOK
  DiscoveryInv
PROPERTIES
  RemovalTakesHold
  DiscoveryTakesHold
CHECK_DEADLOCK FALSE
