SPECIFICATION PollingSpec
CONSTANTS
  Tokens = {"t1", "t2", "t3"}
  CAs = {"ca1", "ca2"}
  LocalCARotates = FALSE
  MaxRotations = 3
  MaxFaults = 1
INVARIANTS
  LocalTokenFresh
PROPERTIES
  RetrievalHeals
CHECK_DEADLOCK FALSE
