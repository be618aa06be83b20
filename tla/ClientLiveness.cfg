CONSTANTS
  MaxGen = 1
  MaxSend <- Twice
  MaxIn <- Twice
  MaxRecv = 1
CHECK_DEADLOCK FALSE
SPECIFICATION FairSpec
INVARIANTS HandedOver
PROPERTIES CallsReturn ErrorReachesApp
