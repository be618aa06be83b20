CONSTANTS
  MaxGen = 1
  MaxSend <- Once
  MaxIn <- Never
  MaxRecv = 0
CHECK_DEADLOCK FALSE
SPECIFICATION FairSpec
PROPERTIES WaitDoneReturns
