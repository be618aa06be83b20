CONSTANTS
  MaxGen = 2
  MaxSend <- Never
  MaxIn <- Never
  MaxRecv = 0
CHECK_DEADLOCK FALSE
SPECIFICATION Spec
INVARIANTS ConnectMessageKept
