CONSTANTS
  MaxGen = 2
  MaxSend <- Twice
  MaxIn <- Once
  MaxRecv = 0
CHECK_DEADLOCK FALSE
SPECIFICATION Spec
INVARIANTS TypeOK OneStream SentOnce ReadInOrder
CONSTRAINT TwoSentOrOneReceived
