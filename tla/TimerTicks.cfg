CONSTANTS
  N = 4
  MaxUses = 2
  MaxLoops = 3
  Compensation = TRUE
  Digits = {0, 4, 5, 9}
  Lates = {0, 2}
CHECK_DEADLOCK FALSE
SPECIFICATION FairSpec
INVARIANTS TypeOK TicksAccounted CyclesOnTime
PROPERTIES LoopEnds ExitReturns
