CONSTANTS
  a1 = a1  a2 = a2
  Agents = {a1, a2}
  Replies <- EditAgainstRun
  MaxIterations = 2
  MaxDeadTurns = 2
  MaxFaults = 1
CHECK_DEADLOCK FALSE
SPECIFICATION FairSpec
INVARIANTS TypeOK OneAtATime AnswersAreOwn
PROPERTIES AgentFinishes
CONSTRAINT SecondConnectsFirst
