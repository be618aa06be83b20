CONSTANTS
  c1 = c1  c2 = c2  t1 = t1  t2 = t2  p1 = p1  p2 = p2  nobody = nobody
  NoClient = nobody
  Clients = {c1, c2}
  Topics = {t1, t2}
  Requires <- Required
  Publishers = {p1, p2}
  Calls <- MixedCalls
  MaxQueue = 1
  Threshold = 0
  Cooldown = 1
  MaxCalls <- TwiceAndOnce
  MaxTime = 1
SPECIFICATION Spec
INVARIANTS TypeOK ResultsExact NoDeliveryAfterRemoval QueuesOrdered CallsNeverWait LossCovered WarningsSpaced
PROPERTIES ImplementsRouting
CONSTRAINTS ClockMatters SecondMeetsTargeted
