CONSTANTS
  c1 = c1  c2 = c2  t1 = t1  t2 = t2
  Streams = {c1, c2}
  Topics = {t1}
  Requires <- ListedTwice
  Pusher = pusher
  MaxWorkers = 1
  MaxQueue = 1
  MaxData <- ServerPublishes
SPECIFICATION Spec
INVARIANTS TypeOK NoSubscriptionAfterCleanup WelcomeFirst FailureNeverOK ConnectedIsExact ReturnedMeansReleased
PROPERTIES ImplementsRouting
