CONSTANTS
  c1 = c1  c2 = c2  t1 = t1  t2 = t2
  Streams = {c1, c2}
  Topics = {t1}
  Requires <- SameTopic
  Pusher = pusher
  MaxWorkers = 2
  MaxQueue = 0
  MaxData <- ClientPublishes
SPECIFICATION Spec
INVARIANTS PublisherOrder
PROPERTIES ImplementsSession
CONSTRAINT StaysUp
