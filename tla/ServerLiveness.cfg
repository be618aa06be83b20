CONSTANTS
  c1 = c1  c2 = c2  t1 = t1  t2 = t2
  Streams = {c1}
  Topics = {t1, t2}
  Requires <- WantsBoth
  Pusher = pusher
  MaxWorkers = 1
  MaxQueue = 2
  MaxData <- BothPublish
SPECIFICATION FairSpec
PROPERTIES ShutdownCompletes EndedStreamFreed QueueDrains
