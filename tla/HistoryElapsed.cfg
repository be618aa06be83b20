CONSTANTS
  Clients = {p, q, r}
  Server = server
  Uptime = 10
  MaxHops = 4
  MaxSent = 1
  MaxTime = 3
CHECK_DEADLOCK FALSE
SPECIFICATION Spec
INVARIANTS ProcessIsElapsed
