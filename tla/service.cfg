\* Two clients of one process that is started, stopped and killed.
SPECIFICATION Spec
CONSTANTS
  Clients = {c1, c2}
  Limit = 2
  Window = 1
  MaxTime = 3
  Jobs = {poll, refresh}
  Poll = poll
  MaxActive = 2
INVARIANTS TypeOK WindowBound RefusedOnlyInFlood OrderlyStop
