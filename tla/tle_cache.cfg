\* Two callers, a group of two records, two failed fetches.
SPECIFICATION LiveSpec
CONSTANTS
  Callers = {c1, c2}
  Members = {m1, m2}
  Records = {1, 2, 3, 4, 5, 6}
  NoRecord = 0
  TTL = 1
  MaxTime = 4
  MaxFailures = 2
INVARIANTS
  TypeOK
  StaleOnlyExpired
  FreshUnlessMarked
PROPERTIES
  EventuallyGood
