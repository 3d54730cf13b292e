SPECIFICATION LiveSpec
CONSTANTS
  Requests = {r1, p1}
  Panels = {p1}
  PoolSize = 2
  Conns = 1
  Patience = 2
  Quick = 1
INVARIANT TypeOK
PROPERTIES AlarmHasCause NoAlarmByLoad AllAnswered
