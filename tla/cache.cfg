SPECIFICATION FairSpec
CONSTANTS
  Callers = {c1, c2}
  Ttl = 2
  ShortTtl = 1
  GuardDelay = 3
  LoadTimes = {2, 5}
  MaxTime = 7
  MaxLoads = 4
INVARIANTS SingleFlight
PROPERTIES ValuesNeverGoBack EveryCallerAnswered
CHECK_DEADLOCK FALSE
