SPECIFICATION SessionSpec
CONSTANTS
  u1 = u1
  u2 = u2
  s1 = s1
  s2 = s2
  t1 = t1
  t2 = t2
  None = None
  Users = {u1}
  SessionIds = {s1}
  Threads = {t1}
  Timeout = 2
  RenewTime = 1
  Shift = 2
  Summer <- SummerTime
  Methods = {}
  MaxTime = 6
INVARIANT ExactLifetime
