SPECIFICATION FairSessionSpec
CONSTANTS
  u1 = u1
  u2 = u2
  s1 = s1
  s2 = s2
  t1 = t1
  t2 = t2
  None = None
  Users = {u1, u2}
  SessionIds = {s1, s2}
  Threads = {t1, t2}
  Timeout = 1
  RenewTime = 1
  Shift = 2
  Summer <- LongSummer
  Methods = {"destroy", "refresh", "renew"}
  MaxTime = 7
INVARIANT SessionTypeOK LifetimeKept NeverRevived OnBehalfOfOwner
PROPERTY EventuallyPurged
CHECK_DEADLOCK FALSE
