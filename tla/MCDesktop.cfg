SPECIFICATION MCSpec
CONSTANTS
  u1 = u1
  u2 = u2
  w0 = w0
  Users = {u1, u2}
  Names = {"m", "n"}
  Numbers = {"t1", "t2"}
  Pwds = {w0, w1}
  LoginNames = {"l1", "l2"}
  Blank = Blank
  None = None
  Gone = Gone
  Generated = Generated
  CallFaults = {"failed", "lost"}
  ReadFaults <- MCFailed
  BuildFaults <- MCBuild
  Habits <- MCHabits
  MaxAccounts = 4
  MaxPhones = 2
  MaxBirths = 3
  MaxTouched = 1
  ExposeSeconds = 2
INVARIANTS
  DesktopTypeOK
  OnlyOwnData
  ShownOnlyWhileCounting
PROPERTIES
  UntouchedKept
  ActsOnWhatItNames
  
CHECK_DEADLOCK FALSE
