SPECIFICATION Spec
CONSTANTS
  u1 = u1
  u2 = u2
  n1 = n1
  n2 = n2
  a1 = a1
  a2 = a2
  k0 = k0
  k1 = k1
  k2 = k2
  p1 = p1
  p2 = p2
  t1 = t1
  t2 = t2
  EmptyKey = EmptyKey
  NoPwd = NoPwd
  Garbage = Garbage
  NotFoundText = NotFoundText
  None = None
  Unborn = Unborn
  Deleted = Deleted
  Users = {u1}
  Names = {n1}
  AccountIds = {a1}
  Keys = {k0, k1}
  KeyInputs = {k0, k1}
  Passwords = {p1}
  Threads = {t1, t2}
  Calls <- CallsRotateCreate
  Failable = {}
  CanCrash = FALSE
  MaxRotations = 1
INVARIANT PasswordIntact
