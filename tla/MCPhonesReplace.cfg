SPECIFICATION PhoneSpec
CONSTANTS
  u1 = u1
  u2 = u2
  n1 = n1
  n2 = n2
  a1 = a1
  t1 = t1
  t2 = t2
  None = None
  Users = {u1}
  Numbers = {n1, n2}
  Accounts = {a1}
  MaxPhones = 2
  Threads = {t1}
  Targets = {1, 2}
  Substitutes = {1, 2}
  Modes = {0, 1, 2, 3}
  Failable = {}
  CanCrash = FALSE
INVARIANT DeletedMeansGone
