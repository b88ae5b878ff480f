SPECIFICATION StrongPoolSpec
CONSTANTS
  c1 = c1
  c2 = c2
  c3 = c3
  t1 = t1
  t2 = t2
  t3 = t3
  t4 = t4
  Free = Free
  NoConn = NoConn
  Conns = {c1, c2}
  Threads = {t1, t2}
  Nesting = {t1, t2}
PROPERTY AddReturns
