SPECIFICATION Spec
CONSTANTS
  Threads = {t1, t2, t3}
  Mysql = {p1, p2}
  None = None  t1 = t1  t2 = t2  t3 = t3  p1 = p1  p2 = p2
  InitSize = 1
  MaxSize = 2
  MaxIdle = 1
  Junk = {0}
  MaxNow = 3
  MaxCalls = 2
INVARIANTS HeadExists
CHECK_DEADLOCK FALSE
