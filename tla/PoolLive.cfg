SPECIFICATION FairSpec
CONSTANTS
  c1 = c1  c2 = c2  t1 = t1  t2 = t2  f1 = f1  f2 = f2  f3 = f3
  Conns = {c1, c2}
  Threads = {t1}
  ThreadOf <- OneWorker
  Fds = {f1, f2, f3}
  MaxQueue = 2
  EagerReuse = FALSE
  SplitTimer = TRUE
CHECK_DEADLOCK FALSE
INVARIANT Accounting
 
