SPECIFICATION FairSpec
CONSTANTS
  c1 = c1  c2 = c2  t1 = t1  t2 = t2
  Conns = {c1, c2}
  Threads = {t1, t2}
  ThreadOf <- TwoWorkers
  MaxFds = 7
  MaxConns = 2
  BaseFds = 2
  Reserve = 1
  MaxShort = 2
  MaxEvents = 4
  Relock = "blocks"
CHECK_DEADLOCK FALSE
PROPERTY FdsShared
