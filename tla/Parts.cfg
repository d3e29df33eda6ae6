SPECIFICATION PartsSpec
CONSTANTS
  c1 = c1  c2 = c2  t1 = t1  t2 = t2  f1 = f1  f2 = f2
  Conns = {c1, c2}  Threads = {t1, t2}  ThreadOf <- TwoWorkers
  Fds = {f1, f2}  MaxQueue = 2  EagerReuse = FALSE  SplitTimer = FALSE
  r1 = r1
  socket = socket  ip = ip  host = host  url = url
  p1 = p1  p2 = p2
VIEW View
INVARIANTS EventsReachOwner ClosesOwn NoLeak 
  BytesKept MessagesRead  LeftWhole PoolKnown InterestKept RoundSafe
  RequestsApart RequestsGuarded PageSaid ClientKnown
PROPERTIES ChangesNamed
CHECK_DEADLOCK FALSE
