SPECIFICATION Spec
CONSTANTS
  r1 = r1  r2 = r2
  Reqs = {r1, r2}
  Balances = {"fair"}
  Overlaps = {TRUE, FALSE}
  Changing = {}
  LastHost = 1
  Spawning = {1}
  LastId = 0
  MinProcs = 0
  MaxProcs = 1
  MaxLoad = 0
  IdleTimeout = 0
  DisableTime = 0
  MaxReconnects = 1
  Units = 1
  MaxShort = 1
  MaxLost = 0
  MaxFails = 0
SYMMETRY Perms
INVARIANTS LoadCovers
PROPERTIES SentOnce
CHECK_DEADLOCK FALSE
