SPECIFICATION FairSpec
CONSTANTS
  r1 = r1  r2 = r2
  Reqs = {r1}
  Balances = {"round-robin"}
  Overlaps = {FALSE}
  Changing = {2}
  LastHost = 2
  Spawning = {1}
  LastId = 0
  MinProcs = 1
  MaxProcs = 1
  MaxLoad = 0
  IdleTimeout = 0
  DisableTime = 0
  MaxReconnects = 1
  Units = 1
  MaxShort = 0
  MaxLost = 0
  MaxFails = 1
PROPERTIES Returns Settles
CHECK_DEADLOCK FALSE
