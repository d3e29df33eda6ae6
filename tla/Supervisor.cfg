SPECIFICATION FairSpec
CONSTANTS
  MaxWorker = 2
  Pids <- MCPids
  Chroot = FALSE
  Gap = 1
  MaxTime = 2
  MaxSignals = 2
  MaxDeaths = 2
  MaxGen = 2
INVARIANTS PidsExact AllTold
PROPERTIES Renewed
CHECK_DEADLOCK FALSE
