SPECIFICATION FairSpec
CONSTANTS
  Kinds = {"post", "cgi"}
  MaxRequests = 1
  MemLen = 2
  MaxHeader = 2
  SockCap = 2
  SndBuf = 1
  RespLen = 1
  CgiLen = 1
  MaxKeepAlive = 5
  MaxReadIdle = 1
  KeepAliveIdle = 1
  MaxWriteIdle = 1
  LingerTimeout = 2
  MaxJobs = 2
  ErrorHandler = FALSE
  Throttled = FALSE
  MayShutdown = TRUE
  Sluggish = FALSE
CHECK_DEADLOCK FALSE
PROPERTIES  LingerEnds GracefulEnds
