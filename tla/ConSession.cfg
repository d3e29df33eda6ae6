SPECIFICATION Spec
CONSTANTS
  Kinds = {"missing", "post", "cgipost"}
  MaxRequests = 2
  MemLen = 2
  MaxHeader = 2
  SockCap = 2
  SndBuf = 1
  RespLen = 1
  CgiLen = 1
  MaxKeepAlive = 5
  MaxReadIdle = 1
  KeepAliveIdle = 1
  MaxWriteIdle = 1
  LingerTimeout = 2
  MaxJobs = 2
  ErrorHandler = TRUE
  Throttled = TRUE
  MayShutdown = FALSE
  Sluggish = TRUE
CHECK_DEADLOCK FALSE
INVARIANTS NoSleep BytesAligned
PROPERTIES  CleanSlate ImplementsSession
