SPECIFICATION Spec
CONSTANTS
  Backends = {"epoll"}
  LastFd = 2
  MaxOpens = 2
INVARIANT EachHandled
CHECK_DEADLOCK FALSE
