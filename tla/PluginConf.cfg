SPECIFICATION Spec
CONSTANTS
  Conns = {1, 2}
  Configs <- TwoHosts
  Files <- HookFiles
  Scripts <- HookScripts
  Homes <- Homes1
  Db <- Db1
  RewriteLoops = 1
  LocalLoops = 1
  Serial = FALSE
INVARIANT SameAnswer
CHECK_DEADLOCK FALSE
