SPECIFICATION Spec
CONSTANTS
  w1 = w1  w2 = w2  n1 = n1  n2 = n2  k1 = k1  k2 = k2
  e1 = e1  e2 = e2  e3 = e3  NoId = NoId  NoWorker = NoWorker
  Workers = {w1, w2}
  Names = {n1, n2}
  Keys = {k1, k2}
  Configs <- AllConfigs
  Ids = {e1, e2, e3}
  MaxTime = 3
  MaxUse = 2
  MaxChanges = 1
SYMMETRY Perms
INVARIANTS TreeOwns UsedLive ValidatorsHold 
