SPECIFICATION Spec
CONSTANTS
  p1 = p1
  p2 = p2
  o1 = o1
  o2 = o2
  token = token
  Processes = {p1, p2}
  Objects = {o1}
  Token = token
  MaxWrites <- OneUpdate
  MaxDirGen = 2
  MaxCrashes = 1
SYMMETRY Symmetry
INVARIANTS
  StaleCacheNoticed
  NoLostUpdate
  
CHECK_DEADLOCK FALSE
