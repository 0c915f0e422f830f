SPECIFICATION Spec
CONSTANTS
  t1 = t1
  t2 = t2
  s1 = s1
  tok = tok
  o1 = o1
  Threads = {t1, t2}
  Workloads <- MCWorkloads
  Slots = {s1}
  Objects = {tok, o1}
  TokenObjects = {tok}
  SlotOf <- OneSlot
  MaxSessions = 2
  MaxHandle = 3
INVARIANTS
  NoOrphanedObjects
  
  
  FinalizeFreesAll
  
SYMMETRY Symmetry
CHECK_DEADLOCK FALSE
