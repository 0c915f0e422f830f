SPECIFICATION Spec
CONSTANTS
  t1 = t1
  o1 = o1
  o2 = o2
  Gone = Gone
  Threads = {t1}
  Objects = {o1, o2}
  Places <- MCPlaces
  Entries <- MCEntries
  MaxSecrets = 2
  MaxEntries = 1
  MaxCalls = 3
SYMMETRY Symmetry

  
  
PROPERTIES
  AttributesOneWay
CHECK_DEADLOCK FALSE
