SPECIFICATION Spec
CONSTANTS
  s1 = s1
  s2 = s2
  p1 = p1
  t1 = t1
  o1 = o1
  o2 = o2
  Slots = {s1, s2}
  Sessions = {p1}
  Objects = {t1, o1, o2}
  TokenObjects = {t1}
  SlotOf <- MCSlotOf
  MaxHandle = 4
  Racing = TRUE
INVARIANTS
  IndexesExact
  SessionIndexComplete
  SessionCountExact
  ReferencesExact
PROPERTIES
  HandlesNeverReused
  ImplementsTable
CHECK_DEADLOCK FALSE
