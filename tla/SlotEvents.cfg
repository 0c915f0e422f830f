SPECIFICATION Spec
CONSTANTS
  t1 = t1
  t2 = t2
  t3 = t3
  s1 = s1
  s2 = s2
  Threads = {t1, t2, t3}
  Slots = {s1, s2}
  MaxEpoch = 2
  MaxPosts = 2
  ConcurrentInit = FALSE
INVARIANTS
  NoEventLost
PROPERTIES
  HearsOwnEpoch
  FinalizeReleases
  EventsReachWaiter
