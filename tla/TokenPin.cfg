CONSTANTS
  p1 = p1
  p2 = p2
  Pins = {p1, p2}
  Budgets <- Retries
  Default <- Short
  Profile = TRUE
  MaxKeys = 2
  MaxCrashes = 2
SPECIFICATION Spec
SYMMETRY Symmetry
INVARIANTS
  OneMasterKey
  AttemptsCounted
PROPERTY LockedUserNeedsSO
