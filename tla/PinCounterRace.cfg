SPECIFICATION Spec
CONSTANTS
  p1 = p1
  p2 = p2
  o1 = o1
  o2 = o2
  token = token
  Processes = {p1, p2}
  Objects = {o1}
  Token = token
  MaxWrites <- TwoAttempts
  MaxDirGen = 1
  MaxCrashes = 0
SYMMETRY Symmetry
INVARIANT AttemptsKept
CHECK_DEADLOCK FALSE
