SPECIFICATION Spec
CONSTANTS
  p1 = p1
  p2 = p2
  t1 = t1
  t2 = t2
  o1 = "o1"
  o2 = "o2"
  Processes = {p1, p2}
  Threads = {t1, t2}
  ProcessOf <- TwoProcesses
  Objects = {"o1"}
  Attributes = {"CKA_LABEL", "CKA_WRAP_WITH_TRUSTED"}
  MaxTries = 2
  TokenFunctions = {"advancePinPolicy", "advanceJournal", "updateLocalPIN", "setUserPIN", "setTokenFlags", "resetToken"}
  MaxCalls = 4
  MaxCrashes = 1

  
  
  
PROPERTY PinAndFlagTogether
CHECK_DEADLOCK FALSE
