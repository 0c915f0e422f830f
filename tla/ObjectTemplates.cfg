CONSTANTS
  MaxObjects = 3
  NoObject = NoObject
  Entries <- MCEntries
  Changes <- MCChanges
  MaxMade = 1
  MaxCalls = 2
SPECIFICATION Spec
INVARIANTS
  StoredAsRead
  KeyComplete
  ValueDescribed
  TrustedBySO
  
