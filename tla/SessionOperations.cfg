SPECIFICATION Spec
CONSTANTS
  BlockSize = 4
  ChunkSize = 8
  TagBytes = 3
  MinimumTag = 2
  CounterBits = 2
  MGMMaximum = 6
  ULongBits = 10
  IntBits = 6
  MaxLength = 6
  BufferSizes = {0, 3, 4, 8, 12, 16}
  KeySizes = {16, 32}
  Counters = {2, 3}
  MaxGiven = 12
  OutputLength = 3
INVARIANTS
  OperationHasEngine
  
  
  CounterNotExhausted
PROPERTY
  KeyUseReauthenticated
CHECK_DEADLOCK FALSE
