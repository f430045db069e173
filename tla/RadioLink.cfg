CONSTANTS
  Bytes = {0, 1, 2}
  BufSz = 3
  Lookups <- AllThree
  Chars = 2
  Tries = 3
  MaxBytes = 7
SPECIFICATION Spec
INVARIANTS
  TypeOK
  NoLostWakeup
PROPERTIES
  QueueSpec
  Drains
  MasterFinishes
