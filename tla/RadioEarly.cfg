CONSTANTS
  Bytes = {0, 1, 2}
  BufSz = 3
  Lookups <- OnlyOk
  Chars = 2
  Tries = 3
  MaxBytes = 2
SPECIFICATION Spec
INVARIANT EventAsserted
