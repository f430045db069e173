CONSTANTS
  PacketLength = 2
  FifoSize = 8
  LastAddr = 1
  SensorAddr = 1
  MaxBurst = 2
  MaxFaults = 1
SPECIFICATION Spec
INVARIANTS
  TypeOK
  BusMutex
  WholeUnlessDisturbed
  OverrunNoticed
PROPERTIES
  LostForGood
  KeepsReading
  ScanReturns
