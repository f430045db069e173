CONSTANTS
  MasterTicks = 5
  InitTicks = 10
SPECIFICATION Spec
INVARIANTS
  ZeroMeansReady
