CONSTANTS
  Wrap = 5
  NearReadings <- MCNearFew
  FarReadings <- MCFarFew
  Lines <- StopLines
SPECIFICATION Spec
INVARIANTS
  StopKeepsMode
