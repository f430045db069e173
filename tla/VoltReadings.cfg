CONSTANTS
  CurReadings <- MCCur
  BatReadings <- MCBat
SPECIFICATION Spec
INVARIANTS
  FrameDecodes
  BitErrorDetected
  DisplayMatchesFrame
