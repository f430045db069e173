CONSTANTS
  Channels <- MCChannels
  Samples = 2
  Lines <- MCLines
SPECIFICATION Spec
INVARIANTS
  TypeOK
  FrameClean
  ShellClean
PROPERTIES
  LostForGood
  RoundsContinue
  AverageReturnsOrLost
