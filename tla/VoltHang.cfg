CONSTANTS
  Channels <- MCChannels
  Samples = 2
  Lines <- MCLines
SPECIFICATION Spec
PROPERTY AverageReturns
