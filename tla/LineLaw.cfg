CONSTANT FarPatterns <- MCFarPatterns
SPECIFICATION Spec
INVARIANTS
  CommandsAccepted
  MirrorBias
PROPERTY RudderFollows
