CONSTANT FarPatterns <- MCFarPatterns
SPECIFICATION Spec
INVARIANT ThreeAsCommented
