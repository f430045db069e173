CONSTANTS
  MasterTicks = 5
  InitTicks = 10
SPECIFICATION Spec
INVARIANTS
  TypeOK
  DrivenAtItsRate
  ControlFirst
  NoReadBeforeInit
  ReadyUnlessIgnored
PROPERTIES
  ShellComesUp
