CONSTANTS
  Wrap = 4
  NearReadings <- NearFeedbacks
  FarReadings <- MCFarSome
  Lines <- ManualLines
SPECIFICATION Spec
INVARIANTS
  TypeOK
  StopHolds
  RaceOutcome
  ImuHoldsStill
  DriveHolds
  BrakeOnlyWhenTorn
  BeeperReleased
PROPERTIES
  ImuDrains
  CommandCompletes
  StopEventually
