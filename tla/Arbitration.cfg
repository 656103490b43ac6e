SPECIFICATION Spec
CONSTANTS
  kRecoveryBlendTicks = 2
  kHandoffBlendTicks = 2
  kCalibHoldTicks = 2
  Gestures = TRUE
  BodyLags = FALSE
  MaxLosses = 0
  MaxStreams = 2
  MaxFaults = 0
  Replans = FALSE
  Locomotion = FALSE
  kInitTicks = 1
  kStateGraceTicks = 1
  kBaseRampTicks = 1
  Speeds = {TRUE, FALSE}
INVARIANTS
  NoHiddenTeleop
  HeldIsLastCommand
  TargetIsCalibrated
PROPERTY OwnershipProtocol
