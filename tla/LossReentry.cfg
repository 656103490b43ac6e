SPECIFICATION Spec
CONSTANTS
  kRecoveryBlendTicks = 2
  kHandoffBlendTicks = 2
  kCalibHoldTicks = 1
  Gestures = FALSE
  BodyLags = FALSE
  MaxLosses = 2
  MaxStreams = 1
  MaxFaults = 1
  Replans = TRUE
  Locomotion = FALSE
  kInitTicks = 1
  kStateGraceTicks = 1
  kBaseRampTicks = 1
  Speeds = {FALSE}
INVARIANTS
  BaseHeldUntilReseed
  DampingIsEStop
  LossOriginFresh
PROPERTY OwnershipProtocol
