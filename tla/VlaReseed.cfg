SPECIFICATION Spec
CONSTANTS
  kRecoveryBlendTicks = 2
  kHandoffBlendTicks = 2
  kCalibHoldTicks = 1
  Gestures = FALSE
  BodyLags = FALSE
  MaxLosses = 0
  MaxStreams = 1
  MaxFaults = 0
  Replans = TRUE
  Locomotion = FALSE
  kInitTicks = 1
  kStateGraceTicks = 1
  kBaseRampTicks = 1
  Speeds = {FALSE}
INVARIANT VlaOriginFresh
