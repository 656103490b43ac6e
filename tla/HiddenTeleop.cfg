SPECIFICATION Spec
CONSTANTS
  kRecoveryBlendTicks = 2
  kHandoffBlendTicks = 2
  kCalibHoldTicks = 1
  Gestures = TRUE
  BodyLags = TRUE
  MaxLosses = 0
  MaxStreams = 1
  MaxFaults = 0
  Replans = FALSE
  Locomotion = FALSE
  kInitTicks = 1
  kStateGraceTicks = 1
  kBaseRampTicks = 1
  Speeds = {FALSE}
INVARIANT NoHiddenTeleop
