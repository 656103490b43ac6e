SPECIFICATION FairSpec
CONSTANTS
  kRecoveryBlendTicks = 2
  kHandoffBlendTicks = 2
  kCalibHoldTicks = 1
  Gestures = FALSE
  BodyLags = FALSE
  MaxLosses = 1
  MaxStreams = 1
  MaxFaults = 0
  Replans = FALSE
  Locomotion = FALSE
  kInitTicks = 1
  kStateGraceTicks = 1
  kBaseRampTicks = 1
  Speeds = {FALSE}
PROPERTIES
  EStopDamps
  RecoveryEnds
  ReseedWaitEnds
