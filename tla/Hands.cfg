SPECIFICATION FairSpec
CONSTANTS
  kFistTicks = 2
  MaxTargets = 2
PROPERTIES
  GraspIsKept
  FistFirst
  EStopStopsHands
  StreamYields
