\* A scaled timeline: loops of four ticks, timed replans after two loops or one,
\* plans just long enough, one tick lost in a row or a pause of any length.
SPECIFICATION Spec
CONSTANTS
  Period = 4
  MaxInference = 1
  MaxSkips = 1
  MaxAge = 2
  kLookAheadSteps = 1
  ReplanDefault = 2
  ReplanRunning = 1
  PredFrames = {0, 7, 12}
  kMaxPlannerFrames = 10
  kCapacity = 13
  Paces = {0, 1}
  kContextFrames = 2
  kFutFrames = 3
  kFutStep = 2
INVARIANTS
  HeadingIsKept
  FramesInRange
  PlanIsAligned
  NeverFreezes
  FollowsInTime
  ReplansInTime
PROPERTY ContextNearMotion
