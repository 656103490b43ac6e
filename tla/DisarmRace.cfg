SPECIFICATION Spec
CONSTANTS
  kSingleHoldTicks = 1
  kHardHoldTicks = 2
  kEstopHoldTicks = 2
  kFullModeMax = 4
  LinkDrops = FALSE
  NavCommands = {"stale"}
  Disarms = TRUE
  Held = {{}, {"Y"}, {"X"}}
INVARIANT ModeClamped
