SPECIFICATION FairSpec
CONSTANTS
  kSingleHoldTicks = 2
  kHardHoldTicks = 3
  kEstopHoldTicks = 3
  kFullModeMax = 4
  LinkDrops = TRUE
  NavCommands = {"stale", "stop", "slow", "walk"}
  Disarms = TRUE
  Held = {{}, {"A"}, {"A", "Trigger"}, {"X"}, {"Y"}, {"X", "Y"}, {"A", "B", "X"},
          {"A", "B", "X", "Y"}}
PROPERTIES
  GestureIsOneHold
  HardModeIsHeld
  ImplementsOperatorInput
  LostLinkStops
  NavYields
