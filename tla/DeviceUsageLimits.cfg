\* Changing limits, failing writes, late ticks, crashes, and a clock that is set back.
SPECIFICATION Spec
CONSTANTS
  game = game
  Apps <- OneApp
  Configs <- LimitConfigs
  Second = 1
  Day = 6
  StartWall = 1
  Elapsed <- ByOneOrMore
  ClockSteps <- BackByTwo
  MaxMono = 6
  MaxSeconds = 3
  Faults = TRUE
INVARIANTS DeviceWithinLimit SavedStateLoads SavedBeforeRelease CrashLosesOneTick
PROPERTY ImplementsAllowance
