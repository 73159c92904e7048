\* The continuous allowance is lowered.
SPECIFICATION Spec
CONSTANTS
  game = game
  Apps <- OneApp
  Configs <- LoweredConfigs
  Second = 1
  Day = 16
  StartWall = 0
  Elapsed <- ByOne
  ClockSteps <- NoSteps
  MaxMono = 8
  MaxSeconds = 16
  Faults = FALSE
INVARIANT SavedStateLoads
