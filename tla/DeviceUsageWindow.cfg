\* One configuration with allowed hours and breaks, two units of the clock in a second.
SPECIFICATION FairSpec
CONSTANTS
  game = game
  Apps <- OneApp
  Configs <- WindowConfigs
  Second = 2
  Day = 16
  StartWall = 1
  Elapsed <- ByOne
  ClockSteps <- NoSteps
  MaxMono = 20
  MaxSeconds = 14
  Faults = FALSE
INVARIANTS TypeOK UsageWithinElapsed UsageWithinWindow BreaksAreServed AppsWithinDevice
PROPERTIES ExhaustedGetsLocked TickEnds
