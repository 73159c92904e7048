\* The timezone changes by reload and at a restart; faults that come to an end.
SPECIFICATION FairSpec
CONSTANTS
  west = west
  east = east
  Missing = Missing
  Corrupt = Corrupt
  NoZone = NoZone
  Timezones <- TwoZones
  Offset <- Offsets
  Day = 2
  MaxClock = 1
  ClockBack = FALSE
  Retimed = TRUE
  MaxUsage = 1
  MaxFaults = 1
  MaxCrashes = 0
PROPERTIES DayEndsInItsTimezone RetrySucceeds HandlersReturn
