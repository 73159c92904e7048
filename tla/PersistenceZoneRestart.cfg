\* Restart with a timezone whose local date is later.
SPECIFICATION Spec
CONSTANTS
  west = west
  east = east
  Missing = Missing
  Corrupt = Corrupt
  NoZone = NoZone
  Timezones <- TwoZones
  Offset <- Offsets
  Day = 2
  MaxClock = 3
  ClockBack = FALSE
  Retimed = TRUE
  MaxUsage = 1
  MaxFaults = 0
  MaxCrashes = 1
PROPERTY StartGrantsNoDay
