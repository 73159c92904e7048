\* Failing writes, damage, crashes and power losses with a clock that moves both ways.
SPECIFICATION Spec
CONSTANTS
  west = west
  east = east
  Missing = Missing
  Corrupt = Corrupt
  NoZone = NoZone
  Timezones <- OneZone
  Offset <- Offsets
  Day = 1
  MaxClock = 1
  ClockBack = TRUE
  Retimed = FALSE
  MaxUsage = 1
  MaxFaults = 2
  MaxCrashes = 2
INVARIANTS TypeOK NoSilentReset EvidencePreserved RecoveryIsSticky CountedIsDurable
