\* Every window over three midnights, the local clock moved back on the second
\* day, while rules are loaded and Snaps refreshed.
SPECIFICATION ConfigurationSpec
CONSTANTS
  Day = 8
  Shift <- Back
  ShiftAt = 12
  Lengths <- UpToThree
  Last = 34
  Native = Native
  Current = Current
  NoClock = NoClock
  video = video
  chat = chat
  web = web
  r1 = r1
  r2 = r2
  Revisions = {r1, r2}
  Link <- MCLink
  Safe <- MCSafe
  Files <- MCFiles
INVARIANTS ConfigurationTypeOK ProgramsHaveOneRule ChargedOnOrdinaryDays
