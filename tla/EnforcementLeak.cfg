\* A scan fails after it opened pidfds.
SPECIFICATION FairSpec
CONSTANTS
  alice = alice
  bob = bob
  game = game
  chess = chess
  Unlisted = Unlisted
  None = None
  Pids <- Two
  Users <- OneUser
  Apps <- OneApp
  Programs <- OneApp
  Grace = 1
  MaxFds = 2
  MaxBorn = 2
  MaxEvents = 1
PROPERTY ScanRecovers
