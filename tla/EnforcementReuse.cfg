\* A PID is reused between two reads of a scan.
SPECIFICATION Spec
CONSTANTS
  alice = alice
  bob = bob
  game = game
  chess = chess
  Unlisted = Unlisted
  None = None
  Pids <- One
  Users <- TwoUsers
  Apps <- OneApp
  Programs <- OneApp
  Grace = 1
  MaxFds = 4
  MaxBorn = 2
  MaxEvents = 0
INVARIANT OnlyOwnersPay
