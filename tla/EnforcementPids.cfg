\* Two users with two applications on one PID that is reused; SIGTERM is ignored.
SPECIFICATION FairSpec
CONSTANTS
  alice = alice
  bob = bob
  game = game
  chess = chess
  Unlisted = Unlisted
  None = None
  Pids <- One
  Users <- TwoUsers
  Apps <- TwoApps
  Programs <- TwoApps
  Grace = 1
  MaxFds = 4
  MaxBorn = 2
  MaxEvents = 1
INVARIANTS TypeOK WarnedStayPending
PROPERTIES KillsAreWarned OverLimitEnds
