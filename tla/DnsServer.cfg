SPECIFICATION FairSpec
CONSTANTS
  c1 = c1
  c2 = c2
  Clients = {c1, c2}
  Packets <- MCPackets
  Lower <- MCLower
  Blocked <- MCBlocked
  HeaderSize = 1
  TrailerSize = 1
  MaxDepth = 2
  Slots = 1
INVARIANTS
  TypeOK
  BlockedIsRefused
PROPERTY SlotsReturn
CHECK_DEADLOCK FALSE
