\* Reloads, ticks, status requests and the end of the daemon at once.
SPECIFICATION SocketFairSpec
CONSTANTS
  alice = alice
  bob = bob
  carol = carol
  dave = dave
  video = video
  chat = chat
  lpctl1 = lpctl1
  lpctl2 = lpctl2
  indicator = indicator
  Users <- AllUsers
  Uids <- AllUids
  Domains <- AllDomains
  Configs <- SomeConfigs
  Databases <- SomeDatabases
  Ports = 2
  Lpctls <- TwoLpctls
  Indicators <- OneIndicator
  Peer <- AlicesOwn
  Slots = 2
INVARIANTS TypeOK RulesServed FilterMatchesConfig NoServerLeaks FreshPortsFree AcknowledgedInForce StatusIsAcknowledged
PROPERTIES HandlersEnd TicksGoOn StopEnds
