SPECIFICATION FairSpec
CONSTANTS
  alice = alice
  bob = bob
  q1 = q1
  q2 = q2
  web = web
  api = api
  world = world
  Clients = {alice, bob}
  Services = {web, api}
  Outside = {world}
  Reports <- AllReports
  Requests = {q1, q2}
  Broadcasts = {b1}
  NoData = NoData
INVARIANTS
  TypeOK
  PagesMissNoTraffic
PROPERTIES
  TrafficAppears
ACTION_CONSTRAINT Bounded
CHECK_DEADLOCK FALSE
