SPECIFICATION Spec
CONSTANTS
  alice = alice
  bob = bob
  q1 = q1
  q2 = q2
  web = web
  api = api
  world = world
  Clients = {alice}
  Services = {web, api}
  Outside = {world}
  Reports <- Entries
  Requests = {q1, q2}
  Broadcasts = {b1}
  NoData = NoData
INVARIANTS
  EdgesHaveTheirNodes
SYMMETRY Symmetry
CHECK_DEADLOCK FALSE
