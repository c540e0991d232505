SPECIFICATION FairSpec
CONSTANTS
  dev = dev
  prod = prod
  shop = shop
  data = data
  r1 = r1
  r2 = r2
  Contexts = {dev, prod}
  Namespaces = {shop, data}
  Offered <- MCOffered
  CurrentNames = {}
  Default = dev
  InCluster = FALSE
  Requests = {r1, r2}
  NoData = NoData
  Ignored <- MCIgnored
  MaxChanges = 1
  MaxFailures = 1
INVARIANTS
  TypeOK
  DashboardKeepsToSelection
  PatientUsersSeeTheirSelection
PROPERTIES
  PollingPagesCatchUp
