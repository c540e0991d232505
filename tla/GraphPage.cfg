SPECIFICATION Spec
CONSTANTS
  dev = dev
  prod = prod
  default = default
  shop = shop
  p = p
  q = q
  Contexts = {dev, prod}
  NamespacesOf <- MCNamespacesOf
  Preferred <- MCPreferred
  Nothing = Nothing
  Pods = {p, q}
  NoPod = NoPod
  MaxHistory = 2
  HistorySpan = 1
  Lookbacks = {0, 1, 2}
  MaxTime = 3
  MaxUpdates = 4
  MaxSelections = 2
  MaxOpening = 2
INVARIANTS
  TypeOK
  CacheOwnsItsNamespaces
  PatientUsersStayInTheirContext
  LiveGraphIsOfSelection
  ReplayIsFaithful
  LogEndsWithPanel
SYMMETRY Symmetry
CONSTRAINT Bounded
