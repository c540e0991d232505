SPECIFICATION Spec
CONSTANTS
  api = api
  web = web
  krg = krg
  apiPod = apiPod
  jobPod = jobPod
  webIp = webIp
  krgIp = krgIp
  p1 = p1
  x = x
  t1 = t1
  NoIp = NoIp
  NoNode = NoNode
  NoNs = NoNs
  NoTrace = NoTrace
  NoData = NoData
  Services <- MCServices
  SvcName <- MCSvcName
  SvcNs <- MCSvcNs
  SvcIps <- MCSvcIps
  Selects <- MCSelects
  Pods <- MCPods
  PodName <- MCPodName
  PodNs <- MCPodNs
  PodIps <- MCPodIps
  Ips <- MCIps
  MetadataIps = {}
  OwnNames = {"kube-runtime-graph"}
  Namespaces <- MCNamespaces
  Contexts = {"in-cluster"}
  Traces = {t1}
  Payloads <- OneReport
  Calls = {c1, c2}
  Handlers = {h1, h2}
  c1 = c1
  c2 = c2
  h1 = h1
  h2 = h2
  MaxEdges = 2
INVARIANTS
  TypeOK
  SnapshotsCurrent
  DetailsMatchEnds
  CallsAreObserved
  TracesFollowEdges
  OutsideNodesAreDescribed
PROPERTIES
  QuietRefreshIsExact
  ImplementsGraphStore
SYMMETRY Symmetry
CONSTRAINT FewEdges
ACTION_CONSTRAINT Pairs
