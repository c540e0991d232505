SPECIFICATION IngestSpec
CONSTANTS
  api = api
  web = web
  apiPod = apiPod
  webIp = webIp
  p1 = p1
  h1 = h1
  h2 = h2
  c1 = c1
  NoIp = NoIp
  NoNode = NoNode
  NoNs = NoNs
  NoTrace = NoTrace
  NoData = NoData
  Services <- MCServices
  SvcName <- MCSvcName
  SvcNs <- MCSvcNs
  SvcIps <- MCSvcIps
  Selects <- MCSelects
  Pods = {apiPod}
  PodName <- MCPodName
  PodNs <- MCPodNs
  PodIps = {p1}
  Ips = {webIp, p1}
  MetadataIps = {}
  OwnNames = {}
  Namespaces = {"shop", "data"}
  Contexts = {"in-cluster"}
  Traces = {}
  Payloads <- MCPayloads
  Calls = {c1}
  Handlers = {h1, h2}
  Text <- MCText
  NoEndpoint = NoEndpoint
  NoisePaths = {}
  SystemServices = {}
  LoopbackIps = {}
  DefaultNs = "default"
  maxRecords = 2
  duplicateWindow = 2
  pruneAfter = 2
  maxSignatures = 1
  maxNotifications = 2
  BucketLength = 1
  Buckets = 2
  MaxReports = 2
  MaxTime = 2
PROPERTIES
  ReportsAreRecorded
ACTION_CONSTRAINTS
  Bounded
