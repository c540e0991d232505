---------------------------- MODULE GraphService ----------------------------
(* backend/src/graph/graph.service.ts: the in-memory traffic graph of the
   backend.  Reports of observed connections arrive through processTelemetry,
   which maps IP addresses to services and pods with caches filled from the
   Kubernetes inventory; getGraphData refills these caches and builds the graph
   a client is shown, and keeps it for two seconds in a snapshot cache.

   The service runs on one Node.js event loop: between two awaits its code is
   one atomic step, and any number of calls of the two entry points may be
   suspended at an await at the same time.  An action below is the code from
   one await (or the call's start) to the next await (or the return).

   The Kubernetes API is outside the repository.  It is modelled from its use:
   a listing shows the cluster as it was at one moment between the request and
   the reply, and a request may fail. *)
EXTENDS Integers

CONSTANTS
  Services, SvcName, SvcNs,  \* services, with their names and namespaces
  SvcIps,                    \* the cluster, external and load-balancer IPs of a service
  Selects,                   \* the pods a service's selector matches
  Pods, PodName, PodNs,      \* pods that may exist, with names and namespaces
  PodIps,                    \* the addresses a pod can be given
  Ips,                       \* every address a report can name
  MetadataIps,               \* the cloud's metadata and wire servers
  OwnNames,                  \* names that contain "kube-runtime-graph"
  Namespaces,
  Contexts,                  \* kubeconfig contexts a client can name
  Traces,                    \* trace ids
  Payloads,                  \* the reports that can arrive
  Calls,                     \* getGraphData calls that can be under way
  Handlers,                  \* processTelemetry calls that can be under way
  NoIp, NoNode, NoNs, NoTrace, NoData  \* JavaScript's undefined

\* An address belongs to at most one service, and is not also a pod's.
ASSUME AddressAssumption ==
  /\ SvcIps \in [Services -> SUBSET Ips]
  /\ PodIps \subseteq Ips
  /\ \A s \in Services : SvcIps[s] \cap PodIps = {}
  /\ \A s, t \in Services : s # t => SvcIps[s] \cap SvcIps[t] = {}
  /\ NoIp \notin Ips

ASSUME InventoryAssumption ==
  /\ SvcNs \in [Services -> Namespaces]
  /\ PodNs \in [Pods -> Namespaces]
  /\ Selects \in [Services -> SUBSET Pods]
  /\ NoNs \notin Namespaces

Engines == {"postgres", "mysql", "mongo", "redis", "supabase"}

\* Node ids.  A service or a pod is identified by its name alone.
SvcId(s) == <<"svc", SvcName[s]>>
PodId(p) == <<"pod", PodName[p]>>
DbId(engine, ip) == <<"db", engine, ip>>
ExtId(label) == <<"ext", label>>

ServiceIds == {SvcId(s) : s \in Services}
PodNodeIds == {PodId(p) : p \in Pods}
InventoryIds == ServiceIds \cup PodNodeIds
OutsideIds == {ExtId("apim"), ExtId("clients")}
                \cup {ExtId(ip) : ip \in Ips}
                \cup {DbId(en, ip) : en \in Engines, ip \in Ips}
NodeIds == InventoryIds \cup OutsideIds
OwnIds == {SvcId(s) : s \in {x \in Services : SvcName[x] \in OwnNames}}
            \cup {PodId(p) : p \in {x \in Pods : PodName[x] \in OwnNames}}

ASSUME NodeIdAssumption ==
  /\ NoNode \notin NodeIds
  /\ InventoryIds \cap OutsideIds = {}

\* A report: addresses, port, trace id, whether the request's headers show an
\* API-management gateway, and whether they name Supabase.
PayloadType == [src : Ips \cup {NoIp}, dst : Ips \cup {NoIp}, port : Nat,
                trace : Traces \cup {NoTrace}, apim : BOOLEAN, supabase : BOOLEAN]

ASSUME PayloadAssumption == Payloads \subseteq PayloadType

Selections == Contexts \X Namespaces

\* Edge ids: t-<source>-<target>-<port> and trace-<trace>-<source>-<target>.
TrafficEdge(src, dst, port) == [kind |-> "t", source |-> src, target |-> dst, key |-> port]
ChainEdge(src, dst, trace) == [kind |-> "trace", source |-> src, target |-> dst, key |-> trace]

VARIABLES
  podIp,        \* the cluster: the address of each running pod
  podCache, ipToServiceCache, serviceIpCache,  \* address -> node id
  ipToNamespaceCache,                          \* address -> namespace
  discoveredDbs,    \* nodes outside the inventory that reports have named
  activeEdges,      \* observed edges, edge id -> edge data
  serviceCallGraph, \* pairs of a calling and a called service
  traceLastNode,    \* trace id -> node the trace was last seen at
  graphCache,       \* context and namespace -> snapshot, for those that have one
  fresh,            \* the snapshots younger than cacheTtlMs
  canResolve,       \* resolveIpMappings would not be throttled
  calls,            \* suspended getGraphData calls
  handlers,         \* suspended processTelemetry calls
  answer,           \* what getGraphData answered, for each call that was answered
  alone             \* history: the suspended getGraphData calls since whose start
                    \* nobody else began to fill the caches

inventory == <<podCache, ipToServiceCache, serviceIpCache, ipToNamespaceCache>>
graph == <<discoveredDbs, activeEdges, serviceCallGraph, traceLastNode>>
vars == <<podIp, inventory, graph, graphCache, fresh, canResolve, calls,
          handlers, answer, alone>>

-----------------------------------------------------------------------------
(* Maps and the inventory *)

\* Map.set and Map.delete, on a map as a function from its keys.
Put(f, k, v) == [x \in DOMAIN f \cup {k} |-> IF x = k THEN v ELSE f[x]]
Delete(f, k) == [x \in DOMAIN f \ {k} |-> f[x]]

\* a || b
Or(a, b) == IF a # NoNode THEN a ELSE b

\* The node that a listing of the services maps an address to.
ServiceAt(ip) ==
  IF \E s \in Services : ip \in SvcIps[s]
  THEN SvcId(CHOOSE s \in Services : ip \in SvcIps[s])
  ELSE NoNode

\* The service that owns a pod: the first of the listing whose selector
\* matches.  The order of a listing is fixed and otherwise of no interest, so
\* it is left to CHOOSE.
getServiceForPod(p) ==
  IF \E s \in Services : p \in Selects[s]
  THEN SvcId(CHOOSE s \in Services : p \in Selects[s])
  ELSE NoNode

\* The same for the pods of a listing, a function from pods to addresses.
PodsAt(listing, ip) == {p \in Pods : listing[p] = ip}
PodAt(listing, ip) ==
  IF PodsAt(listing, ip) = {} THEN NoNode
  ELSE PodId(CHOOSE p \in PodsAt(listing, ip) : TRUE)
\* Mutant: a pod without a service stands for itself.
OwnerOrPodAt(listing, ip) ==
  IF PodsAt(listing, ip) = {} THEN NoNode
  ELSE Or(getServiceForPod(CHOOSE p \in PodsAt(listing, ip) : TRUE), PodAt(listing, ip))
OwnerAt(listing, ip) ==
  IF PodsAt(listing, ip) = {} THEN NoNode
  ELSE getServiceForPod(CHOOSE p \in PodsAt(listing, ip) : TRUE)

NamespaceAt(listing, ip) ==
  IF PodsAt(listing, ip) # {} THEN PodNs[CHOOSE p \in PodsAt(listing, ip) : TRUE]
  ELSE IF \E s \in Services : ip \in SvcIps[s]
  THEN SvcNs[CHOOSE s \in Services : ip \in SvcIps[s]]
  ELSE NoNs

NoMapping == [ip \in Ips |-> NoNode]

Endpoints(ids) == {e.source : e \in ids} \cup {e.target : e \in ids}

\* The namespace a node is shown with: its own in the listing, else the one the
\* client asked for; nodes outside the inventory have none.
NodeNamespace(n, listing, ns) ==
  IF \E s \in Services : SvcId(s) = n
  THEN SvcNs[CHOOSE s \in Services : SvcId(s) = n]
  ELSE IF \E p \in Pods : PodId(p) = n /\ listing[p] # NoIp
  THEN PodNs[CHOOSE p \in Pods : PodId(p) = n /\ listing[p] # NoIp]
  ELSE IF n \in InventoryIds THEN ns ELSE NoNs

EmptyGraph == [nodes |-> [n \in {} |-> NoNs], edges |-> [e \in {} |-> NoData]]

\* Mutant: trace links, which have no data, are taken for structural edges.
BuildTrafficGraph(listing, ns) ==
  LET kept == {e \in DOMAIN activeEdges : e.kind = "t"}
  IN [nodes |-> [n \in Endpoints(kept) |-> NodeNamespace(n, listing, ns)],
      edges |-> [e \in kept |-> activeEdges[e]]]
BuildGraph(listing, ns) ==
  [nodes |-> [n \in Endpoints(DOMAIN activeEdges) |-> NodeNamespace(n, listing, ns)],
   edges |-> activeEdges]

-----------------------------------------------------------------------------
(* Initial state and types *)

IdleCall == [pc |-> "idle"]
IdleHandler == [pc |-> "idle"]

\* Addresses of running pods are distinct.
Placements == {f \in [Pods -> PodIps \cup {NoIp}] :
                 \A p, q \in Pods : p # q /\ f[p] = f[q] => f[p] = NoIp}

Init ==
  /\ podIp \in Placements
  /\ podCache = NoMapping
  /\ ipToServiceCache = NoMapping
  /\ serviceIpCache = NoMapping
  /\ ipToNamespaceCache = [ip \in Ips |-> NoNs]
  /\ discoveredDbs = {}
  /\ activeEdges = [e \in {} |-> NoData]
  /\ serviceCallGraph = {}
  /\ traceLastNode = [t \in Traces |-> NoNode]
  /\ graphCache = [k \in {} |-> EmptyGraph]
  /\ fresh = {}
  /\ canResolve = TRUE
  /\ calls = [c \in Calls |-> IdleCall]
  /\ handlers = [h \in Handlers |-> IdleHandler]
  /\ answer = [c \in {} |-> EmptyGraph]
  /\ alone = {}

-----------------------------------------------------------------------------
(* The cluster and the clock *)

\* A pod gets an address, or is gone; addresses are reused.
PodStarts(p, ip) ==
  /\ podIp[p] = NoIp
  /\ \A q \in Pods : podIp[q] # ip
  /\ podIp' = [podIp EXCEPT ![p] = ip]
  /\ UNCHANGED <<inventory, graph, graphCache, fresh, canResolve, calls,
                 handlers, answer, alone>>

PodStops(p) ==
  /\ podIp[p] # NoIp
  /\ podIp' = [podIp EXCEPT ![p] = NoIp]
  /\ UNCHANGED <<inventory, graph, graphCache, fresh, canResolve, calls,
                 handlers, answer, alone>>

\* Two seconds pass since a snapshot was taken.
SnapshotExpires(k) ==
  /\ k \in fresh
  /\ fresh' = fresh \ {k}
  /\ UNCHANGED <<podIp, inventory, graph, graphCache, canResolve, calls,
                 handlers, answer, alone>>

\* The pause of resolveIpMappings ends: 30 s after an attempt, 150 s after one that
\* failed, whose time is set 120 s ahead.
ThrottleEnds ==
  /\ ~canResolve
  /\ canResolve' = TRUE
  /\ UNCHANGED <<podIp, inventory, graph, graphCache, fresh, calls, handlers,
                 answer, alone>>

-----------------------------------------------------------------------------
(* getGraphData *)

Reply(c, g) ==
  /\ answer' = Put(answer, c, g)
  /\ calls' = [calls EXCEPT ![c] = IdleCall]
  /\ alone' = alone \ {c}

\* A call with a context or a namespace missing.
RequestNothing(c) ==
  /\ calls[c].pc = "idle" /\ c \notin DOMAIN answer
  /\ Reply(c, EmptyGraph)
  /\ UNCHANGED <<podIp, inventory, graph, graphCache, fresh, canResolve,
                 handlers>>

\* A call that finds a fresh snapshot.
RequestCached(c, k) ==
  /\ calls[c].pc = "idle" /\ c \notin DOMAIN answer
  /\ k \in fresh
  /\ Reply(c, graphCache[k])
  /\ UNCHANGED <<podIp, inventory, graph, graphCache, fresh, canResolve,
                 handlers>>

\* Mutant: podCache is not cleared.
ClearServiceCaches ==
  /\ ipToServiceCache' = NoMapping
  /\ serviceIpCache' = NoMapping
  /\ ipToNamespaceCache' = [ip \in Ips |-> NoNs]
  /\ UNCHANGED podCache
ClearCaches ==
  /\ podCache' = NoMapping
  /\ ipToServiceCache' = NoMapping
  /\ serviceIpCache' = NoMapping
  /\ ipToNamespaceCache' = [ip \in Ips |-> NoNs]

\* Nobody but c is filling the caches.
Quiet(c) ==
  /\ \A d \in Calls \ {c} : calls[d].pc = "idle"
  /\ \A h \in Handlers : handlers[h].pc = "idle"

\* A call that does not: the caches are cleared and the services asked for.
RequestRefresh(c, k) ==
  /\ calls[c].pc = "idle" /\ c \notin DOMAIN answer
  /\ k \notin fresh
  /\ ClearCaches
  /\ calls' = [calls EXCEPT ![c] = [pc |-> "services", key |-> k]]
  /\ alone' = IF Quiet(c) THEN {c} ELSE {}
  /\ UNCHANGED <<podIp, graph, graphCache, fresh, canResolve, handlers, answer>>

\* The services have been listed; the API server takes the pod listing that
\* the call will be sent.  (Services do not change in this model, so their
\* listing need not be kept.)
ApiListsPods(c) ==
  /\ calls[c].pc = "services"
  /\ calls' = [calls EXCEPT ![c] = [pc |-> "pods", key |-> calls[c].key,
                                    listing |-> podIp]]
  /\ UNCHANGED <<podIp, inventory, graph, graphCache, fresh, canResolve,
                 handlers, answer, alone>>

\* The listings are in: fill the caches, build the graph, keep it, return it.
FillCaches(listing) ==
  /\ serviceIpCache' = [ip \in Ips |-> Or(ServiceAt(ip), serviceIpCache[ip])]
  /\ ipToServiceCache' = [ip \in Ips |-> Or(OwnerAt(listing, ip),
                                         Or(ServiceAt(ip), ipToServiceCache[ip]))]
  /\ podCache' = [ip \in Ips |-> Or(PodAt(listing, ip), podCache[ip])]
  /\ ipToNamespaceCache' = [ip \in Ips |->
       IF NamespaceAt(listing, ip) # NoNs THEN NamespaceAt(listing, ip)
       ELSE ipToNamespaceCache[ip]]

FinishRefresh(c) ==
  /\ calls[c].pc = "pods"
  /\ FillCaches(calls[c].listing)
  /\ LET g == BuildGraph(calls[c].listing, calls[c].key[2])
     IN /\ graphCache' = Put(graphCache, calls[c].key, g)
        /\ Reply(c, g)
  /\ fresh' = fresh \cup {calls[c].key}
  /\ UNCHANGED <<podIp, graph, canResolve, handlers>>

\* A listing fails: the caches stay as they are.
RefreshFails(c) ==
  /\ calls[c].pc \in {"services", "pods"}
  /\ Reply(c, EmptyGraph)
  /\ UNCHANGED <<podIp, inventory, graph, graphCache, fresh, canResolve,
                 handlers>>

\* The cluster configuration does not load: nothing has been cleared yet.
ConfigFails(c, k) ==
  /\ calls[c].pc = "idle" /\ c \notin DOMAIN answer
  /\ k \notin fresh
  /\ Reply(c, EmptyGraph)
  /\ UNCHANGED <<podIp, inventory, graph, graphCache, fresh, canResolve,
                 handlers>>

\* The caller takes the answer.
TakeAnswer(c) ==
  /\ c \in DOMAIN answer
  /\ answer' = Delete(answer, c)
  /\ UNCHANGED <<podIp, inventory, graph, graphCache, fresh, canResolve, calls,
                 handlers, alone>>

-----------------------------------------------------------------------------
(* processTelemetry *)

SystemPorts == {9153, 10248, 10249, 10250, 10255, 10257, 10259, 10092, 10096,
                19100, 20257, 29615, 8081, 8082, 8083, 8084, 6443}

Ignored(p) ==
  \/ p.src = NoIp \/ p.dst = NoIp
  \/ p.port \in SystemPorts
  \/ p.dst \in MetadataIps

\* What caches with the contents svcs, owners and pods say of a report's ends.
LookUpPodFirst(owners, pods, p) == Or(pods[p.src], owners[p.src])   \* mutant
LookUpSource(owners, pods, p) == Or(owners[p.src], pods[p.src])
LookUpDest(svcs, owners, pods, p) == Or(svcs[p.dst], Or(owners[p.dst], pods[p.dst]))

SourceOf(p) == LookUpSource(ipToServiceCache, podCache, p)
DestOf(p) == LookUpDest(serviceIpCache, ipToServiceCache, podCache, p)

\* The nodes of ends that the caches do not know.
ClientNode(p) == ExtId(IF p.apim THEN "apim" ELSE "clients")
OutsideNode(p) ==
  CASE p.port = 5432 -> DbId("postgres", p.dst)
    [] p.port = 3306 -> DbId("mysql", p.dst)
    [] p.port = 27017 -> DbId("mongo", p.dst)
    [] p.port = 6379 -> DbId("redis", p.dst)
    [] p.port \in {443, 80} /\ p.supabase -> DbId("supabase", p.dst)
    [] OTHER -> ExtId(p.dst)

\* The link from where a trace was last seen to where it is seen now.
ChainEdgesReversed(p, src) ==   \* mutant
  IF p.trace = NoTrace \/ traceLastNode[p.trace] \in {NoNode, src} THEN {}
  ELSE {ChainEdge(src, traceLastNode[p.trace], p.trace)}
ChainEdges(p, src) ==
  IF p.trace = NoTrace \/ traceLastNode[p.trace] \in {NoNode, src} THEN {}
  ELSE {ChainEdge(traceLastNode[p.trace], src, p.trace)}

\* Edge e gets the data d; the edges of ids are added, without data, if new.
PutEdges(e, d, ids) ==
  [x \in DOMAIN activeEdges \cup ids \cup {e} |->
     IF x = e THEN d ELSE IF x \in DOMAIN activeEdges THEN activeEdges[x] ELSE NoData]

\* The nodes of the ends that were not found enter discoveredDbs.
DiscoveredDestOnly(src, source, dst, dest) == IF dst = NoNode THEN {dest} ELSE {}   \* mutant
Discovered(src, source, dst, dest) ==
  (IF src = NoNode THEN {source} ELSE {}) \cup (IF dst = NoNode THEN {dest} ELSE {})

KeepGraphCache == UNCHANGED <<graphCache, fresh>>   \* mutant
invalidateGraphCache ==
  /\ graphCache' = [k \in {} |-> EmptyGraph]
  /\ fresh' = {}

\* The rest of processTelemetry once the ends have been looked up, found as
\* src and dst, or as NoNode.  It reads the caches this step leaves behind.
Record(p, src, dst) ==
  LET source == Or(src, ClientNode(p))
      dest == Or(dst, OutsideNode(p))
      sourceSvc == ipToServiceCache'[p.src]
      destSvc == ipToServiceCache'[p.dst]
      called == IF NoNode \in {sourceSvc, destSvc} \/ sourceSvc = destSvc THEN {}
                ELSE {<<sourceSvc, destSvc>>}
      e == TrafficEdge(source, dest, p.port)
  IN /\ discoveredDbs' = discoveredDbs \cup Discovered(src, source, dst, dest)
     /\ serviceCallGraph' = serviceCallGraph \cup called
     /\ activeEdges' = PutEdges(e, [sourceService |-> sourceSvc, destService |-> destSvc],
                                ChainEdges(p, source))
     /\ traceLastNode' = IF p.trace = NoTrace THEN traceLastNode
                         ELSE [traceLastNode EXCEPT ![p.trace] = dest]
     /\ invalidateGraphCache

\* Traffic that is not shown: system traffic and the program's own.
Drop(h, p) ==
  /\ handlers[h].pc = "idle"
  /\ \/ Ignored(p)
     \/ ~Ignored(p) /\ {SourceOf(p), DestOf(p)} \cap OwnIds # {}
  /\ UNCHANGED <<podIp, inventory, graph, graphCache, fresh, canResolve, calls,
                 handlers, answer, alone>>

Shown(p) == ~Ignored(p) /\ {SourceOf(p), DestOf(p)} \cap OwnIds = {}

\* Both ends are known, or the resolver is pausing: no await that suspends.
RecordAtOnce(h, p) ==
  /\ handlers[h].pc = "idle"
  /\ Shown(p)
  /\ NoNode \in {SourceOf(p), DestOf(p)} => ~canResolve
  /\ UNCHANGED inventory
  /\ Record(p, SourceOf(p), DestOf(p))
  /\ UNCHANGED <<podIp, canResolve, calls, handlers, answer, alone>>

\* An end is unknown: ask the cluster, and remember what was found so far.
StartResolve(h, p) ==
  /\ handlers[h].pc = "idle"
  /\ Shown(p)
  /\ NoNode \in {SourceOf(p), DestOf(p)}
  /\ canResolve
  /\ canResolve' = FALSE
  /\ handlers' = [handlers EXCEPT ![h] = [pc |-> "services", payload |-> p,
                                          source |-> SourceOf(p), dest |-> DestOf(p)]]
  /\ alone' = {}
  /\ UNCHANGED <<podIp, inventory, graph, graphCache, fresh, calls, answer>>

\* The services are in.
ResolveServices(h) ==
  /\ handlers[h].pc = "services"
  /\ serviceIpCache' = [ip \in Ips |-> Or(ServiceAt(ip), serviceIpCache[ip])]
  /\ ipToServiceCache' = [ip \in Ips |-> Or(ServiceAt(ip), ipToServiceCache[ip])]
  /\ handlers' = [handlers EXCEPT ![h] =
       [pc |-> "asked", payload |-> handlers[h].payload, source |-> handlers[h].source,
        dest |-> handlers[h].dest]]
  /\ UNCHANGED <<podIp, podCache, ipToNamespaceCache, graph, graphCache, fresh,
                 canResolve, calls, answer, alone>>

\* The API server takes the pod listing that will be sent.
ApiListsPodsFor(h) ==
  /\ handlers[h].pc = "asked"
  /\ handlers' = [handlers EXCEPT ![h] =
       [pc |-> "pods", payload |-> handlers[h].payload, source |-> handlers[h].source,
        dest |-> handlers[h].dest, listing |-> podIp]]
  /\ UNCHANGED <<podIp, inventory, graph, graphCache, fresh, canResolve, calls,
                 answer, alone>>

\* The suspended call goes on: it looks again, and falls back on what it found
\* before it asked.
Resume(h) ==
  LET p == handlers[h].payload
      source == LookUpSource(ipToServiceCache', podCache', p)
      dest == LookUpDest(serviceIpCache', ipToServiceCache', podCache', p)
  IN /\ Record(p, Or(source, handlers[h].source), Or(dest, handlers[h].dest))
     /\ handlers' = [handlers EXCEPT ![h] = IdleHandler]

FinishResolve(h) ==
  /\ handlers[h].pc = "pods"
  /\ podCache' = [ip \in Ips |-> Or(PodAt(handlers[h].listing, ip), podCache[ip])]
  /\ UNCHANGED <<ipToServiceCache, serviceIpCache, ipToNamespaceCache>>
  /\ Resume(h)
  /\ UNCHANGED <<podIp, canResolve, calls, answer, alone>>

\* A listing fails or times out, twice: resolution pauses again, and the report
\* is recorded with what is known.
ResolveServicesFails(h) ==   \* mutant: only the first request has a timeout
  /\ handlers[h].pc = "services"
  /\ canResolve' = FALSE
  /\ UNCHANGED inventory
  /\ Resume(h)
  /\ UNCHANGED <<podIp, calls, answer, alone>>
ResolveFails(h) ==
  /\ handlers[h].pc # "idle"
  /\ canResolve' = FALSE
  /\ UNCHANGED inventory
  /\ Resume(h)
  /\ UNCHANGED <<podIp, calls, answer, alone>>

-----------------------------------------------------------------------------
GetGraphData(c) ==
  \/ RequestNothing(c)
  \/ \E k \in Selections : RequestCached(c, k) \/ RequestRefresh(c, k) \/ ConfigFails(c, k)
  \/ ApiListsPods(c)
  \/ FinishRefresh(c)
  \/ RefreshFails(c)
  \/ TakeAnswer(c)

ProcessTelemetry(h) ==
  \/ \E p \in Payloads : Drop(h, p) \/ RecordAtOnce(h, p) \/ StartResolve(h, p)
  \/ ResolveServices(h)
  \/ ApiListsPodsFor(h)
  \/ FinishResolve(h)
  \/ ResolveFails(h)

Environment ==
  \/ \E p \in Pods : PodStops(p) \/ \E ip \in PodIps : PodStarts(p, ip)
  \/ \E k \in Selections : SnapshotExpires(k)
  \/ ThrottleEnds

Next ==
  \/ \E c \in Calls : GetGraphData(c)
  \/ \E h \in Handlers : ProcessTelemetry(h)
  \/ Environment

Spec == Init /\ [][Next]_vars

\* resolveIpMappings bounds every request by a timeout, so a suspended report
\* goes on whatever the cluster does.  getGraphData has no timeout: a listing
\* may hang for ever, and nothing is assumed of it.
Fairness == \A h \in Handlers : WF_vars(ResolveFails(h))

FairSpec == Spec /\ Fairness

-----------------------------------------------------------------------------
(* Properties *)

Nodes == NodeIds \cup {NoNode}
Mapped == InventoryIds \cup {NoNode}
Traffic == {p \in Payloads : ~Ignored(p)}
EdgeType == [kind : {"t", "trace"}, source : NodeIds, target : NodeIds,
             key : Nat \cup Traces]
EdgeDataType == [sourceService : ServiceIds \cup {NoNode},
                 destService : ServiceIds \cup {NoNode}] \cup {NoData}

ListingType == [Pods -> PodIps \cup {NoIp}]
CallType == [pc : {"idle"}]
              \cup [pc : {"services"}, key : Selections]
              \cup [pc : {"pods"}, key : Selections, listing : ListingType]
HandlerType == [pc : {"idle"}]
                 \cup [pc : {"services", "asked"}, payload : Traffic,
                       source : Mapped, dest : Mapped]
                 \cup [pc : {"pods"}, payload : Traffic,
                       source : Mapped, dest : Mapped, listing : ListingType]

\* The types of the service's state; graphs are typed by SnapshotsCurrent.
TypeOK ==
  /\ podIp \in ListingType
  /\ podCache \in [Ips -> PodNodeIds \cup {NoNode}]
  /\ ipToServiceCache \in [Ips -> ServiceIds \cup {NoNode}]
  /\ serviceIpCache \in [Ips -> ServiceIds \cup {NoNode}]
  /\ ipToNamespaceCache \in [Ips -> Namespaces \cup {NoNs}]
  /\ discoveredDbs \subseteq OutsideIds
  /\ DOMAIN activeEdges \subseteq EdgeType
  /\ \A e \in DOMAIN activeEdges : activeEdges[e] \in EdgeDataType
  /\ serviceCallGraph \subseteq ServiceIds \X ServiceIds
  /\ traceLastNode \in [Traces -> Nodes]
  /\ fresh \subseteq Selections
  /\ canResolve \in BOOLEAN
  /\ calls \in [Calls -> CallType]
  /\ handlers \in [Handlers -> HandlerType]
  /\ DOMAIN answer \subseteq Calls
  /\ alone \subseteq Calls

\* Every snapshot that is kept, expired or not, shows the graph as it is now:
\* invalidateGraphCache comes with every change of activeEdges, and no refresh
\* suspended meanwhile puts an older graph back.
SnapshotsCurrent ==
  /\ fresh \subseteq DOMAIN graphCache
  /\ \A k \in DOMAIN graphCache :
       /\ graphCache[k].edges = activeEdges
       /\ DOMAIN graphCache[k].nodes = Endpoints(DOMAIN activeEdges)

\* The services an edge's details name are the nodes the edge connects, also
\* when the caches were cleared or refilled while the report was suspended.
DetailsMatchEnds ==
  \A e \in DOMAIN activeEdges : e.kind = "t" =>
    /\ activeEdges[e].sourceService \in {NoNode, e.source}
    /\ activeEdges[e].destService \in {NoNode, e.target}

\* serviceCallGraph never claims a call that no observed edge shows, so the
\* announcement of a new topology always has an edge to show.
CallsAreObserved ==
  \A call \in serviceCallGraph :
    \E e \in DOMAIN activeEdges : e.kind = "t" /\ e.source = call[1] /\ e.target = call[2]

\* A trace is last seen where an observed edge ends, and every link of a trace
\* leads from where an observed edge ends to where an observed edge starts:
\* chaining by trace id never reaches a node no report named.
TracesFollowEdges ==
  LET Observed == {e \in DOMAIN activeEdges : e.kind = "t"}
  IN /\ \A t \in Traces : traceLastNode[t] # NoNode =>
          \E e \in Observed : e.target = traceLastNode[t]
     /\ \A l \in DOMAIN activeEdges : l.kind = "trace" =>
          /\ l.source # l.target
          /\ \E e \in Observed : e.target = l.source
          /\ \E e \in Observed : e.source = l.target

\* The nodes outside the inventory that the graph shows are exactly those that
\* discoveredDbs can describe, so getGraphData never has to make one up.
OutsideNodesAreDescribed ==
  discoveredDbs = Endpoints(DOMAIN activeEdges) \ InventoryIds

\* A refresh that nothing else overlapped leaves its own listing in the caches
\* and nothing older: no address of a dead pod, no pod that has moved.
QuietRefreshIsExact ==
  [][\A c \in Calls :
       (calls[c].pc = "pods" /\ fresh' # fresh /\ calls'[c].pc = "idle" /\ c \in alone) =>
         \A ip \in Ips :
           /\ podCache'[ip] = PodAt(calls[c].listing, ip)
           /\ serviceIpCache'[ip] = ServiceAt(ip)
           /\ ipToServiceCache'[ip] = Or(OwnerAt(calls[c].listing, ip), ServiceAt(ip))
           /\ ipToNamespaceCache'[ip] = NamespaceAt(calls[c].listing, ip)]_vars

\* A report that waits for the cluster is always recorded in the end, even if
\* the cluster never answers.
ReportsAreRecorded ==
  \A h \in Handlers : handlers[h].pc # "idle" ~> handlers[h].pc = "idle"

(* What comments and documents say, and the code does not do *)

\* "Explicitly hide Kube Runtime Graph's own internal traffic" (the comment on
\* processTelemetry's test): no edge of the graph has the program's own service
\* or pod at an end.
HidesOwnTraffic == Endpoints(DOMAIN activeEdges) \cap OwnIds = {}

-----------------------------------------------------------------------------
\* The service implements GraphStore.
Store == INSTANCE GraphStore WITH edges <- activeEdges
ImplementsGraphStore == Store!Spec
=============================================================================
