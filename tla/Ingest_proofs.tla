----------------------------- MODULE Ingest_proofs -----------------------------
(* Theorems about the graph service, and about the ingestion, which is built on it,
   for every cluster, every set of reports, any number of overlapping calls and
   suspended reports, and any sizes of the store.

   The first part is about GraphService alone.  The second uses its invariant: a
   step of Ingest is a step of GraphService. *)
EXTENDS Ingest, SequenceEnds, TLAPS

(***************************************************************************)
(* Part 1: the graph service                                               *)
(***************************************************************************)

-----------------------------------------------------------------------------
(* What the helpers return *)

LEMMA OrType ==
  ASSUME NEW S, NEW a \in S \cup {NoNode}, NEW b \in S \cup {NoNode}
  PROVE  Or(a, b) \in S \cup {NoNode}
BY DEF Or

LEMMA ServiceAtType ==
  ASSUME NEW ip
  PROVE  ServiceAt(ip) \in ServiceIds \cup {NoNode}
BY DEF ServiceAt, ServiceIds

LEMMA OwnerAtType ==
  ASSUME NEW listing, NEW ip
  PROVE  OwnerAt(listing, ip) \in ServiceIds \cup {NoNode}
BY DEF OwnerAt, getServiceForPod, ServiceIds

LEMMA PodAtType ==
  ASSUME NEW listing, NEW ip
  PROVE  PodAt(listing, ip) \in PodNodeIds \cup {NoNode}
<1>1. CASE PodsAt(listing, ip) = {}
  BY <1>1 DEF PodAt
<1>2. CASE PodsAt(listing, ip) # {}
  <2>1. PICK q \in PodsAt(listing, ip) : TRUE
    BY <1>2
  <2>2. (CHOOSE p \in PodsAt(listing, ip) : TRUE) \in Pods
    BY <2>1 DEF PodsAt
  <2>3. QED
    BY <2>2, <1>2 DEF PodAt, PodNodeIds
<1>3. QED
  BY <1>1, <1>2

LEMMA NamespaceAtType ==
  ASSUME NEW listing, NEW ip
  PROVE  NamespaceAt(listing, ip) \in Namespaces \cup {NoNs}
<1>1. CASE PodsAt(listing, ip) # {}
  <2>1. PICK q \in PodsAt(listing, ip) : TRUE
    BY <1>1
  <2>2. (CHOOSE p \in PodsAt(listing, ip) : TRUE) \in Pods
    BY <2>1 DEF PodsAt
  <2>3. QED
    BY <2>2, <1>1, InventoryAssumption DEF NamespaceAt
<1>2. CASE PodsAt(listing, ip) = {}
  BY <1>2, InventoryAssumption DEF NamespaceAt
<1>3. QED
  BY <1>1, <1>2

\* The caches that the reports are looked up in.
CacheType(svcs, owners, pods) ==
  /\ svcs \in [Ips -> ServiceIds \cup {NoNode}]
  /\ owners \in [Ips -> ServiceIds \cup {NoNode}]
  /\ pods \in [Ips -> PodNodeIds \cup {NoNode}]

LEMMA TrafficType ==
  ASSUME NEW p \in Traffic
  PROVE  /\ p \in PayloadType
         /\ p.src \in Ips
         /\ p.dst \in Ips
BY PayloadAssumption DEF Traffic, Ignored, PayloadType

LEMMA LookUpType ==
  ASSUME NEW svcs, NEW owners, NEW pods, CacheType(svcs, owners, pods),
         NEW p \in Traffic
  PROVE  /\ LookUpSource(owners, pods, p) \in Mapped
         /\ LookUpDest(svcs, owners, pods, p) \in Mapped
BY TrafficType DEF CacheType, LookUpSource, LookUpDest, Or, Mapped, InventoryIds

LEMMA OutsideType ==
  ASSUME NEW p \in Traffic
  PROVE  /\ ClientNode(p) \in OutsideIds
         /\ OutsideNode(p) \in OutsideIds
<1>1. p.dst \in Ips
  BY TrafficType
<1>2. \A en \in Engines : DbId(en, p.dst) \in OutsideIds
  BY <1>1 DEF OutsideIds
<1>3. ExtId(p.dst) \in OutsideIds
  BY <1>1 DEF OutsideIds
<1>4. OutsideNode(p) \in OutsideIds
  BY <1>2, <1>3 DEF OutsideNode, Engines
<1>5. ClientNode(p) \in OutsideIds
  BY DEF ClientNode, OutsideIds
<1>6. QED
  BY <1>4, <1>5

-----------------------------------------------------------------------------
(* Type correctness *)

\* The part of TypeOK that recording a report touches.
GraphTypeOK ==
  /\ discoveredDbs \subseteq OutsideIds
  /\ DOMAIN activeEdges \subseteq EdgeType
  /\ \A e \in DOMAIN activeEdges : activeEdges[e] \in EdgeDataType
  /\ serviceCallGraph \subseteq ServiceIds \X ServiceIds
  /\ traceLastNode \in [Traces -> Nodes]
  /\ fresh \subseteq Selections

\* The ends of a recorded edge.
LEMMA EndsType ==
  ASSUME NEW p \in Traffic, NEW src \in Mapped, NEW dst \in Mapped
  PROVE  /\ Or(src, ClientNode(p)) \in NodeIds
         /\ Or(dst, OutsideNode(p)) \in NodeIds
BY OutsideType DEF Or, Mapped, NodeIds

LEMMA RecordType ==
  ASSUME TypeOK, NEW p \in Traffic, NEW src \in Mapped, NEW dst \in Mapped,
         ipToServiceCache' \in [Ips -> ServiceIds \cup {NoNode}],
         Record(p, src, dst)
  PROVE  GraphTypeOK'
<1> DEFINE source == Or(src, ClientNode(p))
           dest == Or(dst, OutsideNode(p))
           e == TrafficEdge(source, dest, p.port)
           d == [sourceService |-> ipToServiceCache'[p.src],
                 destService |-> ipToServiceCache'[p.dst]]
           links == ChainEdges(p, source)
<1>1. p.src \in Ips /\ p.dst \in Ips /\ p.port \in Nat /\ p.trace \in Traces \cup {NoTrace}
  BY TrafficType DEF PayloadType
<1>2. source \in NodeIds /\ dest \in NodeIds
  BY EndsType
<1>3. discoveredDbs' \subseteq OutsideIds
  BY OutsideType DEF TypeOK, Record, Discovered, Or
<1>4. serviceCallGraph' \subseteq ServiceIds \X ServiceIds
  BY <1>1 DEF TypeOK, Record
<1>5. traceLastNode' \in [Traces -> Nodes]
  BY <1>1, <1>2 DEF TypeOK, Record, Nodes
<1>6. e \in EdgeType
  BY <1>1, <1>2 DEF TrafficEdge, EdgeType
<1>7. links \subseteq EdgeType
  <2>1. CASE p.trace = NoTrace \/ traceLastNode[p.trace] \in {NoNode, source}
    BY <2>1 DEF ChainEdges
  <2>2. CASE ~(p.trace = NoTrace \/ traceLastNode[p.trace] \in {NoNode, source})
    <3>1. p.trace \in Traces /\ traceLastNode[p.trace] \in NodeIds
      BY <1>1, <2>2 DEF TypeOK, Nodes
    <3>2. QED
      BY <2>2, <3>1, <1>2 DEF ChainEdges, ChainEdge, EdgeType
  <2>3. QED
    BY <2>1, <2>2
<1>8. d \in EdgeDataType
  BY <1>1 DEF EdgeDataType
<1>9. activeEdges' = PutEdges(e, d, links)
  BY DEF Record
<1>10. DOMAIN activeEdges' = DOMAIN activeEdges \cup links \cup {e}
  BY <1>9 DEF PutEdges
<1>11. DOMAIN activeEdges' \subseteq EdgeType
  BY <1>6, <1>7, <1>10 DEF TypeOK
<1>12. \A x \in DOMAIN activeEdges' : activeEdges'[x] \in EdgeDataType
  BY <1>8, <1>9, <1>10 DEF PutEdges, TypeOK, EdgeDataType
<1>13. fresh' \subseteq Selections
  BY DEF Record, invalidateGraphCache
<1>14. QED
  BY <1>3, <1>4, <1>5, <1>11, <1>12, <1>13 DEF GraphTypeOK

LEMMA PlacementType == Placements \subseteq ListingType
BY DEF Placements, ListingType

LEMMA InitType == Init => TypeOK
BY PlacementType, AddressAssumption
   DEF Init, TypeOK, NoMapping, CallType, HandlerType, IdleCall, IdleHandler, Nodes

\* Recording changes neither the caches nor the calls.
LEMMA ResumeType ==
  ASSUME TypeOK, NEW h \in Handlers, handlers[h].pc # "idle", Resume(h),
         CacheType(serviceIpCache', ipToServiceCache', podCache')
  PROVE  /\ GraphTypeOK'
         /\ handlers' \in [Handlers -> HandlerType]
<1> DEFINE p == handlers[h].payload
           src == Or(LookUpSource(ipToServiceCache', podCache', p), handlers[h].source)
           dst == Or(LookUpDest(serviceIpCache', ipToServiceCache', podCache', p), handlers[h].dest)
<1>1. p \in Traffic /\ handlers[h].source \in Mapped /\ handlers[h].dest \in Mapped
  BY DEF TypeOK, HandlerType
<1>2. /\ LookUpSource(ipToServiceCache', podCache', p) \in Mapped
      /\ LookUpDest(serviceIpCache', ipToServiceCache', podCache', p) \in Mapped
  BY <1>1, LookUpType
<1>3. src \in Mapped /\ dst \in Mapped
  BY <1>1, <1>2 DEF Or
<1>4. Record(p, src, dst)
  BY DEF Resume
<1>5. ipToServiceCache' \in [Ips -> ServiceIds \cup {NoNode}]
  BY DEF CacheType
<1>6. GraphTypeOK'
  <2> HIDE DEF p, src, dst
  <2> QED
    BY <1>1, <1>3, <1>4, <1>5, RecordType
<1>7. handlers' \in [Handlers -> HandlerType]
  BY DEF Resume, TypeOK, HandlerType, IdleHandler
<1>8. QED
  BY <1>6, <1>7

LEMMA FillType ==
  ASSUME TypeOK, NEW listing, FillCaches(listing)
  PROVE  /\ CacheType(serviceIpCache', ipToServiceCache', podCache')
         /\ ipToNamespaceCache' \in [Ips -> Namespaces \cup {NoNs}]
<1>1. serviceIpCache' \in [Ips -> ServiceIds \cup {NoNode}]
  BY ServiceAtType DEF TypeOK, FillCaches, Or
<1>2. ipToServiceCache' \in [Ips -> ServiceIds \cup {NoNode}]
  BY ServiceAtType, OwnerAtType DEF TypeOK, FillCaches, Or
<1>3. podCache' \in [Ips -> PodNodeIds \cup {NoNode}]
  BY PodAtType DEF TypeOK, FillCaches, Or
<1>4. ipToNamespaceCache' \in [Ips -> Namespaces \cup {NoNs}]
  BY NamespaceAtType DEF TypeOK, FillCaches
<1>5. QED
  BY <1>1, <1>2, <1>3, <1>4 DEF CacheType

\* Steps of getGraphData that only answer.
LEMMA ReplyType ==
  ASSUME TypeOK, NEW c \in Calls, NEW g, Reply(c, g),
         UNCHANGED <<podIp, inventory, graph, canResolve, handlers>>,
         fresh' \subseteq Selections
  PROVE  TypeOK'
BY DEF TypeOK, Reply, Put, CallType, IdleCall, inventory, graph

LEMMA CallsStepType ==
  ASSUME TypeOK, NEW c \in Calls, GetGraphData(c)
  PROVE  TypeOK'
<1>1. CASE RequestNothing(c)
  BY <1>1, ReplyType DEF RequestNothing, TypeOK
<1>2. ASSUME NEW k \in Selections, RequestCached(c, k)
      PROVE  TypeOK'
  BY <1>2, ReplyType DEF RequestCached, TypeOK
<1>3. ASSUME NEW k \in Selections, ConfigFails(c, k)
      PROVE  TypeOK'
  BY <1>3, ReplyType DEF ConfigFails, TypeOK
<1>4. ASSUME NEW k \in Selections, RequestRefresh(c, k)
      PROVE  TypeOK'
  <2>1. calls' \in [Calls -> CallType] /\ alone' \subseteq Calls
    BY <1>4 DEF RequestRefresh, TypeOK, CallType
  <2>2. CacheType(serviceIpCache', ipToServiceCache', podCache')
    BY <1>4 DEF RequestRefresh, ClearCaches, NoMapping, CacheType
  <2>3. ipToNamespaceCache' \in [Ips -> Namespaces \cup {NoNs}]
    BY <1>4 DEF RequestRefresh, ClearCaches
  <2>4. QED
    BY <1>4, <2>1, <2>2, <2>3 DEF RequestRefresh, TypeOK, CacheType, graph
<1>5. CASE ApiListsPods(c)
  <2>1. calls' \in [Calls -> CallType]
    BY <1>5 DEF ApiListsPods, TypeOK, CallType
  <2>2. QED
    BY <1>5, <2>1 DEF ApiListsPods, TypeOK, inventory, graph
<1>6. CASE FinishRefresh(c)
  <2>1. /\ CacheType(serviceIpCache', ipToServiceCache', podCache')
        /\ ipToNamespaceCache' \in [Ips -> Namespaces \cup {NoNs}]
    BY <1>6, FillType DEF FinishRefresh
  <2>2. fresh' \subseteq Selections
    BY <1>6 DEF FinishRefresh, TypeOK, CallType
  <2>3. calls' \in [Calls -> CallType] /\ DOMAIN answer' \subseteq Calls /\ alone' \subseteq Calls
    BY <1>6 DEF FinishRefresh, Reply, Put, TypeOK, CallType, IdleCall
  <2>4. QED
    BY <1>6, <2>1, <2>2, <2>3 DEF FinishRefresh, TypeOK, CacheType, graph
<1>7. CASE RefreshFails(c)
  BY <1>7, ReplyType DEF RefreshFails, TypeOK
<1>8. CASE TakeAnswer(c)
  BY <1>8 DEF TakeAnswer, Delete, TypeOK, inventory, graph
<1>9. QED
  BY <1>1, <1>2, <1>3, <1>4, <1>5, <1>6, <1>7, <1>8 DEF GetGraphData

LEMMA HandlersStepType ==
  ASSUME TypeOK, NEW h \in Handlers, ProcessTelemetry(h)
  PROVE  TypeOK'
<1> DEFINE Caches == CacheType(serviceIpCache, ipToServiceCache, podCache)
<1>0. Caches
  BY DEF TypeOK, CacheType
<1>1. ASSUME NEW p \in Payloads, Drop(h, p)
      PROVE  TypeOK'
  BY <1>1 DEF Drop, TypeOK, inventory, graph
<1>2. ASSUME NEW p \in Payloads, Shown(p)
      PROVE  p \in Traffic /\ SourceOf(p) \in Mapped /\ DestOf(p) \in Mapped
  <2>1. p \in Traffic
    BY <1>2 DEF Shown, Traffic
  <2>2. QED
    BY <2>1, <1>0, LookUpType DEF SourceOf, DestOf
<1>3. ASSUME NEW p \in Payloads, RecordAtOnce(h, p)
      PROVE  TypeOK'
  <2>1. p \in Traffic /\ SourceOf(p) \in Mapped /\ DestOf(p) \in Mapped
    BY <1>2, <1>3 DEF RecordAtOnce
  <2>2. GraphTypeOK'
    BY <1>3, <2>1, RecordType DEF RecordAtOnce, TypeOK, inventory
  <2>3. QED
    BY <1>3, <2>2 DEF RecordAtOnce, TypeOK, GraphTypeOK, inventory
<1>4. ASSUME NEW p \in Payloads, StartResolve(h, p)
      PROVE  TypeOK'
  <2>1. p \in Traffic /\ SourceOf(p) \in Mapped /\ DestOf(p) \in Mapped
    BY <1>2, <1>4 DEF StartResolve
  <2>2. handlers' \in [Handlers -> HandlerType]
    BY <1>4, <2>1 DEF StartResolve, TypeOK, HandlerType
  <2>3. QED
    BY <1>4, <2>2 DEF StartResolve, TypeOK, inventory, graph
<1>5. CASE ResolveServices(h)
  <2>1. CacheType(serviceIpCache', ipToServiceCache', podCache')
    BY <1>5, ServiceAtType DEF ResolveServices, TypeOK, CacheType, Or
  <2>2. handlers' \in [Handlers -> HandlerType]
    BY <1>5 DEF ResolveServices, TypeOK, HandlerType
  <2>3. QED
    BY <1>5, <2>1, <2>2 DEF ResolveServices, TypeOK, CacheType, graph
<1>6. CASE ApiListsPodsFor(h)
  <2>1. handlers' \in [Handlers -> HandlerType]
    BY <1>6 DEF ApiListsPodsFor, TypeOK, HandlerType
  <2>2. QED
    BY <1>6, <2>1 DEF ApiListsPodsFor, TypeOK, inventory, graph
<1>7. CASE FinishResolve(h)
  <2>1. CacheType(serviceIpCache', ipToServiceCache', podCache')
    BY <1>7, PodAtType DEF FinishResolve, TypeOK, CacheType, Or
  <2>2. GraphTypeOK' /\ handlers' \in [Handlers -> HandlerType]
    BY <1>7, <2>1, ResumeType DEF FinishResolve
  <2>3. QED
    BY <1>7, <2>1, <2>2 DEF FinishResolve, TypeOK, CacheType, GraphTypeOK
<1>8. CASE ResolveFails(h)
  <2>1. CacheType(serviceIpCache', ipToServiceCache', podCache')
    BY <1>0, <1>8 DEF ResolveFails, inventory
  <2>2. GraphTypeOK' /\ handlers' \in [Handlers -> HandlerType]
    BY <1>8, <2>1, ResumeType DEF ResolveFails
  <2>3. QED
    BY <1>8, <2>2 DEF ResolveFails, TypeOK, GraphTypeOK, inventory
<1>9. QED
  BY <1>1, <1>3, <1>4, <1>5, <1>6, <1>7, <1>8 DEF ProcessTelemetry

LEMMA EnvironmentStepType ==
  ASSUME TypeOK, Environment
  PROVE  TypeOK'
<1>1. ASSUME NEW p \in Pods, PodStops(p)
      PROVE  TypeOK'
  BY <1>1 DEF PodStops, TypeOK, ListingType, inventory, graph
<1>2. ASSUME NEW p \in Pods, NEW ip \in PodIps, PodStarts(p, ip)
      PROVE  TypeOK'
  BY <1>2 DEF PodStarts, TypeOK, ListingType, inventory, graph
<1>3. ASSUME NEW k \in Selections, SnapshotExpires(k)
      PROVE  TypeOK'
  BY <1>3 DEF SnapshotExpires, TypeOK, inventory, graph
<1>4. CASE ThrottleEnds
  BY <1>4 DEF ThrottleEnds, TypeOK, inventory, graph
<1>5. QED
  BY <1>1, <1>2, <1>3, <1>4 DEF Environment

LEMMA TypeStep ==
  ASSUME TypeOK, [Next]_vars
  PROVE  TypeOK'
<1>1. CASE UNCHANGED vars
  BY <1>1 DEF vars, TypeOK, inventory, graph
<1>2. QED
  BY <1>1, CallsStepType, HandlersStepType, EnvironmentStepType DEF Next

\* The service's state always has its types, in particular what is kept of a
\* suspended call.
THEOREM TypeCorrect == Spec => []TypeOK
<1>1. TypeOK /\ [Next]_vars => TypeOK'
  BY TypeStep
<1>2. QED
  BY <1>1, InitType, PTL DEF Spec

-----------------------------------------------------------------------------
(* Service addresses *)

\* The address of a service is never a pod's, so a listing of the pods cannot
\* give it an owner.
LEMMA ServiceAddress ==
  ASSUME NEW listing \in ListingType, NEW ip \in Ips, ServiceAt(ip) # NoNode
  PROVE  OwnerAt(listing, ip) = NoNode
<1>1. PICK s \in Services : ip \in SvcIps[s]
  BY DEF ServiceAt
<1>2. ip \notin PodIps /\ ip # NoIp
  BY <1>1, AddressAssumption
<1>3. PodsAt(listing, ip) = {}
  BY <1>2 DEF PodsAt, ListingType
<1>4. QED
  BY <1>3 DEF OwnerAt

\* What serviceIpCache knows of an address is what the listing says, and
\* ipToServiceCache agrees with it.
CachesAgree ==
  \A ip \in Ips : serviceIpCache[ip] # NoNode =>
    /\ serviceIpCache[ip] = ServiceAt(ip)
    /\ ipToServiceCache[ip] = ServiceAt(ip)

LEMMA CachesAgreeStep ==
  ASSUME TypeOK, CachesAgree, [Next]_vars
  PROVE  CachesAgree'
<1>1. CASE UNCHANGED <<serviceIpCache, ipToServiceCache>>
  BY <1>1 DEF CachesAgree
<1>2. ASSUME NEW c \in Calls, GetGraphData(c)
      PROVE  CachesAgree'
  <2>1. ASSUME NEW k \in Selections, RequestRefresh(c, k)
        PROVE  CachesAgree'
    BY <2>1 DEF RequestRefresh, ClearCaches, NoMapping, CachesAgree
  <2>2. CASE FinishRefresh(c)
    <3>1. calls[c].listing \in ListingType
      BY <2>2 DEF FinishRefresh, TypeOK, CallType
    <3>2. ASSUME NEW ip \in Ips, serviceIpCache'[ip] # NoNode
          PROVE  serviceIpCache'[ip] = ServiceAt(ip) /\ ipToServiceCache'[ip] = ServiceAt(ip)
      <4>1. ServiceAt(ip) # NoNode
        BY <2>2, <3>2 DEF FinishRefresh, FillCaches, Or, CachesAgree
      <4>2. OwnerAt(calls[c].listing, ip) = NoNode
        BY <3>1, <4>1, ServiceAddress
      <4>3. QED
        BY <2>2, <4>1, <4>2 DEF FinishRefresh, FillCaches, Or
    <3>3. QED
      BY <3>2 DEF CachesAgree
  <2>3. QED
    BY <1>1, <1>2, <2>1, <2>2 DEF GetGraphData, RequestNothing, RequestCached, ConfigFails,
       ApiListsPods, RefreshFails, TakeAnswer, inventory
<1>3. ASSUME NEW h \in Handlers, ProcessTelemetry(h)
      PROVE  CachesAgree'
  <2>1. CASE ResolveServices(h)
    BY <2>1 DEF ResolveServices, CachesAgree, Or
  <2>2. QED
    BY <1>1, <1>3, <2>1 DEF ProcessTelemetry, Drop, RecordAtOnce, StartResolve,
       ApiListsPodsFor, FinishResolve, ResolveFails, inventory
<1>4. CASE Environment
  BY <1>1, <1>4 DEF Environment, PodStops, PodStarts, SnapshotExpires, ThrottleEnds, inventory
<1>5. CASE UNCHANGED vars
  BY <1>1, <1>5 DEF vars, inventory
<1>6. QED
  BY <1>2, <1>3, <1>4, <1>5 DEF Next

-----------------------------------------------------------------------------
(* What a step does to the graph *)

\* The ends found for a report agree with the services its details name.
Grounded(p, src, dst) ==
  /\ ipToServiceCache'[p.src] # NoNode => src = ipToServiceCache'[p.src]
  /\ ipToServiceCache'[p.dst] # NoNode => dst = ipToServiceCache'[p.dst]

\* Some report is recorded in this step.
Records ==
  \E p \in Traffic : \E src, dst \in Mapped :
    Record(p, src, dst) /\ Grounded(p, src, dst) /\ UNCHANGED answer

LEMMA LookUpGrounded ==
  ASSUME CachesAgree', CacheType(serviceIpCache', ipToServiceCache', podCache'),
         NEW p \in Traffic, NEW oldSrc, NEW oldDst
  PROVE  Grounded(p, Or(LookUpSource(ipToServiceCache', podCache', p), oldSrc),
                     Or(LookUpDest(serviceIpCache', ipToServiceCache', podCache', p), oldDst))
BY TrafficType DEF CachesAgree, Grounded, LookUpSource, LookUpDest, Or

LEMMA GraphStep ==
  ASSUME TypeOK, TypeOK', CachesAgree', [Next]_vars
  PROVE  \/ UNCHANGED <<discoveredDbs, activeEdges, serviceCallGraph, traceLastNode>>
         \/ Records
<1> DEFINE Same == UNCHANGED <<discoveredDbs, activeEdges, serviceCallGraph, traceLastNode>>
<1>0. /\ CacheType(serviceIpCache, ipToServiceCache, podCache)
      /\ CacheType(serviceIpCache', ipToServiceCache', podCache')
  BY DEF TypeOK, CacheType
<1>1. ASSUME NEW c \in Calls, GetGraphData(c)
      PROVE  Same
  BY <1>1 DEF GetGraphData, RequestNothing, RequestCached, RequestRefresh, ConfigFails,
     ApiListsPods, FinishRefresh, RefreshFails, TakeAnswer, graph
<1>2. ASSUME NEW h \in Handlers, NEW p \in Payloads, RecordAtOnce(h, p)
      PROVE  Records
  <2>1. p \in Traffic
    BY <1>2 DEF RecordAtOnce, Shown, Traffic
  <2>2. SourceOf(p) \in Mapped /\ DestOf(p) \in Mapped
    BY <1>0, <2>1, LookUpType DEF SourceOf, DestOf
  <2>3. Grounded(p, SourceOf(p), DestOf(p))
    BY <1>2, <2>1, TrafficType
       DEF RecordAtOnce, inventory, CachesAgree, Grounded, SourceOf, DestOf,
           LookUpSource, LookUpDest, Or
  <2>4. QED
    BY <1>2, <2>1, <2>2, <2>3 DEF RecordAtOnce, Records
<1>3. ASSUME NEW h \in Handlers, handlers[h].pc # "idle", Resume(h), UNCHANGED answer
      PROVE  Records
  <2> DEFINE p == handlers[h].payload
             src == Or(LookUpSource(ipToServiceCache', podCache', p), handlers[h].source)
             dst == Or(LookUpDest(serviceIpCache', ipToServiceCache', podCache', p), handlers[h].dest)
  <2>1. p \in Traffic /\ handlers[h].source \in Mapped /\ handlers[h].dest \in Mapped
    BY <1>3 DEF TypeOK, HandlerType
  <2>2. src \in Mapped /\ dst \in Mapped
    <3>1. /\ LookUpSource(ipToServiceCache', podCache', p) \in Mapped
          /\ LookUpDest(serviceIpCache', ipToServiceCache', podCache', p) \in Mapped
      BY <1>0, <2>1, LookUpType
    <3>2. QED
      BY <2>1, <3>1 DEF Or
  <2>3. Grounded(p, src, dst)
    BY <1>0, <2>1, LookUpGrounded
  <2>4. Record(p, src, dst)
    BY <1>3 DEF Resume
  <2> HIDE DEF p, src, dst
  <2>5. QED
    BY <1>3, <2>1, <2>2, <2>3, <2>4 DEF Records
<1>4. ASSUME NEW h \in Handlers, ProcessTelemetry(h)
      PROVE  Same \/ Records
  <2>1. CASE FinishResolve(h) \/ ResolveFails(h)
    BY <1>3, <2>1 DEF FinishResolve, ResolveFails
  <2>2. QED
    BY <1>2, <1>4, <2>1 DEF ProcessTelemetry, Drop, StartResolve, ResolveServices,
       ApiListsPodsFor, graph
<1>5. CASE Environment
  BY <1>5 DEF Environment, PodStops, PodStarts, SnapshotExpires, ThrottleEnds, graph
<1>6. CASE UNCHANGED vars
  BY <1>6 DEF vars, graph
<1>7. QED
  BY <1>1, <1>4, <1>5, <1>6 DEF Next

-----------------------------------------------------------------------------
(* The edges a report adds *)

\* A report p, found to come from src and to go to dst, is recorded as edge e
\* from source to dest.
RecordedAs(p, src, dst, source, dest, e) ==
  /\ source = Or(src, ClientNode(p))
  /\ dest = Or(dst, OutsideNode(p))
  /\ e.kind = "t" /\ e.source = source /\ e.target = dest
  /\ DOMAIN activeEdges' = DOMAIN activeEdges \cup ChainEdges(p, source) \cup {e}
  /\ activeEdges'[e] = [sourceService |-> ipToServiceCache'[p.src],
                        destService |-> ipToServiceCache'[p.dst]]
  /\ \A x \in DOMAIN activeEdges : x # e => activeEdges'[x] = activeEdges[x]
  /\ \A l \in ChainEdges(p, source) :
       /\ l.kind = "trace" /\ l.target = source /\ l.source # source
       /\ p.trace \in Traces /\ l.source = traceLastNode[p.trace]
       /\ traceLastNode[p.trace] # NoNode
  /\ traceLastNode' = IF p.trace = NoTrace THEN traceLastNode
                      ELSE [traceLastNode EXCEPT ![p.trace] = dest]

LEMMA RecordEdges ==
  ASSUME NEW p \in Traffic, NEW src, NEW dst, Record(p, src, dst)
  PROVE  \E source, dest, e : RecordedAs(p, src, dst, source, dest, e)
<1> DEFINE source == Or(src, ClientNode(p))
           dest == Or(dst, OutsideNode(p))
           e == TrafficEdge(source, dest, p.port)
           d == [sourceService |-> ipToServiceCache'[p.src],
                 destService |-> ipToServiceCache'[p.dst]]
<1>1. activeEdges' = PutEdges(e, d, ChainEdges(p, source))
  BY DEF Record
<1>2. e.kind = "t" /\ e.source = source /\ e.target = dest
  BY DEF TrafficEdge
<1>3. p.trace \in Traces \cup {NoTrace}
  BY TrafficType DEF PayloadType
<1>4. \A l \in ChainEdges(p, source) :
        /\ l.kind = "trace" /\ l.target = source /\ l.source # source
        /\ p.trace \in Traces /\ l.source = traceLastNode[p.trace]
        /\ traceLastNode[p.trace] # NoNode
  BY <1>3 DEF ChainEdges, ChainEdge
<1>5. /\ DOMAIN activeEdges' = DOMAIN activeEdges \cup ChainEdges(p, source) \cup {e}
      /\ activeEdges'[e] = d
      /\ \A x \in DOMAIN activeEdges : x # e => activeEdges'[x] = activeEdges[x]
  BY <1>1 DEF PutEdges
<1>6. RecordedAs(p, src, dst, source, dest, e)
  BY <1>2, <1>4, <1>5 DEF Record, RecordedAs
<1>7. QED
  BY <1>6

-----------------------------------------------------------------------------
(* The inductive invariant and its parts *)

LEMMA SnapshotsCurrentStep ==
  ASSUME TypeOK, SnapshotsCurrent, [Next]_vars
  PROVE  SnapshotsCurrent'
<1>1. ASSUME UNCHANGED <<activeEdges, graphCache>>, fresh' \subseteq fresh
      PROVE  SnapshotsCurrent'
  BY <1>1 DEF SnapshotsCurrent
<1>2. ASSUME NEW p, NEW src, NEW dst, Record(p, src, dst)
      PROVE  SnapshotsCurrent'
  BY <1>2 DEF Record, invalidateGraphCache, SnapshotsCurrent
<1>3. ASSUME NEW c \in Calls, GetGraphData(c)
      PROVE  SnapshotsCurrent'
  <2>1. CASE FinishRefresh(c)
    BY <2>1 DEF FinishRefresh, BuildGraph, Put, SnapshotsCurrent, graph
  <2>2. QED
    BY <1>1, <1>3, <2>1 DEF GetGraphData, RequestNothing, RequestCached, RequestRefresh,
       ConfigFails, ApiListsPods, RefreshFails, TakeAnswer, graph
<1>4. ASSUME NEW h \in Handlers, ProcessTelemetry(h)
      PROVE  SnapshotsCurrent'
  <2>1. ASSUME NEW p \in Payloads, RecordAtOnce(h, p)
        PROVE  SnapshotsCurrent'
    BY <1>2, <2>1 DEF RecordAtOnce
  <2>2. CASE FinishResolve(h) \/ ResolveFails(h)
    BY <1>2, <2>2 DEF FinishResolve, ResolveFails, Resume
  <2>3. QED
    BY <1>1, <1>4, <2>1, <2>2 DEF ProcessTelemetry, Drop, StartResolve, ResolveServices,
       ApiListsPodsFor, graph
<1>5. CASE Environment
  BY <1>1, <1>5 DEF Environment, PodStops, PodStarts, SnapshotExpires, ThrottleEnds, graph
<1>6. CASE UNCHANGED vars
  BY <1>1, <1>6 DEF vars, graph
<1>7. QED
  BY <1>3, <1>4, <1>5, <1>6 DEF Next

\* A call that is suspended has not been answered.
PendingUnanswered ==
  \A c \in Calls : calls[c].pc # "idle" => c \notin DOMAIN answer

LEMMA PendingStep ==
  ASSUME TypeOK, PendingUnanswered, [Next]_vars
  PROVE  PendingUnanswered'
<1>1. ASSUME UNCHANGED <<calls, answer>>
      PROVE  PendingUnanswered'
  BY <1>1 DEF PendingUnanswered
<1>2. ASSUME NEW c \in Calls, NEW g, Reply(c, g)
      PROVE  PendingUnanswered'
  BY <1>2 DEF Reply, Put, IdleCall, TypeOK, PendingUnanswered
<1>3. ASSUME NEW c \in Calls, GetGraphData(c)
      PROVE  PendingUnanswered'
  <2>1. CASE TakeAnswer(c)
    BY <2>1 DEF TakeAnswer, Delete, PendingUnanswered
  <2>2. CASE ApiListsPods(c)
    BY <2>2 DEF ApiListsPods, TypeOK, PendingUnanswered
  <2>3. ASSUME NEW k \in Selections, RequestRefresh(c, k)
        PROVE  PendingUnanswered'
    BY <2>3 DEF RequestRefresh, TypeOK, PendingUnanswered
  <2>4. QED
    BY <1>2, <1>3, <2>1, <2>2, <2>3 DEF GetGraphData, RequestNothing, RequestCached,
       ConfigFails, FinishRefresh, RefreshFails
<1>4. ASSUME NEW h \in Handlers, ProcessTelemetry(h)
      PROVE  PendingUnanswered'
  BY <1>1, <1>4 DEF ProcessTelemetry, Drop, RecordAtOnce, StartResolve, ResolveServices,
     ApiListsPodsFor, FinishResolve, ResolveFails
<1>5. CASE Environment \/ UNCHANGED vars
  BY <1>1, <1>5 DEF Environment, PodStops, PodStarts, SnapshotExpires, ThrottleEnds, vars
<1>6. QED
  BY <1>3, <1>4, <1>5 DEF Next

LEMMA TracesStep ==
  ASSUME TypeOK, TracesFollowEdges,
         \/ UNCHANGED <<discoveredDbs, activeEdges, serviceCallGraph, traceLastNode>>
         \/ Records
  PROVE  TracesFollowEdges'
<1>1. CASE UNCHANGED <<discoveredDbs, activeEdges, serviceCallGraph, traceLastNode>>
  BY <1>1 DEF TracesFollowEdges
<1>2. CASE Records
  <2>1. PICK p \in Traffic : \E src, dst \in Mapped : Record(p, src, dst)
    BY <1>2 DEF Records
  <2>2. PICK src \in Mapped, dst \in Mapped : Record(p, src, dst)
    BY <2>1
  <2>3. PICK source, dest, e : RecordedAs(p, src, dst, source, dest, e)
    BY <2>2, RecordEdges
  <2>4. ASSUME NEW t \in Traces, traceLastNode'[t] # NoNode
        PROVE  \E x \in DOMAIN activeEdges' : x.kind = "t" /\ x.target = traceLastNode'[t]
    <3>1. CASE t = p.trace /\ t # NoTrace
      BY <2>3, <3>1 DEF TypeOK, RecordedAs
    <3>2. CASE ~(t = p.trace /\ t # NoTrace)
      BY <2>3, <2>4, <3>2 DEF TypeOK, TracesFollowEdges, RecordedAs
    <3>3. QED
      BY <3>1, <3>2
  <2>5. ASSUME NEW l \in DOMAIN activeEdges', l.kind = "trace"
        PROVE  /\ l.source # l.target
               /\ \E x \in DOMAIN activeEdges' : x.kind = "t" /\ x.target = l.source
               /\ \E x \in DOMAIN activeEdges' : x.kind = "t" /\ x.source = l.target
    <3>1. CASE l \in DOMAIN activeEdges
      BY <2>3, <2>5, <3>1 DEF TracesFollowEdges, RecordedAs
    <3>2. CASE l \in ChainEdges(p, source)
      <4>1. \E x \in DOMAIN activeEdges : x.kind = "t" /\ x.target = l.source
        BY <2>3, <3>2 DEF TracesFollowEdges, RecordedAs
      <4>2. QED
        BY <2>3, <3>2, <4>1 DEF RecordedAs
    <3>3. QED
      BY <2>3, <2>5, <3>1, <3>2 DEF RecordedAs
  <2>6. QED
    BY <2>4, <2>5 DEF TracesFollowEdges
<1>3. QED
  BY <1>1, <1>2

LEMMA OutsideNodesStep ==
  ASSUME TypeOK, TracesFollowEdges, OutsideNodesAreDescribed,
         \/ UNCHANGED <<discoveredDbs, activeEdges, serviceCallGraph, traceLastNode>>
         \/ Records
  PROVE  OutsideNodesAreDescribed'
<1>1. CASE UNCHANGED <<discoveredDbs, activeEdges, serviceCallGraph, traceLastNode>>
  BY <1>1 DEF OutsideNodesAreDescribed
<1>2. CASE Records
  <2>1. PICK p \in Traffic, src \in Mapped, dst \in Mapped : Record(p, src, dst)
    BY <1>2 DEF Records
  <2>2. PICK source, dest, e : RecordedAs(p, src, dst, source, dest, e)
    BY <2>1, RecordEdges
  <2> DEFINE new == {source, dest} \ InventoryIds
             old == Endpoints(DOMAIN activeEdges)
  <2>3. \A l \in ChainEdges(p, source) : l.source \in old /\ l.target = source
    BY <2>2 DEF RecordedAs, TracesFollowEdges, Endpoints
  <2>4. Endpoints(DOMAIN activeEdges') = old \cup {source, dest}
    BY <2>2, <2>3 DEF RecordedAs, Endpoints
  <2>5. /\ src = NoNode => source \notin InventoryIds
        /\ src # NoNode => source \in InventoryIds
    BY <2>2, OutsideType, NodeIdAssumption DEF RecordedAs, Or, Mapped
  <2>6. /\ dst = NoNode => dest \notin InventoryIds
        /\ dst # NoNode => dest \in InventoryIds
    BY <2>2, OutsideType, NodeIdAssumption DEF RecordedAs, Or, Mapped
  <2>7. discoveredDbs' = discoveredDbs \cup (IF src = NoNode THEN {source} ELSE {})
                                       \cup (IF dst = NoNode THEN {dest} ELSE {})
    BY <2>1, <2>2 DEF Record, Discovered, RecordedAs
  <2>8. discoveredDbs' = discoveredDbs \cup new
    BY <2>5, <2>6, <2>7
  <2>9. QED
    BY <2>4, <2>8 DEF OutsideNodesAreDescribed
<1>3. QED
  BY <1>1, <1>2

LEMMA CallsStep ==
  ASSUME TypeOK, CallsAreObserved,
         \/ UNCHANGED <<discoveredDbs, activeEdges, serviceCallGraph, traceLastNode>>
         \/ Records
  PROVE  CallsAreObserved'
<1>1. CASE UNCHANGED <<discoveredDbs, activeEdges, serviceCallGraph, traceLastNode>>
  BY <1>1 DEF CallsAreObserved
<1>2. CASE Records
  <2>1. PICK p \in Traffic, src \in Mapped, dst \in Mapped :
          Record(p, src, dst) /\ Grounded(p, src, dst)
    BY <1>2 DEF Records
  <2>2. PICK source, dest, e : RecordedAs(p, src, dst, source, dest, e)
    BY <2>1, RecordEdges
  <2> DEFINE sourceSvc == ipToServiceCache'[p.src]
             destSvc == ipToServiceCache'[p.dst]
  <2>3. \A call \in serviceCallGraph' :
          \/ call \in serviceCallGraph
          \/ call = <<sourceSvc, destSvc>> /\ sourceSvc # NoNode /\ destSvc # NoNode
    BY <2>1 DEF Record
  <2>4. sourceSvc # NoNode /\ destSvc # NoNode => source = sourceSvc /\ dest = destSvc
    BY <2>1, <2>2 DEF Grounded, RecordedAs, Or
  <2>5. ASSUME NEW call \in serviceCallGraph'
        PROVE  \E x \in DOMAIN activeEdges' :
                 x.kind = "t" /\ x.source = call[1] /\ x.target = call[2]
    <3>1. CASE call \in serviceCallGraph
      BY <2>2, <3>1 DEF CallsAreObserved, RecordedAs
    <3>2. CASE call = <<sourceSvc, destSvc>> /\ sourceSvc # NoNode /\ destSvc # NoNode
      BY <2>2, <2>4, <3>2 DEF RecordedAs
    <3>3. QED
      BY <2>3, <3>1, <3>2
  <2>6. QED
    BY <2>5 DEF CallsAreObserved
<1>3. QED
  BY <1>1, <1>2

LEMMA DetailsStep ==
  ASSUME TypeOK, DetailsMatchEnds,
         \/ UNCHANGED <<discoveredDbs, activeEdges, serviceCallGraph, traceLastNode>>
         \/ Records
  PROVE  DetailsMatchEnds'
<1>1. CASE UNCHANGED <<discoveredDbs, activeEdges, serviceCallGraph, traceLastNode>>
  BY <1>1 DEF DetailsMatchEnds
<1>2. CASE Records
  <2>1. PICK p \in Traffic, src \in Mapped, dst \in Mapped :
          Record(p, src, dst) /\ Grounded(p, src, dst)
    BY <1>2 DEF Records
  <2>2. PICK source, dest, e : RecordedAs(p, src, dst, source, dest, e)
    BY <2>1, RecordEdges
  <2>3. ASSUME NEW x \in DOMAIN activeEdges', x.kind = "t"
        PROVE  /\ activeEdges'[x].sourceService \in {NoNode, x.source}
               /\ activeEdges'[x].destService \in {NoNode, x.target}
    <3>1. CASE x = e
      BY <2>1, <2>2, <3>1 DEF Grounded, RecordedAs, Or
    <3>2. CASE x # e
      <4>1. x \in DOMAIN activeEdges /\ activeEdges'[x] = activeEdges[x]
        BY <2>2, <2>3, <3>2 DEF RecordedAs
      <4>2. QED
        BY <2>3, <4>1 DEF DetailsMatchEnds
    <3>3. QED
      BY <3>1, <3>2
  <2>4. QED
    BY <2>3 DEF DetailsMatchEnds
<1>3. QED
  BY <1>1, <1>2

GraphInv ==
  /\ TypeOK
  /\ PendingUnanswered
  /\ SnapshotsCurrent
  /\ CachesAgree
  /\ TracesFollowEdges
  /\ OutsideNodesAreDescribed
  /\ CallsAreObserved
  /\ DetailsMatchEnds

LEMMA GraphInvInit == Init => GraphInv
<1> SUFFICES ASSUME Init PROVE GraphInv
  OBVIOUS
<1>1. DOMAIN activeEdges = {} /\ DOMAIN graphCache = {} /\ fresh = {}
  BY DEF Init
<1>2. SnapshotsCurrent /\ CallsAreObserved /\ DetailsMatchEnds
  BY <1>1 DEF Init, SnapshotsCurrent, CallsAreObserved, DetailsMatchEnds
<1>3. CachesAgree
  BY DEF Init, NoMapping, CachesAgree
<1>4. TracesFollowEdges
  BY <1>1 DEF Init, TracesFollowEdges
<1>5. OutsideNodesAreDescribed
  BY <1>1 DEF Init, OutsideNodesAreDescribed, Endpoints
<1>6. PendingUnanswered
  BY DEF Init, IdleCall, PendingUnanswered
<1>7. QED
  BY <1>2, <1>3, <1>4, <1>5, <1>6, InitType DEF GraphInv

LEMMA GraphInvStep == GraphInv /\ [Next]_vars => GraphInv'
<1> SUFFICES ASSUME GraphInv, [Next]_vars PROVE GraphInv'
  OBVIOUS
<1>1. TypeOK'
  BY TypeStep DEF GraphInv
<1>2. CachesAgree'
  BY CachesAgreeStep DEF GraphInv
<1>3. \/ UNCHANGED <<discoveredDbs, activeEdges, serviceCallGraph, traceLastNode>>
      \/ Records
  BY <1>1, <1>2, GraphStep DEF GraphInv
<1>4. SnapshotsCurrent'
  BY SnapshotsCurrentStep DEF GraphInv
<1>5. TracesFollowEdges' /\ OutsideNodesAreDescribed' /\ CallsAreObserved' /\ DetailsMatchEnds'
  BY <1>3, TracesStep, OutsideNodesStep, CallsStep, DetailsStep DEF GraphInv
<1>6. PendingUnanswered'
  BY PendingStep DEF GraphInv
<1>7. QED
  BY <1>1, <1>2, <1>4, <1>5, <1>6 DEF GraphInv

LEMMA GraphInvariant == Spec => []GraphInv
BY GraphInvInit, GraphInvStep, PTL DEF Spec

-----------------------------------------------------------------------------
(* The theorems *)

\* What a client is shown from the snapshot cache is the graph as it is, however
\* many refreshes and reports overlap.
THEOREM SnapshotsAreCurrent == Spec => []SnapshotsCurrent
<1>1. GraphInv => SnapshotsCurrent
  BY DEF GraphInv
<1>2. QED
  BY <1>1, GraphInvariant, PTL

\* Links made from trace ids only join nodes that observed traffic joins to
\* something.
THEOREM TracesAreGrounded == Spec => []TracesFollowEdges
<1>1. GraphInv => TracesFollowEdges
  BY DEF GraphInv
<1>2. QED
  BY <1>1, GraphInvariant, PTL

\* getGraphData finds the description of every node outside the inventory.
THEOREM OutsideNodesKnown == Spec => []OutsideNodesAreDescribed
<1>1. GraphInv => OutsideNodesAreDescribed
  BY DEF GraphInv
<1>2. QED
  BY <1>1, GraphInvariant, PTL

\* The call graph between services claims nothing that was not observed.
THEOREM CallGraphIsObserved == Spec => []CallsAreObserved
<1>1. GraphInv => CallsAreObserved
  BY DEF GraphInv
<1>2. QED
  BY <1>1, GraphInvariant, PTL

\* An edge's details and its ends agree, although the details are looked up
\* after the await and the ends in part before it.
THEOREM DetailsAgree == Spec => []DetailsMatchEnds
<1>1. GraphInv => DetailsMatchEnds
  BY DEF GraphInv
<1>2. QED
  BY <1>1, GraphInvariant, PTL

-----------------------------------------------------------------------------
(* The service implements GraphStore *)

LEMMA StoreInit == Init => Store!Init
BY DEF Init, Store!Init

LEMMA ReplyIsAnswer ==
  ASSUME NEW c \in Calls, NEW g, c \notin DOMAIN answer, Reply(c, g),
         UNCHANGED activeEdges,
         g = EmptyGraph \/ Store!IsGraphOf(g, activeEdges)
  PROVE  Store!Next
<1>1. /\ DOMAIN answer' = DOMAIN answer \cup {c}
      /\ answer'[c] = g
      /\ \A d \in DOMAIN answer : answer'[d] = answer[d]
  BY DEF Reply, Put
<1>2. Store!Answer(c)
  BY <1>1 DEF Store!Answer
<1>3. QED
  BY <1>2 DEF Store!Next

\* A snapshot that is still fresh is a full answer.
LEMMA CachedIsFull ==
  ASSUME SnapshotsCurrent, NEW k \in fresh
  PROVE  Store!IsGraphOf(graphCache[k], activeEdges)
BY DEF SnapshotsCurrent, Store!IsGraphOf, Store!Endpoints, Endpoints

LEMMA BuiltIsFull ==
  ASSUME NEW listing, NEW ns
  PROVE  Store!IsGraphOf(BuildGraph(listing, ns), activeEdges)
BY DEF BuildGraph, Store!IsGraphOf, Store!Endpoints, Endpoints

LEMMA CallImplements ==
  ASSUME GraphInv, NEW c \in Calls, GetGraphData(c)
  PROVE  Store!Next \/ UNCHANGED Store!vars
<1>1. CASE RequestNothing(c) \/ (\E k \in Selections : ConfigFails(c, k))
  BY <1>1, ReplyIsAnswer DEF RequestNothing, ConfigFails, graph
<1>2. ASSUME NEW k \in Selections, RequestCached(c, k)
      PROVE  Store!Next
  <2>1. Store!IsGraphOf(graphCache[k], activeEdges)
    BY <1>2, CachedIsFull DEF RequestCached, GraphInv
  <2>2. QED
    BY <1>2, <2>1, ReplyIsAnswer DEF RequestCached, graph
<1>3. CASE FinishRefresh(c) \/ RefreshFails(c)
  <2>1. PICK g : Reply(c, g) /\ (g = EmptyGraph \/ Store!IsGraphOf(g, activeEdges))
    BY <1>3, BuiltIsFull DEF FinishRefresh, RefreshFails
  <2>2. c \notin DOMAIN answer
    BY <1>3 DEF FinishRefresh, RefreshFails, GraphInv, PendingUnanswered
  <2>3. QED
    BY <1>3, <2>1, <2>2, ReplyIsAnswer DEF FinishRefresh, RefreshFails, graph
<1>4. CASE TakeAnswer(c)
  <2>1. Store!Take(c)
    BY <1>4 DEF TakeAnswer, Delete, Store!Take, graph
  <2>2. QED
    BY <2>1 DEF Store!Next
<1>5. CASE ApiListsPods(c) \/ (\E k \in Selections : RequestRefresh(c, k))
  BY <1>5 DEF ApiListsPods, RequestRefresh, graph, Store!vars
<1>6. QED
  BY <1>1, <1>2, <1>3, <1>4, <1>5 DEF GetGraphData

\* Recording a report renews at most the report's own edge.
LEMMA RecordImplements ==
  ASSUME Records
  PROVE  Store!Next
<1>1. PICK p \in Traffic, src \in Mapped, dst \in Mapped :
        Record(p, src, dst) /\ UNCHANGED answer
  BY DEF Records
<1>2. PICK source, dest, e : RecordedAs(p, src, dst, source, dest, e)
  BY <1>1, RecordEdges
<1>3. Store!Observe
  BY <1>1, <1>2 DEF RecordedAs, Store!Observe
<1>4. QED
  BY <1>3 DEF Store!Next

LEMMA StoreStep == GraphInv /\ GraphInv' /\ [Next]_vars => [Store!Next]_(Store!vars)
<1> SUFFICES ASSUME GraphInv, GraphInv', [Next]_vars
             PROVE  Store!Next \/ UNCHANGED Store!vars
  OBVIOUS
<1>1. \/ UNCHANGED <<discoveredDbs, activeEdges, serviceCallGraph, traceLastNode>>
      \/ Records
  BY GraphStep DEF GraphInv
<1>2. ASSUME NEW h \in Handlers, ProcessTelemetry(h)
      PROVE  UNCHANGED answer
  BY <1>2 DEF ProcessTelemetry, Drop, RecordAtOnce, StartResolve, ResolveServices,
     ApiListsPodsFor, FinishResolve, ResolveFails
<1>3. CASE Environment \/ UNCHANGED vars
  BY <1>3 DEF Environment, PodStops, PodStarts, SnapshotExpires, ThrottleEnds, vars, graph,
     Store!vars
<1>4. QED
  BY <1>1, <1>2, <1>3, CallImplements, RecordImplements DEF Next, Store!vars

\* Whatever the cache, the inventory and the overlaps, a client sees the graph
\* of GraphStore: all that was observed, or nothing.
THEOREM ServiceImplementsStore == Spec => ImplementsGraphStore
<1>1. Spec => Store!Init /\ [][Store!Next]_(Store!vars)
  BY StoreInit, StoreStep, GraphInvariant, PTL DEF Spec
<1>2. QED
  BY <1>1 DEF ImplementsGraphStore, Store!Spec

-----------------------------------------------------------------------------
(* A refresh that nothing overlaps *)

\* While a refresh is alone nobody else is under way and the caches are as it
\* cleared them.
AloneInv ==
  \A c \in alone :
    /\ calls[c].pc # "idle" /\ Quiet(c)
    /\ podCache = NoMapping /\ ipToServiceCache = NoMapping /\ serviceIpCache = NoMapping
    /\ ipToNamespaceCache = [ip \in Ips |-> NoNs]

LEMMA AloneReply ==
  ASSUME TypeOK, AloneInv, NEW c \in Calls, NEW g, Reply(c, g),
         UNCHANGED handlers, UNCHANGED inventory \/ calls[c].pc # "idle"
  PROVE  AloneInv'
<1>. SUFFICES ASSUME NEW d \in alone'
              PROVE  /\ calls'[d].pc # "idle" /\ Quiet(d)' /\ UNCHANGED inventory
                     /\ d \in alone
  BY DEF AloneInv, inventory
<1>1. d \in alone /\ d \in Calls /\ d # c
  BY DEF Reply, TypeOK
<1>2. calls'[d] = calls[d] /\ calls'[c].pc = "idle"
  BY <1>1 DEF Reply, TypeOK, IdleCall
<1>3. \A b \in Calls \ {c} : calls'[b] = calls[b]
  BY DEF Reply, TypeOK
<1>4. calls[c].pc = "idle"
  BY <1>1 DEF AloneInv, Quiet
<1>. QED
  BY <1>1, <1>2, <1>3, <1>4 DEF AloneInv, Quiet

LEMMA AloneStep == TypeOK /\ AloneInv /\ [Next]_vars => AloneInv'
<1>. SUFFICES ASSUME TypeOK, AloneInv, [Next]_vars PROVE AloneInv'
  OBVIOUS
<1>1. ASSUME NEW c \in Calls, RequestNothing(c) PROVE AloneInv'
  BY <1>1, AloneReply DEF RequestNothing
<1>2. ASSUME NEW c \in Calls, NEW k \in Selections, RequestCached(c, k) \/ ConfigFails(c, k)
      PROVE  AloneInv'
  BY <1>2, AloneReply DEF RequestCached, ConfigFails
<1>3. ASSUME NEW c \in Calls, NEW k \in Selections, RequestRefresh(c, k) PROVE AloneInv'
  <2>1. /\ calls'[c].pc # "idle" /\ \A d \in Calls \ {c} : calls'[d] = calls[d]
    BY <1>3 DEF RequestRefresh, TypeOK
  <2>2. alone' \subseteq {c} /\ (alone' # {} => Quiet(c)')
    BY <1>3, <2>1 DEF RequestRefresh, Quiet
  <2>. QED
    BY <1>3, <2>1, <2>2 DEF RequestRefresh, ClearCaches, NoMapping, AloneInv
<1>4. ASSUME NEW c \in Calls, ApiListsPods(c) PROVE AloneInv'
  <2>1. calls[c].pc # "idle" /\ calls'[c].pc # "idle"
    BY <1>4 DEF ApiListsPods, TypeOK
  <2>2. \A d \in Calls \ {c} : calls'[d] = calls[d]
    BY <1>4 DEF ApiListsPods, TypeOK
  <2>3. alone' = alone /\ alone \subseteq Calls /\ UNCHANGED <<inventory, handlers>>
    BY <1>4 DEF ApiListsPods, TypeOK
  <2>. QED
    BY <2>1, <2>2, <2>3 DEF AloneInv, Quiet, inventory
<1>5. ASSUME NEW c \in Calls, FinishRefresh(c) PROVE AloneInv'
  BY <1>5, AloneReply DEF FinishRefresh
<1>6. ASSUME NEW c \in Calls, RefreshFails(c) PROVE AloneInv'
  BY <1>6, AloneReply DEF RefreshFails
<1>7. ASSUME NEW c \in Calls, TakeAnswer(c) PROVE AloneInv'
  BY <1>7 DEF TakeAnswer, AloneInv, Quiet, inventory
<1>8. ASSUME NEW h \in Handlers, NEW p \in Payloads, Drop(h, p) \/ RecordAtOnce(h, p)
      PROVE  AloneInv'
  BY <1>8 DEF Drop, RecordAtOnce, AloneInv, Quiet, inventory
<1>9. ASSUME NEW h \in Handlers, NEW p \in Payloads, StartResolve(h, p) PROVE AloneInv'
  BY <1>9 DEF StartResolve, AloneInv
<1>10. ASSUME NEW h \in Handlers, handlers[h].pc # "idle", UNCHANGED alone PROVE AloneInv'
  BY <1>10 DEF AloneInv, Quiet
<1>11. ASSUME NEW h \in Handlers,
              ResolveServices(h) \/ ApiListsPodsFor(h) \/ FinishResolve(h) \/ ResolveFails(h)
       PROVE  AloneInv'
  BY <1>10, <1>11 DEF ResolveServices, ApiListsPodsFor, FinishResolve, ResolveFails
<1>12. CASE Environment
  BY <1>12 DEF Environment, PodStops, PodStarts, SnapshotExpires, ThrottleEnds, AloneInv,
               Quiet, inventory
<1>13. CASE UNCHANGED vars
  BY <1>13 DEF vars, AloneInv, Quiet, inventory
<1>. QED
  BY <1>1, <1>2, <1>3, <1>4, <1>5, <1>6, <1>7, <1>8, <1>9, <1>11, <1>12, <1>13
     DEF Next, GetGraphData, ProcessTelemetry

\* The step that ends a refresh with a new snapshot fills the caches.
LEMMA RefreshFills ==
  ASSUME TypeOK, [Next]_vars, NEW c \in Calls,
         calls[c].pc = "pods", calls'[c].pc = "idle", fresh' # fresh
  PROVE  FillCaches(calls[c].listing)
<1>. SUFFICES ASSUME ~FinishRefresh(c) PROVE FALSE
  BY DEF FinishRefresh
<1>1. ASSUME NEW d \in Calls, GetGraphData(d) PROVE FALSE
  <2>1. CASE d = c
    BY <1>1, <2>1 DEF GetGraphData, RequestNothing, RequestCached, RequestRefresh, ConfigFails,
                      ApiListsPods, RefreshFails, TakeAnswer
  <2>2. CASE d # c
    <3>1. calls'[c] = calls[c]
      BY <1>1, <2>2 DEF GetGraphData, RequestNothing, RequestCached, RequestRefresh, ConfigFails,
                        ApiListsPods, FinishRefresh, RefreshFails, TakeAnswer, Reply, TypeOK
    <3>. QED
      BY <3>1
  <2>. QED
    BY <2>1, <2>2
<1>2. ASSUME UNCHANGED calls PROVE FALSE
  BY <1>2
<1>3. ASSUME NEW h \in Handlers, ProcessTelemetry(h) PROVE FALSE
  BY <1>2, <1>3 DEF ProcessTelemetry, Drop, RecordAtOnce, StartResolve, ResolveServices,
                    ApiListsPodsFor, FinishResolve, ResolveFails
<1>4. CASE Environment
  BY <1>2, <1>4 DEF Environment, PodStops, PodStarts, SnapshotExpires, ThrottleEnds
<1>. QED
  BY <1>1, <1>2, <1>3, <1>4 DEF Next, vars

\* A refresh that nothing overlapped leaves in the caches what it listed, and
\* nothing of what they held before.
THEOREM QuietRefreshesAreExact == Spec => QuietRefreshIsExact
<1>. DEFINE Exact ==
       \A c \in Calls :
         (calls[c].pc = "pods" /\ fresh' # fresh /\ calls'[c].pc = "idle" /\ c \in alone) =>
           \A ip \in Ips :
             /\ podCache'[ip] = PodAt(calls[c].listing, ip)
             /\ serviceIpCache'[ip] = ServiceAt(ip)
             /\ ipToServiceCache'[ip] = Or(OwnerAt(calls[c].listing, ip), ServiceAt(ip))
             /\ ipToNamespaceCache'[ip] = NamespaceAt(calls[c].listing, ip)
<1>1. ASSUME TypeOK, AloneInv, [Next]_vars PROVE Exact
  <2>. SUFFICES ASSUME NEW c \in Calls, calls[c].pc = "pods", fresh' # fresh,
                       calls'[c].pc = "idle", c \in alone, NEW ip \in Ips
                PROVE  /\ podCache'[ip] = PodAt(calls[c].listing, ip)
                       /\ serviceIpCache'[ip] = ServiceAt(ip)
                       /\ ipToServiceCache'[ip] = Or(OwnerAt(calls[c].listing, ip), ServiceAt(ip))
                       /\ ipToNamespaceCache'[ip] = NamespaceAt(calls[c].listing, ip)
    OBVIOUS
  <2>1. FillCaches(calls[c].listing)
    BY <1>1, RefreshFills
  <2>2. /\ podCache[ip] = NoNode /\ serviceIpCache[ip] = NoNode
        /\ ipToServiceCache[ip] = NoNode /\ ipToNamespaceCache[ip] = NoNs
    BY <1>1 DEF AloneInv, NoMapping
  <2>. QED
    BY <2>1, <2>2 DEF FillCaches, Or
<1>2. Init => TypeOK /\ AloneInv
  BY InitType DEF Init, AloneInv
<1>3. TypeOK /\ AloneInv /\ [Next]_vars => TypeOK' /\ AloneInv'
  BY TypeStep, AloneStep
<1>4. TypeOK /\ AloneInv /\ [Next]_vars => [Exact]_vars
  BY <1>1
<1>5. Spec => [][Exact]_vars
  BY <1>2, <1>3, <1>4, PTL DEF Spec
<1>. QED
  BY <1>5 DEF QuietRefreshIsExact

(***************************************************************************)
(* Part 2: the ingestion                                                   *)
(***************************************************************************)

-----------------------------------------------------------------------------
(* What is stored *)

FiledNamespaces == Namespaces \cup {DefaultNs}
EndServices == ServiceIds \cup {NoNode}
EndNamespaces == Namespaces \cup {NoNs}
ResultType == [sourceService : EndServices, destService : EndServices,
               sourceNamespace : EndNamespaces, destNamespace : EndNamespaces]
SignatureType == [namespace : FiledNamespaces, endpoint : STRING \cup {NoEndpoint},
                  source : Ips, dest : Ips, port : Nat, status : Nat]
TraceType == [sig : SignatureType, namespace : FiledNamespaces, timestamp : Nat,
              sourceNamespace : EndNamespaces, destNamespace : EndNamespaces,
              sourceService : EndServices, destService : EndServices, warm : BOOLEAN]
NoteType == [sig : SignatureType, service : EndServices, timestamp : Nat]

(* The list is in the order of time and within its bound, and a trace is in the list
   of the namespace its signature names. *)
StoreType ==
  /\ now \in Nat \ {0} /\ warm \in BOOLEAN
  /\ records \in Seq(TraceType) /\ Len(records) <= maxRecords
  /\ \A i \in DOMAIN records : /\ records[i].timestamp <= now
                               /\ records[i].namespace = records[i].sig.namespace
  /\ \A i, j \in DOMAIN records : i < j => records[i].timestamp <= records[j].timestamp
  /\ \A s \in DOMAIN recentSignatures : recentSignatures[s] \in 1 .. now
  /\ notifications \in Seq(NoteType)
  /\ \A n \in Range(notifications) : n.timestamp <= now

(* What makes the list one without duplicates: the cache of signatures still knows
   every trace younger than the window, or a later one of the same signature. *)
YoungTracesAreKnown ==
  \A i \in DOMAIN records :
    now - records[i].timestamp < duplicateWindow =>
      /\ records[i].sig \in DOMAIN recentSignatures
      /\ recentSignatures[records[i].sig] >= records[i].timestamp

(* A trace of signature s stored from lo to hi is in the list, or the list is full of
   traces no older. *)
Held(s, lo, hi) ==
  \/ \E i \in DOMAIN records : records[i].sig = s /\ records[i].timestamp \in lo .. hi
  \/ Len(records) = maxRecords /\ \A i \in DOMAIN records : records[i].timestamp >= lo

SignaturesHaveTheirTrace ==
  \A s \in DOMAIN recentSignatures : Held(s, recentSignatures[s], recentSignatures[s])

NotesHaveTheirTrace ==
  \A n \in Range(notifications) :
    n.service # NoNode => Held(n.sig, n.timestamp - duplicateWindow + 1, n.timestamp)

(* Of a report that the graph service dropped no service is known. *)
DroppedTrafficIsUnnamed ==
  \A i \in DOMAIN records :
    (records[i].sig.port \in SystemPorts \/ records[i].sig.dest \in MetadataIps) =>
      records[i].sourceService = NoNode /\ records[i].destService = NoNode

(* A report about a service's address that was filed under a namespace other than
   "default" names the service. *)
PlacedTracesAreNamed ==
  \A i \in DOMAIN records, s \in Services :
    (records[i].namespace # DefaultNs /\ records[i].sig.dest \in SvcIps[s]) =>
      records[i].destService # NoNode

(* For namespaces come into the caches together with all the services. *)
NamespacesComeWithServices ==
  \/ \A ip \in Ips : ipToNamespaceCache[ip] = NoNs
  \/ \A s \in Services : \A ip \in SvcIps[s] : ipToServiceCache[ip] # NoNode

(* While a refresh's listing is in the caches, they name every service's namespace. *)
WarmCaches ==
  warm => \A s \in Services : \A ip \in SvcIps[s] : ipToNamespaceCache[ip] = SvcNs[s]

IngestInv ==
  /\ TypeOK
  /\ StoreType
  /\ YoungTracesAreKnown
  /\ SignaturesHaveTheirTrace
  /\ NotesHaveTheirTrace
  /\ DroppedTrafficIsUnnamed
  /\ PlacedTracesAreNamed
  /\ NamespacesComeWithServices
  /\ WarmCaches
  /\ StoredOncePerWindow
  /\ WarmReportsAreFiledRight

-----------------------------------------------------------------------------
(* What a step does: one of the graph service, and at most one trace is filed. *)

LEMMA IngestIsService == IngestNext => [Next]_vars
<1>. SUFFICES ASSUME IngestNext PROVE [Next]_vars
  OBVIOUS
<1>1. ASSUME NEW h \in Handlers, NEW p \in Payloads,
             \/ ReceiveNothing(h, p) \/ ReceiveDropped(h, p)
             \/ ReceiveRecorded(h, p) \/ ReceiveUnknown(h, p)
      PROVE  Next
  BY <1>1 DEF ReceiveNothing, ReceiveDropped, ReceiveRecorded, ReceiveUnknown, Next,
              ProcessTelemetry
<1>2. ASSUME NEW h \in Handlers, Resumes(h) \/ Waits(h) PROVE Next
  BY <1>2 DEF Resumes, Waits, Next, ProcessTelemetry
<1>3. ASSUME NEW c \in Calls, Serve(c) PROVE Next
  BY <1>3 DEF Serve, Next, GetGraphData
<1>4. CASE Surroundings
  BY <1>4 DEF Surroundings, Next
<1>5. CASE Tick
  BY <1>5 DEF Tick
<1>. QED
  BY <1>1, <1>2, <1>3, <1>4, <1>5 DEF IngestNext

(* A trace r is filed, with an alarm or without. *)
Filed(r) ==
  /\ r \in TraceType /\ r.timestamp = now /\ r.namespace = r.sig.namespace
  /\ AddDuplicate(r) \/ AddNew(r)
  /\ \/ UNCHANGED notifications
     \/ LET all == <<[sig |-> r.sig, service |-> r.destService, timestamp |-> now]>> \o notifications
        IN notifications' = SubSeq(all, 1, Min({maxNotifications, Len(all)}))

(* It names no service if the graph service drops such reports, names the called one
   if it has a place, and stands under its service's namespace if the caches were
   warm. *)
FiledRight(r) ==
  /\ (r.sig.port \in SystemPorts \/ r.sig.dest \in MetadataIps) =>
       r.sourceService = NoNode /\ r.destService = NoNode
  /\ \A s \in Services :
       (r.namespace # DefaultNs /\ r.sig.dest \in SvcIps[s]) => r.destService # NoNode
  /\ \A s \in Services :
       (r.warm /\ r.sig.dest \in SvcIps[s] /\ r.destService # NoNode) => r.namespace = SvcNs[s]

LEMMA FiledUnderType ==
  ASSUME NEW res \in ResultType
  PROVE  FiledUnder(res) \in FiledNamespaces
  BY DEF ResultType, FiledUnder, FiledNamespaces, EndNamespaces

LEMMA PersistFiles ==
  ASSUME now \in Nat, warm \in BOOLEAN, NEW p \in Payloads, p.src \in Ips, p.dst \in Ips,
         NEW res \in ResultType, Persist(p, res)
  PROVE  \/ UNCHANGED store
         \/ \E r : /\ Filed(r) /\ r.sig.dest = p.dst /\ r.sig.port = p.port
                  /\ r.warm = warm /\ r.namespace = FiledUnder(res)
                  /\ r.sourceService = res.sourceService /\ r.destService = res.destService
<1>. DEFINE ns == FiledUnder(res)
            sig == Signature(p, ns)
            r == [sig |-> sig, namespace |-> ns, timestamp |-> now,
                  sourceNamespace |-> res.sourceNamespace, destNamespace |-> res.destNamespace,
                  sourceService |-> res.sourceService, destService |-> res.destService,
                  warm |-> warm]
<1>1. CASE UNCHANGED store
  BY <1>1
<1>2. CASE (AddDuplicate(r) \/ AddNew(r)) /\ Notify(sig, p, res)
  <2>1. ns \in FiledNamespaces
    BY FiledUnderType
  <2>2. p.port \in Nat /\ Text[p].endpoint \in STRING \cup {NoEndpoint} /\ Text[p].status \in Nat
    BY PayloadAssumption, TextAssumption DEF PayloadType
  <2>3. sig \in SignatureType
    BY <2>1, <2>2 DEF Signature, SignatureType
  <2>4. r \in TraceType
    BY <2>1, <2>3 DEF TraceType, ResultType
  <2>5. sig.namespace = ns /\ sig.dest = p.dst /\ sig.port = p.port
    BY DEF Signature
  <2>. HIDE DEF ns, sig
  <2>6. Filed(r)
    BY <1>2, <2>4, <2>5 DEF Filed, Notify
  <2>. QED
    BY <2>5, <2>6 DEF ns
<1>. QED
  BY <1>1, <1>2 DEF Persist

(* What the controller is told of a recorded report: the snapshots are gone, so the
   namespaces are those of the cache. *)
LEMMA RecordedResult ==
  ASSUME TypeOK', invalidateGraphCache, NEW p \in Traffic
  PROVE  /\ Result(p) \in ResultType
         /\ Result(p).destNamespace = ipToNamespaceCache'[p.dst]
         /\ Result(p).sourceNamespace = ipToNamespaceCache'[p.src]
         /\ Result(p).destService = ipToServiceCache'[p.dst]
<1>1. p.src \in Ips /\ p.dst \in Ips
  BY TrafficType
<1>2. \A ip \in Ips : NamespaceOf(ip) = ipToNamespaceCache'[ip]
  BY DEF NamespaceOf, getNamespaceFromNodeId, invalidateGraphCache
<1>3. \A ip \in Ips : ipToServiceCache'[ip] \in EndServices /\ ipToNamespaceCache'[ip] \in EndNamespaces
  BY DEF TypeOK, EndServices, EndNamespaces
<1>. QED
  BY <1>1, <1>2, <1>3 DEF Result, ResultType

LEMMA RecordedIsFiledRight ==
  ASSUME TypeOK, TypeOK', StoreType, WarmCaches, NamespacesComeWithServices, NEW p \in Traffic,
         invalidateGraphCache, UNCHANGED <<ipToNamespaceCache, ipToServiceCache>>,
         Persist(p, Result(p))
  PROVE  UNCHANGED store \/ \E r : Filed(r) /\ FiledRight(r)
<1>1. /\ p \in Payloads /\ p.src \in Ips /\ p.dst \in Ips
      /\ p.port \notin SystemPorts /\ p.dst \notin MetadataIps
  BY TrafficType DEF Traffic, Ignored
<1>2. /\ Result(p) \in ResultType
      /\ Result(p).destNamespace = ipToNamespaceCache[p.dst]
      /\ Result(p).sourceNamespace = ipToNamespaceCache[p.src]
      /\ Result(p).destService = ipToServiceCache[p.dst]
  BY RecordedResult
<1>3. CASE UNCHANGED store
  BY <1>3
<1>4. CASE ~UNCHANGED store
  <2>1. PICK r : /\ Filed(r) /\ r.sig.dest = p.dst /\ r.sig.port = p.port
                 /\ r.warm = warm /\ r.namespace = FiledUnder(Result(p))
                 /\ r.destService = Result(p).destService
    BY <1>1, <1>2, <1>4, PersistFiles DEF StoreType
  <2>2. ASSUME NEW s \in Services, r.warm, r.sig.dest \in SvcIps[s] PROVE r.namespace = SvcNs[s]
    <3>1. ipToNamespaceCache[p.dst] = SvcNs[s]
      BY <2>1, <2>2 DEF WarmCaches
    <3>2. SvcNs[s] # NoNs
      BY InventoryAssumption
    <3>. QED
      BY <1>2, <2>1, <3>1, <3>2 DEF FiledUnder
  <2>3. ASSUME NEW s \in Services, r.namespace # DefaultNs, r.sig.dest \in SvcIps[s]
        PROVE  r.destService # NoNode
    <3>1. ipToNamespaceCache[p.dst] # NoNs \/ ipToNamespaceCache[p.src] # NoNs
      BY <1>2, <2>1, <2>3 DEF FiledUnder
    <3>. QED
      BY <1>1, <1>2, <2>1, <2>3, <3>1 DEF NamespacesComeWithServices
  <2>4. FiledRight(r)
    BY <1>1, <2>1, <2>2, <2>3 DEF FiledRight
  <2>. QED
    BY <2>1, <2>4
<1>. QED
  BY <1>3, <1>4

LEMMA IngestStep ==
  ASSUME TypeOK, TypeOK', StoreType, WarmCaches, NamespacesComeWithServices, IngestNext
  PROVE  \/ UNCHANGED store /\ now' \in {now, now + 1}
         \/ UNCHANGED now /\ \E r : Filed(r) /\ FiledRight(r)
<1>1. ASSUME NEW h \in Handlers, NEW p \in Payloads,
             ReceiveNothing(h, p) \/ ReceiveUnknown(h, p)
      PROVE  UNCHANGED <<store, now>>
  BY <1>1 DEF ReceiveNothing, ReceiveUnknown, Arrives
<1>2. ASSUME NEW h \in Handlers, NEW p \in Payloads, ReceiveDropped(h, p)
      PROVE  UNCHANGED now /\ (UNCHANGED store \/ \E r : Filed(r) /\ FiledRight(r))
  <2>1. p.src \in Ips /\ p.dst \in Ips
    BY <1>2, PayloadAssumption DEF ReceiveDropped, PayloadType
  <2>2. Null \in ResultType /\ Null.sourceService = NoNode /\ Null.destService = NoNode
    BY DEF Null, ResultType, EndServices, EndNamespaces
  <2>3. UNCHANGED store
        \/ \E r : Filed(r) /\ r.sourceService = NoNode /\ r.destService = NoNode
                 /\ r.namespace = FiledUnder(Null)
    <3>1. Persist(p, Null)
      BY <1>2 DEF ReceiveDropped
    <3>. HIDE DEF Null
    <3>. QED
      BY <2>1, <2>2, <3>1, PersistFiles DEF StoreType
  <2>4. UNCHANGED now
    BY <1>2 DEF ReceiveDropped, Arrives
  <2>5. FiledUnder(Null) = DefaultNs
    BY DEF FiledUnder, Null
  <2>. QED
    BY <2>3, <2>4, <2>5 DEF FiledRight
<1>3. ASSUME NEW h \in Handlers, NEW p \in Payloads, ReceiveRecorded(h, p)
      PROVE  UNCHANGED now /\ (UNCHANGED store \/ \E r : Filed(r) /\ FiledRight(r))
  <2>1. p \in Traffic /\ invalidateGraphCache /\ UNCHANGED <<ipToNamespaceCache, ipToServiceCache>>
    BY <1>3 DEF ReceiveRecorded, RecordAtOnce, Shown, Traffic, Record, inventory
  <2>. QED
    BY <1>3, <2>1, RecordedIsFiledRight DEF ReceiveRecorded, Arrives
<1>4. ASSUME NEW h \in Handlers, Resumes(h)
      PROVE  UNCHANGED now /\ (UNCHANGED store \/ \E r : Filed(r) /\ FiledRight(r))
  <2>1. handlers[h].pc # "idle"
    BY <1>4 DEF Resumes, FinishResolve, ResolveFails
  <2>2. handlers[h].payload \in Traffic
    BY <2>1 DEF TypeOK, HandlerType
  <2>3. invalidateGraphCache /\ UNCHANGED <<ipToNamespaceCache, ipToServiceCache>>
    BY <1>4 DEF Resumes, FinishResolve, ResolveFails, Resume, Record, inventory
  <2>4. PICK p \in Traffic : p = handlers[h].payload
    BY <2>2
  <2>5. Persist(p, Result(p)) /\ UNCHANGED now
    BY <1>4, <2>4 DEF Resumes
  <2>. QED
    BY <2>3, <2>5, RecordedIsFiledRight
<1>5. ASSUME NEW h \in Handlers, Waits(h) PROVE UNCHANGED <<store, now>>
  BY <1>5 DEF Waits
<1>6. ASSUME NEW c \in Calls, Serve(c) PROVE UNCHANGED <<store, now>>
  BY <1>6 DEF Serve
<1>7. CASE Surroundings
  BY <1>7 DEF Surroundings
<1>8. CASE Tick
  BY <1>8 DEF Tick
<1>. QED
  BY <1>1, <1>2, <1>3, <1>4, <1>5, <1>6, <1>7, <1>8 DEF IngestNext

-----------------------------------------------------------------------------
(* A refresh leaves every service's namespace in the caches, and nothing but the
   beginning of another one takes it away. *)

LEMMA ServiceNamespace ==
  ASSUME NEW listing \in ListingType, NEW s \in Services, NEW ip \in SvcIps[s]
  PROVE  NamespaceAt(listing, ip) = SvcNs[s] /\ SvcNs[s] # NoNs
<1>1. ip \notin PodIps /\ ip # NoIp
  BY AddressAssumption
<1>2. PodsAt(listing, ip) = {}
  BY <1>1 DEF PodsAt, ListingType
<1>3. (CHOOSE t \in Services : ip \in SvcIps[t]) = s
  BY AddressAssumption
<1>. QED
  BY <1>2, <1>3, InventoryAssumption DEF NamespaceAt

LEMMA FilledNamespaces ==
  ASSUME NEW listing \in ListingType, FillCaches(listing)
  PROVE  \A s \in Services : \A ip \in SvcIps[s] : ipToNamespaceCache'[ip] = SvcNs[s]
<1>. SUFFICES ASSUME NEW s \in Services, NEW ip \in SvcIps[s]
              PROVE  ipToNamespaceCache'[ip] = SvcNs[s]
  OBVIOUS
<1>1. ip \in Ips
  BY AddressAssumption
<1>. QED
  BY <1>1, ServiceNamespace DEF FillCaches

LEMMA WarmStep ==
  ASSUME TypeOK, WarmCaches, warm \in BOOLEAN, IngestNext
  PROVE  WarmCaches' /\ warm' \in BOOLEAN
<1>1. CASE UNCHANGED <<warm, ipToNamespaceCache>>
  BY <1>1 DEF WarmCaches
<1>2. ASSUME NEW h \in Handlers, NEW p \in Payloads,
             \/ ReceiveNothing(h, p) \/ ReceiveDropped(h, p)
             \/ ReceiveRecorded(h, p) \/ ReceiveUnknown(h, p)
      PROVE  UNCHANGED <<warm, ipToNamespaceCache>>
  BY <1>2 DEF ReceiveNothing, ReceiveDropped, ReceiveRecorded, ReceiveUnknown, Arrives, Drop,
              RecordAtOnce, StartResolve, inventory
<1>3. ASSUME NEW h \in Handlers, Resumes(h) \/ Waits(h)
      PROVE  UNCHANGED <<warm, ipToNamespaceCache>>
  BY <1>3 DEF Resumes, Waits, FinishResolve, ResolveFails, ResolveServices, ApiListsPodsFor, inventory
<1>4. ASSUME NEW c \in Calls, FinishRefresh(c), warm' = TRUE PROVE WarmCaches'
  <2>1. calls[c].listing \in ListingType /\ FillCaches(calls[c].listing)
    BY <1>4 DEF FinishRefresh, TypeOK, CallType
  <2>. QED
    BY <2>1, FilledNamespaces DEF WarmCaches
<1>5. ASSUME NEW c \in Calls, Serve(c)
      PROVE  WarmCaches' /\ warm' \in BOOLEAN
  <2>1. CASE FinishRefresh(c) /\ warm' = TRUE
    BY <1>4, <2>1
  <2>2. CASE warm' = FALSE
    BY <2>2 DEF WarmCaches
  <2>3. CASE UNCHANGED warm /\ UNCHANGED inventory
    BY <1>1, <2>3 DEF inventory
  <2>. QED
    BY <1>5, <2>1, <2>2, <2>3 DEF Serve, RequestNothing, ApiListsPods, RefreshFails, TakeAnswer,
                                  RequestCached, ConfigFails
<1>6. CASE Surroundings
  BY <1>1, <1>6 DEF Surroundings, Environment, PodStops, PodStarts, SnapshotExpires,
                    ThrottleEnds, inventory
<1>7. CASE Tick
  BY <1>1, <1>7 DEF Tick, vars, inventory
<1>. QED
  BY <1>1, <1>2, <1>3, <1>5, <1>6, <1>7 DEF IngestNext

(* Namespaces are known only where a refresh has filled all caches; what resolves
   a report's addresses never takes a service out of them. *)
LEMMA TogetherStep ==
  ASSUME TypeOK, NamespacesComeWithServices, IngestNext
  PROVE  NamespacesComeWithServices'
<1>1. CASE UNCHANGED <<ipToServiceCache, ipToNamespaceCache>>
  BY <1>1 DEF NamespacesComeWithServices
<1>2. ASSUME NEW h \in Handlers, NEW p \in Payloads,
             \/ ReceiveNothing(h, p) \/ ReceiveDropped(h, p)
             \/ ReceiveRecorded(h, p) \/ ReceiveUnknown(h, p)
      PROVE  UNCHANGED <<ipToServiceCache, ipToNamespaceCache>>
  BY <1>2 DEF ReceiveNothing, ReceiveDropped, ReceiveRecorded, ReceiveUnknown, Drop,
              RecordAtOnce, StartResolve, inventory
<1>3. ASSUME NEW h \in Handlers, Resumes(h)
      PROVE  UNCHANGED <<ipToServiceCache, ipToNamespaceCache>>
  BY <1>3 DEF Resumes, FinishResolve, ResolveFails, inventory
<1>4. ASSUME NEW h \in Handlers, Waits(h) PROVE NamespacesComeWithServices'
  <2>1. CASE ApiListsPodsFor(h)
    BY <1>1, <2>1 DEF ApiListsPodsFor, inventory
  <2>2. CASE ResolveServices(h)
    <3>1. \A ip \in Ips : ipToServiceCache[ip] # NoNode => ipToServiceCache'[ip] # NoNode
      BY <2>2 DEF ResolveServices, Or
    <3>2. UNCHANGED ipToNamespaceCache
      BY <2>2 DEF ResolveServices
    <3>. QED
      BY <3>1, <3>2, AddressAssumption DEF NamespacesComeWithServices
  <2>. QED
    BY <1>4, <2>1, <2>2 DEF Waits
<1>5. ASSUME NEW c \in Calls, Serve(c) PROVE NamespacesComeWithServices'
  <2>1. CASE FinishRefresh(c)
    <3>1. FillCaches(calls[c].listing)
      BY <2>1 DEF FinishRefresh
    <3>2. ASSUME NEW s \in Services, NEW ip \in SvcIps[s] PROVE ipToServiceCache'[ip] # NoNode
      <4>1. ip \in Ips
        BY AddressAssumption
      <4>2. ServiceAt(ip) \in ServiceIds
        BY DEF ServiceAt, ServiceIds
      <4>3. ServiceAt(ip) # NoNode
        BY <4>2, NodeIdAssumption DEF NodeIds, InventoryIds
      <4>. QED
        BY <3>1, <4>1, <4>3 DEF FillCaches, Or
    <3>. QED
      BY <3>2 DEF NamespacesComeWithServices
  <2>2. CASE \E k \in Selections : RequestRefresh(c, k)
    <3>1. ClearCaches
      BY <2>2 DEF RequestRefresh
    <3>2. \A ip \in Ips : ipToNamespaceCache'[ip] = NoNs
      BY <3>1 DEF ClearCaches
    <3>. QED
      BY <3>2 DEF NamespacesComeWithServices
  <2>3. CASE UNCHANGED inventory
    BY <1>1, <2>3 DEF inventory
  <2>. QED
    BY <1>5, <2>1, <2>2, <2>3 DEF Serve, RequestNothing, ApiListsPods, RefreshFails, TakeAnswer,
                                  RequestCached, ConfigFails
<1>6. CASE Surroundings
  BY <1>1, <1>6 DEF Surroundings, Environment, PodStops, PodStarts, SnapshotExpires,
                    ThrottleEnds, inventory
<1>7. CASE Tick
  BY <1>1, <1>7 DEF Tick, vars, inventory
<1>. QED
  BY <1>1, <1>2, <1>3, <1>4, <1>5, <1>6, <1>7 DEF IngestNext

-----------------------------------------------------------------------------
LEMMA StoredType ==
  ASSUME records \in Seq(TraceType), NEW i \in DOMAIN records
  PROVE  records[i] \in TraceType /\ records[i].timestamp \in Nat
<1>1. records[i] \in TraceType
  BY LenProperties, ElementOfSeq
<1>. QED
  BY <1>1 DEF TraceType

(* The list with a new trace at its end, and perhaps without its oldest: the trace
   at i was at k + i. *)
Grown(r, k) ==
  /\ k \in Nat /\ k + Len(records') = Len(records) + 1
  /\ records' \in Seq(TraceType) /\ Len(records') \in 1 .. maxRecords
  /\ k > 0 => Len(records') = maxRecords
  /\ \A i \in 1 .. Len(records') : k + i <= Len(records) => records'[i] = records[k + i]
  /\ records'[Len(records')] = r

LEMMA NewGrows ==
  ASSUME records \in Seq(TraceType), NEW r \in TraceType, AddNew(r)
  PROVE  \E k : Grown(r, k)
<1>. DEFINE all == Append(records, r)
<1>1. /\ all \in Seq(TraceType) /\ Len(all) = Len(records) + 1 /\ Len(all) # 0
      /\ \A i \in 1 .. Len(records) : all[i] = records[i]
      /\ all[Len(records) + 1] = r
  BY AppendProperties, LenProperties
<1>2. records' = SubSeq(all, 1 + Len(all) - Min({maxRecords, Len(all)}), Len(all))
  BY DEF AddNew
<1>3. maxRecords \in Nat \ {0}
  BY TextAssumption
<1>. HIDE DEF all
<1>4. /\ records' \in Seq(TraceType) /\ Len(records') \in 1 .. maxRecords
      /\ Len(records') \in {maxRecords, Len(all)}
      /\ EndOf(records', all)
  BY <1>1, <1>2, <1>3, LastOnes
<1>5. Len(records) \in Nat /\ Len(all) \in Nat
  BY <1>1, LenProperties
<1>6. PICK l \in Nat : l = Len(records') /\ l \in 0 .. Len(all) /\ l > 0
  BY <1>3, <1>4, <1>5 DEF EndOf
<1>7. PICK k \in Nat : k = Len(all) - l /\ k + l = Len(records) + 1
  BY <1>1, <1>5, <1>6
<1>8. \A i \in 1 .. l : records'[i] = all[k + i]
  BY <1>4, <1>6, <1>7 DEF EndOf
<1>9. k > 0 => l = maxRecords
  BY <1>1, <1>4, <1>5, <1>6, <1>7
<1>10. ASSUME NEW i \in 1 .. l, k + i <= Len(records) PROVE records'[i] = records[k + i]
  <2>1. k + i \in 1 .. Len(records)
    BY <1>5, <1>10
  <2>. QED
    BY <1>1, <1>8, <2>1
<1>11. records'[l] = r
  <2>1. l \in 1 .. l
    BY <1>6
  <2>. QED
    BY <1>1, <1>7, <1>8, <2>1
<1>. QED
  BY <1>4, <1>6, <1>7, <1>9, <1>10, <1>11 DEF Grown

LEMMA GrownTrace ==
  ASSUME records \in Seq(TraceType), NEW r, NEW k, Grown(r, k), NEW i \in DOMAIN records'
  PROVE  \/ records'[i] = r /\ i = Len(records')
         \/ k + i \in DOMAIN records /\ records'[i] = records[k + i] /\ i < Len(records')
<1>1. Len(records) \in Nat /\ DOMAIN records = 1 .. Len(records)
  BY LenProperties
<1>2. Len(records') \in Nat /\ DOMAIN records' = 1 .. Len(records')
  BY LenProperties DEF Grown
<1>3. CASE i = Len(records')
  BY <1>3 DEF Grown
<1>4. CASE i # Len(records')
  <2>1. i \in 1 .. Len(records') /\ i < Len(records')
    BY <1>2, <1>4
  <2>2. k \in Nat /\ k + Len(records') = Len(records) + 1
    BY DEF Grown
  <2>3. k + i \in 1 .. Len(records) /\ k + i <= Len(records)
    BY <1>1, <1>2, <2>1, <2>2
  <2>. QED
    BY <1>1, <2>1, <2>3 DEF Grown
<1>. QED
  BY <1>3, <1>4

(* Of a list, the traces that may still be there after a step, or are new. *)
LEMMA FiledTrace ==
  ASSUME records \in Seq(TraceType), NEW r, Filed(r), NEW i \in DOMAIN records'
  PROVE  \/ records'[i] = r
         \/ \E j \in DOMAIN records : records'[i] = records[j]
<1>1. CASE AddDuplicate(r)
  BY <1>1 DEF AddDuplicate
<1>2. CASE AddNew(r)
  BY <1>2, NewGrows, GrownTrace DEF Filed
<1>. QED
  BY <1>1, <1>2 DEF Filed

LEMMA FiledNotes ==
  ASSUME notifications \in Seq(NoteType), now \in Nat, NEW r, Filed(r)
  PROVE  /\ notifications' \in Seq(NoteType)
         /\ \A n \in Range(notifications') :
              \/ n \in Range(notifications)
              \/ n = [sig |-> r.sig, service |-> r.destService, timestamp |-> now]
<1>. DEFINE note == [sig |-> r.sig, service |-> r.destService, timestamp |-> now]
            all == <<note>> \o notifications
<1>1. CASE UNCHANGED notifications
  BY <1>1
<1>2. CASE notifications' = SubSeq(all, 1, Min({maxNotifications, Len(all)}))
  <2>1. note \in NoteType
    BY DEF Filed, TraceType, NoteType
  <2>2. <<note>> \in Seq(NoteType) /\ Len(<<note>>) = 1 /\ <<note>>[1] = note
    BY <2>1
  <2>. HIDE DEF note
  <2>3. /\ all \in Seq(NoteType) /\ Len(all) = 1 + Len(notifications)
        /\ \A i \in 1 .. Len(all) : all[i] = IF i <= 1 THEN note ELSE notifications[i - 1]
    BY <2>2, ConcatProperties
  <2>. HIDE DEF all
  <2>4. Len(notifications) \in Nat /\ DOMAIN notifications = 1 .. Len(notifications)
    BY LenProperties
  <2>5. PICK l \in 0 .. Len(all) : l = Min({maxNotifications, Len(all)})
    <3>1. Len(all) \in Nat /\ maxNotifications \in Nat
      BY <2>3, <2>4, TextAssumption
    <3>. QED
      BY <3>1, LesserNumber
  <2>6. /\ notifications' \in Seq(NoteType) /\ DOMAIN notifications' = 1 .. l
        /\ \A i \in 1 .. l : notifications'[i] = all[i]
    BY <1>2, <2>3, <2>5, Prefix
  <2>7. ASSUME NEW i \in 1 .. l
        PROVE  notifications'[i] = note \/ \E j \in DOMAIN notifications : notifications'[i] = notifications[j]
    <3>1. i \in 1 .. Len(all) /\ (i <= 1 \/ i - 1 \in DOMAIN notifications)
      BY <2>3, <2>4, <2>5
    <3>. QED
      BY <2>3, <2>6, <3>1
  <2>. QED
    BY <2>6, <2>7 DEF Range, note
<1>. QED
  BY <1>1, <1>2 DEF Filed

LEMMA StoreTypeStep ==
  ASSUME StoreType, NEW r, Filed(r), UNCHANGED now, warm' \in BOOLEAN
  PROVE  StoreType'
<1>. USE DEF StoreType
<1>1. notifications' \in Seq(NoteType) /\ \A n \in Range(notifications') : n.timestamp <= now
  BY FiledNotes
<1>2. \A i \in DOMAIN records' : /\ records'[i].timestamp <= now
                                 /\ records'[i].namespace = records'[i].sig.namespace
  <2>. SUFFICES ASSUME NEW i \in DOMAIN records'
                PROVE  /\ records'[i].timestamp <= now
                       /\ records'[i].namespace = records'[i].sig.namespace
    OBVIOUS
  <2>1. r.timestamp <= now /\ r.namespace = r.sig.namespace
    BY DEF Filed
  <2>2. records'[i] = r \/ \E j \in DOMAIN records : records'[i] = records[j]
    BY FiledTrace
  <2>. QED
    BY <2>1, <2>2
<1>3. CASE AddDuplicate(r)
  BY <1>1, <1>3 DEF AddDuplicate
<1>4. CASE AddNew(r)
  <2>1. r \in TraceType /\ r.timestamp = now
    BY DEF Filed
  <2>2. PICK k : Grown(r, k)
    BY <1>4, <2>1, NewGrows
  <2>3. k \in Nat /\ records' \in Seq(TraceType) /\ Len(records') <= maxRecords
        /\ DOMAIN records' = 1 .. Len(records')
    <3>1. Len(records') \in 1 .. maxRecords /\ maxRecords \in Nat
      BY <2>2, TextAssumption DEF Grown
    <3>. QED
      BY <2>2, <3>1, LenProperties DEF Grown
  <2>4. ASSUME NEW i \in DOMAIN records', NEW j \in DOMAIN records', i < j
        PROVE  records'[i].timestamp <= records'[j].timestamp
    <3>1. CASE records'[j] = r
      BY <1>2, <2>1, <3>1
    <3>2. CASE records'[j] # r
      <4>1. /\ k + j \in DOMAIN records /\ records'[j] = records[k + j]
        BY <2>2, <3>2, GrownTrace
      <4>2. j <= Len(records')
        BY <2>3
      <4>3. i # Len(records')
        BY <2>3, <2>4, <4>2
      <4>4. k + i \in DOMAIN records /\ records'[i] = records[k + i]
        BY <2>2, <4>3, GrownTrace
      <4>5. k + i < k + j
        BY <2>3, <2>4
      <4>. QED
        BY <4>1, <4>4, <4>5
    <3>. QED
      BY <3>1, <3>2
  <2>5. \A s \in DOMAIN recentSignatures' : recentSignatures'[s] \in 1 .. now
    <3>1. now \in 1 .. now
      OBVIOUS
    <3>2. \A s \in DOMAIN Put(recentSignatures, r.sig, now) :
            Put(recentSignatures, r.sig, now)[s] \in 1 .. now
      BY <3>1 DEF Put
    <3>. QED
      BY <1>4, <3>2 DEF AddNew, Pruned
  <2>. QED
    BY <1>1, <1>2, <2>3, <2>4, <2>5
<1>. QED
  BY <1>3, <1>4 DEF Filed

-----------------------------------------------------------------------------
(* The cache of signatures and what it knows *)

(* A trace is stored only if no young one has its signature. *)
LEMMA NewIsApart ==
  ASSUME StoreType, YoungTracesAreKnown, NEW r, ~Duplicate(r.sig),
         NEW i \in DOMAIN records, records[i].sig = r.sig
  PROVE  now - records[i].timestamp >= duplicateWindow
<1>1. now \in Nat /\ duplicateWindow \in Nat
  BY TextAssumption DEF StoreType
<1>2. records[i].timestamp \in Nat
  BY StoredType DEF StoreType
<1>. SUFFICES ASSUME now - records[i].timestamp < duplicateWindow PROVE FALSE
  BY <1>1, <1>2
<1>3. r.sig \in DOMAIN recentSignatures /\ recentSignatures[r.sig] >= records[i].timestamp
  BY DEF YoungTracesAreKnown
<1>4. recentSignatures[r.sig] \in Nat
  BY <1>3 DEF StoreType
<1>5. now - recentSignatures[r.sig] < duplicateWindow
  BY <1>1, <1>2, <1>3, <1>4
<1>. QED
  BY <1>3, <1>5 DEF Duplicate

LEMMA OnceStep ==
  ASSUME StoreType, YoungTracesAreKnown, StoredOncePerWindow, NEW r, Filed(r)
  PROVE  StoredOncePerWindow'
<1>1. CASE AddDuplicate(r)
  BY <1>1 DEF AddDuplicate, StoredOncePerWindow
<1>2. CASE AddNew(r)
  <2>1. records \in Seq(TraceType) /\ r \in TraceType /\ r.timestamp = now
    BY DEF StoreType, Filed
  <2>2. PICK k : Grown(r, k)
    BY <1>2, <2>1, NewGrows
  <2>. SUFFICES ASSUME NEW i \in DOMAIN records', NEW j \in DOMAIN records', i < j,
                       records'[i].sig = records'[j].sig
                PROVE  records'[j].timestamp - records'[i].timestamp >= duplicateWindow
    BY DEF StoredOncePerWindow
  <2>3. DOMAIN records' = 1 .. Len(records') /\ Len(records') \in Nat /\ k \in Nat
    BY <2>2, LenProperties DEF Grown
  <2>4. k + i \in DOMAIN records /\ records'[i] = records[k + i]
    <3>1. i # Len(records')
      BY <2>3
    <3>. QED
      BY <2>1, <2>2, <3>1, GrownTrace
  <2>5. CASE records'[j] = r
    BY <1>2, <2>1, <2>4, <2>5, NewIsApart DEF AddNew
  <2>6. CASE records'[j] # r
    <3>1. k + j \in DOMAIN records /\ records'[j] = records[k + j]
      BY <2>1, <2>2, <2>6, GrownTrace
    <3>2. k + i < k + j
      BY <2>3
    <3>. QED
      BY <2>4, <3>1, <3>2 DEF StoredOncePerWindow
  <2>. QED
    BY <2>5, <2>6
<1>. QED
  BY <1>1, <1>2 DEF Filed

(* What is cut from the cache is too old to matter. *)
LEMMA KnownStep ==
  ASSUME StoreType, YoungTracesAreKnown, NEW r, Filed(r), UNCHANGED now
  PROVE  YoungTracesAreKnown'
<1>1. CASE AddDuplicate(r)
  BY <1>1 DEF AddDuplicate, YoungTracesAreKnown
<1>2. CASE AddNew(r)
  <2>1. /\ now \in Nat /\ duplicateWindow \in Nat \ {0} /\ pruneAfter \in Nat
        /\ duplicateWindow <= pruneAfter
    BY TextAssumption DEF StoreType
  <2>2. r.timestamp = now /\ records \in Seq(TraceType) /\ r \in TraceType
    BY DEF Filed, StoreType
  <2>3. PICK put : put = Put(recentSignatures, r.sig, now)
    OBVIOUS
  <2>4. /\ r.sig \in DOMAIN put /\ put[r.sig] = now
        /\ \A s \in DOMAIN recentSignatures :
             s \in DOMAIN put /\ (s # r.sig => put[s] = recentSignatures[s])
        /\ \A s \in DOMAIN put : s = r.sig \/ s \in DOMAIN recentSignatures
    BY <2>3 DEF Put
  <2>5. \A s \in DOMAIN recentSignatures : recentSignatures[s] \in Nat /\ recentSignatures[s] <= now
    BY DEF StoreType
  <2>6. ASSUME NEW i \in DOMAIN records', now - records'[i].timestamp < duplicateWindow
        PROVE  /\ records'[i].sig \in DOMAIN put
               /\ put[records'[i].sig] \in Nat
               /\ put[records'[i].sig] >= records'[i].timestamp
    <3>1. CASE records'[i] = r
      BY <2>1, <2>2, <2>4, <3>1
    <3>2. CASE \E j \in DOMAIN records : records'[i] = records[j]
      <4>1. PICK j \in DOMAIN records : records'[i] = records[j]
        BY <3>2
      <4>2. /\ records'[i].sig \in DOMAIN recentSignatures
            /\ recentSignatures[records'[i].sig] >= records'[i].timestamp
            /\ records'[i].timestamp <= now
        BY <2>6, <4>1 DEF YoungTracesAreKnown, StoreType
      <4>3. CASE records'[i].sig = r.sig
        BY <2>1, <2>4, <4>2, <4>3
      <4>4. CASE records'[i].sig # r.sig
        BY <2>4, <2>5, <4>2, <4>4
      <4>. QED
        BY <4>3, <4>4
    <3>. QED
      BY <2>2, <3>1, <3>2, FiledTrace
  <2>7. ASSUME NEW i \in DOMAIN records', now - records'[i].timestamp < duplicateWindow
        PROVE  now - put[records'[i].sig] <= pruneAfter
    <3>1. records'[i].timestamp \in Nat
      <4>1. \A j \in DOMAIN records : records[j].timestamp \in Nat
        BY <2>2, StoredType
      <4>. QED
        BY <2>1, <2>2, <4>1, FiledTrace
    <3>2. PICK t \in Nat : t = put[records'[i].sig] /\ t >= records'[i].timestamp
      BY <2>6, <2>7
    <3>3. now - t <= pruneAfter
      BY <2>1, <2>7, <3>1, <3>2
    <3>. QED
      BY <3>2, <3>3
  <2>8. recentSignatures' = Pruned(put)
    BY <1>2, <2>3 DEF AddNew
  <2>. QED
    BY <2>6, <2>7, <2>8 DEF Pruned, YoungTracesAreKnown
<1>. QED
  BY <1>1, <1>2 DEF Filed

(* What is held stays held: a trace is dropped from the front of a full list. *)
LEMMA HeldStep ==
  ASSUME StoreType, NEW r, Filed(r), UNCHANGED now,
         NEW s, NEW lo \in Int, NEW hi \in Int, lo <= now, Held(s, lo, hi)
  PROVE  Held(s, lo, hi)'
<1>1. CASE AddDuplicate(r)
  BY <1>1 DEF AddDuplicate, Held
<1>2. CASE AddNew(r)
  <2>1. /\ r \in TraceType /\ r.timestamp = now /\ now \in Nat
        /\ records \in Seq(TraceType) /\ maxRecords \in Nat
        /\ Len(records) \in Nat /\ Len(records) <= maxRecords /\ DOMAIN records = 1 .. Len(records)
    BY TextAssumption, LenProperties DEF Filed, StoreType
  <2>2. PICK k : Grown(r, k)
    BY <1>2, <2>1, NewGrows
  <2>3. PICK l \in Nat : /\ l = Len(records') /\ DOMAIN records' = 1 .. l
                         /\ k \in Nat /\ k + l = Len(records) + 1
    BY <2>2, LenProperties DEF Grown
  <2>4. CASE \E i \in DOMAIN records : /\ i <= k /\ records[i].timestamp >= lo
    <3>1. PICK i \in DOMAIN records : i <= k /\ records[i].timestamp >= lo
      BY <2>4
    <3>2. Len(records') = maxRecords
      BY <2>1, <2>2, <2>3, <3>1 DEF Grown
    <3>3. ASSUME NEW j \in DOMAIN records' PROVE records'[j].timestamp >= lo
      <4>1. CASE records'[j] = r
        BY <2>1, <4>1
      <4>2. CASE records'[j] # r
        <5>1. k + j \in DOMAIN records /\ records'[j] = records[k + j]
          BY <2>1, <2>2, <4>2, GrownTrace
        <5>2. i < k + j
          BY <2>1, <2>3, <3>1
        <5>3. records[i].timestamp <= records[k + j].timestamp
          BY <5>1, <5>2 DEF StoreType
        <5>4. records[i].timestamp \in Nat /\ records[k + j].timestamp \in Nat
          BY <2>1, <5>1, StoredType
        <5>. QED
          BY <3>1, <5>1, <5>3, <5>4
      <4>. QED
        BY <4>1, <4>2
    <3>. QED
      BY <3>2, <3>3 DEF Held
  <2>5. ASSUME NEW i \in DOMAIN records, i > k, records[i].sig = s, records[i].timestamp \in lo .. hi
        PROVE  Held(s, lo, hi)'
    <3>1. PICK j \in 1 .. l : k + j = i
      <4>1. i - k \in 1 .. l /\ k + (i - k) = i
        BY <2>1, <2>3, <2>5
      <4>. QED
        BY <4>1
    <3>2. records'[j] = records[i]
      BY <2>1, <2>2, <2>3, <3>1 DEF Grown
    <3>. QED
      BY <2>3, <2>5, <3>2 DEF Held
  <2>6. CASE \E i \in DOMAIN records : records[i].sig = s /\ records[i].timestamp \in lo .. hi
    <3>1. PICK i \in DOMAIN records : records[i].sig = s /\ records[i].timestamp \in lo .. hi
      BY <2>6
    <3>2. i > k \/ i <= k
      BY <2>1, <2>3
    <3>. QED
      BY <2>4, <2>5, <3>1, <3>2
  <2>7. CASE Len(records) = maxRecords /\ \A i \in DOMAIN records : records[i].timestamp >= lo
    <3>1. k > 0 /\ 1 \in DOMAIN records
      <4>1. maxRecords > 0 /\ l <= maxRecords
        BY <2>1, <2>2, <2>3, TextAssumption DEF Grown
      <4>. QED
        BY <2>1, <2>3, <2>7, <4>1
    <3>2. 1 <= k
      BY <2>3, <3>1
    <3>. QED
      BY <2>4, <2>7, <3>1, <3>2
  <2>. QED
    BY <2>6, <2>7 DEF Held
<1>. QED
  BY <1>1, <1>2 DEF Filed

LEMMA HeldWider ==
  ASSUME NEW s, NEW lo \in Int, NEW hi \in Int, NEW lo2 \in Int, NEW hi2 \in Int,
         StoreType, lo2 <= lo, hi <= hi2, Held(s, lo, hi)
  PROVE  Held(s, lo2, hi2)
<1>1. \A i \in DOMAIN records : records[i].timestamp \in Nat
  BY StoredType DEF StoreType
<1>2. CASE \E i \in DOMAIN records : records[i].sig = s /\ records[i].timestamp \in lo .. hi
  BY <1>1, <1>2 DEF Held
<1>3. CASE Len(records) = maxRecords /\ \A i \in DOMAIN records : records[i].timestamp >= lo
  BY <1>1, <1>3 DEF Held
<1>. QED
  BY <1>2, <1>3 DEF Held

LEMMA NewIsHeld ==
  ASSUME StoreType, NEW r, Filed(r), AddNew(r), UNCHANGED now, NEW lo \in Int, lo <= now
  PROVE  Held(r.sig, lo, now)'
<1>1. /\ r \in TraceType /\ r.timestamp = now /\ now \in Nat /\ records \in Seq(TraceType)
  BY DEF Filed, StoreType
<1>2. PICK k : Grown(r, k)
  BY <1>1, NewGrows
<1>3. PICK l \in Nat \ {0} : l = Len(records') /\ DOMAIN records' = 1 .. l
  <2>1. Len(records') \in 1 .. maxRecords /\ maxRecords \in Nat
    BY <1>2, TextAssumption DEF Grown
  <2>2. DOMAIN records' = 1 .. Len(records') /\ Len(records') \in Nat
    BY <1>2, LenProperties DEF Grown
  <2>3. Len(records') # 0
    BY <2>1
  <2>. QED
    BY <2>2, <2>3
<1>4. l \in DOMAIN records' /\ records'[l] = r
  BY <1>2, <1>3 DEF Grown
<1>5. r.timestamp \in lo .. now
  BY <1>1
<1>. QED
  BY <1>4, <1>5 DEF Held

LEMMA SignaturesStep ==
  ASSUME StoreType, SignaturesHaveTheirTrace, NEW r, Filed(r), UNCHANGED now
  PROVE  SignaturesHaveTheirTrace'
<1>1. ASSUME NEW s \in DOMAIN recentSignatures PROVE Held(s, recentSignatures[s], recentSignatures[s])'
           \/ recentSignatures'[s] # recentSignatures[s]
  <2>1. recentSignatures[s] \in Int /\ recentSignatures[s] <= now
    BY DEF StoreType
  <2>2. PICK t \in Int : t = recentSignatures[s] /\ t <= now
    BY <2>1
  <2>3. Held(s, t, t)
    BY <2>2 DEF SignaturesHaveTheirTrace
  <2>4. Held(s, t, t)'
    BY <2>2, <2>3, HeldStep
  <2>. QED
    BY <2>2, <2>4
<1>2. CASE AddDuplicate(r)
  BY <1>1, <1>2 DEF AddDuplicate, SignaturesHaveTheirTrace
<1>3. CASE AddNew(r)
  <2>1. ASSUME NEW s \in DOMAIN recentSignatures'
        PROVE  \/ s = r.sig /\ recentSignatures'[s] = now
               \/ s \in DOMAIN recentSignatures /\ recentSignatures'[s] = recentSignatures[s]
    BY <1>3 DEF AddNew, Pruned, Put
  <2>2. Held(r.sig, now, now)'
    <3>1. PICK lo \in Int : lo = now /\ lo <= now
      BY DEF StoreType
    <3>. QED
      BY <1>3, <3>1, NewIsHeld
  <2>. QED
    BY <1>1, <2>1, <2>2 DEF SignaturesHaveTheirTrace
<1>. QED
  BY <1>2, <1>3 DEF Filed

(* A duplicate's alarm is about the trace whose signature the cache knows. *)
LEMMA NotesStep ==
  ASSUME StoreType, StoreType', SignaturesHaveTheirTrace, NotesHaveTheirTrace,
         NEW r, Filed(r), UNCHANGED now
  PROVE  NotesHaveTheirTrace'
<1>1. now \in Nat /\ duplicateWindow \in Nat /\ duplicateWindow >= 1
  BY TextAssumption DEF StoreType
<1>2. ASSUME NEW n \in Range(notifications), n.service # NoNode
      PROVE  Held(n.sig, n.timestamp - duplicateWindow + 1, n.timestamp)'
  <2>1. n \in NoteType /\ n.timestamp <= now
    BY LenProperties, ElementOfSeq DEF StoreType, Range
  <2>2. PICK t \in Nat : t = n.timestamp /\ t <= now
    BY <2>1 DEF NoteType
  <2>3. PICK lo \in Int : lo = t - duplicateWindow + 1 /\ lo <= now
    BY <1>1, <2>2
  <2>4. Held(n.sig, lo, t)
    BY <1>2, <2>2, <2>3 DEF NotesHaveTheirTrace
  <2>5. Held(n.sig, lo, t)'
    BY <2>2, <2>3, <2>4, HeldStep
  <2>. QED
    BY <2>2, <2>3, <2>5
<1>3. Held(r.sig, now - duplicateWindow + 1, now)'
  <2>1. PICK lo \in Int : lo = now - duplicateWindow + 1 /\ lo <= now
    BY <1>1
  <2>2. CASE AddNew(r)
    BY <2>1, <2>2, NewIsHeld
  <2>3. CASE AddDuplicate(r)
    <3>1. r.sig \in DOMAIN recentSignatures /\ now - recentSignatures[r.sig] < duplicateWindow
      BY <2>3 DEF AddDuplicate, Duplicate
    <3>2. PICK t \in Nat : t = recentSignatures[r.sig] /\ t <= now
      BY <3>1 DEF StoreType
    <3>3. Held(r.sig, t, t)
      BY <3>1, <3>2 DEF SignaturesHaveTheirTrace
    <3>4. lo <= t
      BY <1>1, <2>1, <3>1, <3>2
    <3>5. Held(r.sig, lo, now)
      BY <1>1, <2>1, <3>2, <3>3, <3>4, HeldWider
    <3>6. Held(r.sig, lo, now)'
      BY <1>1, <2>1, <3>5, HeldStep
    <3>. QED
      BY <2>1, <3>6
  <2>. QED
    BY <2>2, <2>3 DEF Filed
<1>4. notifications \in Seq(NoteType) /\ now \in Nat
  BY DEF StoreType
<1>5. ASSUME NEW n \in Range(notifications'), n.service # NoNode
      PROVE  Held(n.sig, n.timestamp - duplicateWindow + 1, n.timestamp)'
  <2>1. CASE n \in Range(notifications)
    BY <1>2, <1>5, <2>1
  <2>2. CASE n = [sig |-> r.sig, service |-> r.destService, timestamp |-> now]
    <3>1. n.sig = r.sig /\ n.timestamp = now
      BY <2>2
    <3>. QED
      BY <1>3, <3>1
  <2>. QED
    BY <1>4, <2>1, <2>2, FiledNotes
<1>. QED
  BY <1>5 DEF NotesHaveTheirTrace

-----------------------------------------------------------------------------
(* The invariant *)

LEMMA RightStep ==
  ASSUME StoreType, DroppedTrafficIsUnnamed, PlacedTracesAreNamed, WarmReportsAreFiledRight,
         NEW r, Filed(r), FiledRight(r)
  PROVE  DroppedTrafficIsUnnamed' /\ PlacedTracesAreNamed' /\ WarmReportsAreFiledRight'
<1>1. records \in Seq(TraceType)
  BY DEF StoreType
<1>2. \A i \in DOMAIN records : FiledRight(records[i])
  BY DEF DroppedTrafficIsUnnamed, PlacedTracesAreNamed, WarmReportsAreFiledRight, FiledRight, Range
<1>3. \A i \in DOMAIN records' : FiledRight(records'[i])
  BY <1>1, <1>2, FiledTrace
<1>. QED
  BY <1>3 DEF DroppedTrafficIsUnnamed, PlacedTracesAreNamed, WarmReportsAreFiledRight,
              FiledRight, Range

LEMMA IngestStarts == IngestInit => IngestInv
<1>. SUFFICES ASSUME IngestInit PROVE IngestInv
  OBVIOUS
<1>1. /\ records = <<>> /\ DOMAIN records = {} /\ Len(records) = 0
      /\ notifications = <<>> /\ Range(notifications) = {}
      /\ DOMAIN recentSignatures = {} /\ now = 1 /\ warm = FALSE
  BY DEF IngestInit, Range
<1>2. TypeOK
  BY InitType DEF IngestInit
<1>3. StoreType
  <2>1. records \in Seq(TraceType) /\ notifications \in Seq(NoteType)
    BY <1>1, EmptySeq
  <2>2. now \in Nat \ {0} /\ Len(records) <= maxRecords
    BY <1>1, TextAssumption
  <2>. QED
    BY <1>1, <2>1, <2>2 DEF StoreType
<1>4. NamespacesComeWithServices
  BY DEF IngestInit, Init, NamespacesComeWithServices
<1>. QED
  BY <1>1, <1>2, <1>3, <1>4
     DEF IngestInv, YoungTracesAreKnown, SignaturesHaveTheirTrace, NotesHaveTheirTrace,
         DroppedTrafficIsUnnamed, PlacedTracesAreNamed, WarmCaches, StoredOncePerWindow, WarmReportsAreFiledRight, Range

LEMMA StoreStays ==
  ASSUME IngestInv, UNCHANGED store, now' \in {now, now + 1}, warm' \in BOOLEAN
  PROVE  /\ StoreType' /\ YoungTracesAreKnown' /\ SignaturesHaveTheirTrace'
         /\ NotesHaveTheirTrace' /\ DroppedTrafficIsUnnamed' /\ PlacedTracesAreNamed'
         /\ StoredOncePerWindow' /\ WarmReportsAreFiledRight'
<1>. USE DEF store, IngestInv
<1>1. now \in Nat /\ now' \in Nat \ {0} /\ now' >= now
  BY DEF StoreType
<1>2. \A i \in DOMAIN records : records[i].timestamp \in Nat
  BY StoredType DEF StoreType
<1>3. StoreType'
  <2>1. \A i \in DOMAIN records : records[i].timestamp <= now'
    BY <1>1, <1>2 DEF StoreType
  <2>2. \A s \in DOMAIN recentSignatures : recentSignatures[s] \in 1 .. now'
    BY <1>1 DEF StoreType
  <2>3. \A n \in Range(notifications) : n.timestamp <= now'
    <3>1. \A n \in Range(notifications) : n \in NoteType /\ n.timestamp <= now
      BY LenProperties, ElementOfSeq DEF StoreType, Range
    <3>2. \A n \in Range(notifications) : n.timestamp \in Nat
      BY <3>1 DEF NoteType
    <3>. QED
      BY <1>1, <3>1, <3>2
  <2>. QED
    BY <1>1, <2>1, <2>2, <2>3 DEF StoreType
<1>4. YoungTracesAreKnown'
  <2>1. duplicateWindow \in Nat
    BY TextAssumption
  <2>2. ASSUME NEW i \in DOMAIN records, now' - records[i].timestamp < duplicateWindow
        PROVE  now - records[i].timestamp < duplicateWindow
    BY <1>1, <1>2, <2>1, <2>2
  <2>. QED
    BY <2>2 DEF YoungTracesAreKnown
<1>5. /\ SignaturesHaveTheirTrace' /\ NotesHaveTheirTrace'
      /\ DroppedTrafficIsUnnamed' /\ PlacedTracesAreNamed'
  BY DEF SignaturesHaveTheirTrace, NotesHaveTheirTrace, DroppedTrafficIsUnnamed,
         PlacedTracesAreNamed, Held
<1>6. StoredOncePerWindow' /\ WarmReportsAreFiledRight'
  BY DEF StoredOncePerWindow, WarmReportsAreFiledRight
<1>. QED
  BY <1>3, <1>4, <1>5, <1>6

LEMMA IngestInvStep == IngestInv /\ [IngestNext]_ingestVars => IngestInv'
<1>. SUFFICES ASSUME IngestInv, [IngestNext]_ingestVars PROVE IngestInv'
  OBVIOUS
<1>. USE DEF IngestInv
<1>1. CASE UNCHANGED ingestVars
  <2>1. TypeOK'
    BY <1>1, TypeStep DEF ingestVars
  <2>2. WarmCaches' /\ warm' \in BOOLEAN /\ NamespacesComeWithServices'
    BY <1>1 DEF ingestVars, vars, inventory, WarmCaches, NamespacesComeWithServices, StoreType
  <2>3. UNCHANGED store /\ now' \in {now, now + 1}
    BY <1>1 DEF ingestVars
  <2>. QED
    BY <2>1, <2>2, <2>3, StoreStays
<1>2. CASE IngestNext
  <2>1. TypeOK'
    BY <1>2, IngestIsService, TypeStep
  <2>2. WarmCaches' /\ warm' \in BOOLEAN /\ NamespacesComeWithServices'
    BY <1>2, WarmStep, TogetherStep DEF StoreType
  <2>3. CASE UNCHANGED store /\ now' \in {now, now + 1}
    BY <2>1, <2>2, <2>3, StoreStays
  <2>4. ASSUME NEW r, Filed(r), FiledRight(r), UNCHANGED now PROVE IngestInv'
    <3>1. StoreType'
      BY <2>2, <2>4, StoreTypeStep
    <3>2. YoungTracesAreKnown' /\ StoredOncePerWindow'
      BY <2>4, KnownStep, OnceStep
    <3>3. SignaturesHaveTheirTrace'
      BY <2>4, SignaturesStep
    <3>4. NotesHaveTheirTrace'
      BY <2>4, <3>1, NotesStep
    <3>5. DroppedTrafficIsUnnamed' /\ PlacedTracesAreNamed' /\ WarmReportsAreFiledRight'
      BY <2>4, RightStep
    <3>. QED
      BY <2>1, <2>2, <3>1, <3>2, <3>3, <3>4, <3>5
  <2>. QED
    BY <1>2, <2>1, <2>3, <2>4, IngestStep
<1>. QED
  BY <1>1, <1>2

LEMMA IngestAlways == IngestSpec => []IngestInv
<1>1. IngestSpec => IngestInit /\ [][IngestNext]_ingestVars
  BY PTL DEF IngestSpec
<1>. QED
  BY <1>1, IngestStarts, IngestInvStep, PTL

-----------------------------------------------------------------------------
(* The theorems *)

(* Behind the controller, which files traces and tells users of them, the graph
   service does nothing that it would not do alone: what is proved of it in the
   first part holds of the two together. *)
THEOREM IngestRefinesService == IngestSpec => Spec
<1>1. IngestInit => Init
  BY DEF IngestInit
<1>2. [IngestNext]_ingestVars => [Next]_vars
  BY IngestIsService DEF ingestVars
<1>3. IngestSpec => IngestInit /\ [][IngestNext]_ingestVars
  BY PTL DEF IngestSpec
<1>. QED
  BY <1>1, <1>2, <1>3, PTL DEF Spec

(* A client that is served while reports arrive, wait, are filed and alarm users sees
   the graph of GraphStore: all that was observed, or nothing. *)
THEOREM IngestImplementsStore == IngestSpec => ImplementsGraphStore
  BY IngestRefinesService, ServiceImplementsStore, PTL

(* No trace is stored twice within the window, although the cache of signatures is
   cut when it is full. *)
THEOREM TracesAreStoredOnce == IngestSpec => []StoredOncePerWindow
<1>1. IngestInv => StoredOncePerWindow
  BY DEF IngestInv
<1>. QED
  BY <1>1, IngestAlways, PTL

(* While the caches are warm a report about a service is filed under its namespace. *)
THEOREM WarmReportsAreInPlace == IngestSpec => []WarmReportsAreFiledRight
<1>1. IngestInv => WarmReportsAreFiledRight
  BY DEF IngestInv
<1>. QED
  BY <1>1, IngestAlways, PTL

(* No namespace lists traffic that the graph service drops. *)
THEOREM DroppedTrafficIsNotListed == IngestSpec => []DroppedTrafficIsUnlisted
<1>1. IngestInv => DroppedTrafficIsUnlisted
  BY DEF IngestInv, DroppedTrafficIsUnnamed, DroppedTrafficIsUnlisted, listByNamespace,
         isServiceTrace, IsTrace
<1>. QED
  BY <1>1, IngestAlways, PTL

(* A namespace's list as long as the store shows each of its traces. *)
LEMMA AllAreListed ==
  ASSUME StoreType, NEW i \in DOMAIN records, NEW ns,
         OfNamespace(records[i], ns), isServiceTrace(records[i])
  PROVE  i \in listByNamespace(ns, maxRecords)
<1>. DEFINE matching == {j \in DOMAIN records : OfNamespace(records[j], ns) /\ isServiceTrace(records[j])}
            before(j, l) == \/ records[j].timestamp > records[l].timestamp
                            \/ records[j].timestamp = records[l].timestamp /\ j < l
            others == {j \in matching : before(j, i)}
<1>1. Len(records) \in Nat /\ DOMAIN records = 1 .. Len(records) /\ Len(records) <= maxRecords
      /\ maxRecords \in Nat
  BY LenProperties, TextAssumption DEF StoreType
<1>3. records[i].timestamp \in Nat
  BY StoredType DEF StoreType
<1>4. others \subseteq DOMAIN records /\ i \notin others
  BY <1>1, <1>3
<1>5. Cardinality(others) \in Nat /\ Cardinality(others) < Len(records)
  <2>. HIDE DEF others
  <2>1. others \in SUBSET (1 .. Len(records)) /\ i \in 1 .. Len(records) /\ i \notin others
    BY <1>1, <1>4
  <2>. QED
    BY <1>1, <2>1, FewerPlaces
<1>6. Cardinality(others) < maxRecords
  <2>1. ASSUME NEW c \in Nat, c < Len(records) PROVE c < maxRecords
    BY <1>1, <2>1
  <2>. QED
    BY <1>5, <2>1
<1>. QED
  BY <1>6 DEF listByNamespace

(* Who is alarmed finds the trace, unless the full list has only younger ones; and
   finds it in the namespace it was filed under, whatever the caches held when the
   trace was filed and when the alarm was. *)
THEOREM AlarmsHaveTheirTrace == IngestSpec => []NotificationsHaveTheirTrace
<1>1. ASSUME IngestInv, NEW n \in Range(notifications), n.service # NoNode
      PROVE  \/ \E i \in DOMAIN records :
                  /\ records[i].sig = n.sig
                  /\ records[i].timestamp \in n.timestamp - duplicateWindow + 1 .. n.timestamp
                  /\ ((\E s \in Services : n.sig.dest \in SvcIps[s])
                       /\ n.sig.namespace # DefaultNs /\ IsTrace(records[i])) =>
                       i \in listByNamespace(n.sig.namespace, maxRecords)
             \/ /\ Len(records) = maxRecords
                /\ \A r \in Range(records) : r.timestamp > n.timestamp - duplicateWindow
  <2>1. StoreType /\ records \in Seq(TraceType)
    BY <1>1 DEF IngestInv, StoreType
  <2>2. \A i \in DOMAIN records : records[i].timestamp \in Nat
    BY <2>1, StoredType
  <2>3. n.timestamp \in Nat /\ duplicateWindow \in Nat
    <3>1. n \in NoteType
      BY <2>1, LenProperties, ElementOfSeq DEF StoreType, Range
    <3>. QED
      BY <3>1, TextAssumption DEF NoteType
  <2>4. ASSUME NEW i \in DOMAIN records, records[i].sig = n.sig,
               NEW s \in Services, n.sig.dest \in SvcIps[s],
               n.sig.namespace # DefaultNs, IsTrace(records[i])
        PROVE  i \in listByNamespace(n.sig.namespace, maxRecords)
    <3>1. records[i].namespace = n.sig.namespace
      BY <2>1, <2>4 DEF StoreType
    <3>2. records[i].destService # NoNode
      BY <1>1, <2>4, <3>1 DEF IngestInv, PlacedTracesAreNamed
    <3>3. OfNamespace(records[i], n.sig.namespace) /\ isServiceTrace(records[i])
      BY <2>4, <3>1, <3>2 DEF OfNamespace, isServiceTrace
    <3>. QED
      BY <2>1, <3>3, AllAreListed
  <2>5. Held(n.sig, n.timestamp - duplicateWindow + 1, n.timestamp)
    BY <1>1 DEF IngestInv, NotesHaveTheirTrace
  <2>6. CASE \E i \in DOMAIN records : /\ records[i].sig = n.sig
                                      /\ records[i].timestamp \in n.timestamp - duplicateWindow + 1 .. n.timestamp
    BY <2>4, <2>6
  <2>7. CASE /\ Len(records) = maxRecords
             /\ \A i \in DOMAIN records : records[i].timestamp >= n.timestamp - duplicateWindow + 1
    <3>1. \A i \in DOMAIN records : records[i].timestamp > n.timestamp - duplicateWindow
      BY <2>2, <2>3, <2>7
    <3>. QED
      BY <2>7, <3>1 DEF Range
  <2>. QED
    BY <2>5, <2>6, <2>7 DEF Held
<1>2. IngestInv => NotificationsHaveTheirTrace
  BY <1>1 DEF NotificationsHaveTheirTrace
<1>. QED
  BY <1>2, IngestAlways, PTL

(* Of equal stretches one after the other, each moment of their span is in one. *)
LEMMA Multiples ==
  ASSUME NEW L \in Nat
  PROVE  /\ \A i \in Int : (i + 1) * L = i * L + L
         /\ \A b, i \in Int : (b - i) * L = b * L - i * L
         /\ \A i, j \in Int : i < j => i * L + L <= j * L
<1>1. \A i \in Int : (i + 1) * L = i * L + L
  OBVIOUS
<1>2. \A b, i \in Int : (b - i) * L = b * L - i * L
  OBVIOUS
<1>3. ASSUME NEW i \in Int, NEW j \in Int, i < j PROVE i * L + L <= j * L
  <2>1. PICK k \in Nat : j = i + 1 + k
    <3>1. j - i - 1 \in Nat /\ j = i + 1 + (j - i - 1)
      BY <1>3
    <3>. QED
      BY <3>1
  <2>2. j * L = i * L + L + k * L /\ k * L \in Nat /\ i * L \in Int
    BY <2>1
  <2>. QED
    BY <2>2
<1>. QED
  BY <1>1, <1>2, <1>3

LEMMA OneStretch ==
  ASSUME NEW B \in Nat \ {0}, NEW L \in Nat \ {0}, NEW x \in Nat, x < B * L
  PROVE  \E b \in 0 .. B - 1 : \A i \in 0 .. B - 1 :
           (i * L <= x /\ x < i * L + L) <=> i = b
<1>. DEFINE begun == {i \in 0 .. B - 1 : i * L <= x}
<1>1. begun \in SUBSET Nat /\ \A i \in begun : i <= B
  OBVIOUS
<1>2. 0 \in begun
  OBVIOUS
<1>3. PICK b \in begun : \A i \in begun : i <= b
  BY <1>1, <1>2, GreatestNumber
<1>4. b \in 0 .. B - 1 /\ b * L <= x /\ b * L \in Nat
  BY <1>3
<1>5. x < b * L + L
  <2>1. CASE b = B - 1
    <3>1. B = b + 1
      BY <2>1
    <3>. QED
      BY <3>1, <1>4, Multiples
  <2>2. CASE b # B - 1
    <3>1. PICK c \in 0 .. B - 1 : c = b + 1
      BY <1>4, <2>2
    <3>2. c \notin begun
      BY <1>3, <1>4, <3>1
    <3>3. c * L = b * L + L
      BY <1>4, <3>1, Multiples
    <3>4. ~ (c * L <= x)
      BY <3>2
    <3>. QED
      BY <1>4, <3>3, <3>4
  <2>. QED
    BY <2>1, <2>2
<1>6. ASSUME NEW i \in 0 .. B - 1, i * L <= x, x < i * L + L PROVE i = b
  <2>1. i * L \in Nat /\ i \in begun
    BY <1>6
  <2>2. i <= b
    BY <1>3, <2>1
  <2>3. CASE i < b
    <3>1. i * L + L <= b * L
      BY <1>4, <2>3, Multiples
    <3>. QED
      BY <1>4, <1>6, <2>1, <3>1
  <2>. QED
    BY <1>4, <2>2, <2>3
<1>. QED
  BY <1>4, <1>5, <1>6

(* The metrics count every trace of their span that calls a service, and none twice. *)
THEOREM HistoryIsExact == IngestSpec => []HistoryCountsEachTraceOnce
<1>. DEFINE InOne(x) == \E b \in 0 .. Buckets - 1 : \A i \in 0 .. Buckets - 1 :
       (i * BucketLength <= x /\ x < i * BucketLength + BucketLength) <=> i = b
<1>1. ASSUME NEW x \in Nat, x < Buckets * BucketLength PROVE InOne(x)
  <2>1. Buckets \in Nat \ {0} /\ BucketLength \in Nat \ {0}
    BY TextAssumption
  <2>. QED
    BY <1>1, <2>1, OneStretch
<1>. HIDE DEF InOne
<1>2. ASSUME IngestInv, NEW ns, NEW j \in listByNamespace(ns, 5000),
             records[j].destService # NoNode,
             records[j].timestamp \in now - Buckets * BucketLength .. now - 1
      PROVE  Cardinality({i \in 0 .. Buckets - 1 : j \in Bucket(ns, records[j].destService, i)}) = 1
  <2>1. now \in Nat /\ Buckets \in Nat \ {0} /\ BucketLength \in Nat \ {0}
    BY <1>2, TextAssumption DEF IngestInv, StoreType
  <2>2. PICK t \in Nat : t = records[j].timestamp
    BY <1>2, StoredType DEF IngestInv, StoreType, listByNamespace
  <2>3. PICK span \in Nat : span = Buckets * BucketLength
    BY <2>1
  <2>4. PICK x \in Nat : x = t - (now - span) /\ x < span
    <3>1. t - (now - span) \in Nat /\ t - (now - span) < span
      BY <1>2, <2>1, <2>2, <2>3
    <3>. QED
      BY <3>1
  <2>5. PICK b \in 0 .. Buckets - 1 : \A i \in 0 .. Buckets - 1 :
          (i * BucketLength <= x /\ x < i * BucketLength + BucketLength) <=> i = b
    <3>1. x < Buckets * BucketLength
      BY <2>3, <2>4
    <3>2. InOne(x)
      BY <1>1, <3>1
    <3>. QED
      BY <3>2 DEF InOne
  <2>6. ASSUME NEW i \in 0 .. Buckets - 1
        PROVE  j \in Bucket(ns, records[j].destService, i) <=> i = b
    <3>1. PICK y \in Int : y = i * BucketLength
      BY <2>1
    <3>2. (Buckets - i) * BucketLength = span - y
      BY <2>1, <2>3, <3>1, Multiples
    <3>3. j \in Bucket(ns, records[j].destService, i) <=>
            t >= now - (span - y) /\ t < now - (span - y) + BucketLength
      BY <1>2, <2>2, <3>2 DEF Bucket
    <3>4. (t >= now - (span - y) /\ t < now - (span - y) + BucketLength)
            <=> (y <= x /\ x < y + BucketLength)
      BY <2>1, <2>4
    <3>. QED
      BY <2>5, <3>1, <3>3, <3>4
  <2>7. b \in {i \in 0 .. Buckets - 1 : j \in Bucket(ns, records[j].destService, i)}
    BY <2>6
  <2>8. \A i \in {i \in 0 .. Buckets - 1 : j \in Bucket(ns, records[j].destService, i)} : i = b
    BY <2>6
  <2>. QED
    BY <2>7, <2>8, OnlyPlace
<1>3. IngestInv => HistoryCountsEachTraceOnce
  BY <1>2 DEF HistoryCountsEachTraceOnce
<1>. QED
  BY <1>3, IngestAlways, PTL
=============================================================================
