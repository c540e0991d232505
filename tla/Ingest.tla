-------------------------------- MODULE Ingest --------------------------------
(* backend/src/telemetry: the controller hands every report to the graph service,
   which may suspend it, and files it in ApiEventsStore, a bounded list of traces
   without duplicates, from which the events page and the metrics are served.
   Each action is a step of GraphService with what the controller does in the
   same stretch of the event loop; what the gateway sends of it is in GraphFeed.

   Time passes in units; the store's constants are given in them. *)
EXTENDS GraphService, FiniteSets, Sequences, SequencesExt

CONSTANTS
  Text,             \* per report: endpoint, status code (0: none), slow or not
  NoEndpoint,
  NoisePaths,       \* endpoints that noisePathPattern or infraRoutePattern matches
  SystemServices,   \* services that systemServicePattern matches
  LoopbackIps,
  DefaultNs,        \* "default"
  maxRecords, duplicateWindow, maxSignatures, maxNotifications,
  pruneAfter,       \* five windows
  BucketLength, Buckets,  \* of the history that the metrics show
  MaxReports, MaxTime     \* bounds

ASSUME TextAssumption ==
  /\ \A p \in Payloads : Text[p] \in [endpoint : STRING \cup {NoEndpoint}, status : Nat,
                                      slow : BOOLEAN]
  /\ {maxRecords, duplicateWindow, BucketLength, Buckets} \subseteq Nat \ {0}
  /\ {maxSignatures, maxNotifications, MaxReports, MaxTime} \subseteq Nat
  /\ pruneAfter \in Nat /\ pruneAfter >= duplicateWindow
  /\ NoNs # DefaultNs

VARIABLES
  records,          \* ApiEventsStore.records
  recentSignatures, \* signature -> time it was last stored
  notifications,    \* what a page's bell shows, newest first
  now,
  received,         \* history: number of reports that have arrived
  warm              \* history: no refresh has begun since one last succeeded

store == <<records, recentSignatures, notifications>>
ingestVars == <<vars, store, now, received, warm>>

-----------------------------------------------------------------------------
(* ApiEventsStore *)

Duplicate(sig) ==
  sig \in DOMAIN recentSignatures /\ now - recentSignatures[sig] < duplicateWindow

\* Mutants: the window starts again at a duplicate; the bound drops everything.
AddDuplicateAgain(r) ==
  /\ Duplicate(r.sig)
  /\ recentSignatures' = Put(recentSignatures, r.sig, now)
  /\ UNCHANGED records
AddDuplicate(r) == Duplicate(r.sig) /\ UNCHANGED <<records, recentSignatures>>

PrunedWhole(sigs) ==
  IF Cardinality(DOMAIN sigs) <= maxSignatures THEN sigs ELSE [s \in {} |-> 0]
Pruned(sigs) ==
  IF Cardinality(DOMAIN sigs) <= maxSignatures THEN sigs
  ELSE [s \in {t \in DOMAIN sigs : now - sigs[t] <= pruneAfter} |-> sigs[s]]

AddNew(r) ==
  /\ ~Duplicate(r.sig)
  /\ recentSignatures' = Pruned(Put(recentSignatures, r.sig, now))
  /\ records' = LET all == Append(records, r)
                IN SubSeq(all, 1 + Len(all) - Min({maxRecords, Len(all)}), Len(all))

\* Of a namespace are the traces filed under it and those with an end in it.
OfNamespace(r, ns) == ns \in {r.namespace, r.sourceNamespace, r.destNamespace}

\* What the list shows, also of traffic without a service; mutant of isServiceTrace.
IsTrace(r) ==
  /\ {r.sourceService, r.destService} \cap SystemServices = {}
  /\ r.sig.endpoint \notin NoisePaths
  /\ ~({r.sig.source, r.sig.dest} \subseteq LoopbackIps)
isServiceTrace(r) == {r.sourceService, r.destService} # {NoNode} /\ IsTrace(r)

\* The places in records of what a namespace's list shows: the limit newest, of
\* equally old ones those stored first.
listByNamespace(ns, limit) ==
  LET matching == {i \in DOMAIN records : OfNamespace(records[i], ns) /\ isServiceTrace(records[i])}
      before(i, j) == \/ records[i].timestamp > records[j].timestamp
                      \/ records[i].timestamp = records[j].timestamp /\ i < j
  IN {i \in matching : Cardinality({j \in matching : before(j, i)}) < limit}

\* getMetrics: the traces of a service that each bucket of its history counts;
\* traces that call no service are skipped.
BucketOverlapping(ns, svc, i) ==   \* mutant: a bucket includes its end
  {j \in listByNamespace(ns, 5000) :
     /\ svc # NoNode
     /\ records[j].destService = svc
     /\ records[j].timestamp >= now - (Buckets - i) * BucketLength
     /\ records[j].timestamp <= now - (Buckets - i) * BucketLength + BucketLength}
Bucket(ns, svc, i) ==
  {j \in listByNamespace(ns, 5000) :
     /\ svc # NoNode
     /\ records[j].destService = svc
     /\ records[j].timestamp >= now - (Buckets - i) * BucketLength
     /\ records[j].timestamp < now - (Buckets - i) * BucketLength + BucketLength}

-----------------------------------------------------------------------------
(* TelemetryController *)

\* Both look at the state the step leaves behind: the snapshots are gone by then.
getNamespaceFromNodeId(n) ==
  LET shown == {k \in DOMAIN graphCache' : n \in DOMAIN graphCache'[k].nodes
                                           /\ graphCache'[k].nodes[n] # NoNs}
  IN IF shown = {} THEN NoNs ELSE graphCache'[CHOOSE k \in shown : TRUE].nodes[n]
NamespaceOf(ip) ==
  IF ipToNamespaceCache'[ip] # NoNs THEN ipToNamespaceCache'[ip]
  ELSE IF ipToServiceCache'[ip] = NoNode THEN NoNs
  ELSE getNamespaceFromNodeId(ipToServiceCache'[ip])

\* What processTelemetry returns of a report it recorded, and null.
Result(p) == [sourceService |-> ipToServiceCache'[p.src], destService |-> ipToServiceCache'[p.dst],
              sourceNamespace |-> NamespaceOf(p.src), destNamespace |-> NamespaceOf(p.dst)]
Null == [sourceService |-> NoNode, destService |-> NoNode,
         sourceNamespace |-> NoNs, destNamespace |-> NoNs]

FiledAtSource(res) ==   \* mutant: the other end decides
  IF res.sourceNamespace # NoNs THEN res.sourceNamespace
  ELSE IF res.destNamespace # NoNs THEN res.destNamespace ELSE DefaultNs
FiledUnder(res) ==
  IF res.destNamespace # NoNs THEN res.destNamespace
  ELSE IF res.sourceNamespace # NoNs THEN res.sourceNamespace ELSE DefaultNs

Signature(p, ns) ==
  [namespace |-> ns, endpoint |-> Text[p].endpoint, source |-> p.src, dest |-> p.dst,
   port |-> p.port, status |-> Text[p].status]

Alarming(p) == Text[p].status >= 400 \/ Text[p].slow

\* An alarm is sent whether or not the trace was a duplicate.
Notify(sig, p, res) ==
  notifications' =
    IF ~Alarming(p) THEN notifications
    ELSE LET all == <<[sig |-> sig, service |-> res.destService, timestamp |-> now]>> \o notifications
         IN SubSeq(all, 1, Min({maxNotifications, Len(all)}))

\* hasTraceContext; the endpoint stands for method, path, url and headers.
HasText(p) == Text[p].endpoint # NoEndpoint \/ Text[p].status # 0

\* The result is in: file the report.  Every report that was dropped and has
\* text is filed too.
Persist(p, res) ==
  LET ns == FiledUnder(res)
      r == [sig |-> Signature(p, ns), namespace |-> ns, timestamp |-> now,
            sourceNamespace |-> res.sourceNamespace, destNamespace |-> res.destNamespace,
            sourceService |-> res.sourceService, destService |-> res.destService,
            warm |-> warm]
  IN \/ /\ {res.sourceService, res.destService} = {NoNode} /\ ~HasText(p)
        /\ UNCHANGED store
     \/ /\ {res.sourceService, res.destService} # {NoNode} \/ HasText(p)
        /\ AddDuplicate(r) \/ AddNew(r)
        /\ Notify(r.sig, p, res)

-----------------------------------------------------------------------------
(* The two together *)

IngestInit ==
  /\ Init
  /\ records = <<>>
  /\ recentSignatures = [s \in {} |-> 0]
  /\ notifications = <<>>
  /\ now = 1
  /\ received = 0
  /\ warm = FALSE

\* A report arrives that the controller sends away, or the graph service drops or
\* records, or that has to wait for the cluster.
Arrives == received < MaxReports /\ received' = received + 1 /\ UNCHANGED <<now, warm>>
ReceiveNothing(h, p) ==
  /\ Arrives
  /\ NoIp \in {p.src, p.dst}
  /\ Drop(h, p)
  /\ UNCHANGED store
ReceiveDropped(h, p) ==
  /\ Arrives
  /\ NoIp \notin {p.src, p.dst}
  /\ Drop(h, p)
  /\ Persist(p, Null)
ReceiveRecorded(h, p) == Arrives /\ RecordAtOnce(h, p) /\ Persist(p, Result(p))
ReceiveUnknown(h, p) == Arrives /\ StartResolve(h, p) /\ UNCHANGED store

\* A report that waited is recorded.
Resumes(h) ==
  /\ FinishResolve(h) \/ ResolveFails(h)
  /\ Persist(handlers[h].payload, Result(handlers[h].payload))
  /\ UNCHANGED <<now, received, warm>>
Waits(h) ==
  /\ ResolveServices(h) \/ ApiListsPodsFor(h)
  /\ UNCHANGED <<store, now, received, warm>>

Serve(c) ==
  /\ \/ FinishRefresh(c) /\ warm' = TRUE
     \/ \E k \in Selections : RequestRefresh(c, k) /\ warm' = FALSE
     \/ /\ \/ RequestNothing(c) \/ ApiListsPods(c) \/ RefreshFails(c) \/ TakeAnswer(c)
           \/ \E k \in Selections : RequestCached(c, k) \/ ConfigFails(c, k)
        /\ UNCHANGED warm
  /\ UNCHANGED <<store, now, received>>

Surroundings == Environment /\ UNCHANGED <<store, now, received, warm>>
Tick == now < MaxTime /\ now' = now + 1 /\ UNCHANGED <<vars, store, received, warm>>

IngestNext ==
  \/ \E h \in Handlers, p \in Payloads :
       ReceiveNothing(h, p) \/ ReceiveDropped(h, p) \/ ReceiveRecorded(h, p) \/ ReceiveUnknown(h, p)
  \/ \E h \in Handlers : Resumes(h) \/ Waits(h)
  \/ \E c \in Calls : Serve(c)
  \/ Surroundings
  \/ Tick

IngestSpec == IngestInit /\ [][IngestNext]_ingestVars
                /\ \A h \in Handlers : WF_vars(ResolveFails(h))

-----------------------------------------------------------------------------
(* Properties *)

\* The list is without duplicates: no two traces of one signature are closer
\* than the window, although the cache of signatures is cut when it is full and
\* suspended reports are filed later than younger ones.
StoredOncePerWindow ==
  \A i, j \in DOMAIN records :
    (i < j /\ records[i].sig = records[j].sig) =>
      records[j].timestamp - records[i].timestamp >= duplicateWindow

\* Who is alarmed finds the trace: a notification that names a service is about
\* a trace stored at most a window before, unless the bounded list has dropped it
\* for younger ones; so a steady stream of one error keeps being stored.  And the
\* namespace it was filed under lists it: although the alarm knows the service
\* from this report and the trace from an earlier one that was filed with what
\* the caches held then, the trace names the service too.
\* (Not so under "default", where reports are filed whose namespace is not known
\* yet: a duplicate of a trace filed before the caches knew its service is
\* alarmed with the service, and no list shows the trace.  Nor for the address of
\* a pod, which may get its service between the two.)
NotificationsHaveTheirTrace ==
  \A n \in Range(notifications) :
    n.service # NoNode =>
      \/ \E i \in DOMAIN records :
           /\ records[i].sig = n.sig
           /\ records[i].timestamp \in n.timestamp - duplicateWindow + 1 .. n.timestamp
           /\ ((\E s \in Services : n.sig.dest \in SvcIps[s])
                /\ n.sig.namespace # DefaultNs /\ IsTrace(records[i])) =>
                i \in listByNamespace(n.sig.namespace, maxRecords)
      \/ /\ Len(records) = maxRecords
         /\ \A r \in Range(records) : r.timestamp > n.timestamp - duplicateWindow

\* The traffic that the graph service drops by port or address is stored like
\* other reports, but no namespace ever lists it.
DroppedTrafficIsUnlisted ==
  \A ns \in Namespaces \cup {DefaultNs} : \A i \in listByNamespace(ns, maxRecords) :
    records[i].sig.port \notin SystemPorts /\ records[i].sig.dest \notin MetadataIps

\* While the caches hold the listing of a refresh, a report about an address of
\* a service is filed under the service's namespace, whatever its source is.
\* (After a refresh has cleared them, or when only resolveIpMappings has filled
\* them, it is filed under "default": the snapshots that getNamespaceFromNodeId
\* searches have just been thrown away.)
WarmReportsAreFiledRight ==
  \A r \in Range(records), s \in Services :
    (r.warm /\ r.sig.dest \in SvcIps[s] /\ r.destService # NoNode) =>
      r.namespace = SvcNs[s]

\* The history of a service counts every trace of its span in one bucket; traces
\* that call no service known at the time are in no history.
HistoryCountsEachTraceOnce ==
  \A ns \in Namespaces \cup {DefaultNs} : \A j \in listByNamespace(ns, 5000) :
    (records[j].destService # NoNode
       /\ records[j].timestamp \in now - Buckets * BucketLength .. now - 1) =>
      Cardinality({i \in 0 .. Buckets - 1 : j \in Bucket(ns, records[j].destService, i)}) = 1
=============================================================================
