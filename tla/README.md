# Kube Runtime Graph in TLA+

Kube Runtime Graph shows which services of a Kubernetes cluster call which.
An eBPF agent on every node reports connections and HTTP requests to a
backend, the backend maps addresses to services and keeps a graph, and browser
pages follow it over WebSockets. This directory models the parts of it where
the order of events decides what is shown, checks them with TLC, and proves every
safety invariant that is checked with TLAPS, for every size of cluster and any
number of clients.

Lines given as `graph.service.ts:251` are in `backend/src/graph/`; other files
are named with their path from the repository's root.

## 1. The system

| Component | State | Operations | Talks to |
|---|---|---|---|
| Agent (`agent/main.go`, `agent/tcptracer.c`) | map of open requests, queue of 256 reports | packet capture, connection events from the kernel, expiry every 15 s, one sender | posts to the controller |
| Telemetry controller (`backend/src/telemetry/telemetry.controller.ts`) | one debounce timer | `receiveTelemetry` | graph service, gateway, events store |
| Events store (`api-events.store.ts`) | list of 3000 records, map of recent signatures | `add`, `listByNamespace` | controller, Kubernetes controller |
| Graph service (`graph.service.ts`) | four address caches, observed edges, outside nodes, call graph, last node of each trace, snapshots, resolver throttle | `processTelemetry`, `getGraphData`, `resolveIpMappings` | Kubernetes API |
| Graph gateway (`graph.gateway.ts`) | delta buffer and its timer, clients' selections, log streams | `enqueueTelemetry`, `flushTelemetry`, connect and disconnect, `requestUpdate`, `subscribeLogs`, `unsubscribeLogs`, broadcast | graph service, Kubernetes service, sockets |
| Kubernetes service and controller (`backend/src/kube/`) | three caches of five seconds | listings, logs, metrics, deletion of a pod | Kubernetes API, events store |
| Graph page (`frontend/src/app/page.tsx`) | nodes, edges, history of snapshots, panel, one socket per selection | handlers of `graphUpdate`, `telemetryUpdate`, `logUpdate`, clicks, time travel, layout, blast radius | gateway, selection |
| Selection (`KubeContext.tsx`, `TopNav.tsx`) | selected context and namespace, cached namespaces, notifications | menus, answers with contexts and namespaces | backend over HTTP, all pages |
| Dashboard, events, rbac and logs pages | what the last answer held; the pod that is followed | fetches on selection, by timer or button | backend over HTTP and sockets |
| Presentation, shell, manifests | none that matters | | |

The backend is one Node.js process: between two `await`s its code is atomic, and
what goes wrong goes wrong at the `await`s. What is hard, by component:

- **Graph service.** `getGraphData` clears the caches, waits for two listings,
  and fills them; a page asks twice when it connects (`page.tsx:436` and `:592`),
  so overlapping refreshes are the normal case. `processTelemetry` may wait in
  the middle for the resolver, and goes on with ids from before and from after
  the wait. Snapshots must not survive a change of the edges. It is correct when
  snapshots are current, edge ends and edge details agree, what indexes say is
  backed by edges, and an answer is the whole graph or the empty one.
- **Gateway.** A log stream arrives after an `await` in which its client may have
  changed its mind. Deltas and whole graphs reach a page by different ways. It
  is correct when no stream is lost track of and no delta is lost, doubled to
  effect or overtaken by an older graph.
- **Ingestion.** A report that was suspended is filed after younger ones, under a
  namespace that depends on what refreshes have left in the caches; reports that
  the graph dropped are filed too. It is correct when the bounded list is without
  duplicates, who is alarmed finds the trace, and what is no service traffic is
  never listed.
- **Agent.** Queues and ring buffers drop when full; a request that has no
  answer expires; a packet is read once per interface it passes, or not at all.
  It is correct when reports name the right request, each request once, nothing
  is kept for ever and an unreachable backend stops nothing.
- **Selection, Kubernetes caches and pages.** Answers come out of order and after
  the selection has changed, through caches that nobody invalidates. They are
  correct when who waits sees what is selected, and who polls catches up.
- **Graph page.** Sockets of old selections, deltas that come before the first
  graph, snapshots that are cut from the history while it is replayed, cycles in
  the graph that is laid out and walked.

Every hazard is listed in `PROJECT.json` at its line, with the properties that
cover it or the reason why none does yet.

## 2. Modules

| Module | What it is |
|---|---|
| `GraphStore` | what the graph service promises: observed traffic stays, an answer is the whole graph of its moment or the empty graph |
| `GraphService` | the graph service, every step from one `await` to the next |
| `LogStreams` | the log streams of the gateway |
| `GraphFeed` | controller, gateway, sockets and pages; the graph service by its promise |
| `Ingest` | the controller and the events store; extends `GraphService`, each action is a step of it with what the controller does in the same stretch |
| `Agent` | the agent of a node: packets, loops, request map, queue, sender |
| `KubePages` | the five-second caches of the Kubernetes service and the pages that ask through them |
| `KubeSelection` | the selected context and namespace, with answers that come late |
| `GraphPage` | the graph page over time; extends `KubeSelection`, whose changes make it open another socket |
| `GraphView` | layout and blast radius of one graph, turn by turn of their loops |
| `MC...` | small instances for TLC |
| `Ingest_proofs` | the proofs about `GraphService` (part 1) with its refinement of `GraphStore`, and about `Ingest` (part 2) |
| `GraphPage_proofs` | the proofs about `KubeSelection` and `GraphPage` |
| `LogStreams_proofs`, `GraphFeed_proofs`, `Agent_proofs`, `KubePages_proofs`, `GraphView_proofs` | the proofs about the module each is named after |
| `SequenceEnds` | lemmas on numbers and on the ends of sequences that these share |

### GraphService

A call of `getGraphData` is an element of `Calls`, one of `processTelemetry` an
element of `Handlers`; `calls` and `handlers` hold what a suspended call still
knows (its selection, its payload, the ids found before the `await`, the listing
that is on its way). The other variables are the fields of the class.

| Code | Actions |
|---|---|
| `getGraphData` 222-230 | `RequestNothing`, `RequestCached` |
| 232-259, up to the first `await` | `RequestRefresh`, `ConfigFails` |
| 259-262, the API server takes the listing | `ApiListsPods` |
| 264-387 | `FinishRefresh` |
| 388-391 | `RefreshFails` |
| `processTelemetry` 420-452 | `Drop` |
| 446-461 without an `await` that suspends, 463-626 | `RecordAtOnce` |
| 457, `resolveIpMappings` 69-114 | `StartResolve` |
| 113-132 | `ResolveServices` |
| 135-142, and 459-626 | `ApiListsPodsFor`, `FinishResolve` |
| 143-155, and 459-626 | `ResolveFails` |
| the cluster, the two-second age of a snapshot, the pause of the resolver | `PodStarts`, `PodStops`, `SnapshotExpires`, `ThrottleEnds` |

Abstractions: a node is known by kind and name, as its id string is; an edge's
data are the two services it names; a listing is the placement of pods of one
moment between request and reply. Services do not change, pods do, and their
addresses are reused. Which of several matching services or pods comes first in
a listing is left to `CHOOSE`. The clock of the throttle is a Boolean that time
resets. `ipToDbCache` (never read), positions, labels and styles are left out.
The promise jobs of an `await` that does not suspend are folded into the step.

Assumed of the cluster (`AddressAssumption`): an address belongs to at most one
service, and is not also a pod's. Pods on the host network, which share the
node's address, are therefore outside the model. One cluster stands behind all
contexts; with several the caches, which have no context in their keys, would
mix their addresses.

### LogStreams

`Requests` are subscriptions with the streams they open, `logStreams` the map of
the gateway, `asked` and `hasty` histories: which pod a client wanted last, and
whether it acted while a stream was still being opened. `handleSubscribeLogs` is
the handler up to its `await` (108-128); `StreamOpens`, `StreamFails` what comes
after (130-132); `StreamEnds` the end of a pod's log, of which the gateway is
not told.

### GraphFeed

A page is a socket. `receiveTelemetry` is the controller from the recording of a
report on (41-50 and 142-152), `flushTelemetry`, `handleRequestUpdate`,
`RequestAnswered`, `BroadcastTimerFires` and `BroadcastAnswered` are the
gateway, `PageReceives` the page's handlers. An answer of `getGraphData` is the
whole graph of the moment it is emitted, or the empty graph: this is what
`GraphStore` promises and `GraphService` is proved to keep. That between the
answer and the `emit` only promise jobs run makes them one step. A page opens a
new socket for every selection, so the selection is fixed for a client's life
and not part of the state; a page that reconnects keeps its old graph, which its
next whole graph replaces. Of the deltas of one edge in a batch the last stays,
as the page's loop leaves it; the model says which that is (`Of`, `LastOf`) instead
of merging one after the other. A broadcast passes over clients that have gone
when their turn comes (`FromFirstOpen`). Trace links lead between nodes that the
graph has (`graph.service.ts:573-589`): without that guard in `receiveTelemetry`
`PagesMissNoTraffic` would be false for some reports. The new nodes of a delta are those the graph has not
shown before, which is what `discoveredDbs` says (`OutsideNodesAreDescribed`).

### Agent

`ReadTcpEvent`, `ReadRequest` and `ReadResponse` are the two loops for one
record (172-199, 201-303, 201-279), `Cleanup` is a tick (85-100),
`telemetrySender` takes a report (456-460), `PostReport`, `PostAnswered` and
`PostFails` are `sendTelemetry`, `Exit` and `Start` the process. The loops share
only the request map, behind its mutex, and the channel, so a record is one step.
Of the kernel program there remain its ring buffers, which drop what does not fit
(`Seen`), and the event without text that a packet shorter than the event's
buffer becomes (`Unread`; `bpf_skb_load_bytes` copies all or nothing and its
result is not looked at). Connections are the environment: one request at a time,
each packet read once, twice or not at all, all readings of a packet before those
of the next on its connection. A path is one to be reported, one that
`shouldSkipTelemetry` skips, or that of the agent's posts. `missed` and `told`
are histories.

### Ingest

`receiveTelemetry` (35-155) in the steps that `processTelemetry` makes of it:
`ReceiveNothing`, `ReceiveDropped`, `ReceiveRecorded` for a report that is done at
once, `ReceiveUnknown`, `Waits` and `Resumes` for one that is suspended. `Result`
is what `processTelemetry` returns (628-643) and, like the code, looks for a
namespace in the snapshots that the step has just thrown away. `Persist` (53-135)
files the trace (`AddDuplicate`, `AddNew` of `api-events.store.ts:69`) and notifies.
`Serve` is a client's `getGraphData`, there because it clears and fills the
caches that attribution reads. A trace is known by its signature, its ends and
its time (`IsTrace`: a report without text leaves none); the text of a report is an endpoint, a status and whether it was slow.
A signature may be forgotten only by `Pruned`. `listByNamespace` and `Bucket` are
what the events page and the metrics are served; a trace without a service is in no
bucket (`kube.controller.ts:63`). `warm` is a history: the caches
hold the listing of a refresh.

### KubePages

A request of a page has one part for each listing it waits for; a part goes from
"sent" to "listed" (`Miss`, the API server's answer is on its way), to "in" (`Hit`,
`Keep`), or fails. A listing is a place and the version of the clusters' state: the
place is the selected namespace of the cluster that `loadConfig` leads to, but the
traces come from the backend's memory, whose route ignores the context
(`PlaceOf`, `kube.controller.ts:44`). The names "in-cluster" and "inClusterContext"
lead to the current context (`CurrentNames`); the menus offer no context that the
kubeconfig does not have. `Select`, `Poll`, `Refresh` are what makes a page ask; `Answered` is its
handler, `Accepts` the dashboard's `isMounted`. The page that is mounted is chosen
at the start, for all share the backend; "client" stands for a user of the route
of Kubernetes' events, which no page asks for. `hasty` and `settled` are
histories. The logs page keeps its pod when the namespace changes, as the
code does (`logs/page.tsx:94`).

### KubeSelection and GraphPage

An effect of React runs in the step that changed what it depends on. The
selection is `KubeContext.tsx`: `UseCached`, `Ask` (61-75), then `NamespacesArrive`,
`NamespacesRefused` or `NamespacesLost` (76-92) at any later time.
`Connect` is the effect of 422-587: it empties the page or opens a socket; closing
the old one ends the log that the gateway followed for it (`NoLogs`: a stream that is
filed later has nobody to go to). Of a graph the page
knows whose it is and whether deltas were merged into it. `recordSnapshot` is
311-316, `findNearestSnapshot` 186-203; `past` is a history of what was shown.
`viewedAt` is when `visibleSnapshot` was last computed: it is a memo of 318-327, which
a new graph, a new snapshot, another time to look back to, or a change that React
Flow makes to the nodes (`onNodesChange`) computes anew, and the clock alone does not.
`onNodeClick` and `handleClosePanel` speak to the gateway, of which the module has what
concerns the page's socket: `handleSubscribeLogs` ends the filed stream and begins to
open one (`opening`), `StreamOpens` files it when `streamPodLogs` has come back, over
whatever is filed by then (`lost`), `StreamFails` and `StreamEnds` are the other ends.
Time passes in units; two hours, 120 snapshots and the slider are constants.

### GraphView

`layoutTopToBottom` (18-170) as its loop over the queue, `LayoutStep` a turn of it,
and positions as definitions (the height at which a level begins is a running sum,
`LevelY`, of the bands above it, `BandAt`); `traverseGraph` (205-258) as its two loops. The
initial states are all graphs of the instance. Where the order of the list of
edges decides, every order is allowed.

## 3. What TLC checks

| Run | Instance | Properties |
|---|---|---|
| `graph_service` | 2 requests, 2 handlers of 1 traced report and 1 probe that may arrive again and again, 3 services, 2 pods that take turns at one address, at most 2 edges | `TypeOK`, `SnapshotsCurrent`, `DetailsMatchEnds`, `CallsAreObserved`, `TracesFollowEdges`, `OutsideNodesAreDescribed`, `QuietRefreshIsExact`, `ImplementsGraphStore` |
| `own_traffic` | 1 report | `HidesOwnTraffic` is violated |
| `log_streams` | 2 clients, 2 pods, 3 subscriptions | `TypeOK`, `PatientClientsFollowOnePod` |
| `log_stream_leak` | the same | `OneStreamPerClient` is violated |
| `graph_feed` | 2 pages and 2 reports of one call, or 1 page and a third report from outside; 2 requests, 1 broadcast at a time | `TypeOK`, `PagesMissNoTraffic`, `TrafficAppears` |
| `missing_nodes` | 1 page, 1 report | `EdgesHaveTheirNodes` is violated |
| `agent` | 3 connections: 2 requests between services, 1 to a system port, 1 post; 2 packets and 1 connect in the buffers, 1 report in the queue, 1 restart | `TypeOK`, `ResponsesNameTheirRequest`, `RequestsAreToldOnce`, `StoredRequestsGo`, `QueueMoves` |
| `ingest` | 4 reports of 4 kinds, 2 at a time, in 4 units of time, or 1 client with 3 reports in 1 or 2 in 2; 2 namespaces, a list of 3, a window and a cut age of 2, 1 signature before the cut | `StoredOncePerWindow`, `NotificationsHaveTheirTrace`, `DroppedTrafficIsUnlisted`, `WarmReportsAreFiledRight`, `HistoryCountsEachTraceOnce` |
| `ingest_progress` | 2 reports at a time, 1 client | `ReportsAreRecorded` |
| `kube_pages` | each of 5 pages, a namespace that 2 contexts have (and, on the events page and for the API's client, another of one of them), 2 requests at a time, 1 change of the cluster, 1 failure | `TypeOK`, `DashboardKeepsToSelection`, `PatientUsersSeeTheirSelection`, `PollingPagesCatchUp` |
| `graph_page` | 2 contexts with 3 namespaces, 4 updates, 3 units of time, 2 changes of selection, a history of 2 snapshots and 1 unit of time; 2 pods, 2 streams of each being opened | `TypeOK`, `CacheOwnsItsNamespaces`, `PatientUsersStayInTheirContext`, `LiveGraphIsOfSelection`, `ReplayIsFaithful`, `LogEndsWithPanel` |
| `graph_view` | all graphs of 3 services and 2 pods, with parallel calls and a call to oneself | `TypeOK`, `CallsRunDown`, `NodesKeepApart`, `BlastRadiusIsExact`, `LoopsEnd` |

**What the properties say.** `SnapshotsCurrent`: every snapshot kept, also one
stored by a refresh that was suspended during a report, shows the present edges.
`DetailsMatchEnds`: an edge's details never name another service than its ends,
although ends may come from before and details from after an `await`.
`CallsAreObserved`, `TracesFollowEdges`, `OutsideNodesAreDescribed`: the call
graph, the trace chains and the outside nodes are backed by observed edges.
`QuietRefreshIsExact`: a refresh that nobody overlapped leaves exactly its own
listing in the caches. `ReportsAreRecorded`: a report never waits for ever.
`PatientClientsFollowOnePod`: a client that lets its streams open follows one
pod, the latest it asked for, and none after it unsubscribed or left.
`PagesMissNoTraffic`: what a page holds, plus what is on its way, plus the
buffer, is the observed traffic with the latest data, once its last whole graph
was a good one. `TrafficAppears`: an observed edge gets to such a page.
`ResponsesNameTheirRequest`: a response is reported with its own request or with
none, unless an earlier response of the connection was missed, when an older
request may stand in for it. `RequestsAreToldOnce`: the reports of a connection
name its requests in order and none twice. `StoredRequestsGo`: the request map
forgets every request. `QueueMoves`: a full queue gets room again, whatever the
backend does.

`StoredOncePerWindow`: no two stored traces of one signature are closer than the
window, although the cache of signatures is cut. `NotificationsHaveTheirTrace`:
what a user is told of was stored at most a window before, unless the list is
full of younger traces, and if it went to a service's address and was filed under
another namespace than "default", that namespace's page lists it. `DroppedTrafficIsUnlisted`: what the graph dropped is
stored and never listed. `WarmReportsAreFiledRight`: with a listing in the
caches, a report about a service is filed under its namespace. (With caches that
were just cleared, or filled by the resolver alone, it is filed under "default".)
`HistoryCountsEachTraceOnce`: the buckets of the metrics neither overlap nor leave
a gap for the traces of a service. `DashboardKeepsToSelection`, `PatientUsersSeeTheirSelection`: the dashboard
never, and no page for a user who waits for answers, shows another namespace than
the one selected (on the events page, another name than the selected one). `PollingPagesCatchUp`: a page that polls ends with the present
state of the selected namespace, whatever was kept or answered late.
`CacheOwnsItsNamespaces`, `PatientUsersStayInTheirContext`: the same for the
menus. `LiveGraphIsOfSelection`: after the first graph of a socket the page shows,
and merges into, no graph of another selection. `ReplayIsFaithful`: time travel
shows what the page showed that long before the view was computed, as far as the
history goes back. `LogEndsWithPanel`: the page is sent the log of the pod in its panel
and none behind a closed one, if the user lets each log begin before the next click or
the closing, and clicks no node without a pod over a log. `CallsRunDown`: without a cycle every caller
stands above what it calls. `NodesKeepApart`: no node hides another, but for pods
without a service. `BlastRadiusIsExact`: the walk finds the least set closed under
the edges, and all edges that leave its nodes. `LoopsEnd`: both loops end on every
graph.

**What is not so.** Three runs show that the code does not do what a comment or
document says: the program's own traffic is recorded when the caches are cold
(`own_traffic`); overlapping subscriptions leak a log stream that mixes into the
log the user looks at (`log_stream_leak`); and a change of topology that is not a
new call between two known services is not broadcast, so that pages hold edges to
nodes they do not have (`missing_nodes`). The exceptions that other properties
name are real too: overlapping refreshes may keep a pod that is gone
(`QuietRefreshIsExact` is about the others); the agent's own answers, once their
text is read, are reported; a late answer of namespaces replaces those of the
context selected since, and a late listing shows on the events, rbac and logs
pages; a graph of the old selection is on the page, and merged into, until the new
socket's first graph; time travel knows nothing of the selection, and on a quiet page
its view stays at the time looked back to from the last update while the clock goes on.
A panel that is closed before its log's stream is open unsubscribes from nothing
(`graph.gateway.ts:137`), and the stream runs on behind it; so does a log when a node
without a pod was clicked over it. A duplicate of a trace that was filed under
"default" with cold caches raises an alarm, and the page of its service does not list
the trace. The events page shows the traces of every namespace of the selected name,
whatever the context. `TOPOLOGY_OVERVIEW.md:276` says "Queries scoped by namespace", but
`getGraphData` lists the services and pods of all namespaces (`graph.service.ts:259` and
`:261`) and sends the whole graph whatever namespace it is asked for, which
`GraphService` models and `GraphStore` states.

**Bounds, and why they suffice.** `MaxEdges` (a `CONSTRAINT`) stops the
exploration of a graph once it has three edges; two are enough for an edge and
the trace link it closes, and for the same request seen before and after its
addresses were known. Two calls and two handlers give every
overlap at an `await` of two refreshes, of two refreshes and a report, and of two
reports, which carry one trace. By the action constraint `Pairs` two reports overlap
while no request for the graph is under way, unanswered or kept as a snapshot, and the
graph has room for an edge; two reports and a refresh at once are left out. One address for two pods makes every
restart a reuse. In `LogStreams`, three subscriptions let one stream be live and
two be opened for one client, or the streams of two clients be mixed. In
`GraphFeed` each request and report arrives once, which bounds the channels; two
reports of one edge show whether the latest wins, and two pages are what a
broadcast needs to have somebody waiting behind another. The action constraint
`Bounded` of `graph_feed` lets the second page come once the first has asked, and the
third report, which shows that outside nodes, announced once, reach a page, only while
there is one page. In `Agent`, two requests
on one connection are what it takes to take one for the other, a buffer of two
holds a packet twice or a request with its response, and a queue of one is full
as soon as anything is in it. In `Ingest` three reports are a trace, its duplicate
and one that cuts the signatures (`maxSignatures` is 1), and a fourth fills the list of
three; four units of time put traces inside, at and beyond a window of 2, and let the
cut remove a signature whose trace is still stored and the same signature come again.
Once a client has asked, three reports in one unit of time or two in two are followed
(`LessOnceAsked`): the cut and the window have nothing to do with the listing that it
causes, but for a trace and its duplicate before and after. The pod of the
instance stays and the client asks once (the action constraint `Bounded`), as
`graph_service` has the rest. In `KubePages` two requests are what it takes for one
to overtake another, one change and one failure to make a listing old or missing
at any moment; two selections are one to leave and one to come back to, with the same
namespace name, so that only the context tells them apart. In `GraphPage` two changes of
selection leave and come back, four updates overfill a history of two at different
times. Of the panel, two streams of each pod being opened at once are what it takes for
one to be filed over another, of the same pod or the other, after the panel has closed; it is used
while the clock stands still and two updates come (`Bounded`), as the log and the replay
share nothing but the graph that must be shown for a click. Three
services make every cycle up to three and every path of unequal length between
two of them.

Deadlock is checked for `GraphService`, `Ingest`, `KubePages`, `GraphPage` and
`GraphView`; in the others everything stops when all clients have left and all
messages have arrived.

**Fairness.** `GraphService`: `WF(ResolveFails(h))`. Both requests of
`resolveIpMappings` race with a timer of 10 s and, the second time, of 20 s
(lines 88-111), so the failing step of a waiting report is taken if no other is.
`getGraphData` has no timer, and nothing is assumed of it. `Ingest` assumes the same.
`GraphFeed`:
`WF(flushTelemetry)`, the 300 ms interval, and `WF(PageReceives(c))`, a socket
that delivers as long as it is open; an answer of `getGraphData` and the
broadcast are not assumed ever to come. `Agent`: `WF(Ages(c))` is time,
`WF(Cleanup)` the ticker of 15 s, `WF(telemetrySender)` a goroutine that is
ready, `WF(PostFails)` the client's timeout of 5 s (line 59), so that a post that
is never answered ends. Nothing is assumed of the network, the loops or the
backend. `KubePages`: a request is served and answered or fails, the timers of the
polling pages (3 and 30 s) fire, and a cache entry grows old. `GraphView`: a loop
that can go on does, for nothing in it waits.

## 4. What is proved

Every safety property of the passing runs is a theorem, for every value of the
constants that the named assumptions allow; so are `QuietRefreshIsExact`, which
speaks of steps, and the refinement of `GraphStore`. Each proof module has one
invariant that is inductive, made of named parts; a lemma says what each kind of
step does to each part, and the theorems follow.

**Graph service** (`Ingest_proofs`, part 1). `TypeCorrect`, `SnapshotsAreCurrent`,
`DetailsAgree`, `CallGraphIsObserved`, `TracesAreGrounded`, `OutsideNodesKnown`,
from `GraphInv`. Beside the properties themselves it has `CachesAgree` (an address
that `serviceIpCache` knows has the service of the service listing in both service
caches), without which nothing ties the ends of an edge, which may be older, to its
details, which are newer; and `PendingUnanswered` (a suspended call has no answer
yet), which the refinement needs. `ServiceImplementsStore`: each step is a step of
`GraphStore` or a stutter, where recording a report is the growth of the graph and
answering a call the answer. `QuietRefreshesAreExact` rests on `AloneInv`: while a
refresh is alone nothing else is under way that fills the caches, and they are as
empty as it left them. `DetailsMatchEnds` and `CallsAreObserved` rest on
`AddressAssumption`: an address that were a service's and a pod's at once would
break them.

**Ingestion** (part 2). `IngestRefinesService`: every step of the controller is a
step of the graph service or leaves it alone, so all of part 1 holds of the two
together, and `IngestImplementsStore`. `TracesAreStoredOnce` needs to know that the
cache of signatures, though it is cut, still has every trace younger than the window
(`YoungTracesAreKnown`), which is so because only what is older than the window is
cut (`pruneAfter >= duplicateWindow`) and because the list is in the order of time.
`AlarmsHaveTheirTrace` says that the trace is stored and, under its service's
namespace, listed; it needs that a stored trace with an address that is a service's has
its name (`PlacedTracesAreNamed`), which is so because the caches learn a service's
namespace and name together (`NamespacesComeWithServices`); and that a signature that is cached has its trace in the
list, or the list is full of traces no older (`SignaturesHaveTheirTrace`), since a
duplicate raises an alarm about the trace that was stored before it.
`WarmReportsAreInPlace` needs that warm caches name every service's namespace
(`WarmCaches`), also while the resolver adds to them. `DroppedTrafficIsNotListed`
and `HistoryIsExact` are about the reading side; the latter, for traces that name a
service, is arithmetic of intervals.

**Log streams.** `LogTypes`, `PatientClientsAreServed`. The invariant adds
`OpeningIsLatest`: for a patient client a stream being opened is the only one,
nothing is filed meanwhile, and it is for the pod last asked for.

**Feed.** `FeedTypes`, `NoTrafficIsMissed`. What a page holds, what is in its channel
and what is in the buffer are one sequence of messages. The invariant
(`InformedPagesAreTold`) says that the last message to speak of an edge agrees with
the observed edges, where a whole graph speaks of every edge, and that each outside
node is named since the last whole graph. It is kept by a delta at one end, by the
page that takes a message at the other, and by a flush, which moves the boundary
between channel and buffer. `BufferIsRecent` covers the whole graph that is sent
while deltas wait in the buffer: they repeat it and do not overtake it.

**Agent.** `AgentTypes`, `ResponsesAreMatched`, `RequestsAreReportedOnce`. Request n of
a connection has the place 2n, its response 2n + 1. Packets wait in the order of
their places (`PacketsAreInOrder`), and what is remembered and reported lies before
what still waits (`ReadingKeepsPace`); so a second reading of a packet cannot make an
older request a second report. `ResponsesCome`: unless one was missed, the response
of a remembered request is still to come, which rules out that it stands in for
another one's.

**Selection and graph page.** `ListsAreKeptUnderTheirContext`, `PatientUsersAreNotMisled`,
from `OneIsAsked`: who is not hasty waits for the selected context's namespaces
alone. `PageRefinesSelection`: the graph page takes only steps of the selection.
`PageTypes`, `PageShowsItsSelection`, `ClosedPanelsFollowNoLog` rest on
`SocketFollowsSelection` (the only open socket is the selection's) and `LogIsOfPanel`:
while the gateway is told nothing as it opens a stream, it opens one at a time with none
filed and loses none, and the one it opens or has filed is that of the pod in the panel.
`TimeTravelIsFaithful` on `HistoryIsFaithful`: of every moment the last snapshot at or
before it is what was shown then; cutting the history from its old end keeps that.

**Kubernetes pages.** `PagesTypes`, `DashboardIsSteady`, `PatientUsersAreShownTheirs`.
The invariant follows a listing on its way: kept or held by a request, it is of the
place that the selection it was asked for leads to (`CacheType`, `ListingsAreOwn`); a request that is still
mounted was sent for what is selected (`MountedIsCurrent`); before a user was ever
hasty no request is anything else (`PatientRequests`).

**Layout and walk.** `ViewTypes`, `CallersStandAbove`, `NodesAreApart`, `WalksAreExact`.
`CountsAreExact`: the count that the loop keeps for a service is that of the calls
from services that still have to come, so that in a graph without cycles a service
has its turn after its callers, and its level is final when it comes (`LevelsRise`).
`SpacesAreKept`: there are fewer levels than services and pods of one service have
places of their own, which with the running sum of the bands' heights separates the
nodes. `WalkIsSound`: what is visited lies in every set closed under the edges, and
what has left the list of the walk has been followed along every edge; when the list
is empty both make the walk exact.

**Assumptions**, each named in the module that declares the constants:
`AddressAssumption`, `InventoryAssumption`, `NodeIdAssumption`, `PayloadAssumption` (the
cluster and the form of reports, above), `TextAssumption` (bounds are positive, the
cut age is not below the window), `ReportAssumption` (a report names an edge),
`AgentAssumption` (ring buffer of HTTP and queue hold at least one),
`HistoryAssumption` (at least one snapshot is kept), `NamespacesAssumption` (the
namespace a context prefers is one of its own), `IgnoredAssumption` (the logs page
follows its listing of pods), `SelectionAssumption` and
`OfferedAssumption` (the current context is one, and users select what there is), `GraphAssumption` (a finite graph
whose list of services has an order), and those that keep "nothing" apart from
things: `NothingAssumption`, `NobodyAssumption`, `NoDataAssumption`.

**Only model-checked.** Liveness is out of the prover's reach: `ReportsAreRecorded`,
`TrafficAppears`, `StoredRequestsGo`, `QueueMoves`, `PollingPagesCatchUp`, `LoopsEnd`. So
are the three counterexamples. Induction over data cannot be proved either; where a
sum or a merge along a list mattered, the model says what the result is by
quantification, as the code's loop leaves it (`LastOf`), or by a recursive function
on numbers (`LevelY`), whose existence the proof derives from that of its finite
beginnings, by arguing from the least number that would have none.

## 5. Plan

Done: all modules of section 2 with their runs, and a theorem for every safety
property of the passing runs. To come: `ResolveThrottle`, `lastResolveAt`
(`graph.service.ts:47`) with the clock, whose failure penalty of 120 s and pause of
30 s the model now has as a Boolean that time resets, refining that Boolean.

Not modelled and not planned: rendering, styles and mismatch alerts, the pages'
filters and searches, rates and percentiles of the metrics, exec and port
forwarding (one command whose output is handed through), the action panel (one
request per button), `ClusterSelector`, which no page uses, wiring and manifests.
