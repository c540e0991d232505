----------------------------- MODULE GraphFeed -----------------------------
(* How the graph reaches the graph pages: receiveTelemetry of
   backend/src/telemetry/telemetry.controller.ts, which passes every recorded
   report on as a delta and arms a broadcast when a new call between services
   shows; backend/src/graph/graph.gateway.ts, which buffers the deltas for all
   clients, answers requestUpdate, and broadcasts whole graphs; the sockets; and
   the handlers of graphUpdate and telemetryUpdate in frontend/src/app/page.tsx.

   The graph service is taken by its promise (GraphStore): getGraphData answers,
   after an await of any length or never, with the whole graph of the moment of
   the answer, or with the empty graph.  What a report adds to the graph is
   GraphService's Record.  A socket delivers what was sent, in order, until it
   closes.  An action is the code from one await or event to the next; the
   promise jobs that follow an answer, up to the emit, run with it. *)
EXTENDS Integers, Sequences, SequencesExt

CONSTANTS
  Clients,      \* socket ids, one for each page that connects
  Services, Outside,  \* nodes of the inventory, and outside of it
  Reports,      \* the reports that arrive and are recorded, each once
  Requests,     \* the requestUpdate messages that arrive, each once
  Broadcasts,   \* broadcasts that can be under way at once
  NoData        \* JavaScript's undefined

Nodes == Services \cup Outside
EdgeIds == [kind : {"t", "trace"}, source : Nodes, target : Nodes]

\* A report names an edge, and the trace links that it closes.
ASSUME ReportAssumption ==
  \A r \in Reports : /\ r.edge \in EdgeIds /\ r.edge.kind = "t"
                     /\ r.links \subseteq {l \in EdgeIds : l.kind = "trace"}

VARIABLES
  activeEdges,      \* the service's graph: edge id -> the report that made it last
  serviceCallGraph, \* the pairs of services known to call each other
  pending,          \* reports that have not arrived yet
  broadcastTimer,   \* the controller's timer for a broadcast is set
  telemetryBuffer, flushTimer,  \* deltas to be sent, and whether a timer runs
  clientSelections, \* clients that asked for the graph, in the order of the map
  requests,         \* state of each requestUpdate: "new", its client, or "done"
  broadcasts,       \* the clients each broadcast still serves; it awaits the first's graph
  sockets,          \* whether each client is still to come, connected, or gone
  channel,          \* messages on their way to each client
  page,             \* the nodes and edges each page holds
  informed          \* history: clients last sent a graph, and not a failure's empty one

service == <<activeEdges, serviceCallGraph>>
buffering == <<telemetryBuffer, flushTimer>>
vars == <<service, pending, broadcastTimer, buffering, clientSelections, requests,
          broadcasts, sockets, channel, page, informed>>

-----------------------------------------------------------------------------
(* Graphs, deltas and messages *)

Endpoints(ids) == {e.source : e \in ids} \cup {e.target : e \in ids}

EmptyGraph == [nodes |-> {}, edges |-> [e \in {} |-> NoData]]
WholeGraph == [nodes |-> Endpoints(DOMAIN activeEdges), edges |-> activeEdges]

\* The nodes that a report names for the first time and the inventory lacks.
NewNodesTooLate(r) == {}   \* mutant: looked for when discoveredDbs has them already
NewNodes(r) == (Endpoints({r.edge}) \cap Outside) \ Endpoints(DOMAIN activeEdges)
Delta(r) == [edge |-> r.edge, data |-> r, newNodes |-> NewNodes(r)]

GraphUpdate(g) == [event |-> "graphUpdate", graph |-> g]
TelemetryUpdate(items) == [event |-> "telemetryUpdate", items |-> items]

\* emit, to one client and to all: who is not connected gets nothing.
Emit(c, m) == channel' = IF sockets[c] = "open"
                         THEN [channel EXCEPT ![c] = Append(@, m)] ELSE channel
EmitToAll(m) == channel' = [c \in Clients |-> IF sockets[c] = "open"
                                              THEN Append(channel[c], m) ELSE channel[c]]

\* What a page makes of a message.  The deltas of a batch are merged one by one:
\* of those of one edge the last stays.
Of(items, e) == {i \in DOMAIN items : items[i].edge = e}
LastOf(items, e) == items[Max(Of(items, e))].data

Merged(g, items) ==
  [nodes |-> g.nodes \cup UNION {items[i].newNodes : i \in DOMAIN items},
   edges |-> [e \in DOMAIN g.edges \cup {items[i].edge : i \in DOMAIN items} |->
                IF Of(items, e) = {} THEN g.edges[e] ELSE LastOf(items, e)]]

ApplyFirst(g, m) ==   \* mutant: of a batch, the first delta only
  IF m.event = "graphUpdate" THEN m.graph ELSE Merged(g, <<m.items[1]>>)
Apply(g, m) ==
  IF m.event = "graphUpdate" THEN m.graph ELSE Merged(g, m.items)

Init ==
  /\ activeEdges = [e \in {} |-> NoData]
  /\ serviceCallGraph = {}
  /\ pending = Reports
  /\ broadcastTimer = FALSE
  /\ telemetryBuffer = <<>>
  /\ flushTimer = FALSE
  /\ clientSelections = <<>>
  /\ requests = [q \in Requests |-> "new"]
  /\ broadcasts = [b \in Broadcasts |-> <<>>]
  /\ sockets = [c \in Clients |-> "new"]
  /\ channel = [c \in Clients |-> <<>>]
  /\ page = [c \in Clients |-> EmptyGraph]
  /\ informed = {}

-----------------------------------------------------------------------------
(* The controller and the buffer *)

\* A report is recorded: its delta is enqueued, and a new call between services
\* sets the timer of the next broadcast anew.  The call shows only if the caches
\* still knew both services when the report was recorded.  A trace link leads from
\* where an earlier report of the trace led to.
receiveTelemetry(r) ==
  LET e == r.edge
      call == <<e.source, e.target>>
      mayShow == /\ {e.source, e.target} \subseteq Services /\ e.source # e.target
                 /\ call \notin serviceCallGraph
  IN /\ r \in pending
     /\ Endpoints(r.links) \subseteq Endpoints(DOMAIN activeEdges \cup {e})
     /\ pending' = pending \ {r}
     /\ activeEdges' = [x \in DOMAIN activeEdges \cup r.links \cup {e} |->
                          IF x = e THEN r
                          ELSE IF x \in DOMAIN activeEdges THEN activeEdges[x] ELSE NoData]
     /\ \/ UNCHANGED <<serviceCallGraph, broadcastTimer>>
        \/ /\ mayShow
           /\ serviceCallGraph' = serviceCallGraph \cup {call}
           /\ broadcastTimer' = TRUE
     /\ telemetryBuffer' = Append(telemetryBuffer, Delta(r))
     /\ flushTimer' = TRUE
     /\ UNCHANGED <<clientSelections, requests, broadcasts, sockets, channel, page, informed>>

\* Every 300 ms while the timer runs.
flushBatches ==   \* mutant: a single delta is held back
  /\ flushTimer
  /\ Len(telemetryBuffer) > 1
  /\ EmitToAll(TelemetryUpdate(telemetryBuffer))
  /\ telemetryBuffer' = <<>>
  /\ flushTimer' = FALSE
  /\ UNCHANGED <<service, pending, broadcastTimer, clientSelections, requests,
                 broadcasts, sockets, page, informed>>
flushTelemetry ==
  /\ flushTimer
  /\ telemetryBuffer # <<>>
  /\ EmitToAll(TelemetryUpdate(telemetryBuffer))
  /\ telemetryBuffer' = <<>>
  /\ flushTimer' = FALSE
  /\ UNCHANGED <<service, pending, broadcastTimer, clientSelections, requests,
                 broadcasts, sockets, page, informed>>

-----------------------------------------------------------------------------
(* Clients *)

handleConnection(c) ==
  /\ sockets[c] = "new"
  /\ sockets' = [sockets EXCEPT ![c] = "open"]
  /\ UNCHANGED <<service, pending, broadcastTimer, buffering, clientSelections,
                 requests, broadcasts, channel, page, informed>>

Closed(c) ==
  /\ sockets[c] = "open"
  /\ sockets' = [sockets EXCEPT ![c] = "closed"]
  /\ channel' = [channel EXCEPT ![c] = <<>>]
  /\ informed' = informed \ {c}
  /\ UNCHANGED <<service, pending, broadcastTimer, buffering, requests, broadcasts, page>>
handleDisconnectKeeps(c) ==   \* mutant: the selection is not deleted
  Closed(c) /\ UNCHANGED clientSelections
handleDisconnect(c) ==
  Closed(c) /\ clientSelections' = RemoveFirst(clientSelections, c)

\* Up to the await of the graph.
handleRequestUpdate(c, q) ==
  /\ sockets[c] = "open"
  /\ requests[q] = "new"
  /\ requests' = [requests EXCEPT ![q] = c]
  /\ clientSelections' = IF c \in Range(clientSelections) THEN clientSelections
                         ELSE Append(clientSelections, c)
  /\ UNCHANGED <<service, pending, broadcastTimer, buffering, broadcasts, sockets,
                 channel, page, informed>>

\* Client c is sent the answer of getGraphData, which is good or a failure.
SendGraph(c, good) ==
  /\ Emit(c, GraphUpdate(IF good THEN WholeGraph ELSE EmptyGraph))
  /\ informed' = IF good /\ sockets[c] = "open" THEN informed \cup {c} ELSE informed \ {c}

RequestAnswered(q, good) ==
  /\ requests[q] \in Clients
  /\ SendGraph(requests[q], good)
  /\ requests' = [requests EXCEPT ![q] = "done"]
  /\ UNCHANGED <<service, pending, broadcastTimer, buffering, clientSelections,
                 broadcasts, sockets, page>>

\* A broadcast serves, one after the other, the clients that had a selection
\* when it started, passing over those that are gone when their turn comes.
FromFirstOpen(s) ==
  LET turns == {i \in DOMAIN s : sockets[s[i]] = "open"}
  IN IF turns = {} THEN <<>> ELSE SubSeq(s, Min(turns), Len(s))

BroadcastTimerFires(b) ==
  /\ broadcastTimer
  /\ broadcasts[b] = <<>>
  /\ broadcastTimer' = FALSE
  /\ broadcasts' = [broadcasts EXCEPT ![b] = FromFirstOpen(clientSelections)]
  /\ UNCHANGED <<service, pending, buffering, clientSelections, requests, sockets,
                 channel, page, informed>>

BroadcastAnswered(b, good) ==
  /\ broadcasts[b] # <<>>
  /\ SendGraph(Head(broadcasts[b]), good)
  /\ broadcasts' = [broadcasts EXCEPT ![b] = FromFirstOpen(Tail(@))]
  /\ UNCHANGED <<service, pending, broadcastTimer, buffering, clientSelections,
                 requests, sockets, page>>

-----------------------------------------------------------------------------
\* The page handles the next message.
PageReceives(c) ==
  /\ channel[c] # <<>>
  /\ page' = [page EXCEPT ![c] = Apply(@, Head(channel[c]))]
  /\ channel' = [channel EXCEPT ![c] = Tail(@)]
  /\ UNCHANGED <<service, pending, broadcastTimer, buffering, clientSelections,
                 requests, broadcasts, sockets, informed>>

Next ==
  \/ \E r \in Reports : receiveTelemetry(r)
  \/ flushTelemetry
  \/ \E c \in Clients : \/ handleConnection(c) \/ handleDisconnect(c) \/ PageReceives(c)
                        \/ \E q \in Requests : handleRequestUpdate(c, q)
  \/ \E q \in Requests, good \in BOOLEAN : RequestAnswered(q, good)
  \/ \E b \in Broadcasts : \/ BroadcastTimerFires(b)
                           \/ \E good \in BOOLEAN : BroadcastAnswered(b, good)

Spec == Init /\ [][Next]_vars

\* The interval timer ticks, and an open socket delivers.  Nothing is assumed
\* of getGraphData: the Kubernetes API may never answer.
Fairness == WF_vars(flushTelemetry) /\ \A c \in Clients : WF_vars(PageReceives(c))

FairSpec == Spec /\ Fairness

-----------------------------------------------------------------------------
GraphType(g) ==
  /\ g.nodes \subseteq Nodes
  /\ DOMAIN g.edges \subseteq EdgeIds
  /\ \A e \in DOMAIN g.edges : g.edges[e] \in Reports \cup {NoData}

\* The types, and that selections and clients being served are never doubled;
\* a selection belongs to a connected client.
TypeOK ==
  /\ GraphType(WholeGraph)
  /\ serviceCallGraph \subseteq Services \X Services
  /\ pending \subseteq Reports
  /\ broadcastTimer \in BOOLEAN
  /\ Range(telemetryBuffer) \subseteq [edge : EdgeIds, data : Reports, newNodes : SUBSET Outside]
  /\ flushTimer = (telemetryBuffer # <<>>)
  /\ Range(clientSelections) \subseteq {c \in Clients : sockets[c] = "open"}
  /\ IsInjective(clientSelections)
  /\ requests \in [Requests -> Clients \cup {"new", "done"}]
  /\ \A b \in Broadcasts : Range(broadcasts[b]) \subseteq Clients /\ IsInjective(broadcasts[b])
  /\ sockets \in [Clients -> {"new", "open", "closed"}]
  /\ \A c \in Clients : GraphType(page[c])
  /\ informed \subseteq {c \in Clients : sockets[c] = "open"}

TrafficOf(edges) == {<<e, edges[e]>> : e \in {x \in DOMAIN edges : x.kind = "t"}}

\* The page of c once it has everything that is on its way or in the buffer: the
\* last whole graph with all deltas after it.
Arriving(c) == <<GraphUpdate(page[c])>> \o channel[c] \o <<TelemetryUpdate(telemetryBuffer)>>
Eventual(c) ==
  LET m == Arriving(c)
      last == Max({i \in DOMAIN m : m[i].event = "graphUpdate"})
      batches(e) == {i \in last + 1 .. Len(m) : Of(m[i].items, e) # {}}
      deltas == UNION {Range(m[i].items) : i \in last + 1 .. Len(m)}
      graph == m[last].graph
  IN [nodes |-> graph.nodes \cup UNION {d.newNodes : d \in deltas},
      edges |-> [e \in DOMAIN graph.edges \cup {d.edge : d \in deltas} |->
                   IF batches(e) = {} THEN graph.edges[e]
                   ELSE LastOf(m[Max(batches(e))].items, e)]]

\* Whatever overlaps, reports, flushes, answers and broadcasts, nothing that was
\* observed is lost for a page whose last whole graph was a good one: with what
\* is on its way it holds exactly the observed traffic, each edge as the latest
\* report left it, and the nodes outside the inventory, which are announced only
\* once, although answers and deltas take different ways.
PagesMissNoTraffic ==
  \A c \in informed :
    /\ TrafficOf(Eventual(c).edges) = TrafficOf(activeEdges)
    /\ Endpoints(DOMAIN activeEdges) \cap Outside \subseteq Eventual(c).nodes

\* And it comes to hold it: an edge of the graph appears on every informed page,
\* unless the page leaves or is sent a failure.
TrafficAppears ==
  \A c \in Clients, e \in {r.edge : r \in Reports} :
    (c \in informed /\ e \in DOMAIN activeEdges)
      ~> (c \notin informed \/ e \in DOMAIN page[c].edges)

(* What comments and documents say, and the code does not do *)

Settled(c) ==
  /\ channel[c] = <<>> /\ telemetryBuffer = <<>> /\ ~broadcastTimer
  /\ \A q \in Requests : requests[q] # c
  /\ \A b \in Broadcasts : c \notin Range(broadcasts[b])

\* "Graph topology updates are broadcast to clients" (PROJECT_STATUS.md, and to
\* the same effect the comment at the end of the page's processTelemetry): an
\* informed page for which nothing is under way has the nodes of all its edges.
EdgesHaveTheirNodes ==
  \A c \in informed : Settled(c) => Endpoints(DOMAIN page[c].edges) \subseteq page[c].nodes
=============================================================================
