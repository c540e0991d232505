------------------------------- MODULE GraphPage -------------------------------
(* The graph page (frontend/src/app/page.tsx) over time: its socket, which follows
   the selection, the graph it shows and merges updates into, the history that
   time travel replays, and the panel that follows a pod's log through the gateway
   (backend/src/graph/graph.gateway.ts), of which it has the part of the latest
   socket; LogStreams has the gateway's streams for all clients.

   Of a graph the page knows whose it is: the selection it was sent for, and
   whether observed edges were merged into it.  (What graphs hold is in GraphFeed,
   and how they are drawn in GraphView.)  Time passes in units. *)
EXTENDS KubeSelection, Sequences, SequencesExt

CONSTANTS
  Pods,
  NoPod,
  MaxHistory, HistorySpan,  \* 120 snapshots, two hours
  Lookbacks,                \* how far back the user may look; 0 is live
  MaxTime, MaxUpdates, MaxSelections, MaxOpening   \* bounds

ASSUME HistoryAssumption ==
  /\ MaxHistory \in Nat \ {0} /\ HistorySpan \in Nat
  /\ Lookbacks \subseteq Nat /\ NoPod \notin Pods
  /\ {MaxTime, MaxUpdates, MaxSelections, MaxOpening} \subseteq Nat

VARIABLES
  isLoading,         \* the splash screen is up
  socket,            \* the selection of the page's latest socket, closed or not
  open,              \* the selections of the sockets that are open
  live,              \* allNodes and edges
  graphStateRef,     \* what observed edges are merged into
  graphHistory,
  timeTravel,
  viewedAt,          \* when the view was last computed
  isPanelOpen, selectedPodName,
  following,         \* the pod whose log stream the gateway has filed for the socket
  opening,           \* per pod: its streams being opened for the socket
  lost,              \* pods whose streams run to the socket and are filed no more
  now,
  updates, changes,  \* history: numbers of messages and of changes of selection
  served,            \* history: the latest socket has been sent a graph
  past,              \* history: the graph shown at each time
  strayed,           \* history: a node without a pod was clicked over a log
  rushed             \* history: the gateway was told something while it opened a stream

graph == <<live, graphStateRef, graphHistory, past, served, viewedAt>>
panel == <<isPanelOpen, selectedPodName>>
logs == <<following, opening, lost, strayed, rushed>>
pageVars == <<isLoading, socket, open, graph, timeTravel, panel, logs, now, updates, changes>>
vars == <<selection, pageVars>>

Empty == [of |-> Nothing, observed |-> FALSE]
GraphOf(sel) == [of |-> sel, observed |-> FALSE]

-----------------------------------------------------------------------------
(* The graph and its history *)

\* The snapshots are in the order of their times: those within the span come last.
Recent(h) ==
  LET old == {i \in DOMAIN h : now - h[i].ts > HistorySpan}
  IN SubSeq(h, 1 + Max({0} \cup old), Len(h))
Newest(h) == SubSeq(h, 1 + Len(h) - Min({MaxHistory, Len(h)}), Len(h))

\* The page shows g, keeps it to merge into, and records it.
recordSnapshot(g) ==
  /\ live' = g
  /\ graphStateRef' = g
  /\ graphHistory' = Newest(Recent(Append(graphHistory, [ts |-> now, graph |-> g])))
  /\ past' = [past EXCEPT ![now] = g]
  /\ viewedAt' = now

\* The last snapshot at or before the time looked back to; if there is none, the
\* oldest.  The view is computed anew when the graph, the history or the time looked
\* back to changes, not when the clock does.
SnapshotBefore(lookback) ==   \* mutant: strictly before
  LET old == {i \in DOMAIN graphHistory : graphHistory[i].ts < viewedAt - lookback}
  IN graphHistory[IF old = {} THEN 1 ELSE Max(old)].graph
findNearestSnapshot(lookback) ==
  LET old == {i \in DOMAIN graphHistory : graphHistory[i].ts <= viewedAt - lookback}
  IN graphHistory[IF old = {} THEN 1 ELSE Max(old)].graph

visibleSnapshot ==
  IF timeTravel = 0 \/ graphHistory = <<>> THEN live ELSE findNearestSnapshot(timeTravel)

\* A socket sends a graph: an empty one if the backend could not list or nothing
\* has been observed.
graphUpdate(sel) ==
  /\ sel \in open /\ updates < MaxUpdates
  /\ updates' = updates + 1
  /\ (recordSnapshot(GraphOf(sel)) \/ recordSnapshot(Empty))
  /\ served' = (served \/ sel = socket)
  /\ UNCHANGED <<selection, isLoading, socket, open, timeTravel, panel, logs, now, changes>>

\* A socket sends observed edges, perhaps before its first graph.
telemetryUpdate ==
  /\ open # {} /\ updates < MaxUpdates
  /\ updates' = updates + 1
  /\ recordSnapshot([graphStateRef EXCEPT !.observed = TRUE])
  /\ UNCHANGED <<selection, isLoading, socket, open, timeTravel, served, panel, logs, now,
                 changes>>

-----------------------------------------------------------------------------
(* The socket *)

OpenAnother == open' = open \cup {socket'}   \* mutant: the effect is not cleaned up
OpenOnly == open' = {socket'}

ConnectStale ==   \* mutant: the old socket is left open when nothing is selected
  \/ /\ Nothing \in {selectedContext', selectedNamespace'}
     /\ live' = Empty
     /\ past' = [past EXCEPT ![now] = Empty]
     /\ viewedAt' = now
     /\ UNCHANGED <<socket, open, served>>
  \/ /\ Nothing \notin {selectedContext', selectedNamespace'}
     /\ socket' = <<selectedContext', selectedNamespace'>>
     /\ OpenOnly
     /\ served' = FALSE
     /\ UNCHANGED <<live, past, viewedAt>>

\* The effect of a selection: without one the page is emptied, but not what it
\* merges into; with one a new socket asks for its graph.
Connect ==
  \/ /\ Nothing \in {selectedContext', selectedNamespace'}
     /\ open' = {}
     /\ live' = Empty
     /\ past' = [past EXCEPT ![now] = Empty]
     /\ viewedAt' = now
     /\ UNCHANGED <<socket, served>>
  \/ /\ Nothing \notin {selectedContext', selectedNamespace'}
     /\ socket' = <<selectedContext', selectedNamespace'>>
     /\ OpenOnly
     /\ served' = FALSE
     /\ UNCHANGED <<live, past, viewedAt>>

\* The old socket's log streams end with it, or have nobody to go to.
NoLogs ==
  /\ following' = NoPod
  /\ opening' = [p \in Pods |-> 0]
  /\ lost' = {}
  /\ strayed' = FALSE /\ rushed' = FALSE

SplashEnds ==
  /\ isLoading
  /\ isLoading' = FALSE
  /\ UNCHANGED selection
  /\ Connect
  /\ NoLogs
  /\ UNCHANGED <<graphStateRef, graphHistory, timeTravel, panel, now, updates, changes>>

Selects ==
  /\ SelectionNext
  /\ IF isLoading \/ UNCHANGED <<selectedContext, selectedNamespace>>
     THEN UNCHANGED <<socket, open, live, past, served, viewedAt, logs>>
     ELSE Connect /\ NoLogs
  /\ changes' = changes + (IF contextsAsked \/ (asked' \subseteq asked /\ asked' # asked) THEN 0 ELSE 1)
  /\ changes' <= MaxSelections
  /\ UNCHANGED <<isLoading, graphStateRef, graphHistory, timeTravel, panel, now, updates>>

-----------------------------------------------------------------------------
(* The panel and the gateway's streams *)

Opening == \E p \in Pods : opening[p] > 0
Tells == rushed' = (rushed \/ Opening)

\* The gateway ends the stream it has filed, and begins to open another.
handleSubscribeLogs(p) ==
  /\ following' = NoPod
  /\ opening' = [opening EXCEPT ![p] = @ + 1]
  /\ Tells
handleUnsubscribeLogs ==
  /\ following' = NoPod
  /\ Tells
  /\ UNCHANGED opening

\* The user clicks a node of pod p, or one to which no pod is connected.
onNodeClick(p) ==
  /\ ~isLoading /\ visibleSnapshot # Empty
  /\ isPanelOpen' = TRUE
  /\ selectedPodName' = p
  /\ \/ /\ p # NoPod /\ open # {}
        /\ opening[p] < MaxOpening   \* bound
        /\ handleSubscribeLogs(p)
        /\ UNCHANGED strayed
     \/ /\ p = NoPod \/ open = {}
        /\ strayed' = (strayed \/ following # NoPod \/ Opening)
        /\ UNCHANGED <<following, opening, rushed>>
  /\ UNCHANGED <<selection, isLoading, socket, open, graph, timeTravel, lost, now, updates,
                 changes>>

ClosePanelOnly ==   \* mutant: the log goes on
  /\ isPanelOpen
  /\ isPanelOpen' = FALSE
  /\ selectedPodName' = NoPod
  /\ UNCHANGED <<selection, isLoading, socket, open, graph, timeTravel, logs, now, updates,
                 changes>>
handleClosePanel ==
  /\ isPanelOpen
  /\ isPanelOpen' = FALSE
  /\ selectedPodName' = NoPod
  /\ \/ selectedPodName # NoPod /\ open # {} /\ handleUnsubscribeLogs
     \/ (selectedPodName = NoPod \/ open = {}) /\ UNCHANGED <<following, opening, rushed>>
  /\ UNCHANGED <<selection, isLoading, socket, open, graph, timeTravel, lost, strayed, now,
                 updates, changes>>

\* streamPodLogs is done: its stream is filed over whatever is filed by then, which
\* nobody can end any more; or there is none.  Later a pod's log may end.
StreamOpens(p) ==
  /\ opening[p] > 0
  /\ opening' = [opening EXCEPT ![p] = @ - 1]
  /\ following' = p
  /\ lost' = lost \cup ({following} \ {NoPod})
  /\ UNCHANGED <<selection, isLoading, socket, open, graph, timeTravel, panel, strayed, rushed,
                 now, updates, changes>>
StreamFails(p) ==
  /\ opening[p] > 0
  /\ opening' = [opening EXCEPT ![p] = @ - 1]
  /\ UNCHANGED <<selection, isLoading, socket, open, graph, timeTravel, panel, following, lost,
                 strayed, rushed, now, updates, changes>>
StreamEnds(p) ==
  /\ p \in lost \cup {following}
  /\ following' = IF following = p THEN NoPod ELSE following
  /\ lost' = lost \ {p}
  /\ UNCHANGED <<selection, isLoading, socket, open, graph, timeTravel, panel, opening, strayed,
                 rushed, now, updates, changes>>

-----------------------------------------------------------------------------
(* Time travel *)

setTimeTravelMinutes(l) ==
  /\ ~isLoading /\ l # timeTravel
  /\ timeTravel' = l
  /\ viewedAt' = now
  /\ UNCHANGED <<selection, isLoading, socket, open, live, graphStateRef, graphHistory, past,
                 served, panel, logs, now, updates, changes>>

\* The canvas measures, moves or selects nodes: the view is computed anew.
onNodesChange ==
  /\ ~isLoading /\ visibleSnapshot # Empty /\ viewedAt # now
  /\ viewedAt' = now
  /\ UNCHANGED <<selection, isLoading, socket, open, live, graphStateRef, graphHistory, past,
                 served, timeTravel, panel, logs, now, updates, changes>>

Tick ==
  /\ now < MaxTime
  /\ now' = now + 1
  /\ past' = [t \in 1 .. now + 1 |-> IF t \in DOMAIN past THEN past[t] ELSE live]
  /\ UNCHANGED <<selection, isLoading, socket, open, live, graphStateRef, graphHistory,
                 served, viewedAt, timeTravel, panel, logs, updates, changes>>

-----------------------------------------------------------------------------
Init ==
  /\ SelectionInit
  /\ isLoading = TRUE
  /\ socket = Nothing
  /\ open = {}
  /\ live = Empty /\ graphStateRef = Empty /\ graphHistory = <<>>
  /\ timeTravel = 0 /\ viewedAt = 1
  /\ isPanelOpen = FALSE /\ selectedPodName = NoPod
  /\ following = NoPod /\ opening = [p \in Pods |-> 0] /\ lost = {}
  /\ now = 1 /\ past = <<Empty>>
  /\ updates = 0 /\ changes = 0
  /\ served = FALSE /\ strayed = FALSE /\ rushed = FALSE

Next ==
  \/ SplashEnds
  \/ Selects
  \/ \E sel \in open : graphUpdate(sel)
  \/ telemetryUpdate
  \/ \E p \in Pods \cup {NoPod} : onNodeClick(p)
  \/ handleClosePanel
  \/ \E p \in Pods : StreamOpens(p) \/ StreamFails(p) \/ StreamEnds(p)
  \/ \E l \in Lookbacks : setTimeTravelMinutes(l)
  \/ onNodesChange
  \/ Tick

Spec == Init /\ [][Next]_vars

-----------------------------------------------------------------------------
GraphType == [of : (Contexts \X AllNamespaces) \cup {Nothing}, observed : BOOLEAN]

\* The types; a page without a selection has no socket.
TypeOK ==
  /\ SelectionTypeOK
  /\ {live, graphStateRef} \subseteq GraphType
  /\ Len(graphHistory) <= MaxHistory
  /\ \A i \in DOMAIN graphHistory : graphHistory[i].ts \in 1 .. now /\ graphHistory[i].graph \in GraphType
  /\ timeTravel \in Lookbacks \cup {0} /\ viewedAt \in 1 .. now
  /\ {selectedPodName, following} \subseteq Pods \cup {NoPod}
  /\ opening \in [Pods -> Nat] /\ lost \subseteq Pods
  /\ open # {} => Nothing \notin {selectedContext, selectedNamespace}

\* Once the socket of the present selection has sent a graph, the page never again
\* shows the graph of another selection, whose answers may still be under way, nor
\* merges observed edges into one.
\* (Before that, observed edges are merged into the graph of the selection before.)
LiveGraphIsOfSelection ==
  (served /\ open # {}) =>
    {live.of, graphStateRef.of} \subseteq {<<selectedContext, selectedNamespace>>, Nothing}

\* Time travel is faithful: as far as the history goes back, the view shows the
\* graph that the page showed that long before the view was computed, whatever has
\* come, been merged or been dropped since; but for times at which the page was
\* emptied for want of a selection.
\* (The clock alone does not compute the view anew: on a quiet page it stays at the
\* time looked back to from the last update.)
ReplayIsFaithful ==
  (timeTravel > 0 /\ \E i \in DOMAIN graphHistory : graphHistory[i].ts <= viewedAt - timeTravel) =>
    past[viewedAt - timeTravel] \in {visibleSnapshot, Empty}

\* The log that is sent to the page is that of the pod in its panel, and ends with
\* the panel, for a user who lets each log begin before asking for another or closing
\* the panel, and does not click a node without a pod over a log.
\* (The others may be sent a log behind a closed panel, or two at once: the gateway
\* cannot end a stream before it is open, and the panel that has forgotten its pod
\* does not unsubscribe.)
LogEndsWithPanel ==
  ~(strayed \/ rushed) =>
    ({following} \ {NoPod}) \cup lost \subseteq
      (IF isPanelOpen THEN {selectedPodName} ELSE {})
=============================================================================
