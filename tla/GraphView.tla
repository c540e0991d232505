----------------------------- MODULE GraphView -----------------------------
(* What the graph page (frontend/src/app/page.tsx) works out from a graph that it
   was sent: layoutTopToBottom, which gives every node its place, and
   traverseGraph, which finds what a failure of the node the user clicked
   touches.  Both are loops over a work list and run to their end before
   anything else does; an action is one turn of a loop.

   Node ids are model values; of a pod's edges only that to its service is kept.
   Only in the order of the two lists of the message do equal graphs differ: Rank
   is the order of the services, and where the order of the edges matters any
   outcome is allowed. *)
EXTENDS Integers, FiniteSets, FiniteSetsExt, Sequences, SequencesExt

CONSTANTS
  Services,     \* the nodes that are not pods: services, databases, outside nodes
  Pods,
  Rank,         \* place of a service in the list of nodes
  Calls,        \* edges between services that a graph may have
  NoNode        \* JavaScript's null

Nodes == Services \cup Pods
Places == 0 .. Cardinality(Pods)

\* Ids tell parallel edges apart.
ASSUME GraphAssumption ==
  /\ IsFiniteSet(Services) /\ IsFiniteSet(Pods) /\ IsFiniteSet(Calls)
  /\ Services \cap Pods = {} /\ NoNode \notin Nodes
  /\ Rank \in [Services -> Nat]
  /\ \A s, t \in Services : Rank[s] = Rank[t] => s = t
  /\ \A e \in Calls : e.source \in Services /\ e.target \in Services

VARIABLES
  structuralEdges,  \* the calls that the graph has
  parent,           \* the service that each pod's first edge to a service leads to
  place,            \* each pod's place in the list of pods of its service
  inDegree,         \* calls not counted off yet; -1 once a service is done
  level,            \* the services' levels; none before it is first set
  queue,            \* services whose turn comes
  order,            \* history: the services that are done, in order
  phase,            \* "layout", "shown", or the direction of the walk under way
  focus,            \* the node that was clicked last
  visited, toVisit, \* the walk's nodes, and those it has still to leave
  reached,          \* what the last walk in each direction found
  reachedEdges

layoutVars == <<inDegree, level, queue, order>>
walkVars == <<visited, toVisit, reached, reachedEdges>>
graph == <<structuralEdges, parent, place>>
vars == <<graph, layoutVars, phase, focus, walkVars>>

-----------------------------------------------------------------------------
(* layoutTopToBottom: levels *)

Into(s) == {e \in structuralEdges : e.target = s}
Between(s, t) == {e \in structuralEdges : e.source = s /\ e.target = t}

\* The services of a set in the order of the list.
Listed(S) == CHOOSE q \in [1..Cardinality(S) -> S] :
               \A i, j \in DOMAIN q : i < j => Rank[q[i]] < Rank[q[j]]

StartLayout ==
  LET roots == {s \in Services : Into(s) = {}}
  IN /\ inDegree = [s \in Services |-> Cardinality(Into(s))]
     /\ queue = Listed(roots)
     /\ level = [s \in roots |-> 0]
     /\ order = <<>>

LevelOf(s) == IF s \in DOMAIN level THEN level[s] ELSE 0

\* The service whose turn it is.  If all that remain wait for another, a cycle is
\* broken at one that waits for the fewest.
Waiting == {s \in Services : inDegree[s] > 0}
FewestCalls == {s \in Waiting : \A t \in Waiting : inDegree[s] <= inDegree[t]}
FewestOfAll ==   \* mutant: services that are done are not left out
  CHOOSE s \in Services : \A t \in Services : inDegree[s] <= inDegree[t]
BreakCycle == CHOOSE s \in FewestCalls : \A t \in FewestCalls : Rank[s] <= Rank[t]
Turn == IF queue = <<>> THEN BreakCycle ELSE Head(queue)

\* The services that s calls and that are not done go below s; those that waited
\* for s alone get their turn, in the order of the edges.
LevelsOfFirstCaller(s, called) ==   \* mutant: the first caller decides
  [t \in DOMAIN level \cup {s} \cup called |->
     IF t \in called \ DOMAIN level THEN LevelOf(s) + 1 ELSE LevelOf(t)]
LevelsBelow(s, called) ==
  [t \in DOMAIN level \cup {s} \cup called |->
     IF t \in called THEN Max({LevelOf(t), LevelOf(s) + 1}) ELSE LevelOf(t)]

LayoutStep ==
  /\ phase = "layout"
  /\ Len(order) < Cardinality(Services)
  /\ LET s == Turn
         called == {t \in Services \ {s} : Between(s, t) # {} /\ inDegree[t] > 0}
         left == [t \in Services |-> IF t = s THEN -1
                                     ELSE IF t \in called
                                     THEN inDegree[t] - Cardinality(Between(s, t))
                                     ELSE inDegree[t]]
     IN /\ inDegree' = left
        /\ level' = LevelsBelow(s, called)
        /\ \E released \in SetToSeqs({t \in called : left[t] = 0}) :
             queue' = (IF queue = <<>> THEN <<>> ELSE Tail(queue)) \o released
        /\ order' = Append(order, s)
  /\ UNCHANGED <<graph, phase, focus, walkVars>>

LayoutEnds ==
  /\ phase = "layout"
  /\ Len(order) = Cardinality(Services)
  /\ phase' = "shown"
  /\ UNCHANGED <<graph, layoutVars, focus, walkVars>>

-----------------------------------------------------------------------------
(* layoutTopToBottom: places *)

PodRowGap == 170
ServiceRowGap == 460
BandGap == 240
ServiceColGap == 460
Top == 120

Siblings(s) == {p \in Pods : parent[p] = s}
AtLevel(lv) == {s \in Services : LevelOf(s) = lv}
MostPods(lv) == Max({1} \cup {Cardinality(Siblings(s)) : s \in AtLevel(lv)})
BandHeight(lv) == ServiceRowGap + (MostPods(lv) - 1) * PodRowGap

\* Where the band of a level begins: below all bands above it.
BandAt(lv) == IF AtLevel(lv) = {} THEN 0 ELSE BandHeight(lv) + BandGap
LevelY[lv \in Nat] == IF lv = 0 THEN Top ELSE LevelY[lv - 1] + BandAt(lv - 1)
Bottom == LevelY[Cardinality(Services)]

ServiceX(s) ==
  LET peers == AtLevel(LevelOf(s))
      index == Cardinality({t \in peers : Rank[t] < Rank[s]})
  IN (2 * index - (Cardinality(peers) - 1)) * (ServiceColGap \div 2)

PodBelowService(p) ==   \* mutant: all pods of a service at one place
  [x |-> ServiceX(parent[p]), y |-> LevelY[LevelOf(parent[p])] + 180]
PodPosition(p) ==
  IF parent[p] = NoNode THEN [x |-> 0, y |-> Bottom]
  ELSE [x |-> ServiceX(parent[p]),
        y |-> LevelY[LevelOf(parent[p])] + 180 + place[p] * PodRowGap]

Position(n) ==
  IF n \in Pods THEN PodPosition(n)
  ELSE [x |-> ServiceX(n), y |-> LevelY[LevelOf(n)]]

-----------------------------------------------------------------------------
(* traverseGraph *)

\* All edges of the page, those from pods to their services included.
PodEdges == {[id |-> p, source |-> p, target |-> parent[p]] :
               p \in {q \in Pods : parent[q] # NoNode}}
Edges == structuralEdges \cup PodEdges

Beyond(dir, e) == IF dir = "down" THEN e.target ELSE e.source
Leaving(dir, n) == {e \in Edges : n = IF dir = "down" THEN e.source ELSE e.target}

\* A click starts the walk against the edges; that along them follows.
onNodeClick(n) ==
  /\ phase = "shown"
  /\ focus' = n
  /\ phase' = "up"
  /\ visited' = {n}
  /\ toVisit' = <<n>>
  /\ reached' = [dir \in {"up", "down"} |-> {}]
  /\ reachedEdges' = [dir \in {"up", "down"} |-> {}]
  /\ UNCHANGED <<graph, layoutVars>>

WalkStepPastNewNodes(dir) ==   \* mutant: an edge to a node that is known is left out
  /\ phase = dir
  /\ toVisit # <<>>
  /\ LET found == {e \in Leaving(dir, Head(toVisit)) : Beyond(dir, e) \notin visited}
         new == {Beyond(dir, e) : e \in found}
     IN /\ visited' = visited \cup new
        /\ \E next \in SetToSeqs(new) : toVisit' = Tail(toVisit) \o next
        /\ reached' = [reached EXCEPT ![dir] = visited \cup new]
        /\ reachedEdges' = [reachedEdges EXCEPT ![dir] = @ \cup found]
  /\ UNCHANGED <<graph, layoutVars, phase, focus>>
WalkStepAgain(dir) ==   \* mutant: a node that was visited is visited again
  /\ phase = dir
  /\ toVisit # <<>>
  /\ LET found == Leaving(dir, Head(toVisit))
         new == {Beyond(dir, e) : e \in found}
     IN /\ visited' = visited \cup new
        /\ \E next \in SetToSeqs(new) : toVisit' = Tail(toVisit) \o next
        /\ reached' = [reached EXCEPT ![dir] = visited \cup new]
        /\ reachedEdges' = [reachedEdges EXCEPT ![dir] = @ \cup found]
  /\ UNCHANGED <<graph, layoutVars, phase, focus>>
WalkStep(dir) ==
  /\ phase = dir
  /\ toVisit # <<>>
  /\ LET found == Leaving(dir, Head(toVisit))
         new == {Beyond(dir, e) : e \in found} \ visited
     IN /\ visited' = visited \cup new
        /\ \E next \in SetToSeqs(new) : toVisit' = Tail(toVisit) \o next
        /\ reached' = [reached EXCEPT ![dir] = visited \cup new]
        /\ reachedEdges' = [reachedEdges EXCEPT ![dir] = @ \cup found]
  /\ UNCHANGED <<graph, layoutVars, phase, focus>>

WalkEnds(dir) ==
  /\ phase = dir
  /\ toVisit = <<>>
  /\ phase' = IF dir = "up" THEN "down" ELSE "shown"
  /\ visited' = {focus}
  /\ toVisit' = IF dir = "up" THEN <<focus>> ELSE <<>>
  /\ UNCHANGED <<graph, layoutVars, focus, reached, reachedEdges>>

-----------------------------------------------------------------------------
\* Any graph: any calls, any service or none for each pod.
Init ==
  /\ structuralEdges \in SUBSET Calls
  /\ parent \in [Pods -> Services \cup {NoNode}]
  /\ place \in [Pods -> Places]
  /\ \A p \in Pods : place[p] < Cardinality(Siblings(parent[p]))
  /\ \A p, q \in Pods : parent[p] = parent[q] /\ place[p] = place[q] => p = q
  /\ StartLayout
  /\ phase = "layout"
  /\ focus = NoNode
  /\ visited = {}
  /\ toVisit = <<>>
  /\ reached = [dir \in {"up", "down"} |-> {}]
  /\ reachedEdges = [dir \in {"up", "down"} |-> {}]

Next ==
  \/ LayoutStep
  \/ LayoutEnds
  \/ \E n \in Nodes : onNodeClick(n)
  \/ \E dir \in {"up", "down"} : WalkStep(dir) \/ WalkEnds(dir)

Spec == Init /\ [][Next]_vars

\* A loop that can go on does: the code awaits nothing.
Loops ==
  \/ LayoutStep
  \/ LayoutEnds
  \/ \E dir \in {"up", "down"} : WalkStep(dir) \/ WalkEnds(dir)
FairSpec == Spec /\ WF_vars(Loops)

-----------------------------------------------------------------------------
\* The types; what is counted off as done is what the history lists.
TypeOK ==
  /\ structuralEdges \subseteq Calls
  /\ parent \in [Pods -> Services \cup {NoNode}]
  /\ inDegree \in [Services -> Int]
  /\ DOMAIN level \subseteq Services
  /\ \A s \in DOMAIN level : level[s] \in Nat
  /\ Range(queue) \cup Range(order) \subseteq Services
  /\ IsInjective(order)
  /\ Range(order) = {s \in Services : inDegree[s] = -1}
  /\ phase \in {"layout", "shown", "up", "down"}
  /\ focus \in Nodes \cup {NoNode}
  /\ visited \cup Range(toVisit) \subseteq Nodes
  /\ reached \in [{"up", "down"} -> SUBSET Nodes]
  /\ reachedEdges \in [{"up", "down"} -> SUBSET Edges]

\* Every nonempty set of services has one that none of the set calls.
Acyclic ==
  \A S \in SUBSET Services : S # {} =>
    \E s \in S : \A e \in Into(s) : e.source \notin S

\* The hierarchy runs from top to bottom, whatever the order of the lists,
\* parallel edges and paths of different lengths: without a cycle every caller
\* stands above all that it calls, and with cycles a call runs up only if the loop
\* was done with the called service first.
CallsRunDown ==
  phase # "layout" =>
    \A e \in structuralEdges :
      \/ LevelOf(e.source) < LevelOf(e.target)
      \/ /\ ~Acyclic
         /\ \E i, j \in DOMAIN order : j <= i /\ order[i] = e.source /\ order[j] = e.target

\* No node hides another: all but the pods without a service, which share one
\* place below all bands, keep a row or a column apart.
Apart(p, q) == \/ p.x - q.x >= ServiceColGap \/ q.x - p.x >= ServiceColGap
               \/ p.y - q.y >= PodRowGap \/ q.y - p.y >= PodRowGap
NodesKeepApart ==
  phase = "shown" =>
    \A m, n \in Nodes :
      m # n => \/ Apart(Position(m), Position(n))
               \/ {m, n} \subseteq Siblings(NoNode)

\* S holds the node that was clicked and all that edges lead to from S.
Closed(S, dir) ==
  /\ focus \in S
  /\ \A n \in S : {Beyond(dir, e) : e \in Leaving(dir, n)} \subseteq S

\* The blast radius of a click is exact: the nodes found are those that reach
\* the node, or that it reaches, along the edges of the page, and no other; the
\* edges found are all that such a path can take.
BlastRadiusIsExact ==
  (phase = "shown" /\ focus # NoNode) =>
    \A dir \in {"up", "down"} :
      /\ Closed(reached[dir], dir)
      /\ \A S \in SUBSET Nodes : Closed(S, dir) => reached[dir] \subseteq S
      /\ reachedEdges[dir] = UNION {Leaving(dir, n) : n \in reached[dir]}

\* The page is never stuck in a loop: a cycle of calls, also one that nothing
\* enters, does not keep the layout from its end, nor the walk.
LoopsEnd == []<>(phase = "shown")
=============================================================================
