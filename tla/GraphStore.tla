----------------------------- MODULE GraphStore -----------------------------
(* What the backend's graph promises to those who ask for it, with the
   inventory, the IP caches and the snapshot cache hidden: traffic, once
   observed, stays in the graph; and a request is answered with the whole
   graph as it stands at that moment, or, when the cluster cannot be listed or
   the request is incomplete, with the empty graph, never with a part of the
   graph or with the graph of an earlier moment.

   GraphService implements this specification. *)

CONSTANTS
  Calls,        \* requests for the graph that can be under way
  EmptyGraph    \* the graph with no node and no edge

VARIABLES
  edges,        \* observed edges: a function from edge ids to edge data
  answer        \* the graph each call was answered with, for those answered

vars == <<edges, answer>>

\* The nodes of a set of edges.
Endpoints(ids) == {e.source : e \in ids} \cup {e.target : e \in ids}

\* g shows every edge of es, as it stands, and just the nodes these connect.
IsGraphOf(g, es) ==
  /\ g.edges = es
  /\ DOMAIN g.nodes = Endpoints(DOMAIN es)

Init ==
  /\ DOMAIN edges = {}
  /\ DOMAIN answer = {}

\* A report adds edges or renews them; the others stay as they are.  The edge
\* data is the reporter's affair, so only the edges this step may not touch
\* are constrained: at most one known edge is renewed.
Observe ==
  /\ DOMAIN edges \subseteq DOMAIN edges'
  /\ \E renewed \in DOMAIN edges' :
       \A e \in DOMAIN edges \ {renewed} : edges'[e] = edges[e]
  /\ UNCHANGED answer

Answer(c) ==
  /\ c \notin DOMAIN answer
  /\ DOMAIN answer' = DOMAIN answer \cup {c}
  /\ \/ IsGraphOf(answer'[c], edges)
     \/ answer'[c] = EmptyGraph
  /\ \A d \in DOMAIN answer : answer'[d] = answer[d]
  /\ UNCHANGED edges

Take(c) ==
  /\ c \in DOMAIN answer
  /\ DOMAIN answer' = DOMAIN answer \ {c}
  /\ \A d \in DOMAIN answer' : answer'[d] = answer[d]
  /\ UNCHANGED edges

Next == Observe \/ \E c \in Calls : Answer(c) \/ Take(c)

Spec == Init /\ [][Next]_vars
=============================================================================
