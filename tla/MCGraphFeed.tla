---------------------------- MODULE MCGraphFeed ----------------------------
(* An outside client that calls web, and web that calls api, whose second report
   also closes a trace link from api back to web. *)
EXTENDS GraphFeed, TLC

CONSTANTS web, api, world, alice, bob, q1, q2

Edge(s, t) == [kind |-> "t", source |-> s, target |-> t]
Link(s, t) == [kind |-> "trace", source |-> s, target |-> t]

Entry == [n |-> 1, edge |-> Edge(world, web), links |-> {}]
Call == [n |-> 2, edge |-> Edge(web, api), links |-> {}]
CallAgain == [n |-> 3, edge |-> Edge(web, api), links |-> {Link(api, web)}]

AllReports == {Entry, Call, CallAgain}
Entries == {Entry}

Symmetry == Permutations(Clients) \cup Permutations(Requests)

\* Bounds: alice comes and goes as she likes and asks first; then bob may come, or the
\* outside client's request may, but not both.  The second request is anyone's.
Bounded ==
  /\ sockets'[bob] # "new" => requests[q1] # "new" /\ Entry \in pending'
  /\ requests'[q1] # bob
  /\ requests'[q2] # "new" => requests[q1] # "new"
=============================================================================
