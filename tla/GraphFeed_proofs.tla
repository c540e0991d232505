--------------------------- MODULE GraphFeed_proofs ---------------------------
(* For any clients, reports, requests and broadcasts: what a page holds and is
   being sent adds up to the observed traffic.

   What is on its way to a page is a sequence of messages, of which the last one
   to speak of an edge decides what becomes of it. *)
EXTENDS GraphFeed, SequenceEnds, TLAPS

-----------------------------------------------------------------------------
(* The invariant *)

Deltas == [edge : EdgeIds, data : Reports, newNodes : SUBSET Outside]
EdgeSets == UNION {[D -> Reports \cup {NoData}] : D \in SUBSET EdgeIds}
Graphs == [nodes : SUBSET Nodes, edges : EdgeSets]
Messages == [event : {"graphUpdate"}, graph : Graphs]
              \cup [event : {"telemetryUpdate"}, items : Seq(Deltas)]

FeedType ==
  /\ activeEdges \in EdgeSets
  /\ serviceCallGraph \subseteq Services \X Services
  /\ pending \subseteq Reports
  /\ broadcastTimer \in BOOLEAN
  /\ telemetryBuffer \in Seq(Deltas)
  /\ flushTimer = (telemetryBuffer # <<>>)
  /\ clientSelections \in Seq(Clients) /\ IsInjective(clientSelections)
  /\ \A i \in DOMAIN clientSelections : sockets[clientSelections[i]] = "open"
  /\ requests \in [Requests -> Clients \cup {"new", "done"}]
  /\ broadcasts \in [Broadcasts -> Seq(Clients)]
  /\ \A b \in Broadcasts : IsInjective(broadcasts[b])
  /\ sockets \in [Clients -> {"new", "open", "closed"}]
  /\ channel \in [Clients -> Seq(Messages)]
  /\ page \in [Clients -> Graphs]
  /\ informed \subseteq {c \in Clients : sockets[c] = "open"}

\* The buffer's last delta of an edge is of the report that made the edge last.
BufferIsRecent ==
  \A i \in DOMAIN telemetryBuffer :
    LET e == telemetryBuffer[i].edge
    IN /\ e \in DOMAIN activeEdges
       /\ LastOf(telemetryBuffer, e) = activeEdges[e]

\* A message says something of an edge, if only, as a whole graph, that it is not there.
Speaks(x, e) == x.event = "graphUpdate" \/ Of(x.items, e) # {}
IsLastWord(m, i, e) == Speaks(m[i], e) /\ \A j \in DOMAIN m : j > i => ~Speaks(m[j], e)

\* What it says is how the edge is among edges es.
Agrees(x, e, es) ==
  IF x.event = "graphUpdate"
  THEN /\ e \in DOMAIN x.graph.edges <=> e \in DOMAIN es
       /\ e \in DOMAIN es => x.graph.edges[e] = es[e]
  ELSE e \in DOMAIN es /\ LastOf(x.items, e) = es[e]

LastWordsAgree(m, es) ==
  \A e \in EdgeIds : e.kind = "t" =>
    \A i \in DOMAIN m : IsLastWord(m, i, e) => Agrees(m[i], e, es)

\* Message x names node n.
Names(x, n) == IF x.event = "graphUpdate" THEN n \in x.graph.nodes
               ELSE \E k \in DOMAIN x.items : n \in x.items[k].newNodes

\* Since the last whole graph, each of a set of nodes is named.
AllNamed(m, nodes) ==
  \A n \in nodes : \E i \in DOMAIN m :
    Names(m[i], n) /\ \A j \in DOMAIN m : j > i => m[j].event # "graphUpdate"

\* What is on its way when page g is to get messages ms and the buffered items.
On(g, ms, items) == <<GraphUpdate(g)>> \o ms \o <<TelemetryUpdate(items)>>

Told(m, es) ==
  LastWordsAgree(m, es) /\ AllNamed(m, Endpoints(DOMAIN es) \cap Outside)

InformedPagesAreTold ==
  \A c \in informed :
    Told(On(page[c], channel[c], telemetryBuffer), activeEdges)

FeedInv == FeedType /\ BufferIsRecent /\ InformedPagesAreTold

-----------------------------------------------------------------------------
(* Graphs and batches *)

LEMMA GreatestIs ==
  ASSUME NEW T \in SUBSET Nat, NEW m \in T, \A n \in T : n <= m
  PROVE  Max(T) = m
<1>1. PICK x \in T : x = Max(T) /\ \A n \in T : x >= n
  BY DEF Max
<1>. QED
  BY <1>1

LEMMA PlacesOf ==
  ASSUME NEW items \in Seq(Deltas), NEW e
  PROVE  /\ Of(items, e) \subseteq Nat
         /\ \A i \in Of(items, e) : i <= Len(items)
         /\ Of(items, e) # {} => /\ Max(Of(items, e)) \in Of(items, e)
                                 /\ LastOf(items, e) \in Reports
<1>1. Len(items) \in Nat /\ DOMAIN items = 1 .. Len(items)
  BY LenProperties
<1>2. Of(items, e) \subseteq Nat /\ \A i \in Of(items, e) : i <= Len(items)
  BY <1>1 DEF Of
<1>3. ASSUME Of(items, e) # {} PROVE Max(Of(items, e)) \in Of(items, e)
  BY <1>1, <1>2, <1>3, GreatestNumber
<1>4. ASSUME NEW i \in Of(items, e) PROVE items[i].data \in Reports
  <2>1. items[i] \in Deltas
    BY <1>1, ElementOfSeq DEF Of
  <2>. QED
    BY <2>1 DEF Deltas
<1>. QED
  BY <1>2, <1>3, <1>4 DEF LastOf

(* A delta added to a batch is the last of its edge. *)
LEMMA LastOfLonger ==
  ASSUME NEW items \in Seq(Deltas), NEW d \in Deltas, NEW e
  PROVE  /\ Of(Append(items, d), e) = {} <=> (Of(items, e) = {} /\ d.edge # e)
         /\ d.edge = e => LastOf(Append(items, d), e) = d.data
         /\ d.edge # e /\ Of(items, e) # {} =>
              LastOf(Append(items, d), e) = LastOf(items, e)
<1>1. PICK l \in Nat : l = Len(items) /\ DOMAIN items = 1 .. l
  BY LenProperties
<1>2. PICK more \in Seq(Deltas) : more = Append(items, d)
  BY AppendProperties
<1>3. Len(more) = l + 1 /\ more[l + 1] = d /\ \A i \in 1 .. l : more[i] = items[i]
  BY <1>1, <1>2, AppendProperties
<1>4. DOMAIN more = 1 .. l + 1
  BY <1>3, LenProperties
<1>5. Of(more, e) = Of(items, e) \cup (IF d.edge = e THEN {l + 1} ELSE {})
  BY <1>1, <1>3, <1>4 DEF Of
<1>6. CASE d.edge = e
  <2>1. Of(more, e) = Of(items, e) \cup {l + 1}
    BY <1>5, <1>6
  <2>2. \A n \in Of(more, e) : n \in Nat /\ n <= l + 1
    BY <1>1, <2>1 DEF Of
  <2>3. Max(Of(more, e)) = l + 1
    <3>1. Of(more, e) \in SUBSET Nat /\ l + 1 \in Of(more, e)
      BY <2>1, <2>2
    <3>. QED
      BY <2>2, <3>1, GreatestIs
  <2>. QED
    BY <1>2, <1>3, <1>6, <2>1, <2>3 DEF LastOf
<1>7. CASE d.edge # e
  <2>1. Of(more, e) = Of(items, e)
    BY <1>5, <1>7
  <2>2. ASSUME Of(items, e) # {}
        PROVE  LastOf(more, e) = LastOf(items, e)
    <3>1. Max(Of(items, e)) \in 1 .. l
      BY <1>1, <2>2, PlacesOf DEF Of
    <3>. QED
      BY <1>3, <2>1, <3>1 DEF LastOf
  <2>. QED
    BY <1>2, <1>7, <2>1, <2>2
<1>. QED
  BY <1>6, <1>7

LEMMA EdgeSetsAre ==
  ASSUME NEW f \in EdgeSets
  PROVE  /\ DOMAIN f \subseteq EdgeIds
         /\ \A e \in DOMAIN f : f[e] \in Reports \cup {NoData}
         /\ f \in [DOMAIN f -> Reports \cup {NoData}]
<1>1. PICK D \in SUBSET EdgeIds : f \in [D -> Reports \cup {NoData}]
  BY DEF EdgeSets
<1>. QED
  BY <1>1

LEMMA EdgeSetIs ==
  ASSUME NEW D \in SUBSET EdgeIds, NEW f \in [D -> Reports \cup {NoData}]
  PROVE  f \in EdgeSets
BY DEF EdgeSets

LEMMA EndpointsAreNodes ==
  ASSUME NEW ids \in SUBSET EdgeIds
  PROVE  Endpoints(ids) \subseteq Nodes
BY DEF Endpoints, EdgeIds

LEMMA NoEdges == [e \in {} |-> NoData] \in EdgeSets
<1>1. [e \in {} |-> NoData] \in [{} -> Reports \cup {NoData}]
  OBVIOUS
<1>. QED
  BY <1>1, EdgeSetIs

LEMMA WholeGraphIsAGraph ==
  ASSUME activeEdges \in EdgeSets
  PROVE  WholeGraph \in Graphs /\ EmptyGraph \in Graphs
<1>1. DOMAIN activeEdges \subseteq EdgeIds
  BY EdgeSetsAre
<1>2. Endpoints(DOMAIN activeEdges) \subseteq Nodes
  BY <1>1, EndpointsAreNodes
<1>. QED
  BY <1>2, NoEdges DEF WholeGraph, EmptyGraph, Graphs

LEMMA DeltaIsADelta ==
  ASSUME NEW r \in Reports
  PROVE  Delta(r) \in Deltas
<1>1. r.edge \in EdgeIds
  BY ReportAssumption
<1>2. NewNodes(r) \subseteq Outside
  BY DEF NewNodes
<1>. QED
  BY <1>1, <1>2 DEF Delta, Deltas

LEMMA MergedIsAGraph ==
  ASSUME NEW g \in Graphs, NEW items \in Seq(Deltas)
  PROVE  Merged(g, items) \in Graphs
<1>1. g.nodes \subseteq Nodes /\ g.edges \in EdgeSets
  BY DEF Graphs
<1>2. ASSUME NEW i \in DOMAIN items
      PROVE  items[i].edge \in EdgeIds /\ items[i].newNodes \subseteq Nodes
  <2>1. items[i] \in Deltas
    BY ElementOfSeq, LenProperties
  <2>. QED
    BY <2>1 DEF Deltas, Nodes
<1>3. PICK D \in SUBSET EdgeIds :
        D = DOMAIN g.edges \cup {items[i].edge : i \in DOMAIN items}
  BY <1>1, <1>2, EdgeSetsAre
<1>4. ASSUME NEW e \in D
      PROVE  (IF Of(items, e) = {} THEN g.edges[e] ELSE LastOf(items, e))
               \in Reports \cup {NoData}
  <2>1. CASE Of(items, e) = {}
    <3>1. e \in DOMAIN g.edges
      BY <1>3, <2>1 DEF Of
    <3>. QED
      BY <1>1, <2>1, <3>1, EdgeSetsAre
  <2>2. CASE Of(items, e) # {}
    BY <2>2, PlacesOf
  <2>. QED
    BY <2>1, <2>2
<1>5. Merged(g, items).edges \in [D -> Reports \cup {NoData}]
  BY <1>3, <1>4 DEF Merged
<1>6. Merged(g, items).edges \in EdgeSets
  BY <1>5, EdgeSetIs
<1>7. Merged(g, items).nodes \subseteq Nodes
  BY <1>1, <1>2 DEF Merged
<1>8. Merged(g, items) = [nodes |-> Merged(g, items).nodes, edges |-> Merged(g, items).edges]
  BY DEF Merged
<1>. QED
  BY <1>6, <1>7, <1>8 DEF Graphs

LEMMA MessagesAre ==
  /\ \A g \in Graphs : GraphUpdate(g) \in Messages
  /\ \A items \in Seq(Deltas) : TelemetryUpdate(items) \in Messages
  /\ \A x \in Messages : \/ x.event = "graphUpdate" /\ x.graph \in Graphs
                         \/ x.event = "telemetryUpdate" /\ x.items \in Seq(Deltas)
BY DEF Messages, GraphUpdate, TelemetryUpdate

LEMMA ApplyIsAGraph ==
  ASSUME NEW g \in Graphs, NEW x \in Messages
  PROVE  Apply(g, x) \in Graphs
<1>1. CASE x.event = "graphUpdate"
  BY <1>1, MessagesAre DEF Apply
<1>2. CASE x.event # "graphUpdate"
  BY <1>2, MessagesAre, MergedIsAGraph DEF Apply
<1>. QED
  BY <1>1, <1>2

LEMMA OnIs ==
  ASSUME NEW g \in Graphs, NEW ms \in Seq(Messages), NEW items \in Seq(Deltas)
  PROVE  /\ On(g, ms, items) \in Seq(Messages)
         /\ Len(On(g, ms, items)) = Len(ms) + 2
         /\ DOMAIN On(g, ms, items) = 1 .. Len(ms) + 2
         /\ On(g, ms, items)[1] = GraphUpdate(g)
         /\ \A i \in 1 .. Len(ms) : On(g, ms, items)[i + 1] = ms[i]
         /\ On(g, ms, items)[Len(ms) + 2] = TelemetryUpdate(items)
<1>1. PICK x \in Messages : x = GraphUpdate(g)
  BY MessagesAre
<1>2. PICK y \in Messages : y = TelemetryUpdate(items)
  BY MessagesAre
<1>3. PICK n \in Nat : n = Len(ms)
  BY LenProperties
<1>4. PICK a \in Seq(Messages) : a = <<x>> \o ms
  <2>1. <<x>> \in Seq(Messages)
    OBVIOUS
  <2>. QED
    BY <2>1, ConcatProperties
<1>5. /\ Len(a) = n + 1
      /\ a[1] = x
      /\ \A i \in 1 .. n : a[i + 1] = ms[i]
  BY <1>3, <1>4
<1>6. PICK m \in Seq(Messages) : m = a \o <<y>>
  <2>1. <<y>> \in Seq(Messages)
    OBVIOUS
  <2>. QED
    BY <2>1, ConcatProperties
<1>7. /\ Len(m) = n + 2
      /\ \A i \in 1 .. n + 1 : m[i] = a[i]
      /\ m[n + 2] = y
  BY <1>3, <1>5, <1>6
<1>8. DOMAIN m = 1 .. n + 2 /\ m[1] = x /\ \A i \in 1 .. n : m[i + 1] = ms[i]
  BY <1>5, <1>7, LenProperties
<1>9. On(g, ms, items) = m
  BY <1>1, <1>2, <1>4, <1>6 DEF On
<1>. QED
  BY <1>1, <1>2, <1>3, <1>7, <1>8, <1>9

-----------------------------------------------------------------------------
(* What a step does to what is on its way to a page *)

LEMMA SilenceTellsNothing ==
  ASSUME NEW m \in Seq(Messages), NEW m2 \in Seq(Messages), NEW es,
         Len(m2) = Len(m) + 1, \A i \in 1 .. Len(m) : m2[i] = m[i],
         m2[Len(m) + 1] = TelemetryUpdate(<<>>), Told(m, es)
  PROVE  Told(m2, es)
<1>1. PICK l \in Nat : l = Len(m) /\ DOMAIN m = 1 .. l /\ DOMAIN m2 = 1 .. l + 1
  BY LenProperties
<1>2. /\ m2[l + 1].event # "graphUpdate"
      /\ \A e : ~Speaks(m2[l + 1], e)
      /\ \A n : ~Names(m2[l + 1], n)
  BY <1>1 DEF TelemetryUpdate, Speaks, Names, Of
<1>3. ASSUME NEW e \in EdgeIds, e.kind = "t", NEW i \in DOMAIN m2, IsLastWord(m2, i, e)
      PROVE  Agrees(m2[i], e, es)
  <2>1. i \in 1 .. l
    BY <1>1, <1>2, <1>3 DEF IsLastWord
  <2>2. \A j \in 1 .. l : m2[j] = m[j] /\ j \in DOMAIN m2 /\ j \in DOMAIN m
    BY <1>1
  <2>3. IsLastWord(m, i, e)
    BY <1>1, <1>3, <2>1, <2>2 DEF IsLastWord
  <2>. QED
    BY <1>3, <2>1, <2>2, <2>3 DEF Told, LastWordsAgree
<1>4. ASSUME NEW n \in Endpoints(DOMAIN es) \cap Outside
      PROVE  \E i \in DOMAIN m2 :
               Names(m2[i], n) /\ \A j \in DOMAIN m2 : j > i => m2[j].event # "graphUpdate"
  <2>1. PICK i \in DOMAIN m :
          Names(m[i], n) /\ \A j \in DOMAIN m : j > i => m[j].event # "graphUpdate"
    BY DEF Told, AllNamed
  <2>2. \A j \in DOMAIN m2 : j > i => m2[j].event # "graphUpdate"
    BY <1>1, <1>2, <2>1
  <2>3. i \in DOMAIN m2 /\ m2[i] = m[i]
    BY <1>1
  <2>. QED
    BY <2>1, <2>2, <2>3
<1>. QED
  BY <1>3, <1>4 DEF Told, LastWordsAgree, AllNamed

LEMMA FlushedPagesAreTold ==
  ASSUME NEW g \in Graphs, NEW ms \in Seq(Messages), NEW items \in Seq(Deltas), NEW es,
         Told(On(g, ms, items), es)
  PROVE  Told(On(g, Append(ms, TelemetryUpdate(items)), <<>>), es)
<1>1. PICK x \in Messages : x = TelemetryUpdate(items)
  BY MessagesAre
<1>2. PICK ns \in Seq(Messages) : ns = Append(ms, x)
  BY AppendProperties
<1>3. PICK n \in Nat : n = Len(ms)
  BY LenProperties
<1>4. Len(ns) = n + 1 /\ ns[n + 1] = x /\ \A i \in 1 .. n : ns[i] = ms[i]
  BY <1>2, <1>3, AppendProperties
<1>5. PICK m \in Seq(Messages) : m = On(g, ms, items)
  BY OnIs
<1>6. PICK m2 \in Seq(Messages) : m2 = On(g, ns, <<>>)
  BY OnIs, EmptySeq
<1>7. /\ Len(m) = n + 2
      /\ m[1] = GraphUpdate(g) /\ m[n + 2] = x
      /\ \A i \in 1 .. n : m[i + 1] = ms[i]
  BY <1>1, <1>3, <1>5, OnIs
<1>8. <<>> \in Seq(Deltas)
  OBVIOUS
<1>9. /\ Len(m2) = n + 1 + 2
      /\ m2[1] = GraphUpdate(g) /\ m2[n + 1 + 2] = TelemetryUpdate(<<>>)
      /\ \A i \in 1 .. n + 1 : m2[i + 1] = ns[i]
  <2>1. PICK k \in Nat : k = n + 1 /\ k = Len(ns)
    BY <1>4
  <2>2. /\ Len(m2) = k + 2
        /\ m2[1] = GraphUpdate(g) /\ m2[k + 2] = TelemetryUpdate(<<>>)
        /\ \A i \in 1 .. k : m2[i + 1] = ns[i]
    <3>1. ns \in Seq(Messages)
      BY <1>2
    <3>2. /\ Len(On(g, ns, <<>>)) = Len(ns) + 2
          /\ On(g, ns, <<>>)[1] = GraphUpdate(g)
          /\ On(g, ns, <<>>)[Len(ns) + 2] = TelemetryUpdate(<<>>)
          /\ \A i \in 1 .. Len(ns) : On(g, ns, <<>>)[i + 1] = ns[i]
      BY <1>8, <3>1, OnIs
    <3>. QED
      BY <1>6, <2>1, <3>2
  <2>. QED
    BY <2>1, <2>2
<1>10. ASSUME NEW i \in 1 .. n + 2 PROVE m2[i] = m[i]
  <2>1. CASE i = 1
    BY <1>7, <1>9, <2>1
  <2>2. CASE i = n + 2
    <3>1. n + 1 \in 1 .. n + 1 /\ n + 1 + 1 = n + 2
      OBVIOUS
    <3>. QED
      BY <1>4, <1>7, <1>9, <2>2, <3>1
  <2>3. CASE i # 1 /\ i # n + 2
    <3>1. PICK j \in 1 .. n : i = j + 1
      BY <2>3
    <3>2. j \in 1 .. n + 1
      OBVIOUS
    <3>. QED
      BY <1>4, <1>7, <1>9, <3>1, <3>2
  <2>. QED
    BY <2>1, <2>2, <2>3
<1>11. Len(m2) = Len(m) + 1 /\ m2[Len(m) + 1] = TelemetryUpdate(<<>>)
  BY <1>7, <1>9
<1>. QED
  BY <1>1, <1>2, <1>5, <1>6, <1>7, <1>10, <1>11, SilenceTellsNothing

(* A good answer comes before the buffered deltas, which repeat what it says. *)
LEMMA AnsweredPagesAreTold ==
  ASSUME FeedType, BufferIsRecent, NEW g \in Graphs, NEW ms \in Seq(Messages)
  PROVE  Told(On(g, Append(ms, GraphUpdate(WholeGraph)), telemetryBuffer), activeEdges)
<1>1. PICK x \in Messages : x = GraphUpdate(WholeGraph)
  BY WholeGraphIsAGraph, MessagesAre DEF FeedType
<1>2. PICK ns \in Seq(Messages) : ns = Append(ms, x)
  BY AppendProperties
<1>3. PICK n \in Nat : n = Len(ms)
  BY LenProperties
<1>4. Len(ns) = n + 1 /\ ns[n + 1] = x
  BY <1>2, <1>3, AppendProperties
<1>5. telemetryBuffer \in Seq(Deltas)
  BY DEF FeedType
<1>6. PICK m \in Seq(Messages) : m = On(g, ns, telemetryBuffer)
  BY <1>5, OnIs
<1>7. /\ DOMAIN m = 1 .. n + 1 + 2
      /\ m[n + 1 + 2] = TelemetryUpdate(telemetryBuffer)
      /\ \A i \in 1 .. n + 1 : m[i + 1] = ns[i]
  <2>1. PICK k \in Nat : k = n + 1 /\ k = Len(ns)
    BY <1>4
  <2>2. /\ DOMAIN m = 1 .. k + 2
        /\ m[k + 2] = TelemetryUpdate(telemetryBuffer)
        /\ \A i \in 1 .. k : m[i + 1] = ns[i]
    <3>1. ns \in Seq(Messages)
      BY <1>2
    <3>2. /\ DOMAIN On(g, ns, telemetryBuffer) = 1 .. Len(ns) + 2
          /\ On(g, ns, telemetryBuffer)[Len(ns) + 2] = TelemetryUpdate(telemetryBuffer)
          /\ \A i \in 1 .. Len(ns) : On(g, ns, telemetryBuffer)[i + 1] = ns[i]
      BY <1>5, <3>1, OnIs
    <3>. QED
      BY <1>6, <2>1, <3>2
  <2>. QED
    BY <2>1, <2>2
<1>8. n + 1 \in 1 .. n + 1 /\ n + 1 + 1 = n + 2 /\ n + 1 + 2 = n + 3 /\ n + 2 \in 1 .. n + 3
  OBVIOUS
<1>9. DOMAIN m = 1 .. n + 3 /\ m[n + 2] = x /\ m[n + 3] = TelemetryUpdate(telemetryBuffer)
  BY <1>4, <1>7, <1>8
<1>10. ASSUME NEW e \in EdgeIds, NEW i \in DOMAIN m, IsLastWord(m, i, e)
       PROVE  Agrees(m[i], e, activeEdges)
  <2>1. Speaks(m[n + 2], e) /\ n + 2 \in DOMAIN m
    BY <1>1, <1>8, <1>9 DEF Speaks, GraphUpdate
  <2>2. i = n + 2 \/ i = n + 3
    BY <1>9, <1>10, <2>1 DEF IsLastWord
  <2>3. CASE i = n + 2
    BY <1>1, <1>9, <2>3 DEF Agrees, GraphUpdate, WholeGraph
  <2>4. CASE i = n + 3
    <3>1. Of(telemetryBuffer, e) # {}
      BY <1>9, <1>10, <2>4 DEF IsLastWord, Speaks, TelemetryUpdate
    <3>2. PICK k \in DOMAIN telemetryBuffer : telemetryBuffer[k].edge = e
      BY <3>1 DEF Of
    <3>3. e \in DOMAIN activeEdges /\ LastOf(telemetryBuffer, e) = activeEdges[e]
      BY <3>2 DEF BufferIsRecent
    <3>. QED
      BY <1>9, <2>4, <3>3 DEF Agrees, TelemetryUpdate
  <2>. QED
    BY <2>2, <2>3, <2>4
<1>11. ASSUME NEW k \in Endpoints(DOMAIN activeEdges) \cap Outside
       PROVE  \E i \in DOMAIN m :
                Names(m[i], k) /\ \A j \in DOMAIN m : j > i => m[j].event # "graphUpdate"
  <2>1. Names(m[n + 2], k)
    BY <1>1, <1>9 DEF Names, GraphUpdate, WholeGraph
  <2>2. ASSUME NEW j \in DOMAIN m, j > n + 2 PROVE m[j].event # "graphUpdate"
    <3>1. j = n + 3
      BY <1>9, <2>2
    <3>. QED
      BY <1>9, <3>1 DEF TelemetryUpdate
  <2>. QED
    BY <1>8, <1>9, <2>1, <2>2
<1>12. LastWordsAgree(m, activeEdges)
  BY <1>10 DEF LastWordsAgree
<1>13. AllNamed(m, Endpoints(DOMAIN activeEdges) \cap Outside)
  BY <1>11 DEF AllNamed
<1>. QED
  BY <1>1, <1>2, <1>6, <1>12, <1>13 DEF Told

(* A page that handles a message makes of its graph what the two told together. *)
LEMMA ApplyTells ==
  ASSUME NEW g \in Graphs, NEW x \in Messages, NEW e, NEW es,
         IF Speaks(x, e) THEN Agrees(x, e, es) ELSE Agrees(GraphUpdate(g), e, es)
  PROVE  Agrees(GraphUpdate(Apply(g, x)), e, es)
<1>1. CASE x.event = "graphUpdate"
  BY <1>1 DEF Speaks, Agrees, Apply, GraphUpdate
<1>2. CASE x.event # "graphUpdate"
  <2>1. Apply(g, x) = Merged(g, x.items)
    BY <1>2 DEF Apply
  <2>2. /\ e \in DOMAIN Merged(g, x.items).edges <=>
             e \in DOMAIN g.edges \/ Of(x.items, e) # {}
        /\ e \in DOMAIN Merged(g, x.items).edges =>
             Merged(g, x.items).edges[e]
               = IF Of(x.items, e) = {} THEN g.edges[e] ELSE LastOf(x.items, e)
    BY DEF Merged, Of
  <2>3. CASE Of(x.items, e) = {}
    <3>1. Agrees(GraphUpdate(g), e, es)
      BY <1>2, <2>3 DEF Speaks
    <3>. QED
      BY <2>1, <2>2, <2>3, <3>1 DEF Agrees, GraphUpdate
  <2>4. CASE Of(x.items, e) # {}
    <3>1. e \in DOMAIN es /\ LastOf(x.items, e) = es[e]
      BY <1>2, <2>4 DEF Speaks, Agrees
    <3>. QED
      BY <2>1, <2>2, <2>4, <3>1 DEF Agrees, GraphUpdate
  <2>. QED
    BY <2>3, <2>4
<1>. QED
  BY <1>1, <1>2

LEMMA ApplyNames ==
  ASSUME NEW g \in Graphs, NEW x \in Messages, NEW n,
         Names(x, n) \/ (Names(GraphUpdate(g), n) /\ x.event # "graphUpdate")
  PROVE  Names(GraphUpdate(Apply(g, x)), n)
BY DEF Names, Apply, Merged, GraphUpdate

LEMMA MergingTells ==
  ASSUME NEW m \in Seq(Messages), NEW m2 \in Seq(Messages), NEW es,
         NEW l \in Nat \ {0}, Len(m2) = l, Len(m) = l + 1,
         NEW g \in Graphs, m[1] = GraphUpdate(g), m2[1] = GraphUpdate(Apply(g, m[2])),
         \A i \in 2 .. l : m2[i] = m[i + 1], Told(m, es)
  PROVE  Told(m2, es)
<1>1. DOMAIN m = 1 .. l + 1 /\ DOMAIN m2 = 1 .. l
  BY LenProperties
<1>2. m[2] \in Messages /\ 1 \in 1 .. l /\ 1 \in 1 .. l + 1 /\ 2 \in 1 .. l + 1
  BY <1>1, ElementOfSeq
<1>3. \A j \in 3 .. l + 1 : j - 1 \in 2 .. l /\ (j - 1) + 1 = j
  OBVIOUS
<1>4. ASSUME NEW e \in EdgeIds, e.kind = "t", NEW i \in DOMAIN m2, IsLastWord(m2, i, e)
      PROVE  Agrees(m2[i], e, es)
  <2>1. ASSUME NEW k \in 1 .. l + 1, IsLastWord(m, k, e) PROVE Agrees(m[k], e, es)
    BY <1>1, <1>4, <2>1 DEF Told, LastWordsAgree
  <2>2. CASE i = 1
    <3>1. ASSUME NEW j \in 3 .. l + 1 PROVE ~Speaks(m[j], e)
      <4>1. PICK k \in 2 .. l : k = j - 1 /\ j = k + 1
        BY <1>3
      <4>2. k \in DOMAIN m2 /\ k > i /\ m2[k] = m[j]
        BY <1>1, <2>2, <4>1
      <4>. QED
        BY <1>4, <4>2 DEF IsLastWord
    <3>2. CASE Speaks(m[2], e)
      <4>1. IsLastWord(m, 2, e)
        BY <1>1, <3>1, <3>2 DEF IsLastWord
      <4>2. Agrees(m[2], e, es)
        BY <1>2, <2>1, <4>1
      <4>. QED
        BY <1>2, <2>2, <3>2, <4>2, ApplyTells
    <3>3. CASE ~Speaks(m[2], e)
      <4>1. \A j \in DOMAIN m : j > 1 => ~Speaks(m[j], e)
        <5>1. \A j \in DOMAIN m : j > 1 => j = 2 \/ j \in 3 .. l + 1
          BY <1>1
        <5>. QED
          BY <3>1, <3>3, <5>1
      <4>2. Speaks(m[1], e)
        BY DEF Speaks, GraphUpdate
      <4>3. Agrees(m[1], e, es)
        BY <1>2, <2>1, <4>1, <4>2 DEF IsLastWord
      <4>. QED
        BY <1>2, <2>2, <3>3, <4>3, ApplyTells
    <3>. QED
      BY <3>2, <3>3
  <2>3. CASE i # 1
    <3>1. i \in 2 .. l /\ i + 1 \in 1 .. l + 1 /\ m2[i] = m[i + 1]
      BY <1>1, <2>3
    <3>2. ASSUME NEW j \in DOMAIN m, j > i + 1 PROVE ~Speaks(m[j], e)
      <4>1. PICK k \in 2 .. l : j = k + 1 /\ k > i
        <5>1. j \in 3 .. l + 1 /\ j - 1 > i
          BY <1>1, <3>1, <3>2
        <5>. QED
          BY <1>3, <5>1
      <4>. QED
        BY <1>1, <1>4, <4>1 DEF IsLastWord
    <3>3. IsLastWord(m, i + 1, e)
      BY <1>4, <3>1, <3>2 DEF IsLastWord
    <3>. QED
      BY <2>1, <3>1, <3>3
  <2>. QED
    BY <2>2, <2>3
<1>5. ASSUME NEW n \in Endpoints(DOMAIN es) \cap Outside
      PROVE  \E i \in DOMAIN m2 :
               Names(m2[i], n) /\ \A j \in DOMAIN m2 : j > i => m2[j].event # "graphUpdate"
  <2>1. PICK i \in DOMAIN m :
          Names(m[i], n) /\ \A j \in DOMAIN m : j > i => m[j].event # "graphUpdate"
    BY DEF Told, AllNamed
  <2>2. CASE i \in {1, 2}
    <3>1. Names(m[2], n) \/ (Names(m[1], n) /\ m[2].event # "graphUpdate")
      BY <1>1, <1>2, <2>1, <2>2
    <3>2. Names(m2[1], n)
      BY <1>2, <3>1, ApplyNames
    <3>3. ASSUME NEW j \in DOMAIN m2, j > 1 PROVE m2[j].event # "graphUpdate"
      <4>1. m2[j] = m[j + 1] /\ j + 1 \in DOMAIN m /\ j + 1 > i
        BY <1>1, <2>2, <3>3
      <4>. QED
        BY <2>1, <4>1
    <3>. QED
      BY <1>1, <1>2, <3>2, <3>3
  <2>3. CASE i \notin {1, 2}
    <3>1. PICK k \in 2 .. l : i = k + 1
      <4>1. i \in 3 .. l + 1
        BY <1>1, <2>3
      <4>. QED
        BY <1>3, <4>1
    <3>2. k \in DOMAIN m2 /\ m2[k] = m[i]
      BY <1>1, <3>1
    <3>3. ASSUME NEW j \in DOMAIN m2, j > k PROVE m2[j].event # "graphUpdate"
      <4>1. m2[j] = m[j + 1] /\ j + 1 \in DOMAIN m /\ j + 1 > i
        BY <1>1, <3>1, <3>3
      <4>. QED
        BY <2>1, <4>1
    <3>. QED
      BY <2>1, <3>2, <3>3
  <2>. QED
    BY <2>2, <2>3
<1>6. LastWordsAgree(m2, es)
  BY <1>4 DEF LastWordsAgree
<1>. QED
  BY <1>5, <1>6 DEF Told, AllNamed

LEMMA ReceivedPagesAreTold ==
  ASSUME NEW g \in Graphs, NEW ms \in Seq(Messages), ms # <<>>,
         NEW items \in Seq(Deltas), NEW es, Told(On(g, ms, items), es)
  PROVE  Told(On(Apply(g, Head(ms)), Tail(ms), items), es)
<1>1. Head(ms) \in Messages /\ Tail(ms) \in Seq(Messages) /\ Len(Tail(ms)) = Len(ms) - 1
  BY HeadTailProperties
<1>2. \A i \in 1 .. Len(Tail(ms)) : Tail(ms)[i] = ms[i + 1]
  BY HeadTailProperties
<1>3. PICK t \in Seq(Messages) : t = Tail(ms)
  BY <1>1
<1>4. PICK n \in Nat : n = Len(t)
  BY LenProperties
<1>5. /\ Len(ms) = n + 1
      /\ \A i \in 1 .. n : t[i] = ms[i + 1]
      /\ ms[1] = Head(ms)
  <2>1. Len(ms) \in Nat
    BY LenProperties
  <2>2. ms[1] = Head(ms)
    OBVIOUS
  <2>3. Len(ms) = n + 1
    BY <1>1, <1>3, <1>4, <2>1
  <2>. QED
    BY <1>2, <1>3, <1>4, <2>2, <2>3
<1>6. PICK h \in Graphs : h = Apply(g, Head(ms))
  BY <1>1, ApplyIsAGraph
<1>7. PICK m \in Seq(Messages) : m = On(g, ms, items)
  BY OnIs
<1>8. PICK m2 \in Seq(Messages) : m2 = On(h, t, items)
  BY OnIs
<1>9. /\ Len(m) = Len(ms) + 2 /\ m[1] = GraphUpdate(g)
      /\ \A i \in 1 .. Len(ms) : m[i + 1] = ms[i]
      /\ m[Len(ms) + 2] = TelemetryUpdate(items)
  BY <1>7, OnIs
<1>10. /\ Len(m) = n + 1 + 2
       /\ \A i \in 1 .. n + 1 : m[i + 1] = ms[i]
       /\ m[n + 1 + 2] = TelemetryUpdate(items)
  BY <1>5, <1>9
<1>11. /\ Len(On(h, t, items)) = Len(t) + 2 /\ On(h, t, items)[1] = GraphUpdate(h)
       /\ \A i \in 1 .. Len(t) : On(h, t, items)[i + 1] = t[i]
       /\ On(h, t, items)[Len(t) + 2] = TelemetryUpdate(items)
  BY OnIs
<1>12. /\ Len(m2) = n + 2 /\ m2[1] = GraphUpdate(h)
       /\ \A i \in 1 .. n : m2[i + 1] = t[i]
       /\ m2[n + 2] = TelemetryUpdate(items)
  BY <1>4, <1>8, <1>11
<1>13. PICK l \in Nat \ {0} : l = n + 2 /\ l + 1 = n + 1 + 2
  OBVIOUS
<1>14. ASSUME NEW i \in 2 .. l PROVE m2[i] = m[i + 1]
  <2>1. CASE i = l
    BY <1>10, <1>12, <1>13, <2>1
  <2>2. CASE i # l
    <3>1. PICK k \in 1 .. n : i = k + 1
      <4>1. i - 1 \in 1 .. n /\ i = (i - 1) + 1
        BY <1>13, <2>2
      <4>. QED
        BY <4>1
    <3>2. m2[i] = ms[k + 1] /\ k + 1 \in 1 .. n + 1
      <4>1. m2[k + 1] = t[k] /\ t[k] = ms[k + 1]
        BY <1>5, <1>12
      <4>. QED
        BY <1>4, <3>1, <4>1
    <3>. QED
      BY <1>10, <3>1, <3>2
  <2>. QED
    BY <2>1, <2>2
<1>15. m[2] = Head(ms)
  <2>1. 1 \in 1 .. n + 1 /\ 1 + 1 = 2
    OBVIOUS
  <2>. QED
    BY <1>5, <1>10, <2>1
<1>16. /\ Len(m2) = l /\ Len(m) = l + 1 /\ Told(m, es)
       /\ m[1] = GraphUpdate(g) /\ m2[1] = GraphUpdate(Apply(g, m[2]))
  BY <1>6, <1>7, <1>9, <1>10, <1>12, <1>13, <1>15
<1>17. Told(m2, es)
  BY <1>14, <1>16, MergingTells
<1>. QED
  BY <1>3, <1>6, <1>8, <1>17

(* The edges after a report: receiveTelemetry. *)
Recorded(es, r) ==
  [x \in DOMAIN es \cup r.links \cup {r.edge} |->
     IF x = r.edge THEN r ELSE IF x \in DOMAIN es THEN es[x] ELSE NoData]

LEMMA RecordedEdges ==
  ASSUME NEW es \in EdgeSets, NEW r \in Reports,
         Endpoints(r.links) \subseteq Endpoints(DOMAIN es \cup {r.edge})
  PROVE  /\ Recorded(es, r) \in EdgeSets
         /\ r.edge \in DOMAIN Recorded(es, r) /\ Recorded(es, r)[r.edge] = r
         /\ \A e \in DOMAIN es : e \in DOMAIN Recorded(es, r)
         /\ \A e \in EdgeIds : e.kind = "t" /\ e # r.edge =>
              /\ e \in DOMAIN Recorded(es, r) <=> e \in DOMAIN es
              /\ e \in DOMAIN es => Recorded(es, r)[e] = es[e]
         /\ Endpoints(DOMAIN Recorded(es, r))
              \subseteq Endpoints(DOMAIN es) \cup Endpoints({r.edge})
<1>1. /\ r.edge \in EdgeIds /\ r.edge.kind = "t"
      /\ r.links \subseteq EdgeIds /\ \A l \in r.links : l.kind = "trace"
  BY ReportAssumption
<1>2. DOMAIN es \subseteq EdgeIds /\ \A e \in DOMAIN es : es[e] \in Reports \cup {NoData}
  BY EdgeSetsAre
<1>3. PICK D \in SUBSET EdgeIds : D = DOMAIN es \cup r.links \cup {r.edge}
  BY <1>1, <1>2
<1>4. Recorded(es, r) \in [D -> Reports \cup {NoData}]
  BY <1>2, <1>3 DEF Recorded
<1>5. Recorded(es, r) \in EdgeSets
  BY <1>4, EdgeSetIs
<1>6. Endpoints(DOMAIN Recorded(es, r)) \subseteq Endpoints(DOMAIN es) \cup Endpoints({r.edge})
  <2>1. DOMAIN Recorded(es, r) = DOMAIN es \cup r.links \cup {r.edge}
    BY DEF Recorded
  <2>. QED
    BY <2>1 DEF Endpoints
<1>7. \A e \in EdgeIds : e.kind = "t" /\ e # r.edge =>
              /\ e \in DOMAIN Recorded(es, r) <=> e \in DOMAIN es
              /\ e \in DOMAIN es => Recorded(es, r)[e] = es[e]
  BY <1>1 DEF Recorded
<1>8. /\ r.edge \in DOMAIN Recorded(es, r) /\ Recorded(es, r)[r.edge] = r
      /\ \A e \in DOMAIN es : e \in DOMAIN Recorded(es, r)
  BY DEF Recorded
<1>. QED
  BY <1>5, <1>6, <1>7, <1>8

LEMMA ReportedPagesAreTold ==
  ASSUME FeedType, NEW r \in Reports, NEW g \in Graphs, NEW ms \in Seq(Messages),
         Endpoints(r.links) \subseteq Endpoints(DOMAIN activeEdges \cup {r.edge}),
         Told(On(g, ms, telemetryBuffer), activeEdges)
  PROVE  Told(On(g, ms, Append(telemetryBuffer, Delta(r))), Recorded(activeEdges, r))
<1>1. PICK es \in EdgeSets : es = activeEdges
  BY DEF FeedType
<1>2. PICK items \in Seq(Deltas) : items = telemetryBuffer
  BY DEF FeedType
<1>3. PICK d \in Deltas : d = Delta(r)
  BY DeltaIsADelta
<1>4. PICK more \in Seq(Deltas) : more = Append(items, d)
  BY AppendProperties
<1>5. PICK es2 \in EdgeSets : es2 = Recorded(es, r)
  BY <1>1, RecordedEdges
<1>6. PICK m \in Seq(Messages) : m = On(g, ms, items)
  BY OnIs
<1>7. PICK m2 \in Seq(Messages) : m2 = On(g, ms, more)
  BY OnIs
<1>8. PICK n \in Nat : n = Len(ms)
  BY LenProperties
<1>9. /\ DOMAIN m = 1 .. n + 2 /\ m[1] = GraphUpdate(g)
      /\ \A i \in 1 .. n : m[i + 1] = ms[i]
      /\ m[n + 2] = TelemetryUpdate(items)
  <2>1. /\ DOMAIN On(g, ms, items) = 1 .. Len(ms) + 2 /\ On(g, ms, items)[1] = GraphUpdate(g)
        /\ \A i \in 1 .. Len(ms) : On(g, ms, items)[i + 1] = ms[i]
        /\ On(g, ms, items)[Len(ms) + 2] = TelemetryUpdate(items)
    BY OnIs
  <2>. QED
    BY <1>6, <1>8, <2>1
<1>10. /\ DOMAIN m2 = 1 .. n + 2 /\ m2[1] = GraphUpdate(g)
       /\ \A i \in 1 .. n : m2[i + 1] = ms[i]
       /\ m2[n + 2] = TelemetryUpdate(more)
  <2>1. /\ DOMAIN On(g, ms, more) = 1 .. Len(ms) + 2 /\ On(g, ms, more)[1] = GraphUpdate(g)
        /\ \A i \in 1 .. Len(ms) : On(g, ms, more)[i + 1] = ms[i]
        /\ On(g, ms, more)[Len(ms) + 2] = TelemetryUpdate(more)
    BY OnIs
  <2>. QED
    BY <1>7, <1>8, <2>1
<1>11. PICK l \in Nat : l = n + 2
  OBVIOUS
<1>12. ASSUME NEW i \in 1 .. l, i # l PROVE m2[i] = m[i]
  <2>1. CASE i = 1
    BY <1>9, <1>10, <2>1
  <2>2. CASE i # 1
    <3>1. PICK k \in 1 .. n : i = k + 1
      <4>1. i - 1 \in 1 .. n /\ i = (i - 1) + 1
        BY <1>8, <1>11, <1>12, <2>2
      <4>. QED
        BY <4>1
    <3>. QED
      BY <1>9, <1>10, <3>1
  <2>. QED
    BY <2>1, <2>2
<1>13. /\ DOMAIN m = 1 .. l /\ DOMAIN m2 = 1 .. l /\ l \in 1 .. l
       /\ m[l] = TelemetryUpdate(items) /\ m2[l] = TelemetryUpdate(more)
  BY <1>8, <1>9, <1>10, <1>11
<1>14. Told(m, es)
  BY <1>1, <1>2, <1>6
<1>15. d.edge = r.edge /\ d.data = r /\ d.newNodes = NewNodes(r)
  BY <1>3 DEF Delta
<1>16. /\ m2[l].event # "graphUpdate" /\ m[l].event # "graphUpdate"
       /\ \A e : Speaks(m[l], e) <=> Of(items, e) # {}
       /\ \A e : Speaks(m2[l], e) <=> Of(more, e) # {}
  BY <1>13 DEF Speaks, TelemetryUpdate
<1>17. /\ \A e : Of(more, e) = {} <=> (Of(items, e) = {} /\ e # r.edge)
       /\ LastOf(more, r.edge) = r
       /\ \A e : e # r.edge /\ Of(items, e) # {} => LastOf(more, e) = LastOf(items, e)
  <2>1. ASSUME NEW e
        PROVE  /\ Of(more, e) = {} <=> (Of(items, e) = {} /\ e # d.edge)
               /\ d.edge = e => LastOf(more, e) = d.data
               /\ e # d.edge /\ Of(items, e) # {} => LastOf(more, e) = LastOf(items, e)
    <3>1. items \in Seq(Deltas) /\ d \in Deltas
      BY <1>2, <1>3
    <3>. QED
      BY <1>4, <3>1, LastOfLonger
  <2>. QED
    BY <1>15, <2>1
<1>18. /\ r.edge \in DOMAIN es2 /\ es2[r.edge] = r
       /\ \A e \in EdgeIds : e.kind = "t" /\ e # r.edge =>
              /\ e \in DOMAIN es2 <=> e \in DOMAIN es
              /\ e \in DOMAIN es => es2[e] = es[e]
       /\ Endpoints(DOMAIN es2) \subseteq Endpoints(DOMAIN es) \cup Endpoints({r.edge})
  BY <1>1, <1>5, RecordedEdges
<1>19. ASSUME NEW e \in EdgeIds, e.kind = "t", NEW i \in DOMAIN m2, IsLastWord(m2, i, e)
       PROVE  Agrees(m2[i], e, es2)
  <2>1. CASE e = r.edge
    <3>1. i = l
      <4>1. Speaks(m2[l], e) /\ l \in DOMAIN m2
        BY <1>13, <1>16, <1>17, <2>1
      <4>2. ~(l > i)
        BY <1>19, <4>1 DEF IsLastWord
      <4>. QED
        BY <1>13, <4>2
    <3>. QED
      BY <1>13, <1>17, <1>18, <2>1, <3>1 DEF Agrees, TelemetryUpdate
  <2>2. CASE e # r.edge
    <3>1. \A j \in 1 .. l : Speaks(m[j], e) <=> Speaks(m2[j], e)
      BY <1>12, <1>16, <1>17, <2>2
    <3>2. IsLastWord(m, i, e)
      BY <1>13, <1>19, <3>1 DEF IsLastWord
    <3>3. Agrees(m[i], e, es)
      BY <1>13, <1>14, <1>19, <3>2 DEF Told, LastWordsAgree
    <3>4. /\ e \in DOMAIN es2 <=> e \in DOMAIN es
          /\ e \in DOMAIN es => es2[e] = es[e]
      BY <1>18, <1>19, <2>2
    <3>5. CASE i = l
      <4>1. Of(items, e) # {} /\ e \in DOMAIN es /\ LastOf(items, e) = es[e]
        BY <1>13, <1>16, <1>19, <3>2, <3>3, <3>5 DEF IsLastWord, Agrees, TelemetryUpdate
      <4>. QED
        BY <1>13, <1>17, <2>2, <3>4, <3>5, <4>1 DEF Agrees, TelemetryUpdate
    <3>6. CASE i # l
      BY <1>12, <1>13, <3>3, <3>4, <3>6 DEF Agrees
    <3>. QED
      BY <3>5, <3>6
  <2>. QED
    BY <2>1, <2>2
<1>20. PICK k \in Nat : k = Len(items) /\ DOMAIN items = 1 .. k
  BY LenProperties
<1>21. /\ DOMAIN more = 1 .. k + 1 /\ more[k + 1] = d /\ \A i \in 1 .. k : more[i] = items[i]
  BY <1>4, <1>20, AppendProperties, LenProperties
<1>22. ASSUME NEW a \in Endpoints(DOMAIN es2) \cap Outside
       PROVE  \E i \in DOMAIN m2 :
                Names(m2[i], a) /\ \A j \in DOMAIN m2 : j > i => m2[j].event # "graphUpdate"
  <2>1. CASE a \in Endpoints(DOMAIN es)
    <3>1. PICK i \in DOMAIN m :
            Names(m[i], a) /\ \A j \in DOMAIN m : j > i => m[j].event # "graphUpdate"
      BY <1>14, <2>1 DEF Told, AllNamed
    <3>2. Names(m2[i], a)
      <4>1. CASE i # l
        BY <1>12, <1>13, <3>1, <4>1
      <4>2. CASE i = l
        <5>1. PICK j \in 1 .. k : a \in items[j].newNodes
          BY <1>13, <1>20, <3>1, <4>2 DEF Names, TelemetryUpdate
        <5>2. j \in DOMAIN more /\ a \in more[j].newNodes
          BY <1>20, <1>21, <5>1
        <5>. QED
          BY <1>13, <4>2, <5>2 DEF Names, TelemetryUpdate
      <4>. QED
        BY <4>1, <4>2
    <3>3. \A j \in DOMAIN m2 : j > i => m2[j].event # "graphUpdate"
      BY <1>12, <1>13, <1>16, <3>1
    <3>. QED
      BY <1>13, <3>1, <3>2, <3>3
  <2>2. CASE a \notin Endpoints(DOMAIN es)
    <3>1. a \in NewNodes(r)
      BY <1>1, <1>18, <2>2 DEF NewNodes
    <3>2. k + 1 \in DOMAIN more /\ a \in more[k + 1].newNodes
      BY <1>15, <1>20, <1>21, <3>1
    <3>3. Names(m2[l], a)
      BY <1>13, <3>2 DEF Names, TelemetryUpdate
    <3>4. \A j \in DOMAIN m2 : ~(j > l)
      BY <1>13
    <3>. QED
      BY <1>13, <3>3, <3>4
  <2>. QED
    BY <2>1, <2>2
<1>23. LastWordsAgree(m2, es2)
  BY <1>19 DEF LastWordsAgree
<1>24. Told(m2, es2)
  BY <1>22, <1>23 DEF Told, AllNamed
<1>. QED
  BY <1>1, <1>2, <1>3, <1>4, <1>5, <1>7, <1>24

LEMMA ReportedBufferIsRecent ==
  ASSUME FeedType, BufferIsRecent, NEW r \in Reports,
         Endpoints(r.links) \subseteq Endpoints(DOMAIN activeEdges \cup {r.edge}),
         NEW i \in DOMAIN Append(telemetryBuffer, Delta(r)),
         NEW e, e = Append(telemetryBuffer, Delta(r))[i].edge
  PROVE  /\ e \in DOMAIN Recorded(activeEdges, r)
         /\ LastOf(Append(telemetryBuffer, Delta(r)), e) = Recorded(activeEdges, r)[e]
<1>1. PICK items \in Seq(Deltas) : items = telemetryBuffer
  BY DEF FeedType
<1>2. PICK d \in Deltas : d = Delta(r)
  BY DeltaIsADelta
<1>3. d.edge = r.edge /\ d.data = r
  BY <1>2 DEF Delta
<1>4. PICK more \in Seq(Deltas) : more = Append(items, d)
  BY AppendProperties
<1>5. PICK k \in Nat : k = Len(items) /\ DOMAIN items = 1 .. k
  BY LenProperties
<1>6. /\ DOMAIN more = 1 .. k + 1 /\ more[k + 1] = d /\ \A j \in 1 .. k : more[j] = items[j]
  BY <1>4, <1>5, AppendProperties, LenProperties
<1>7. i \in 1 .. k + 1 /\ e = more[i].edge
  BY <1>1, <1>2, <1>4, <1>6
<1>8. activeEdges \in EdgeSets
  BY DEF FeedType
<1>9. CASE e = r.edge
  <2>1. LastOf(more, e) = r
    BY <1>1, <1>2, <1>3, <1>4, <1>9, LastOfLonger
  <2>2. r.edge \in DOMAIN Recorded(activeEdges, r) /\ Recorded(activeEdges, r)[r.edge] = r
    BY DEF Recorded
  <2>. QED
    BY <1>1, <1>2, <1>4, <1>9, <2>1, <2>2
<1>10. CASE e # r.edge
  <2>1. i \in DOMAIN items /\ items[i].edge = e
    BY <1>3, <1>5, <1>6, <1>7, <1>10
  <2>2. e \in DOMAIN activeEdges /\ LastOf(items, e) = activeEdges[e]
    BY <1>1, <2>1 DEF BufferIsRecent
  <2>3. Of(items, e) # {}
    BY <2>1 DEF Of
  <2>4. LastOf(more, e) = LastOf(items, e)
    <3>1. items \in Seq(Deltas) /\ d \in Deltas /\ d.edge # e
      BY <1>1, <1>2, <1>3, <1>10
    <3>. QED
      BY <1>4, <2>3, <3>1, LastOfLonger
  <2>5. Recorded(activeEdges, r)[e] = activeEdges[e]
    BY <1>10, <2>2 DEF Recorded
  <2>6. e \in DOMAIN Recorded(activeEdges, r)
    BY <2>2 DEF Recorded
  <2>. QED
    BY <1>1, <1>2, <1>4, <2>2, <2>4, <2>5, <2>6
<1>. QED
  BY <1>9, <1>10

(* What the messages on their way tell is what the page comes to hold. *)
LEMMA ToldPagesMissNothing ==
  ASSUME NEW c \in Clients, page[c] \in Graphs, channel[c] \in Seq(Messages),
         telemetryBuffer \in Seq(Deltas), activeEdges \in EdgeSets,
         Told(On(page[c], channel[c], telemetryBuffer), activeEdges)
  PROVE  /\ TrafficOf(Eventual(c).edges) = TrafficOf(activeEdges)
         /\ Endpoints(DOMAIN activeEdges) \cap Outside \subseteq Eventual(c).nodes
<1>1. PICK m \in Seq(Messages) : m = On(page[c], channel[c], telemetryBuffer)
  BY OnIs
<1>2. Arriving(c) = m
  BY <1>1 DEF Arriving, On
<1>3. PICK l \in Nat : l = Len(m) /\ DOMAIN m = 1 .. l
  BY LenProperties
<1>4. l = Len(channel[c]) + 2 /\ Len(channel[c]) \in Nat /\ m[1] = GraphUpdate(page[c])
  BY <1>1, <1>3, OnIs, LenProperties
<1>5. 1 \in 1 .. l
  BY <1>4
<1>6. PICK last \in 1 .. l :
        /\ last = Max({i \in DOMAIN m : m[i].event = "graphUpdate"})
        /\ m[last].event = "graphUpdate"
        /\ \A i \in 1 .. l : i > last => m[i].event # "graphUpdate"
  <2>1. PICK T \in SUBSET Nat : T = {i \in DOMAIN m : m[i].event = "graphUpdate"}
    <3>. DEFINE U == {i \in DOMAIN m : m[i].event = "graphUpdate"}
    <3>1. U \subseteq Nat
      BY <1>3
    <3>. HIDE DEF U
    <3>2. \E T \in SUBSET Nat : T = U
      BY <3>1
    <3>. QED
      BY <3>2 DEF U
  <2>2. 1 \in T /\ \A i \in T : i <= l
    BY <1>3, <1>4, <1>5, <2>1 DEF GraphUpdate
  <2>3. Max(T) \in T /\ \A i \in T : i <= Max(T)
    BY <2>1, <2>2, GreatestNumber
  <2>4. PICK last \in 1 .. l : last = Max(T)
    BY <1>3, <2>1, <2>3
  <2>5. \A i \in 1 .. l : i > last => i \notin T
    BY <2>3, <2>4
  <2>. QED
    BY <1>3, <2>1, <2>3, <2>4, <2>5
<1>7. PICK graph \in Graphs : graph = m[last].graph
  <2>1. m[last] \in Messages
    BY <1>3, ElementOfSeq
  <2>. QED
    BY <1>6, <2>1, MessagesAre
<1>8. ASSUME NEW i \in last + 1 .. l
      PROVE  /\ i \in 1 .. l /\ i > last /\ m[i].event = "telemetryUpdate"
             /\ m[i].items \in Seq(Deltas)
  <2>1. i \in 1 .. l /\ i > last
    BY <1>6
  <2>2. m[i] \in Messages
    BY <1>3, <2>1, ElementOfSeq
  <2>. QED
    BY <1>6, <2>1, <2>2, MessagesAre
<1>. DEFINE batches(e) == {i \in last + 1 .. l : Of(m[i].items, e) # {}}
            deltas == UNION {Range(m[i].items) : i \in last + 1 .. l}
<1>9. /\ Eventual(c).nodes = graph.nodes \cup UNION {d.newNodes : d \in deltas}
      /\ Eventual(c).edges = [e \in DOMAIN graph.edges \cup {d.edge : d \in deltas} |->
                   IF batches(e) = {} THEN graph.edges[e]
                   ELSE LastOf(m[Max(batches(e))].items, e)]
  BY <1>2, <1>3, <1>6, <1>7 DEF Eventual
<1>10. ASSUME NEW i \in last + 1 .. l, NEW k \in DOMAIN m[i].items
       PROVE  m[i].items[k] \in deltas
  BY DEF Range
<1>11. ASSUME NEW d \in deltas
       PROVE  d \in Deltas /\ batches(d.edge) # {}
  <2>1. PICK i \in last + 1 .. l : \E k \in DOMAIN m[i].items : d = m[i].items[k]
    BY DEF Range
  <2>2. m[i].items \in Seq(Deltas)
    BY <1>8
  <2>3. PICK k \in DOMAIN m[i].items : d = m[i].items[k]
    BY <2>1
  <2>4. d \in Deltas /\ k \in Of(m[i].items, d.edge)
    BY <2>2, <2>3, ElementOfSeq, LenProperties DEF Of
  <2>. QED
    BY <2>4
<1>12. PICK es \in EdgeSets : es = activeEdges /\ Told(m, es)
  BY <1>1
<1>13. ASSUME NEW e \in EdgeIds, e.kind = "t"
       PROVE  /\ e \in DOMAIN Eventual(c).edges <=> e \in DOMAIN es
              /\ e \in DOMAIN es => Eventual(c).edges[e] = es[e]
  <2>1. ASSUME NEW i \in 1 .. l, IsLastWord(m, i, e) PROVE Agrees(m[i], e, es)
    BY <1>3, <1>12, <1>13, <2>1 DEF Told, LastWordsAgree
  <2>2. CASE batches(e) = {}
    <3>1. ASSUME NEW j \in DOMAIN m, j > last PROVE ~Speaks(m[j], e)
      <4>1. j \in last + 1 .. l
        BY <1>3, <3>1
      <4>2. Of(m[j].items, e) = {}
        BY <2>2, <4>1
      <4>. QED
        BY <1>8, <4>1, <4>2 DEF Speaks
    <3>2. Agrees(m[last], e, es)
      BY <1>6, <2>1, <3>1 DEF IsLastWord, Speaks
    <3>3. e \notin {d.edge : d \in deltas}
      BY <1>11, <2>2
    <3>. QED
      BY <1>6, <1>7, <1>9, <2>2, <3>2, <3>3 DEF Agrees
  <2>3. CASE batches(e) # {}
    <3>1. PICK T \in SUBSET Nat : T = batches(e)
      <4>1. batches(e) \subseteq Nat
        BY <1>8
      <4>. HIDE DEF batches
      <4>. QED
        BY <4>1
    <3>2. \A i \in T : i <= l
      BY <1>8, <3>1
    <3>3. Max(T) \in T /\ \A i \in T : i <= Max(T)
      BY <1>3, <2>3, <3>1, <3>2, GreatestNumber
    <3>4. PICK i \in last + 1 .. l : i = Max(T) /\ Of(m[i].items, e) # {}
      BY <3>1, <3>3
    <3>5. m[i].event = "telemetryUpdate" /\ i \in 1 .. l
      BY <1>8
    <3>6. ASSUME NEW j \in DOMAIN m, j > i PROVE ~Speaks(m[j], e)
      <4>1. j \in last + 1 .. l
        BY <1>3, <3>4, <3>6
      <4>2. j \notin T
        BY <3>3, <3>4, <3>6, <4>1
      <4>3. Of(m[j].items, e) = {}
        BY <3>1, <4>1, <4>2
      <4>. QED
        BY <1>8, <4>1, <4>3 DEF Speaks
    <3>7. Agrees(m[i], e, es)
      BY <2>1, <3>4, <3>5, <3>6 DEF IsLastWord, Speaks
    <3>8. e \in DOMAIN es /\ LastOf(m[i].items, e) = es[e]
      BY <3>5, <3>7 DEF Agrees
    <3>9. e \in {d.edge : d \in deltas}
      <4>1. PICK k \in DOMAIN m[i].items : m[i].items[k].edge = e
        BY <3>4 DEF Of
      <4>. QED
        BY <1>10, <4>1
    <3>10. Eventual(c).edges[e] = LastOf(m[Max(batches(e))].items, e)
      BY <1>9, <2>3, <3>9
    <3>. QED
      BY <1>9, <3>1, <3>4, <3>8, <3>9, <3>10
  <2>. QED
    BY <2>2, <2>3
<1>14. DOMAIN Eventual(c).edges \subseteq EdgeIds
  <2>1. DOMAIN graph.edges \subseteq EdgeIds
    BY <1>7, EdgeSetsAre DEF Graphs
  <2>2. \A d \in deltas : d.edge \in EdgeIds
    BY <1>11 DEF Deltas
  <2>. QED
    BY <1>9, <2>1, <2>2
<1>15. DOMAIN es \subseteq EdgeIds
  BY EdgeSetsAre
<1>16. TrafficOf(Eventual(c).edges) = TrafficOf(es)
  <2>1. {x \in DOMAIN Eventual(c).edges : x.kind = "t"} = {x \in DOMAIN es : x.kind = "t"}
    BY <1>13, <1>14, <1>15
  <2>2. \A e \in {x \in DOMAIN es : x.kind = "t"} : Eventual(c).edges[e] = es[e]
    BY <1>13, <1>15
  <2>. QED
    BY <2>1, <2>2 DEF TrafficOf
<1>17. ASSUME NEW a \in Endpoints(DOMAIN es) \cap Outside
       PROVE  a \in Eventual(c).nodes
  <2>1. PICK i \in 1 .. l :
          Names(m[i], a) /\ \A j \in 1 .. l : j > i => m[j].event # "graphUpdate"
    BY <1>3, <1>12 DEF Told, AllNamed
  <2>2. ~(last > i)
    BY <1>6, <2>1
  <2>3. CASE i = last
    BY <1>6, <1>7, <1>9, <2>1, <2>3 DEF Names
  <2>4. CASE i # last
    <3>1. i \in last + 1 .. l
      BY <2>2, <2>4
    <3>2. PICK k \in DOMAIN m[i].items : a \in m[i].items[k].newNodes
      BY <1>8, <2>1, <3>1 DEF Names
    <3>3. m[i].items[k] \in deltas
      BY <1>10, <3>1, <3>2
    <3>. QED
      BY <1>9, <3>2, <3>3
  <2>. QED
    BY <2>3, <2>4
<1>. QED
  BY <1>12, <1>16, <1>17

-----------------------------------------------------------------------------
(* Lists of clients without repetition *)

LEMMA SuffixKeepsInjective ==
  ASSUME NEW S, NEW s \in Seq(S), IsInjective(s), NEW a \in 1 .. Len(s)
  PROVE  SubSeq(s, a, Len(s)) \in Seq(S) /\ IsInjective(SubSeq(s, a, Len(s)))
<1>1. PICK n \in Nat : n = Len(s) /\ DOMAIN s = 1 .. n
  BY LenProperties
<1>2. PICK k \in 0 .. n : a = 1 + k
  <2>1. a - 1 \in 0 .. n /\ a = 1 + (a - 1)
    BY <1>1
  <2>. QED
    BY <2>1
<1>3. PICK t \in Seq(S) : t = SubSeq(s, a, Len(s))
  BY <1>1, <1>2, Suffix
<1>4. Len(t) = n - k /\ \A i \in 1 .. n - k : t[i] = s[k + i]
  BY <1>1, <1>2, <1>3, Suffix
<1>5. ASSUME NEW i \in DOMAIN t, NEW j \in DOMAIN t, t[i] = t[j] PROVE i = j
  <2>1. i \in 1 .. n - k /\ j \in 1 .. n - k
    BY <1>4, LenProperties
  <2>2. k + i \in 1 .. n /\ k + j \in 1 .. n
    BY <1>1, <1>2, <2>1
  <2>3. s[k + i] = s[k + j]
    BY <1>4, <1>5, <2>1
  <2>4. k + i = k + j
    BY <1>1, <2>2, <2>3 DEF IsInjective
  <2>. QED
    BY <1>2, <2>1, <2>4
<1>. QED
  BY <1>3, <1>5 DEF IsInjective

LEMMA RemoveFirstDrops ==
  ASSUME NEW S, NEW s \in Seq(S), IsInjective(s), NEW c
  PROVE  /\ RemoveFirst(s, c) \in Seq(S) /\ IsInjective(RemoveFirst(s, c))
         /\ \A i \in DOMAIN RemoveFirst(s, c) :
              RemoveFirst(s, c)[i] # c /\ RemoveFirst(s, c)[i] \in Range(s)
<1>1. PICK n \in Nat : n = Len(s) /\ DOMAIN s = 1 .. n
  BY LenProperties
<1>2. CASE ~ \E i \in 1 .. n : s[i] = c
  <2>1. RemoveFirst(s, c) = s
    BY <1>1, <1>2 DEF RemoveFirst
  <2>. QED
    BY <1>1, <1>2, <2>1 DEF Range
<1>3. CASE \E i \in 1 .. n : s[i] = c
  <2>. DEFINE I == {i \in 1 .. n : s[i] = c}
  <2>1. PICK k \in I : \A i \in I : k <= i
    <3>1. I \subseteq Nat /\ I # {}
      BY <1>3
    <3>. HIDE DEF I
    <3>. QED
      BY <3>1, LeastNumber
  <2>2. k \in 1 .. n /\ s[k] = c
    BY <2>1
  <2>3. Min(I) = k
    <3>1. I = {k}
      <4>1. \A i \in I : i \in DOMAIN s /\ s[i] = s[k]
        BY <1>1, <2>2
      <4>2. \A i \in I : i = k
        BY <1>1, <2>2, <4>1 DEF IsInjective
      <4>. QED
        BY <2>1, <4>2
    <3>. HIDE DEF I
    <3>. QED
      BY <2>2, <3>1 DEF Min
  <2>4. RemoveFirst(s, c) = SubSeq(s, 1, k - 1) \o SubSeq(s, k + 1, n)
    BY <1>1, <1>3, <2>1, <2>3 DEF RemoveFirst, RemoveAt, SelectInSeq
  <2>5. PICK l \in 0 .. n : l = k - 1 /\ k = l + 1 /\ k + 1 = 1 + k /\ k \in 0 .. n
    BY <2>2
  <2>6. PICK a \in Seq(S) : /\ a = SubSeq(s, 1, k - 1) /\ Len(a) = l
                            /\ \A i \in 1 .. l : a[i] = s[i]
    <3>1. l \in 0 .. Len(s)
      BY <1>1, <2>5
    <3>2. /\ SubSeq(s, 1, l) \in Seq(S) /\ Len(SubSeq(s, 1, l)) = l
          /\ \A i \in 1 .. l : SubSeq(s, 1, l)[i] = s[i]
      BY <3>1, Prefix
    <3>3. k - 1 = l
      BY <2>5
    <3>. QED
      BY <3>2, <3>3
  <2>7. PICK b \in Seq(S) : /\ b = SubSeq(s, k + 1, n) /\ Len(b) = n - k
                            /\ \A i \in 1 .. n - k : b[i] = s[k + i]
    <3>1. k \in 0 .. Len(s)
      BY <1>1, <2>5
    <3>2. /\ SubSeq(s, 1 + k, Len(s)) \in Seq(S)
          /\ Len(SubSeq(s, 1 + k, Len(s))) = Len(s) - k
          /\ \A i \in 1 .. Len(s) - k : SubSeq(s, 1 + k, Len(s))[i] = s[k + i]
      BY <3>1, Suffix
    <3>3. k + 1 = 1 + k
      BY <2>5
    <3>. QED
      BY <1>1, <3>2, <3>3
  <2>8. PICK t \in Seq(S) : t = a \o b
    BY <2>6, <2>7, ConcatProperties
  <2>9. /\ Len(t) = l + (n - k)
        /\ \A i \in 1 .. l + (n - k) : t[i] = IF i <= l THEN a[i] ELSE b[i - l]
    <3>1. a \in Seq(S) /\ b \in Seq(S)
      BY <2>6, <2>7
    <3>2. /\ Len(a \o b) = Len(a) + Len(b)
          /\ \A i \in 1 .. Len(a) + Len(b) :
               (a \o b)[i] = IF i <= Len(a) THEN a[i] ELSE b[i - Len(a)]
      BY <3>1, ConcatProperties
    <3>. QED
      BY <2>6, <2>7, <2>8, <3>2
  <2>10. DOMAIN t = 1 .. n - 1
    <3>1. l + (n - k) = n - 1
      BY <2>5
    <3>. QED
      BY <2>9, <3>1, LenProperties
  <2>11. ASSUME NEW i \in 1 .. n - 1
         PROVE  t[i] = s[IF i < k THEN i ELSE i + 1]
    <3>1. i \in 1 .. l + (n - k) /\ (i <= l <=> i < k)
      BY <2>5
    <3>2. CASE i < k
      BY <2>5, <2>6, <2>9, <3>1, <3>2
    <3>3. CASE ~(i < k)
      <4>1. i - l \in 1 .. n - k /\ k + (i - l) = i + 1
        BY <2>5, <3>3
      <4>2. t[i] = b[i - l]
        BY <2>9, <3>1, <3>3
      <4>3. b[i - l] = s[k + (i - l)]
        BY <2>7, <4>1
      <4>. QED
        BY <3>3, <4>1, <4>2, <4>3
    <3>. QED
      BY <3>2, <3>3
  <2>12. ASSUME NEW i \in 1 .. n - 1
         PROVE  \E j \in 1 .. n : j = (IF i < k THEN i ELSE i + 1) /\ j # k /\ t[i] = s[j]
    <3>1. (IF i < k THEN i ELSE i + 1) \in 1 .. n /\ (IF i < k THEN i ELSE i + 1) # k
      BY <2>2
    <3>. QED
      BY <2>11, <3>1
  <2>13. ASSUME NEW i \in 1 .. n - 1, NEW j \in 1 .. n - 1, t[i] = t[j] PROVE i = j
    <3>1. PICK p \in 1 .. n : p = (IF i < k THEN i ELSE i + 1) /\ t[i] = s[p]
      BY <2>12
    <3>2. PICK q \in 1 .. n : q = (IF j < k THEN j ELSE j + 1) /\ t[j] = s[q]
      BY <2>12
    <3>3. p = q
      BY <1>1, <2>13, <3>1, <3>2 DEF IsInjective
    <3>. QED
      BY <2>2, <3>1, <3>2, <3>3
  <2>14. ASSUME NEW i \in 1 .. n - 1 PROVE t[i] # c /\ t[i] \in Range(s)
    <3>1. PICK j \in 1 .. n : j # k /\ t[i] = s[j]
      BY <2>12
    <3>2. s[j] # c
      BY <1>1, <2>2, <3>1 DEF IsInjective
    <3>. QED
      BY <1>1, <3>1, <3>2 DEF Range
  <2>15. RemoveFirst(s, c) = t
    BY <2>4, <2>6, <2>7, <2>8
  <2>. QED
    BY <2>10, <2>13, <2>14, <2>15 DEF IsInjective
<1>. QED
  BY <1>2, <1>3

LEMMA FromFirstOpenKeeps ==
  ASSUME NEW s \in Seq(Clients), IsInjective(s)
  PROVE  FromFirstOpen(s) \in Seq(Clients) /\ IsInjective(FromFirstOpen(s))
<1>. DEFINE turns == {i \in DOMAIN s : sockets[s[i]] = "open"}
<1>1. CASE turns = {}
  <2>1. FromFirstOpen(s) = <<>>
    BY <1>1 DEF FromFirstOpen
  <2>2. <<>> \in Seq(Clients) /\ DOMAIN <<>> = {}
    OBVIOUS
  <2>. QED
    BY <2>1, <2>2 DEF IsInjective
<1>2. CASE turns # {}
  <2>1. FromFirstOpen(s) = SubSeq(s, Min(turns), Len(s))
    BY <1>2 DEF FromFirstOpen
  <2>2. turns \subseteq 1 .. Len(s) /\ turns \subseteq Nat
    BY LenProperties
  <2>. HIDE DEF turns
  <2>3. PICK k \in turns : \A i \in turns : k <= i
    BY <1>2, <2>2, LeastNumber
  <2>4. Min(turns) \in turns
    BY <2>3 DEF Min
  <2>. QED
    BY <2>1, <2>2, <2>4, SuffixKeepsInjective
<1>. QED
  BY <1>1, <1>2

-----------------------------------------------------------------------------
(* Every step keeps the invariant *)

LEMMA FeedInvStarts == Init => FeedInv
<1>. SUFFICES ASSUME Init PROVE FeedInv
  OBVIOUS
<1>1. activeEdges \in EdgeSets
  BY NoEdges DEF Init
<1>2. EmptyGraph \in Graphs
  BY NoEdges DEF EmptyGraph, Graphs
<1>3. page \in [Clients -> Graphs]
  BY <1>2 DEF Init
<1>4. <<>> \in Seq(Clients) /\ <<>> \in Seq(Messages) /\ <<>> \in Seq(Deltas) /\ DOMAIN <<>> = {}
  OBVIOUS
<1>5. /\ clientSelections = <<>> /\ telemetryBuffer = <<>> /\ informed = {}
      /\ flushTimer = (telemetryBuffer # <<>>)
      /\ \A b \in Broadcasts : broadcasts[b] = <<>>
  BY DEF Init
<1>6. IsInjective(<<>>)
  BY <1>4 DEF IsInjective
<1>7. /\ broadcasts \in [Broadcasts -> Seq(Clients)]
      /\ channel \in [Clients -> Seq(Messages)]
  BY <1>4 DEF Init
<1>8. /\ serviceCallGraph \subseteq Services \X Services
      /\ pending \subseteq Reports
      /\ broadcastTimer \in BOOLEAN
      /\ requests \in [Requests -> Clients \cup {"new", "done"}]
      /\ sockets \in [Clients -> {"new", "open", "closed"}]
  BY DEF Init
<1>9. FeedType
  BY <1>1, <1>3, <1>4, <1>5, <1>6, <1>7, <1>8 DEF FeedType
<1>10. BufferIsRecent
  BY <1>4, <1>5 DEF BufferIsRecent
<1>11. InformedPagesAreTold
  BY <1>5 DEF InformedPagesAreTold
<1>. QED
  BY <1>9, <1>10, <1>11 DEF FeedInv

LEMMA Emitted ==
  ASSUME channel \in [Clients -> Seq(Messages)], NEW c \in Clients, NEW x \in Messages,
         Emit(c, x)
  PROVE  /\ channel' \in [Clients -> Seq(Messages)]
         /\ \A d \in Clients : d # c => channel'[d] = channel[d]
         /\ sockets[c] = "open" => channel'[c] = Append(channel[c], x)
<1>1. channel[c] \in Seq(Messages)
  OBVIOUS
<1>2. Append(channel[c], x) \in Seq(Messages)
  BY <1>1, AppendProperties
<1>. QED
  BY <1>2 DEF Emit

LEMMA EmittedToAll ==
  ASSUME channel \in [Clients -> Seq(Messages)], NEW x \in Messages, EmitToAll(x)
  PROVE  /\ channel' \in [Clients -> Seq(Messages)]
         /\ \A c \in Clients : sockets[c] = "open" => channel'[c] = Append(channel[c], x)
<1>1. ASSUME NEW c \in Clients
      PROVE  channel[c] \in Seq(Messages) /\ Append(channel[c], x) \in Seq(Messages)
  <2>1. channel[c] \in Seq(Messages)
    OBVIOUS
  <2>. QED
    BY <2>1, AppendProperties
<1>. QED
  BY <1>1 DEF EmitToAll

LEMMA ReceivingTelemetry ==
  ASSUME FeedInv, NEW r \in Reports, receiveTelemetry(r)
  PROVE  FeedInv'
<1>. USE DEF FeedInv
<1>1. /\ activeEdges' = Recorded(activeEdges, r)
      /\ telemetryBuffer' = Append(telemetryBuffer, Delta(r))
      /\ Endpoints(r.links) \subseteq Endpoints(DOMAIN activeEdges \cup {r.edge})
      /\ UNCHANGED <<clientSelections, requests, broadcasts, sockets, channel, page, informed>>
  BY DEF receiveTelemetry, Recorded
<1>2. activeEdges' \in EdgeSets
  BY <1>1, RecordedEdges DEF FeedType
<1>3. telemetryBuffer' \in Seq(Deltas) /\ telemetryBuffer' # <<>>
  BY <1>1, DeltaIsADelta, AppendProperties DEF FeedType
<1>4. serviceCallGraph' \subseteq Services \X Services /\ broadcastTimer' \in BOOLEAN
  <2>1. \/ serviceCallGraph' = serviceCallGraph /\ broadcastTimer' = broadcastTimer
        \/ /\ r.edge.source \in Services /\ r.edge.target \in Services
           /\ serviceCallGraph' = serviceCallGraph \cup {<<r.edge.source, r.edge.target>>}
           /\ broadcastTimer' = TRUE
    BY DEF receiveTelemetry
  <2>2. serviceCallGraph \subseteq Services \X Services /\ broadcastTimer \in BOOLEAN
    BY DEF FeedType
  <2>3. broadcastTimer' \in BOOLEAN
    BY <2>1, <2>2
  <2>4. \/ serviceCallGraph' = serviceCallGraph
        \/ \E call \in Services \X Services : serviceCallGraph' = serviceCallGraph \cup {call}
    BY <2>1
  <2>. QED
    BY <2>2, <2>3, <2>4
<1>5. pending' \subseteq Reports /\ flushTimer' = TRUE
  BY DEF receiveTelemetry, FeedType
<1>6. FeedType'
  BY <1>1, <1>2, <1>3, <1>4, <1>5 DEF FeedType
<1>7. BufferIsRecent'
  <2>1. ASSUME NEW i \in DOMAIN telemetryBuffer'
        PROVE  /\ telemetryBuffer'[i].edge \in DOMAIN activeEdges'
               /\ LastOf(telemetryBuffer', telemetryBuffer'[i].edge)
                    = activeEdges'[telemetryBuffer'[i].edge]
    BY <1>1, ReportedBufferIsRecent
  <2>. QED
    BY <2>1 DEF BufferIsRecent
<1>8. InformedPagesAreTold'
  <2>1. ASSUME NEW c \in informed
        PROVE  Told(On(page[c], channel[c], telemetryBuffer'), activeEdges')
    <3>1. page[c] \in Graphs /\ channel[c] \in Seq(Messages)
      BY DEF FeedType
    <3>2. Told(On(page[c], channel[c], telemetryBuffer), activeEdges)
      BY DEF InformedPagesAreTold
    <3>. QED
      BY <1>1, <3>1, <3>2, ReportedPagesAreTold
  <2>. QED
    BY <1>1, <2>1 DEF InformedPagesAreTold
<1>. QED
  BY <1>6, <1>7, <1>8

LEMMA Flushing ==
  ASSUME FeedInv, flushTelemetry
  PROVE  FeedInv'
<1>. USE DEF FeedInv
<1>1. /\ EmitToAll(TelemetryUpdate(telemetryBuffer))
      /\ telemetryBuffer' = <<>> /\ flushTimer' = FALSE
      /\ UNCHANGED <<activeEdges, serviceCallGraph, pending, broadcastTimer, clientSelections,
                     requests, broadcasts, sockets, page, informed>>
  BY DEF flushTelemetry, service
<1>2. TelemetryUpdate(telemetryBuffer) \in Messages
  BY MessagesAre DEF FeedType
<1>3. /\ channel' \in [Clients -> Seq(Messages)]
      /\ \A c \in Clients : sockets[c] = "open" =>
           channel'[c] = Append(channel[c], TelemetryUpdate(telemetryBuffer))
  BY <1>1, <1>2, EmittedToAll DEF FeedType
<1>4. <<>> \in Seq(Deltas) /\ DOMAIN <<>> = {}
  OBVIOUS
<1>5. FeedType'
  BY <1>1, <1>3, <1>4 DEF FeedType
<1>6. BufferIsRecent'
  BY <1>1, <1>4 DEF BufferIsRecent
<1>7. ASSUME NEW c \in informed
      PROVE  Told(On(page[c], channel'[c], <<>>), activeEdges)
  <2>1. /\ page[c] \in Graphs /\ channel[c] \in Seq(Messages) /\ telemetryBuffer \in Seq(Deltas)
        /\ channel'[c] = Append(channel[c], TelemetryUpdate(telemetryBuffer))
    BY <1>3 DEF FeedType
  <2>2. Told(On(page[c], channel[c], telemetryBuffer), activeEdges)
    BY DEF InformedPagesAreTold
  <2>. QED
    BY <2>1, <2>2, FlushedPagesAreTold
<1>8. InformedPagesAreTold'
  BY <1>1, <1>7 DEF InformedPagesAreTold
<1>. QED
  BY <1>5, <1>6, <1>8

(* Connections and requests change nothing of what the pages are told. *)
LEMMA Untold ==
  ASSUME BufferIsRecent, InformedPagesAreTold,
         UNCHANGED <<activeEdges, telemetryBuffer, page>>, informed' \subseteq informed,
         \A c \in informed' : channel'[c] = channel[c]
  PROVE  BufferIsRecent' /\ InformedPagesAreTold'
<1>1. BufferIsRecent'
  BY DEF BufferIsRecent
<1>2. ASSUME NEW c \in informed'
      PROVE  Told(On(page[c], channel'[c], telemetryBuffer), activeEdges)
  BY DEF InformedPagesAreTold
<1>3. InformedPagesAreTold'
  BY <1>2 DEF InformedPagesAreTold
<1>. QED
  BY <1>1, <1>3

LEMMA Connecting ==
  ASSUME FeedInv, NEW c \in Clients, handleConnection(c)
  PROVE  FeedInv'
<1>. USE DEF FeedInv
<1>1. /\ sockets[c] = "new" /\ sockets' = [sockets EXCEPT ![c] = "open"]
      /\ UNCHANGED <<activeEdges, serviceCallGraph, pending, broadcastTimer, telemetryBuffer,
                     flushTimer, clientSelections, requests, broadcasts, channel, page, informed>>
  BY DEF handleConnection, service, buffering
<1>2. /\ sockets' \in [Clients -> {"new", "open", "closed"}]
      /\ \A d \in Clients : sockets[d] = "open" => sockets'[d] = "open"
  BY <1>1 DEF FeedType
<1>3. /\ \A i \in DOMAIN clientSelections : sockets'[clientSelections[i]] = "open"
      /\ informed \subseteq {d \in Clients : sockets'[d] = "open"}
  <2>1. \A i \in DOMAIN clientSelections : clientSelections[i] \in Clients
    BY ElementOfSeq, LenProperties DEF FeedType
  <2>. QED
    BY <1>2, <2>1 DEF FeedType
<1>4. FeedType'
  BY <1>1, <1>2, <1>3 DEF FeedType
<1>. QED
  BY <1>1, <1>4, Untold

LEMMA Disconnecting ==
  ASSUME FeedInv, NEW c \in Clients, handleDisconnect(c)
  PROVE  FeedInv'
<1>. USE DEF FeedInv
<1>1. /\ sockets' = [sockets EXCEPT ![c] = "closed"]
      /\ channel' = [channel EXCEPT ![c] = <<>>]
      /\ informed' = informed \ {c}
      /\ clientSelections' = RemoveFirst(clientSelections, c)
      /\ UNCHANGED <<activeEdges, serviceCallGraph, pending, broadcastTimer, telemetryBuffer,
                     flushTimer, requests, broadcasts, page>>
  BY DEF handleDisconnect, Closed, service, buffering
<1>2. /\ sockets' \in [Clients -> {"new", "open", "closed"}]
      /\ \A d \in Clients : d # c => sockets'[d] = sockets[d]
  BY <1>1 DEF FeedType
<1>3. /\ channel' \in [Clients -> Seq(Messages)]
      /\ \A d \in Clients : d # c => channel'[d] = channel[d]
  <2>1. <<>> \in Seq(Messages)
    OBVIOUS
  <2>. QED
    BY <1>1, <2>1 DEF FeedType
<1>4. /\ clientSelections' \in Seq(Clients) /\ IsInjective(clientSelections')
      /\ \A i \in DOMAIN clientSelections' :
           clientSelections'[i] # c /\ clientSelections'[i] \in Range(clientSelections)
  BY <1>1, RemoveFirstDrops DEF FeedType
<1>5. \A d \in Range(clientSelections) : d \in Clients /\ sockets[d] = "open"
  BY ElementOfSeq, LenProperties DEF FeedType, Range
<1>6. \A i \in DOMAIN clientSelections' : sockets'[clientSelections'[i]] = "open"
  BY <1>2, <1>4, <1>5
<1>7. informed' \subseteq {d \in Clients : sockets'[d] = "open"}
  BY <1>1, <1>2 DEF FeedType
<1>8. IsInjective(clientSelections)'
  BY <1>4 DEF IsInjective
<1>9. FeedType'
  BY <1>1, <1>2, <1>3, <1>4, <1>6, <1>7, <1>8 DEF FeedType
<1>10. informed' \subseteq informed /\ \A d \in informed' : channel'[d] = channel[d]
  BY <1>1, <1>3, <1>7
<1>. QED
  BY <1>1, <1>9, <1>10, Untold

LEMMA Requesting ==
  ASSUME FeedInv, NEW c \in Clients, NEW q \in Requests, handleRequestUpdate(c, q)
  PROVE  FeedInv'
<1>. USE DEF FeedInv
<1>1. /\ sockets[c] = "open"
      /\ requests' = [requests EXCEPT ![q] = c]
      /\ clientSelections' = IF c \in Range(clientSelections) THEN clientSelections
                             ELSE Append(clientSelections, c)
      /\ UNCHANGED <<activeEdges, serviceCallGraph, pending, broadcastTimer, telemetryBuffer,
                     flushTimer, broadcasts, sockets, channel, page, informed>>
  BY DEF handleRequestUpdate, service, buffering
<1>2. requests' \in [Requests -> Clients \cup {"new", "done"}]
  BY <1>1 DEF FeedType
<1>3. \A d \in Range(clientSelections) : sockets[d] = "open"
  BY DEF FeedType, Range
<1>4. /\ clientSelections' \in Seq(Clients) /\ IsInjective(clientSelections')
      /\ \A i \in DOMAIN clientSelections' : sockets[clientSelections'[i]] = "open"
  <2>1. CASE c \in Range(clientSelections)
    BY <1>1, <2>1 DEF FeedType
  <2>2. CASE c \notin Range(clientSelections)
    <3>1. clientSelections' = Append(clientSelections, c)
      BY <1>1, <2>2
    <3>2. /\ Append(clientSelections, c) \in Seq(Clients)
          /\ IsInjective(Append(clientSelections, c))
          /\ Range(Append(clientSelections, c)) = Range(clientSelections) \cup {c}
      BY <2>2, AppendedToList DEF FeedType
    <3>3. \A i \in DOMAIN Append(clientSelections, c) :
            Append(clientSelections, c)[i] \in Range(clientSelections) \cup {c}
      BY <3>2 DEF Range
    <3>. QED
      BY <1>1, <1>3, <3>1, <3>2, <3>3
  <2>. QED
    BY <2>1, <2>2
<1>5. IsInjective(clientSelections)'
  BY <1>4 DEF IsInjective
<1>6. FeedType'
  BY <1>1, <1>2, <1>4, <1>5 DEF FeedType
<1>. QED
  BY <1>1, <1>6, Untold

LEMMA SendingGraphs ==
  ASSUME FeedInv, NEW c \in Clients, NEW good \in BOOLEAN, SendGraph(c, good),
         UNCHANGED <<activeEdges, telemetryBuffer, page, sockets>>
  PROVE  /\ channel' \in [Clients -> Seq(Messages)]
         /\ informed' \subseteq {d \in Clients : sockets[d] = "open"}
         /\ BufferIsRecent' /\ InformedPagesAreTold'
<1>. USE DEF FeedInv
<1>1. PICK x \in Messages : x = GraphUpdate(IF good THEN WholeGraph ELSE EmptyGraph)
  BY WholeGraphIsAGraph, MessagesAre DEF FeedType
<1>2. /\ channel' \in [Clients -> Seq(Messages)]
      /\ \A d \in Clients : d # c => channel'[d] = channel[d]
      /\ sockets[c] = "open" => channel'[c] = Append(channel[c], x)
  BY <1>1, Emitted DEF FeedType, SendGraph
<1>3. informed' = IF good /\ sockets[c] = "open" THEN informed \cup {c} ELSE informed \ {c}
  BY DEF SendGraph
<1>4. informed' \subseteq {d \in Clients : sockets[d] = "open"}
  BY <1>3 DEF FeedType
<1>5. BufferIsRecent'
  BY DEF BufferIsRecent
<1>6. ASSUME NEW d \in informed'
      PROVE  Told(On(page[d], channel'[d], telemetryBuffer), activeEdges)
  <2>1. d \in Clients /\ sockets[d] = "open"
    BY <1>4
  <2>2. CASE d = c
    <3>1. good /\ x = GraphUpdate(WholeGraph)
      BY <1>1, <1>3, <2>2
    <3>2. page[c] \in Graphs /\ channel[c] \in Seq(Messages)
      BY DEF FeedType
    <3>. QED
      BY <1>2, <2>1, <2>2, <3>1, <3>2, AnsweredPagesAreTold
  <2>3. CASE d # c
    BY <1>2, <1>3, <2>1, <2>3 DEF InformedPagesAreTold
  <2>. QED
    BY <2>2, <2>3
<1>7. InformedPagesAreTold'
  BY <1>6 DEF InformedPagesAreTold
<1>. QED
  BY <1>2, <1>4, <1>5, <1>7

LEMMA AnsweringRequests ==
  ASSUME FeedInv, NEW q \in Requests, NEW good \in BOOLEAN, RequestAnswered(q, good)
  PROVE  FeedInv'
<1>. USE DEF FeedInv
<1>1. /\ requests[q] \in Clients /\ SendGraph(requests[q], good)
      /\ requests' = [requests EXCEPT ![q] = "done"]
      /\ UNCHANGED <<activeEdges, serviceCallGraph, pending, broadcastTimer, telemetryBuffer,
                     flushTimer, clientSelections, broadcasts, sockets, page>>
  BY DEF RequestAnswered, service, buffering
<1>2. /\ channel' \in [Clients -> Seq(Messages)]
      /\ informed' \subseteq {d \in Clients : sockets[d] = "open"}
      /\ BufferIsRecent' /\ InformedPagesAreTold'
  BY <1>1, SendingGraphs
<1>3. requests' \in [Requests -> Clients \cup {"new", "done"}]
  BY <1>1 DEF FeedType
<1>4. FeedType'
  BY <1>1, <1>2, <1>3 DEF FeedType
<1>. QED
  BY <1>2, <1>4

LEMMA StartingBroadcasts ==
  ASSUME FeedInv, NEW b \in Broadcasts, BroadcastTimerFires(b)
  PROVE  FeedInv'
<1>. USE DEF FeedInv
<1>1. /\ broadcastTimer' = FALSE
      /\ broadcasts' = [broadcasts EXCEPT ![b] = FromFirstOpen(clientSelections)]
      /\ UNCHANGED <<activeEdges, serviceCallGraph, pending, telemetryBuffer, flushTimer,
                     clientSelections, requests, sockets, channel, page, informed>>
  BY DEF BroadcastTimerFires, service, buffering
<1>2. /\ FromFirstOpen(clientSelections) \in Seq(Clients)
      /\ IsInjective(FromFirstOpen(clientSelections))
  BY FromFirstOpenKeeps DEF FeedType
<1>3. /\ broadcasts' \in [Broadcasts -> Seq(Clients)]
      /\ \A d \in Broadcasts : IsInjective(broadcasts'[d])
  BY <1>1, <1>2 DEF FeedType
<1>4. \A d \in Broadcasts : IsInjective(broadcasts[d])'
  BY <1>3 DEF IsInjective
<1>5. FeedType'
  BY <1>1, <1>3, <1>4 DEF FeedType
<1>. QED
  BY <1>1, <1>5, Untold

LEMMA AnsweringBroadcasts ==
  ASSUME FeedInv, NEW b \in Broadcasts, NEW good \in BOOLEAN, BroadcastAnswered(b, good)
  PROVE  FeedInv'
<1>. USE DEF FeedInv
<1>1. /\ broadcasts[b] # <<>> /\ SendGraph(Head(broadcasts[b]), good)
      /\ broadcasts' = [broadcasts EXCEPT ![b] = FromFirstOpen(Tail(broadcasts[b]))]
      /\ UNCHANGED <<activeEdges, serviceCallGraph, pending, broadcastTimer, telemetryBuffer,
                     flushTimer, clientSelections, requests, sockets, page>>
  BY DEF BroadcastAnswered, service, buffering
<1>2. /\ Head(broadcasts[b]) \in Clients
      /\ Tail(broadcasts[b]) \in Seq(Clients) /\ IsInjective(Tail(broadcasts[b]))
  <2>1. broadcasts[b] \in Seq(Clients) /\ IsInjective(broadcasts[b])
    BY DEF FeedType
  <2>. QED
    BY <1>1, <2>1, TakenFromList DEF Range
<1>3. /\ channel' \in [Clients -> Seq(Messages)]
      /\ informed' \subseteq {d \in Clients : sockets[d] = "open"}
      /\ BufferIsRecent' /\ InformedPagesAreTold'
  BY <1>1, <1>2, SendingGraphs
<1>4. /\ FromFirstOpen(Tail(broadcasts[b])) \in Seq(Clients)
      /\ IsInjective(FromFirstOpen(Tail(broadcasts[b])))
  BY <1>2, FromFirstOpenKeeps
<1>5. /\ broadcasts' \in [Broadcasts -> Seq(Clients)]
      /\ \A d \in Broadcasts : IsInjective(broadcasts'[d])
  BY <1>1, <1>4 DEF FeedType
<1>6. \A d \in Broadcasts : IsInjective(broadcasts[d])'
  BY <1>5 DEF IsInjective
<1>7. FeedType'
  BY <1>1, <1>3, <1>5, <1>6 DEF FeedType
<1>. QED
  BY <1>3, <1>7

LEMMA Receiving ==
  ASSUME FeedInv, NEW c \in Clients, PageReceives(c)
  PROVE  FeedInv'
<1>. USE DEF FeedInv
<1>1. /\ channel[c] # <<>>
      /\ page' = [page EXCEPT ![c] = Apply(page[c], Head(channel[c]))]
      /\ channel' = [channel EXCEPT ![c] = Tail(channel[c])]
      /\ UNCHANGED <<activeEdges, serviceCallGraph, pending, broadcastTimer, telemetryBuffer,
                     flushTimer, clientSelections, requests, broadcasts, sockets, informed>>
  BY DEF PageReceives, service, buffering
<1>2. channel[c] \in Seq(Messages) /\ page[c] \in Graphs
  BY DEF FeedType
<1>3. Head(channel[c]) \in Messages /\ Tail(channel[c]) \in Seq(Messages)
  BY <1>1, <1>2, HeadTailProperties
<1>4. Apply(page[c], Head(channel[c])) \in Graphs
  BY <1>2, <1>3, ApplyIsAGraph
<1>5. page' \in [Clients -> Graphs] /\ channel' \in [Clients -> Seq(Messages)]
  BY <1>1, <1>3, <1>4 DEF FeedType
<1>6. FeedType'
  BY <1>1, <1>5 DEF FeedType
<1>7. BufferIsRecent'
  BY <1>1 DEF BufferIsRecent
<1>8. ASSUME NEW d \in informed
      PROVE  Told(On(page'[d], channel'[d], telemetryBuffer), activeEdges)
  <2>1. d \in Clients
    BY DEF FeedType
  <2>2. Told(On(page[d], channel[d], telemetryBuffer), activeEdges)
    BY DEF InformedPagesAreTold
  <2>3. CASE d = c
    <3>1. page'[c] = Apply(page[c], Head(channel[c])) /\ channel'[c] = Tail(channel[c])
      BY <1>1, <1>5 DEF FeedType
    <3>2. telemetryBuffer \in Seq(Deltas)
      BY DEF FeedType
    <3>. QED
      BY <1>1, <1>2, <2>2, <2>3, <3>1, <3>2, ReceivedPagesAreTold
  <2>4. CASE d # c
    <3>1. page'[d] = page[d] /\ channel'[d] = channel[d]
      BY <1>1, <2>1, <2>4 DEF FeedType
    <3>. QED
      BY <2>2, <3>1
  <2>. QED
    BY <2>3, <2>4
<1>9. InformedPagesAreTold'
  BY <1>1, <1>8 DEF InformedPagesAreTold
<1>. QED
  BY <1>6, <1>7, <1>9

LEMMA FeedInvStays == FeedInv /\ [Next]_vars => FeedInv'
<1>. SUFFICES ASSUME FeedInv, [Next]_vars PROVE FeedInv'
  OBVIOUS
<1>1. CASE UNCHANGED vars
  <2>1. UNCHANGED <<activeEdges, serviceCallGraph, pending, broadcastTimer, telemetryBuffer,
                    flushTimer, clientSelections, requests, broadcasts, sockets, channel, page,
                    informed>>
    BY <1>1 DEF vars, service, buffering
  <2>2. FeedType'
    BY <2>1 DEF FeedInv, FeedType
  <2>. QED
    BY <2>1, <2>2, Untold DEF FeedInv
<1>2. CASE Next
  BY <1>2, ReceivingTelemetry, Flushing, Connecting, Disconnecting, Receiving, Requesting,
     AnsweringRequests, StartingBroadcasts, AnsweringBroadcasts DEF Next
<1>. QED
  BY <1>1, <1>2

LEMMA FeedInvHolds == Spec => []FeedInv
<1>. QED
  BY FeedInvStarts, FeedInvStays, PTL DEF Spec

-----------------------------------------------------------------------------
(* The theorems *)

(* The type invariant: no selection and no client of a broadcast is ever doubled,
   selections and informed pages are those of connected clients, and the timer of
   the buffer runs exactly while something is in it (GraphGateway). *)
THEOREM FeedTypes == Spec => []TypeOK
<1>1. FeedInv => TypeOK
  <2>. SUFFICES ASSUME FeedInv PROVE TypeOK
    OBVIOUS
  <2>. USE DEF FeedInv
  <2>1. ASSUME NEW g \in Graphs PROVE GraphType(g)
    <3>1. g.nodes \subseteq Nodes /\ g.edges \in EdgeSets
      BY DEF Graphs
    <3>. QED
      BY <3>1, EdgeSetsAre DEF GraphType
  <2>2. GraphType(WholeGraph)
    BY <2>1, WholeGraphIsAGraph DEF FeedType
  <2>3. \A c \in Clients : GraphType(page[c])
    BY <2>1 DEF FeedType
  <2>4. Range(telemetryBuffer) \subseteq Deltas
    BY ElementOfSeq, LenProperties DEF FeedType, Range
  <2>5. Range(clientSelections) \subseteq {c \in Clients : sockets[c] = "open"}
    <3>1. \A i \in DOMAIN clientSelections : clientSelections[i] \in Clients
      BY ElementOfSeq, LenProperties DEF FeedType
    <3>. QED
      BY <3>1 DEF FeedType, Range
  <2>6. ASSUME NEW b \in Broadcasts
        PROVE  Range(broadcasts[b]) \subseteq Clients /\ IsInjective(broadcasts[b])
    <3>1. broadcasts[b] \in Seq(Clients)
      BY DEF FeedType
    <3>2. \A i \in DOMAIN broadcasts[b] : broadcasts[b][i] \in Clients
      BY <3>1, ElementOfSeq, LenProperties
    <3>. QED
      BY <3>2 DEF FeedType, Range
  <2>. QED
    BY <2>2, <2>3, <2>4, <2>5, <2>6 DEF TypeOK, FeedType, Deltas
<1>. QED
  BY <1>1, FeedInvHolds, PTL

(* Whatever reports, flushes, answers, broadcasts, connections and disconnections
   overlap, with what is on its way a page whose last whole graph was a good one
   holds exactly the observed traffic and every node outside the inventory. *)
THEOREM NoTrafficIsMissed == Spec => []PagesMissNoTraffic
<1>1. FeedInv => PagesMissNoTraffic
  <2>. SUFFICES ASSUME FeedInv, NEW c \in informed
                PROVE  /\ TrafficOf(Eventual(c).edges) = TrafficOf(activeEdges)
                       /\ Endpoints(DOMAIN activeEdges) \cap Outside \subseteq Eventual(c).nodes
    BY DEF PagesMissNoTraffic
  <2>1. /\ c \in Clients /\ page[c] \in Graphs /\ channel[c] \in Seq(Messages)
        /\ telemetryBuffer \in Seq(Deltas) /\ activeEdges \in EdgeSets
    BY DEF FeedInv, FeedType
  <2>2. Told(On(page[c], channel[c], telemetryBuffer), activeEdges)
    BY DEF FeedInv, InformedPagesAreTold
  <2>. QED
    BY <2>1, <2>2, ToldPagesMissNothing
<1>. QED
  BY <1>1, FeedInvHolds, PTL
=============================================================================
