--------------------------- MODULE GraphView_proofs ---------------------------
(* For every graph: the layout is done with every service once, ranks callers above
   what they call where no cycle prevents it, and gives every node room of its own;
   the walk finds exactly what a click should. *)
EXTENDS GraphView, SequenceEnds, TLAPS

-----------------------------------------------------------------------------
(* The invariant *)

\* The services that the layout is done with.
Done == Range(order)

\* A count is of the calls from services that are still to come.
Awaited(t) == {e \in Into(t) : e.source \notin Done}
CountsAreExact ==
  \A t \in Services :
    inDegree[t] = IF t \in Done THEN -1 ELSE Cardinality(Awaited(t))

LayoutType ==
  /\ inDegree \in [Services -> Int]
  /\ order \in Seq(Services) /\ IsInjective(order)
  /\ queue \in Seq(Services) /\ IsInjective(queue)
  /\ DOMAIN level \subseteq Services /\ \A s \in DOMAIN level : level[s] \in Nat

DoneBefore(t, s) == \E i, j \in DOMAIN order : j <= i /\ order[i] = s /\ order[j] = t

\* What a service calls is below it from its turn on.  Only in a cycle the called
\* one may have had its turn before.
LevelsRise ==
  \A e \in structuralEdges :
    /\ e.source \in Done =>
         LevelOf(e.source) < LevelOf(e.target) \/ (~Acyclic /\ DoneBefore(e.target, e.source))
    /\ e.source \in Done \/ ~Acyclic \/ e.target \notin Done

LayoutInv ==
  /\ LayoutType
  /\ CountsAreExact
  /\ Range(queue) = {t \in Services : inDegree[t] = 0}
  /\ LevelsRise
  /\ phase # "layout" => Done = Services

Directions == {"up", "down"}

Exact(dir) ==
  /\ Closed(reached[dir], dir)
  /\ \A S \in SUBSET Nodes : Closed(S, dir) => reached[dir] \subseteq S
  /\ reachedEdges[dir] = UNION {Leaving(dir, n) : n \in reached[dir]}

\* Of a walk under way: all that it has visited it had to, and what it has left
\* it has left by every edge.
WalkIsSound(dir) ==
  /\ focus \in Nodes /\ focus \in visited
  /\ \A S \in SUBSET Nodes : Closed(S, dir) => visited \subseteq S
  /\ \A n \in visited \ Range(toVisit) : \A e \in Leaving(dir, n) :
       e \in reachedEdges[dir] /\ Beyond(dir, e) \in visited
  /\ \A e \in reachedEdges[dir] : \E n \in visited : e \in Leaving(dir, n)
  /\ reached[dir] = visited \/ focus \in Range(toVisit)

WalkType ==
  /\ phase \in {"layout", "shown"} \cup Directions
  /\ focus \in Nodes \cup {NoNode}
  /\ visited \subseteq Nodes
  /\ toVisit \in Seq(visited) /\ IsInjective(toVisit)
  /\ reached \in [Directions -> SUBSET Nodes]
  /\ reachedEdges \in [Directions -> SUBSET Edges]

WalkInv ==
  /\ WalkType
  /\ phase = "layout" => focus = NoNode
  /\ \A dir \in Directions : phase = dir => WalkIsSound(dir)
  /\ phase = "up" => reachedEdges["down"] = {}
  /\ phase = "down" => Exact("up")
  /\ phase = "shown" /\ focus # NoNode => \A dir \in Directions : Exact(dir)

GraphType == structuralEdges \subseteq Calls /\ parent \in [Pods -> Services \cup {NoNode}]

ViewInv == GraphType /\ LayoutInv /\ WalkInv

-----------------------------------------------------------------------------
(* Lists of the elements of a set *)

LEMMA ListsAre ==
  ASSUME NEW S, IsFiniteSet(S), NEW q \in [1 .. Cardinality(S) -> S],
         \A i, j \in 1 .. Cardinality(S) : i # j => q[i] # q[j]
  PROVE  q \in Seq(S) /\ IsInjective(q) /\ Range(q) = S
<1>1. PICK n \in Nat : n = Cardinality(S)
  BY FS_CardinalityType
<1>2. q \in [1 .. n -> S]
  BY <1>1
<1>3. q \in Seq(S)
  BY <1>2
<1>4. \A i, j \in 1 .. n : q[i] = q[j] => i = j
  BY <1>1
<1>5. IsInjective(q)
  BY <1>2, <1>4 DEF IsInjective
<1>6. q \in Injection(1 .. n, S)
  BY <1>2, <1>5 DEF Injection
<1>7. IsFiniteSet(1 .. n) /\ Cardinality(1 .. n) = n
  BY FS_Interval
<1>8. q \in Surjection(1 .. n, S)
  BY <1>1, <1>6, <1>7, FS_Injection
<1>9. Range(q) = S
  BY <1>2, <1>8 DEF Surjection, Range
<1>. QED
  BY <1>3, <1>5, <1>9

LEMMA AnyOrder ==
  ASSUME NEW S, IsFiniteSet(S), NEW q \in SetToSeqs(S)
  PROVE  q \in Seq(S) /\ IsInjective(q) /\ Range(q) = S
<1>1. /\ q \in [1 .. Cardinality(S) -> S]
      /\ \A i, j \in 1 .. Cardinality(S) : i # j => q[i] # q[j]
  BY DEF SetToSeqs
<1>. QED
  BY <1>1, ListsAre

(* q lists S in the order of the ranks. *)
IsListing(q, S) ==
  /\ q \in [1 .. Cardinality(S) -> S]
  /\ \A i, j \in DOMAIN q : i < j => Rank[q[i]] < Rank[q[j]]

LEMMA LongerListing ==
  ASSUME NEW S \in SUBSET Services, NEW s \in S, \A t \in S : Rank[s] <= Rank[t],
         NEW q, IsListing(q, S \ {s})
  PROVE  \E r : IsListing(r, S)
<1>1. IsFiniteSet(S)
  BY GraphAssumption, FS_Subset
<1>2. PICK n \in Nat : n = Cardinality(S \ {s})
  BY <1>1, FS_RemoveElement, FS_CardinalityType
<1>3. Cardinality(S) = n + 1
  <2>1. Cardinality(S) \in Nat /\ n = Cardinality(S) - 1
    BY <1>1, <1>2, FS_RemoveElement, FS_CardinalityType
  <2>. QED
    BY <2>1
<1>4. q \in [1 .. n -> S \ {s}] /\ \A i, j \in 1 .. n : i < j => Rank[q[i]] < Rank[q[j]]
  BY <1>2 DEF IsListing
<1>. DEFINE r == [i \in 1 .. n + 1 |-> IF i = 1 THEN s ELSE q[i - 1]]
<1>5. ASSUME NEW i \in 1 .. n + 1, i # 1 PROVE i - 1 \in 1 .. n /\ r[i] = q[i - 1]
  BY <1>5
<1>6. r \in [1 .. n + 1 -> S]
  BY <1>4, <1>5
<1>7. ASSUME NEW i \in 1 .. n + 1, NEW j \in 1 .. n + 1, i < j
      PROVE  Rank[r[i]] < Rank[r[j]]
  <2>1. j # 1
    BY <1>7
  <2>2. r[j] = q[j - 1] /\ q[j - 1] \in S \ {s}
    BY <1>4, <1>5, <2>1
  <2>3. CASE i = 1
    <3>1. r[i] = s /\ r[j] \in Services /\ s \in Services /\ r[j] # s
      BY <2>2, <2>3
    <3>2. Rank[s] \in Nat /\ Rank[r[j]] \in Nat /\ Rank[s] # Rank[r[j]]
      BY <3>1, GraphAssumption
    <3>3. Rank[s] <= Rank[r[j]]
      BY <2>2
    <3>. QED
      BY <3>1, <3>2, <3>3
  <2>4. CASE i # 1
    <3>1. i - 1 \in 1 .. n /\ j - 1 \in 1 .. n /\ i - 1 < j - 1
      BY <1>5, <1>7, <2>1, <2>4
    <3>2. r[i] = q[i - 1]
      BY <1>5, <2>4
    <3>. QED
      BY <1>4, <2>2, <3>1, <3>2
  <2>. QED
    BY <2>3, <2>4
<1>. HIDE DEF r
<1>8. DOMAIN r = 1 .. n + 1
  BY <1>6
<1>9. IsListing(r, S)
  BY <1>3, <1>6, <1>7, <1>8 DEF IsListing
<1>. QED
  BY <1>9

(* Every set of services has such a list: a least set without one would be a
   service longer than a set that has one. *)
LEMMA ListingsExist ==
  ASSUME NEW S \in SUBSET Services
  PROVE  \E q : IsListing(q, S)
<1>. DEFINE U == {T \in SUBSET Services : ~ \E q : IsListing(q, T)}
<1>. SUFFICES ASSUME U # {} PROVE FALSE
  OBVIOUS
<1>1. \A T \in SUBSET Services : IsFiniteSet(T)
  BY GraphAssumption, FS_Subset
<1>2. U \subseteq FiniteSubsetsOf(Services)
  BY <1>1 DEF FiniteSubsetsOf
<1>3. IsWellFoundedOn(StrictSubsetOrdering(Services), FiniteSubsetsOf(Services))
  BY FS_StrictSubsetOrderingWellFounded
<1>. HIDE DEF U
<1>4. PICK T \in U : \A V \in U : ~ (<<V, T>> \in StrictSubsetOrdering(Services))
  BY <1>2, <1>3, WFMin
<1>5. T \in SUBSET Services /\ ~ \E q : IsListing(q, T)
  BY DEF U
<1>6. T # {}
  <2>. SUFFICES ASSUME T = {} PROVE FALSE
    OBVIOUS
  <2>1. Cardinality(T) = 0
    BY FS_EmptySet
  <2>2. 1 .. 0 = {} /\ <<>> \in [{} -> T] /\ DOMAIN <<>> = {}
    OBVIOUS
  <2>3. IsListing(<<>>, T)
    BY <2>1, <2>2 DEF IsListing
  <2>. QED
    BY <1>5, <2>3
<1>7. PICK s \in T : \A t \in T : Rank[s] <= Rank[t]
  <2>1. {Rank[t] : t \in T} \subseteq Nat /\ {Rank[t] : t \in T} # {}
    BY <1>5, <1>6, GraphAssumption
  <2>2. PICK m \in {Rank[t] : t \in T} : \A n \in {Rank[t] : t \in T} : m <= n
    BY <2>1, LeastNumber
  <2>. QED
    BY <2>2
<1>8. T \ {s} \in SUBSET Services
  BY <1>5
<1>9. <<T \ {s}, T>> \in StrictSubsetOrdering(Services)
  BY <1>5, <1>8 DEF StrictSubsetOrdering
<1>10. PICK q : IsListing(q, T \ {s})
  BY <1>4, <1>8, <1>9 DEF U
<1>. QED
  BY <1>5, <1>7, <1>10, LongerListing

LEMMA ListedIs ==
  ASSUME NEW S \in SUBSET Services
  PROVE  Listed(S) \in Seq(S) /\ IsInjective(Listed(S)) /\ Range(Listed(S)) = S
<1>1. PICK q : IsListing(q, S)
  BY ListingsExist
<1>2. /\ Listed(S) \in [1 .. Cardinality(S) -> S]
      /\ \A i, j \in DOMAIN Listed(S) : i < j => Rank[Listed(S)[i]] < Rank[Listed(S)[j]]
  BY <1>1 DEF Listed, IsListing
<1>3. IsFiniteSet(S)
  BY GraphAssumption, FS_Subset
<1>4. PICK n \in Nat : n = Cardinality(S)
  BY <1>3, FS_CardinalityType
<1>5. PICK r \in [1 .. n -> S] : r = Listed(S)
  BY <1>2, <1>4
<1>6. ASSUME NEW i \in 1 .. n, NEW j \in 1 .. n, i # j PROVE r[i] # r[j]
  <2>1. \A k \in 1 .. n : Rank[r[k]] \in Nat
    BY GraphAssumption
  <2>2. i < j \/ j < i
    BY <1>6
  <2>3. Rank[r[i]] < Rank[r[j]] \/ Rank[r[j]] < Rank[r[i]]
    BY <1>2, <1>5, <2>2
  <2>4. Rank[r[i]] # Rank[r[j]]
    BY <2>1, <2>3
  <2>. QED
    BY <2>4
<1>. QED
  BY <1>3, <1>4, <1>5, <1>6, ListsAre

-----------------------------------------------------------------------------
(* The layout *)

LEMMA CallsAre ==
  ASSUME GraphType
  PROVE  /\ \A S \in SUBSET structuralEdges : IsFiniteSet(S) /\ Cardinality(S) \in Nat
         /\ \A e \in structuralEdges : e.source \in Services /\ e.target \in Services
         /\ \A t \in Services : /\ Into(t) \subseteq structuralEdges
                                /\ Awaited(t) \subseteq structuralEdges
<1>1. structuralEdges \subseteq Calls
  BY DEF GraphType
<1>2. \A S \in SUBSET structuralEdges : IsFiniteSet(S)
  BY <1>1, GraphAssumption, FS_Subset
<1>. QED
  BY <1>1, <1>2, GraphAssumption, FS_CardinalityType DEF Into, Awaited

LEMMA CountsAre ==
  ASSUME GraphType, CountsAreExact, NEW t \in Services
  PROVE  /\ t \in Done => inDegree[t] = -1
         /\ t \notin Done => inDegree[t] \in Nat /\ inDegree[t] = Cardinality(Awaited(t))
         /\ inDegree[t] = 0 <=> t \notin Done /\ Awaited(t) = {}
<1>1. Awaited(t) \in SUBSET structuralEdges
  BY CallsAre
<1>2. Cardinality(Awaited(t)) \in Nat /\ IsFiniteSet(Awaited(t))
  BY <1>1, CallsAre
<1>3. Cardinality(Awaited(t)) = 0 <=> Awaited(t) = {}
  BY <1>2, FS_EmptySet
<1>. QED
  BY <1>2, <1>3 DEF CountsAreExact

(* Until the layout has counted off all services, some are to come. *)
LEMMA SomeAreToCome ==
  ASSUME LayoutType
  PROVE  /\ Done \subseteq Services
         /\ Len(order) = Cardinality(Services) <=> Done = Services
         /\ Len(order) \in Nat /\ Cardinality(Services) \in Nat
         /\ Len(order) <= Cardinality(Services)
<1>1. PICK n \in Nat : n = Len(order) /\ DOMAIN order = 1 .. n
  BY LenProperties DEF LayoutType
<1>2. order \in [1 .. n -> Services]
  BY <1>1 DEF LayoutType
<1>3. order \in Injection(1 .. n, Services)
  BY <1>1, <1>2 DEF LayoutType, IsInjective, Injection
<1>4. IsFiniteSet(1 .. n) /\ Cardinality(1 .. n) = n
  BY FS_Interval
<1>5. IsFiniteSet(Services)
  BY GraphAssumption
<1>6. n <= Cardinality(Services)
  BY <1>3, <1>4, <1>5, FS_Injection
<1>7. ASSUME n = Cardinality(Services) PROVE Done = Services
  <2>1. order \in Surjection(1 .. n, Services)
    BY <1>3, <1>4, <1>5, <1>7, FS_Injection
  <2>. QED
    BY <1>1, <1>2, <2>1 DEF Surjection, Done, Range
<1>8. ASSUME Done = Services PROVE n = Cardinality(Services)
  <2>1. order \in Bijection(1 .. n, Services)
    BY <1>1, <1>2, <1>3, <1>8 DEF Bijection, Surjection, Done, Range
  <2>2. ExistsBijection(1 .. n, Services)
    BY <2>1 DEF ExistsBijection
  <2>. QED
    BY <1>4, <1>5, <2>2, FS_Bijection
<1>9. Done \subseteq Services
  BY <1>1, <1>2 DEF Done, Range
<1>. QED
  BY <1>1, <1>5, <1>6, <1>7, <1>8, <1>9, FS_CardinalityType

(* Whose turn it is is not done, and without a cycle waits for none. *)
LEMMA TurnIsDue ==
  ASSUME GraphType, LayoutType, CountsAreExact, Done # Services,
         Range(queue) = {t \in Services : inDegree[t] = 0}
  PROVE  /\ Turn \in Services \ Done
         /\ queue # <<>> => Turn = Head(queue)
         /\ queue = <<>> => inDegree[Turn] > 0
         /\ Acyclic => Awaited(Turn) = {}
<1>1. CASE queue # <<>>
  <2>1. Turn = Head(queue) /\ Head(queue) \in Range(queue)
    BY <1>1, TakenFromList DEF Turn, LayoutType
  <2>2. Turn \in Services /\ inDegree[Turn] = 0
    BY <2>1
  <2>. QED
    BY <1>1, <2>1, <2>2, CountsAre
<1>2. CASE queue = <<>>
  <2>1. Range(queue) = {}
    BY <1>2 DEF Range
  <2>2. PICK u \in Services : u \notin Done
    BY SomeAreToCome
  <2>3. \A t \in Services \ Done : inDegree[t] \in Nat /\ inDegree[t] > 0
    <3>. SUFFICES ASSUME NEW t \in Services \ Done PROVE inDegree[t] \in Nat /\ inDegree[t] > 0
      OBVIOUS
    <3>1. inDegree[t] \in Nat /\ inDegree[t] # 0
      BY <2>1, CountsAre
    <3>. QED
      BY <3>1
  <2>4. Waiting = Services \ Done
    BY <2>3, CountsAre DEF Waiting
  <2>5. FewestCalls # {}
    <3>1. {inDegree[t] : t \in Waiting} \subseteq Nat /\ {inDegree[t] : t \in Waiting} # {}
      BY <2>2, <2>3, <2>4
    <3>2. PICK m \in {inDegree[t] : t \in Waiting} : \A n \in {inDegree[t] : t \in Waiting} : m <= n
      BY <3>1, LeastNumber
    <3>. QED
      BY <3>2 DEF FewestCalls
  <2>6. FewestCalls \subseteq Waiting
    BY DEF FewestCalls
  <2>7. PICK s \in FewestCalls : \A t \in FewestCalls : Rank[s] <= Rank[t]
    <3>1. {Rank[t] : t \in FewestCalls} \subseteq Nat /\ {Rank[t] : t \in FewestCalls} # {}
      BY <2>4, <2>5, <2>6, GraphAssumption
    <3>2. PICK m \in {Rank[t] : t \in FewestCalls} : \A n \in {Rank[t] : t \in FewestCalls} : m <= n
      BY <3>1, LeastNumber
    <3>. QED
      BY <3>2
  <2>8. BreakCycle \in FewestCalls
    BY <2>7 DEF BreakCycle
  <2>9. Turn \in Services \ Done /\ inDegree[Turn] > 0
    BY <1>2, <2>3, <2>4, <2>6, <2>8 DEF Turn
  <2>10. ~Acyclic
    <3>. SUFFICES ASSUME Acyclic PROVE FALSE
      OBVIOUS
    <3>1. PICK first \in Services \ Done : \A e \in Into(first) : e.source \notin Services \ Done
      BY <2>2 DEF Acyclic
    <3>2. Awaited(first) = {}
      BY <3>1, CallsAre DEF Awaited, Into
    <3>3. inDegree[first] = 0
      BY <3>2, CountsAre
    <3>. QED
      BY <2>3, <3>3
  <2>. QED
    BY <1>2, <2>9, <2>10
<1>. QED
  BY <1>1, <1>2

(* A turn of the layout, its parts by name. *)
TurnOf(s, called) ==
  /\ s \in Services \ Done
  /\ queue # <<>> => s = Head(queue)
  /\ queue = <<>> => inDegree[s] > 0
  /\ Acyclic => Awaited(s) = {}
  /\ called = {t \in Services \ {s} : Between(s, t) # {} /\ inDegree[t] > 0}
  /\ inDegree' = [t \in Services |->
       IF t = s THEN -1
       ELSE IF t \in called THEN inDegree[t] - Cardinality(Between(s, t)) ELSE inDegree[t]]
  /\ level' = LevelsBelow(s, called)
  /\ \E released \in SetToSeqs({t \in called : inDegree'[t] = 0}) :
       queue' = (IF queue = <<>> THEN <<>> ELSE Tail(queue)) \o released
  /\ order' = Append(order, s)
  /\ phase = "layout" /\ UNCHANGED <<graph, phase, focus, walkVars>>

LEMMA LayoutStepIsATurn ==
  ASSUME GraphType, LayoutInv, LayoutStep
  PROVE  \E s \in Services, called \in SUBSET Services : TurnOf(s, called)
<1>. DEFINE called == {t \in Services \ {Turn} : Between(Turn, t) # {} /\ inDegree[t] > 0}
<1>1. Done # Services
  <2>1. Len(order) # Cardinality(Services)
    BY SomeAreToCome DEF LayoutInv, LayoutStep
  <2>. QED
    BY <2>1, SomeAreToCome DEF LayoutInv
<1>2. /\ Turn \in Services \ Done
      /\ queue # <<>> => Turn = Head(queue)
      /\ queue = <<>> => inDegree[Turn] > 0
      /\ Acyclic => Awaited(Turn) = {}
  BY <1>1, TurnIsDue DEF LayoutInv
<1>3. inDegree' = [t \in Services |->
       IF t = Turn THEN -1
       ELSE IF t \in called THEN inDegree[t] - Cardinality(Between(Turn, t)) ELSE inDegree[t]]
  BY DEF LayoutStep
<1>4. {t \in called : inDegree'[t] = 0} =
        {t \in called : (IF t = Turn THEN -1
           ELSE IF t \in called THEN inDegree[t] - Cardinality(Between(Turn, t))
           ELSE inDegree[t]) = 0}
  BY <1>3
<1>5. {t \in called : inDegree'[t] = 0} =
        {t \in called : [u \in Services |-> IF u = Turn THEN -1
           ELSE IF u \in called THEN inDegree[u] - Cardinality(Between(Turn, u))
           ELSE inDegree[u]][t] = 0}
  BY <1>3
<1>6. \E released \in SetToSeqs({t \in called : inDegree'[t] = 0}) :
        queue' = (IF queue = <<>> THEN <<>> ELSE Tail(queue)) \o released
  BY <1>5 DEF LayoutStep
<1>7. /\ level' = LevelsBelow(Turn, called) /\ order' = Append(order, Turn)
      /\ phase = "layout" /\ UNCHANGED <<graph, phase, focus, walkVars>>
  BY DEF LayoutStep
<1>8. TurnOf(Turn, called)
  BY <1>2, <1>3, <1>6, <1>7 DEF TurnOf
<1>. QED
  BY <1>2, <1>8

LEMMA TurnCountsOff ==
  ASSUME GraphType, LayoutInv, NEW s \in Services, NEW called \in SUBSET Services,
         TurnOf(s, called)
  PROVE  /\ Done' = Done \cup {s} /\ order' \in Seq(Services) /\ IsInjective(order')
         /\ DOMAIN order' = 1 .. Len(order) + 1 /\ order'[Len(order) + 1] = s
         /\ \A i \in DOMAIN order : i \in 1 .. Len(order) /\ order'[i] = order[i]
         /\ \A t \in Services : Into(t)' = Into(t)
         /\ \A t \in (Services \ Done) \ {s} :
              /\ Between(s, t) \subseteq Awaited(t)
              /\ Awaited(t)' = Awaited(t) \ Between(s, t)
              /\ t \in called <=> Between(s, t) # {}
<1>1. s \notin Range(order)
  BY DEF TurnOf, Done
<1>2. /\ order' \in Seq(Services) /\ IsInjective(order')
      /\ DOMAIN order' = 1 .. Len(order) + 1 /\ order'[Len(order) + 1] = s
      /\ Range(order') = Range(order) \cup {s}
      /\ \A i \in DOMAIN order : i \in 1 .. Len(order) /\ order'[i] = order[i]
  BY <1>1, AppendedToList DEF TurnOf, LayoutInv, LayoutType
<1>3. Done' = Done \cup {s}
  BY <1>2 DEF Done
<1>4. structuralEdges' = structuralEdges
  BY DEF TurnOf, graph
<1>5. \A t \in Services : Into(t)' = Into(t)
  BY <1>4 DEF Into
<1>6. ASSUME NEW t \in (Services \ Done) \ {s}
      PROVE  /\ Between(s, t) \subseteq Awaited(t)
             /\ Awaited(t)' = Awaited(t) \ Between(s, t)
             /\ t \in called <=> Between(s, t) # {}
  <2>1. Between(s, t) \subseteq Awaited(t)
    BY DEF Between, Awaited, Into, TurnOf
  <2>2. Awaited(t)' = Awaited(t) \ Between(s, t)
    BY <1>3, <1>4 DEF Between, Awaited, Into
  <2>3. ASSUME Between(s, t) # {} PROVE inDegree[t] > 0
    <3>1. inDegree[t] \in Nat /\ inDegree[t] # 0
      BY <2>1, <2>3, CountsAre DEF LayoutInv
    <3>. QED
      BY <3>1
  <2>. QED
    BY <2>1, <2>2, <2>3 DEF TurnOf
<1>. QED
  BY <1>2, <1>3, <1>5, <1>6

LEMMA TurnKeepsCounts ==
  ASSUME GraphType, LayoutInv, NEW s \in Services, NEW called \in SUBSET Services,
         TurnOf(s, called)
  PROVE  inDegree' \in [Services -> Int] /\ CountsAreExact'
<1>1. /\ Done' = Done \cup {s}
      /\ \A t \in Services : Into(t)' = Into(t)
      /\ \A t \in (Services \ Done) \ {s} :
              /\ Between(s, t) \subseteq Awaited(t)
              /\ Awaited(t)' = Awaited(t) \ Between(s, t)
              /\ t \in called <=> Between(s, t) # {}
  BY TurnCountsOff
<1>2. inDegree' = [t \in Services |->
       IF t = s THEN -1
       ELSE IF t \in called THEN inDegree[t] - Cardinality(Between(s, t)) ELSE inDegree[t]]
  BY DEF TurnOf
<1>3. inDegree \in [Services -> Int]
  BY DEF LayoutInv, LayoutType
<1>4. ASSUME NEW t \in Services, t \in Done \/ t = s
      PROVE  inDegree'[t] = -1
  <2>1. CASE t = s
    BY <1>2, <2>1
  <2>2. CASE t \in Done /\ t # s
    <3>1. inDegree[t] = -1
      BY <2>2, CountsAre DEF LayoutInv
    <3>2. t \notin called
      BY <3>1 DEF TurnOf
    <3>. QED
      BY <1>2, <2>2, <3>1, <3>2
  <2>. QED
    BY <1>4, <2>1, <2>2
<1>5. ASSUME NEW t \in (Services \ Done) \ {s}
      PROVE  /\ inDegree'[t] = Cardinality(Awaited(t) \ Between(s, t))
             /\ inDegree'[t] \in Nat
  <2>1. /\ inDegree[t] \in Nat /\ inDegree[t] = Cardinality(Awaited(t))
    BY CountsAre DEF LayoutInv
  <2>2. Awaited(t) \in SUBSET structuralEdges
    BY CallsAre
  <2>3. /\ IsFiniteSet(Awaited(t))
        /\ Awaited(t) \cap Between(s, t) = Between(s, t)
        /\ Cardinality(Between(s, t)) \in Nat
        /\ Cardinality(Awaited(t) \ Between(s, t)) \in Nat
    BY <1>1, <2>2, CallsAre
  <2>4. Cardinality(Awaited(t) \ Between(s, t)) = inDegree[t] - Cardinality(Between(s, t))
    BY <2>1, <2>3, FS_Difference
  <2>5. CASE t \in called
    BY <1>2, <2>3, <2>4, <2>5
  <2>6. CASE t \notin called
    <3>1. Between(s, t) = {}
      BY <1>1, <2>6
    <3>. QED
      BY <1>2, <2>1, <2>6, <3>1
  <2>. QED
    BY <2>5, <2>6
<1>6. inDegree' \in [Services -> Int]
  <2>1. ASSUME NEW t \in Services PROVE inDegree'[t] \in Int
    <3>1. CASE t \in Done \/ t = s
      BY <1>4, <3>1
    <3>2. CASE t \in (Services \ Done) \ {s}
      <4>1. inDegree'[t] \in Nat
        BY <1>5, <3>2
      <4>. QED
        BY <4>1
    <3>. QED
      BY <3>1, <3>2
  <2>. QED
    BY <1>2, <2>1
<1>7. ASSUME NEW t \in Services
      PROVE  inDegree'[t] = IF t \in Done' THEN -1 ELSE Cardinality(Awaited(t)')
  BY <1>1, <1>4, <1>5
<1>8. CountsAreExact'
  BY <1>7 DEF CountsAreExact
<1>. QED
  BY <1>6, <1>8

LEMMA TurnKeepsQueue ==
  ASSUME GraphType, LayoutInv, NEW s \in Services, NEW called \in SUBSET Services,
         TurnOf(s, called)
  PROVE  /\ queue' \in Seq(Services) /\ IsInjective(queue')
         /\ Range(queue') = {t \in Services : inDegree'[t] = 0}
<1>. DEFINE released == {t \in called : inDegree'[t] = 0}
            remain == {t \in Services \ {s} : inDegree[t] = 0}
<1>1. /\ Range(queue) = {t \in Services : inDegree[t] = 0}
      /\ queue \in Seq(Services) /\ IsInjective(queue)
  BY DEF LayoutInv, LayoutType
<1>2. inDegree' = [t \in Services |->
       IF t = s THEN -1
       ELSE IF t \in called THEN inDegree[t] - Cardinality(Between(s, t)) ELSE inDegree[t]]
  BY DEF TurnOf
<1>3. PICK rest \in Seq(Services) : /\ rest = IF queue = <<>> THEN <<>> ELSE Tail(queue)
                                    /\ IsInjective(rest) /\ Range(rest) = remain
  <2>1. CASE queue = <<>>
    <3>1. <<>> \in Seq(Services) /\ IsInjective(<<>>) /\ Range(<<>>) = {}
      BY DEF IsInjective, Range
    <3>2. remain = {}
      BY <1>1, <2>1, <3>1
    <3>. QED
      BY <2>1, <3>1, <3>2
  <2>2. CASE queue # <<>>
    <3>1. /\ Tail(queue) \in Seq(Services) /\ IsInjective(Tail(queue))
          /\ Range(Tail(queue)) = Range(queue) \ {Head(queue)}
      BY <1>1, <2>2, TakenFromList
    <3>2. s = Head(queue)
      BY <2>2 DEF TurnOf
    <3>3. Range(Tail(queue)) = remain
      BY <1>1, <3>1, <3>2
    <3>. QED
      BY <2>2, <3>1, <3>3
  <2>. QED
    BY <2>1, <2>2
<1>4. PICK next \in SetToSeqs(released) : queue' = rest \o next
  BY <1>3 DEF TurnOf
<1>5. IsFiniteSet(released) /\ released \subseteq Services
  BY GraphAssumption, FS_Subset
<1>6. next \in Seq(released) /\ IsInjective(next) /\ Range(next) = released
  BY <1>5, AnyOrder
<1>7. next \in Seq(Services)
  BY <1>5, <1>6
<1>8. remain \cap released = {}
  BY DEF TurnOf
<1>9. /\ rest \o next \in Seq(Services) /\ IsInjective(rest \o next)
      /\ Range(rest \o next) = remain \cup released
  <2>1. rest \in Seq(Services) /\ IsInjective(rest) /\ Range(rest) = remain
    BY <1>3
  <2>2. Range(rest) \cap Range(next) = {}
    BY <1>6, <1>8, <2>1
  <2>3. /\ rest \o next \in Seq(Services) /\ IsInjective(rest \o next)
        /\ Range(rest \o next) = Range(rest) \cup Range(next)
    BY <1>6, <1>7, <2>1, <2>2, ConcatIsInjective
  <2>. QED
    BY <1>6, <2>1, <2>3
<1>10. remain \cup released = {t \in Services : inDegree'[t] = 0}
  <2>1. ASSUME NEW t \in Services
        PROVE  t \in remain \cup released <=> inDegree'[t] = 0
    <3>1. CASE t = s
      BY <1>2, <3>1 DEF TurnOf
    <3>2. CASE t # s /\ t \in called
      <4>1. inDegree[t] # 0
        BY <3>2 DEF TurnOf
      <4>. QED
        BY <3>2, <4>1
    <3>3. CASE t # s /\ t \notin called
      <4>1. inDegree'[t] = inDegree[t]
        BY <1>2, <3>3
      <4>. QED
        BY <3>3, <4>1
    <3>. QED
      BY <3>1, <3>2, <3>3
  <2>. QED
    BY <1>5, <2>1
<1>. QED
  BY <1>4, <1>9, <1>10

LEMMA LevelsAre ==
  ASSUME LayoutType, NEW t \in Services
  PROVE  LevelOf(t) \in Nat
BY DEF LayoutType, LevelOf

LEMMA TurnKeepsLevels ==
  ASSUME GraphType, LayoutInv, NEW s \in Services, NEW called \in SUBSET Services,
         TurnOf(s, called)
  PROVE  /\ DOMAIN level' \subseteq Services
         /\ \A t \in DOMAIN level' : level'[t] \in Nat
         /\ \A t \in Services : LevelOf(t)' \in Nat
         /\ \A t \in Services \ called : LevelOf(t)' = LevelOf(t)
         /\ \A t \in called : LevelOf(t)' >= LevelOf(t) /\ LevelOf(t)' > LevelOf(s)
         /\ \A t \in called : LevelOf(t)' \in {LevelOf(t), LevelOf(s) + 1}
<1>1. \A t \in Services : LevelOf(t) \in Nat
  BY LevelsAre DEF LayoutInv
<1>2. level' = [t \in DOMAIN level \cup {s} \cup called |->
                  IF t \in called THEN Max({LevelOf(t), LevelOf(s) + 1}) ELSE LevelOf(t)]
  BY DEF TurnOf, LevelsBelow
<1>3. DOMAIN level \subseteq Services
  BY DEF LayoutInv, LayoutType
<1>4. ASSUME NEW t \in called
      PROVE  /\ Max({LevelOf(t), LevelOf(s) + 1}) \in Nat
             /\ Max({LevelOf(t), LevelOf(s) + 1}) >= LevelOf(t)
             /\ Max({LevelOf(t), LevelOf(s) + 1}) > LevelOf(s)
             /\ Max({LevelOf(t), LevelOf(s) + 1}) \in {LevelOf(t), LevelOf(s) + 1}
  <2>1. LevelOf(t) \in Nat /\ LevelOf(s) \in Nat
    BY <1>1
  <2>2. PICK m \in Nat, n \in Nat : m = LevelOf(t) /\ n = LevelOf(s)
    BY <2>1
  <2>3. Max({m, n + 1}) = IF m <= n + 1 THEN n + 1 ELSE m
    BY GreaterNumber
  <2>4. /\ Max({m, n + 1}) \in Nat /\ Max({m, n + 1}) >= m /\ Max({m, n + 1}) > n
        /\ Max({m, n + 1}) \in {m, n + 1}
    BY <2>3
  <2>. QED
    BY <2>2, <2>4
<1>5. ASSUME NEW t \in called
      PROVE  t \in DOMAIN level' /\ level'[t] = Max({LevelOf(t), LevelOf(s) + 1})
  BY <1>2
<1>6. ASSUME NEW t \in Services \ called PROVE LevelOf(t)' = LevelOf(t)
  <2>1. CASE t \in DOMAIN level \cup {s}
    <3>1. t \in DOMAIN level' /\ level'[t] = LevelOf(t)
      BY <1>2, <1>6, <2>1
    <3>. QED
      BY <3>1 DEF LevelOf
  <2>2. CASE t \notin DOMAIN level \cup {s}
    <3>1. t \notin DOMAIN level' /\ t \notin DOMAIN level
      BY <1>2, <1>6, <2>2
    <3>. QED
      BY <3>1 DEF LevelOf
  <2>. QED
    BY <2>1, <2>2
<1>7. ASSUME NEW t \in called PROVE LevelOf(t)' = Max({LevelOf(t), LevelOf(s) + 1})
  BY <1>5 DEF LevelOf
<1>8. \A t \in Services : LevelOf(t)' \in Nat
  BY <1>1, <1>4, <1>6, <1>7
<1>9. \A t \in DOMAIN level' : t \in Services /\ level'[t] = LevelOf(t)'
  BY <1>2, <1>3 DEF LevelOf
<1>. QED
  BY <1>4, <1>6, <1>7, <1>8, <1>9

LEMMA TurnKeepsRise ==
  ASSUME GraphType, LayoutInv, NEW s \in Services, NEW called \in SUBSET Services,
         TurnOf(s, called)
  PROVE  LevelsRise'
<1>1. structuralEdges' = structuralEdges /\ Acyclic' = Acyclic
  BY DEF TurnOf, graph, Acyclic, Into
<1>2. PICK n \in Nat : n = Len(order) /\ DOMAIN order = 1 .. n
  BY LenProperties DEF LayoutInv, LayoutType
<1>3. /\ Done' = Done \cup {s}
      /\ DOMAIN order' = 1 .. n + 1 /\ order'[n + 1] = s
      /\ \A i \in 1 .. n : i \in 1 .. n + 1 /\ order'[i] = order[i]
  <2>1. \A i \in 1 .. n : i \in 1 .. n + 1
    OBVIOUS
  <2>. QED
    BY <1>2, <2>1, TurnCountsOff
<1>4. \A t \in (Services \ Done) \ {s} : t \in called <=> Between(s, t) # {}
  BY TurnCountsOff
<1>5. /\ \A t \in Services : LevelOf(t) \in Nat /\ LevelOf(t)' \in Nat
      /\ \A t \in Services \ called : LevelOf(t)' = LevelOf(t)
      /\ \A t \in called : LevelOf(t)' >= LevelOf(t) /\ LevelOf(t)' > LevelOf(s)
  BY TurnKeepsLevels, LevelsAre DEF LayoutInv
<1>6. Done \cap called = {} /\ s \notin called
  BY CountsAre DEF TurnOf, LayoutInv
<1>7. ASSUME NEW e \in structuralEdges
      PROVE  /\ e.source \in Services /\ e.target \in Services
             /\ e.source \in Done =>
                  LevelOf(e.source) < LevelOf(e.target) \/ (~Acyclic /\ DoneBefore(e.target, e.source))
             /\ e.source \in Done \/ ~Acyclic \/ e.target \notin Done
  BY CallsAre DEF LayoutInv, LevelsRise
<1>8. ASSUME NEW t, NEW u, DoneBefore(t, u) PROVE DoneBefore(t, u)'
  <2>1. PICK i \in 1 .. n, j \in 1 .. n : j <= i /\ order[i] = u /\ order[j] = t
    BY <1>2, <1>8 DEF DoneBefore
  <2>2. /\ i \in 1 .. n + 1 /\ j \in 1 .. n + 1
        /\ order'[i] = u /\ order'[j] = t
    BY <1>3, <2>1
  <2>. QED
    BY <1>3, <2>1, <2>2 DEF DoneBefore
<1>9. ASSUME NEW t \in Done \cup {s} PROVE DoneBefore(t, s)'
  <2>1. PICK j \in 1 .. n + 1 : order'[j] = t
    <3>1. CASE t = s
      BY <1>3, <3>1
    <3>2. CASE t \in Done
      <4>1. PICK j \in 1 .. n : order[j] = t
        BY <1>2, <3>2 DEF Done, Range
      <4>. QED
        BY <1>3, <4>1
    <3>. QED
      BY <1>9, <3>1, <3>2
  <2>2. n + 1 \in 1 .. n + 1 /\ j <= n + 1
    OBVIOUS
  <2>. QED
    BY <1>3, <2>1, <2>2 DEF DoneBefore
<1>10. ASSUME NEW e \in structuralEdges, e.source \in Done \cup {s}
       PROVE  \/ LevelOf(e.source)' < LevelOf(e.target)'
              \/ ~Acyclic /\ DoneBefore(e.target, e.source)'
  <2>1. CASE e.source \in Done
    <3>1. CASE LevelOf(e.source) < LevelOf(e.target)
      <4>1. LevelOf(e.source)' = LevelOf(e.source)
        BY <1>5, <1>6, <1>7, <2>1
      <4>2. LevelOf(e.target)' >= LevelOf(e.target)
        <5>1. CASE e.target \in called
          BY <1>5, <5>1
        <5>2. CASE e.target \notin called
          <6>1. LevelOf(e.target)' = LevelOf(e.target) /\ LevelOf(e.target) \in Nat
            BY <1>5, <1>7, <5>2
          <6>. QED
            BY <6>1
        <5>. QED
          BY <5>1, <5>2
      <4>3. /\ LevelOf(e.source) \in Nat /\ LevelOf(e.target) \in Nat
            /\ LevelOf(e.target)' \in Nat
        BY <1>5, <1>7
      <4>. QED
        BY <3>1, <4>1, <4>2, <4>3
    <3>2. CASE ~Acyclic /\ DoneBefore(e.target, e.source)
      BY <1>8, <3>2
    <3>. QED
      BY <1>7, <2>1, <3>1, <3>2
  <2>2. CASE e.source = s /\ e.target = s
    <3>1. ~Acyclic
      <4>1. {s} \in SUBSET Services /\ {s} # {} /\ e \in Into(s)
        BY <2>2 DEF Into
      <4>. QED
        BY <2>2, <4>1 DEF Acyclic
    <3>. QED
      BY <1>9, <2>2, <3>1
  <2>3. CASE e.source = s /\ e.target \in Done
    <3>1. ~Acyclic
      BY <1>7, <2>3 DEF TurnOf
    <3>. QED
      BY <1>9, <2>3, <3>1
  <2>4. CASE e.source = s /\ e.target # s /\ e.target \notin Done
    <3>1. e \in Between(s, e.target)
      BY <2>4 DEF Between
    <3>2. e.target \in called
      BY <1>4, <1>7, <2>4, <3>1
    <3>3. LevelOf(e.target)' > LevelOf(s) /\ LevelOf(s)' = LevelOf(s)
      BY <1>5, <1>6, <3>2
    <3>4. LevelOf(s) \in Nat /\ LevelOf(e.target)' \in Nat
      BY <1>5, <1>7
    <3>5. LevelOf(s)' < LevelOf(e.target)'
      BY <3>3, <3>4
    <3>. QED
      BY <2>4, <3>5
  <2>. QED
    BY <1>10, <2>1, <2>2, <2>3, <2>4
<1>11. ASSUME NEW e \in structuralEdges, Acyclic, e.target \in Done \cup {s}
       PROVE  e.source \in Done \cup {s}
  <2>1. CASE e.target \in Done
    BY <1>7, <1>11, <2>1
  <2>2. CASE e.target = s
    <3>1. Awaited(s) = {} /\ e \in Into(s)
      BY <1>11, <2>2 DEF TurnOf, Into
    <3>. QED
      BY <3>1 DEF Awaited
  <2>. QED
    BY <1>11, <2>1, <2>2
<1>12. ASSUME NEW e \in structuralEdges'
       PROVE  /\ e.source \in Done' =>
                   \/ LevelOf(e.source)' < LevelOf(e.target)'
                   \/ ~Acyclic' /\ DoneBefore(e.target, e.source)'
              /\ e.source \in Done' \/ ~Acyclic' \/ e.target \notin Done'
  BY <1>1, <1>3, <1>10, <1>11
<1>. QED
  BY <1>12 DEF LevelsRise

LEMMA LayoutStepKeeps ==
  ASSUME ViewInv, LayoutStep
  PROVE  ViewInv'
<1>1. GraphType /\ LayoutInv /\ WalkInv
  BY DEF ViewInv
<1>2. PICK s \in Services, called \in SUBSET Services : TurnOf(s, called)
  BY <1>1, LayoutStepIsATurn
<1>3. /\ phase = "layout" /\ phase' = "layout"
      /\ structuralEdges' = structuralEdges /\ parent' = parent
      /\ UNCHANGED <<focus, visited, toVisit, reached, reachedEdges>>
  BY <1>2 DEF TurnOf, graph, walkVars
<1>4. GraphType'
  BY <1>1, <1>3 DEF GraphType
<1>5. LayoutType'
  <2>1. order' \in Seq(Services) /\ IsInjective(order')
    BY <1>1, <1>2, TurnCountsOff
  <2>2. inDegree' \in [Services -> Int]
    BY <1>1, <1>2, TurnKeepsCounts
  <2>3. queue' \in Seq(Services) /\ IsInjective(queue')
    BY <1>1, <1>2, TurnKeepsQueue
  <2>4. DOMAIN level' \subseteq Services /\ \A t \in DOMAIN level' : level'[t] \in Nat
    BY <1>1, <1>2, TurnKeepsLevels
  <2>5. IsInjective(order)' /\ IsInjective(queue)'
    BY <2>1, <2>3 DEF IsInjective
  <2>. QED
    BY <2>1, <2>2, <2>3, <2>4, <2>5 DEF LayoutType
<1>6. Range(queue)' = {t \in Services : inDegree[t] = 0}'
  BY <1>1, <1>2, TurnKeepsQueue
<1>7. LayoutInv'
  <2>1. CountsAreExact'
    BY <1>1, <1>2, TurnKeepsCounts
  <2>2. LevelsRise'
    BY <1>1, <1>2, TurnKeepsRise
  <2>. QED
    BY <1>3, <1>5, <1>6, <2>1, <2>2 DEF LayoutInv
<1>8. WalkInv'
  <2>1. \A dir \in Directions : phase # dir
    BY <1>3 DEF Directions
  <2>2. WalkType'
    <3>1. Edges' = Edges
      BY <1>3 DEF Edges, PodEdges
    <3>2. WalkType
      BY <1>1 DEF WalkInv
    <3>3. IsInjective(toVisit')
      BY <1>3, <3>2 DEF WalkType
    <3>. QED
      BY <1>3, <3>1, <3>2, <3>3 DEF WalkType, IsInjective
  <2>. QED
    BY <1>1, <1>3, <2>1, <2>2 DEF WalkInv, Directions
<1>. QED
  BY <1>4, <1>7, <1>8 DEF ViewInv

(* What the layout's part of the invariant is about does not change. *)
LEMMA LayoutStays ==
  ASSUME GraphType, LayoutInv, UNCHANGED <<graph, layoutVars>>,
         phase' # "layout" => Done = Services
  PROVE  GraphType' /\ LayoutInv'
<1>1. /\ structuralEdges' = structuralEdges /\ parent' = parent
      /\ inDegree' = inDegree /\ level' = level /\ queue' = queue /\ order' = order
  BY DEF graph, layoutVars
<1>2. GraphType'
  BY <1>1 DEF GraphType
<1>3. /\ Done' = Done /\ Acyclic' = Acyclic
      /\ \A t : Into(t)' = Into(t)
      /\ \A t : LevelOf(t)' = LevelOf(t)
  BY <1>1 DEF Done, Acyclic, Into, LevelOf
<1>4. CountsAreExact'
  <2>1. \A t : Awaited(t)' = Awaited(t)
    BY <1>3 DEF Awaited
  <2>. QED
    BY <1>1, <1>3, <2>1 DEF LayoutInv, CountsAreExact
<1>5. LevelsRise'
  <2>1. \A t, u : DoneBefore(t, u)' = DoneBefore(t, u)
    BY <1>1 DEF DoneBefore
  <2>. QED
    BY <1>1, <1>3, <2>1 DEF LayoutInv, LevelsRise
<1>6. LayoutType'
  BY <1>1 DEF LayoutInv, LayoutType, IsInjective
<1>7. Range(queue)' = {t \in Services : inDegree[t] = 0}'
  BY <1>1 DEF LayoutInv
<1>. QED
  BY <1>2, <1>3, <1>4, <1>5, <1>6, <1>7 DEF LayoutInv

LEMMA StartIsExact ==
  ASSUME Init
  PROVE  ViewInv
<1>1. GraphType
  BY DEF Init, GraphType
<1>. DEFINE roots == {s \in Services : Into(s) = {}}
<1>2. /\ inDegree = [s \in Services |-> Cardinality(Into(s))]
      /\ queue = Listed(roots)
      /\ level = [s \in roots |-> 0]
      /\ order = <<>>
      /\ phase = "layout" /\ focus = NoNode /\ visited = {} /\ toVisit = <<>>
      /\ reached = [dir \in Directions |-> {}]
      /\ reachedEdges = [dir \in Directions |-> {}]
  BY DEF Init, StartLayout, Directions
<1>3. Done = {} /\ order \in Seq(Services) /\ IsInjective(order)
  BY <1>2 DEF Done, Range, IsInjective
<1>4. ASSUME NEW t \in Services
      PROVE  /\ Awaited(t) = Into(t) /\ inDegree[t] = Cardinality(Into(t))
             /\ inDegree[t] \in Nat /\ (inDegree[t] = 0 <=> Into(t) = {})
  <2>1. Into(t) \in SUBSET structuralEdges
    BY <1>1, CallsAre
  <2>2. IsFiniteSet(Into(t)) /\ Cardinality(Into(t)) \in Nat
    BY <1>1, <2>1, CallsAre
  <2>3. Cardinality(Into(t)) = 0 <=> Into(t) = {}
    BY <2>2, FS_EmptySet
  <2>. QED
    BY <1>2, <1>3, <2>2, <2>3 DEF Awaited
<1>5. CountsAreExact
  BY <1>3, <1>4 DEF CountsAreExact
<1>6. roots \in SUBSET Services
  OBVIOUS
<1>7. queue \in Seq(roots) /\ IsInjective(queue) /\ Range(queue) = roots
  BY <1>2, <1>6, ListedIs
<1>8. roots = {t \in Services : inDegree[t] = 0}
  BY <1>4
<1>9. inDegree \in [Services -> Int]
  <2>1. \A t \in Services : inDegree[t] \in Int
    BY <1>4
  <2>. QED
    BY <1>2, <2>1
<1>10. LayoutType
  BY <1>2, <1>3, <1>6, <1>7, <1>9 DEF LayoutType
<1>11. LevelsRise
  BY <1>3 DEF LevelsRise
<1>12. LayoutInv
  BY <1>2, <1>5, <1>7, <1>8, <1>10, <1>11 DEF LayoutInv
<1>13. WalkInv
  <2>1. toVisit \in Seq(visited) /\ IsInjective(toVisit)
    BY <1>2 DEF IsInjective
  <2>2. WalkType
    BY <1>2, <2>1 DEF WalkType
  <2>. QED
    BY <1>2, <2>2 DEF WalkInv, Directions
<1>. QED
  BY <1>1, <1>12, <1>13 DEF ViewInv

LEMMA LayoutEndsKeeps ==
  ASSUME ViewInv, LayoutEnds
  PROVE  ViewInv'
<1>1. GraphType /\ LayoutInv /\ WalkInv
  BY DEF ViewInv
<1>2. /\ phase = "layout" /\ phase' = "shown" /\ Len(order) = Cardinality(Services)
      /\ UNCHANGED <<graph, layoutVars>> /\ UNCHANGED <<focus, visited, toVisit, reached, reachedEdges>>
  BY DEF LayoutEnds, walkVars
<1>3. Done = Services
  BY <1>1, <1>2, SomeAreToCome DEF LayoutInv
<1>4. GraphType' /\ LayoutInv'
  BY <1>1, <1>2, <1>3, LayoutStays
<1>5. focus' = NoNode
  BY <1>1, <1>2 DEF WalkInv
<1>6. WalkType'
  <2>1. Edges' = Edges
    BY <1>2 DEF Edges, PodEdges, graph
  <2>2. WalkType
    BY <1>1 DEF WalkInv
  <2>. QED
    BY <1>2, <2>1, <2>2 DEF WalkType, IsInjective
<1>7. WalkInv'
  BY <1>2, <1>5, <1>6 DEF WalkInv, Directions
<1>. QED
  BY <1>4, <1>7 DEF ViewInv

-----------------------------------------------------------------------------
(* The walk *)

LEMMA EdgesAre ==
  ASSUME GraphType
  PROVE  /\ IsFiniteSet(Nodes)
         /\ \A e \in Edges, dir \in Directions : Beyond(dir, e) \in Nodes
<1>1. IsFiniteSet(Nodes)
  BY GraphAssumption, FS_Union DEF Nodes
<1>2. \A e \in structuralEdges : e.source \in Nodes /\ e.target \in Nodes
  BY CallsAre DEF Nodes
<1>3. \A e \in PodEdges : e.source \in Nodes /\ e.target \in Nodes
  BY DEF GraphType, PodEdges, Nodes
<1>. QED
  BY <1>1, <1>2, <1>3 DEF Edges, Beyond

LEMMA EdgesStay ==
  ASSUME UNCHANGED graph
  PROVE  /\ Edges' = Edges
         /\ \A dir, n : Leaving(dir, n)' = Leaving(dir, n)
<1>1. Edges' = Edges
  BY DEF graph, Edges, PodEdges
<1>. QED
  BY <1>1 DEF Leaving

LEMMA ClosureStays ==
  ASSUME UNCHANGED graph, focus' = focus
  PROVE  \A S, dir : Closed(S, dir)' = Closed(S, dir)
<1>1. \A dir, n : Leaving(dir, n)' = Leaving(dir, n)
  BY EdgesStay
<1>. QED
  BY <1>1 DEF Closed

LEMMA ExactStays ==
  ASSUME UNCHANGED graph, focus' = focus, NEW dir \in Directions,
         reached'[dir] = reached[dir], reachedEdges'[dir] = reachedEdges[dir], Exact(dir)
  PROVE  Exact(dir)'
<1>1. \A n : Leaving(dir, n)' = Leaving(dir, n)
  BY EdgesStay
<1>2. \A S : Closed(S, dir)' = Closed(S, dir)
  BY ClosureStays
<1>3. Closed(reached[dir], dir)'
  BY <1>1 DEF Exact, Closed
<1>4. reachedEdges'[dir] = UNION {Leaving(dir, n)' : n \in reached'[dir]}
  BY <1>1 DEF Exact
<1>. QED
  BY <1>2, <1>3, <1>4 DEF Exact

LEMMA ClickKeeps ==
  ASSUME ViewInv, NEW n \in Nodes, onNodeClick(n)
  PROVE  ViewInv'
<1>1. GraphType /\ LayoutInv /\ WalkInv
  BY DEF ViewInv
<1>2. /\ phase = "shown" /\ phase' = "up" /\ focus' = n /\ visited' = {n} /\ toVisit' = <<n>>
      /\ reached' = [dir \in Directions |-> {}]
      /\ reachedEdges' = [dir \in Directions |-> {}]
      /\ UNCHANGED <<graph, layoutVars>>
  BY DEF onNodeClick, Directions
<1>3. GraphType' /\ LayoutInv'
  BY <1>1, <1>2, LayoutStays DEF LayoutInv
<1>4. DOMAIN toVisit' = {1} /\ toVisit'[1] = n
  BY <1>2
<1>5. Range(toVisit') = {n} /\ IsInjective(toVisit)'
  BY <1>4 DEF Range, IsInjective
<1>6. WalkType'
  <2>1. toVisit' \in Seq(visited')
    BY <1>2
  <2>. QED
    BY <1>2, <1>5, <2>1 DEF WalkType, Directions
<1>7. WalkIsSound("up")'
  <2>1. \A S : Closed(S, "up")' => n \in S
    BY <1>2 DEF Closed
  <2>2. reachedEdges'["up"] = {}
    BY <1>2 DEF Directions
  <2>. QED
    BY <1>2, <1>5, <2>1, <2>2 DEF WalkIsSound
<1>8. reachedEdges'["down"] = {}
  BY <1>2 DEF Directions
<1>9. WalkInv'
  BY <1>2, <1>6, <1>7, <1>8 DEF WalkInv, Directions
<1>. QED
  BY <1>3, <1>9 DEF ViewInv

(* The list of nodes to leave, after the first has been left. *)
LEMMA NodesToLeave ==
  ASSUME WalkType, toVisit # <<>>, NEW new \in SUBSET Nodes, IsFiniteSet(new),
         new \cap visited = {}, NEW next \in SetToSeqs(new)
  PROVE  /\ Head(toVisit) \in visited
         /\ Tail(toVisit) \o next \in Seq(visited \cup new)
         /\ IsInjective(Tail(toVisit) \o next)
         /\ Range(Tail(toVisit) \o next) = (Range(toVisit) \ {Head(toVisit)}) \cup new
<1>1. toVisit \in Seq(visited) /\ IsInjective(toVisit)
  BY DEF WalkType
<1>2. /\ Head(toVisit) \in Range(toVisit) /\ Tail(toVisit) \in Seq(visited)
      /\ IsInjective(Tail(toVisit))
      /\ Range(Tail(toVisit)) = Range(toVisit) \ {Head(toVisit)}
  BY <1>1, TakenFromList
<1>3. next \in Seq(new) /\ IsInjective(next) /\ Range(next) = new
  BY AnyOrder
<1>4. Range(toVisit) \subseteq visited
  BY <1>1 DEF Range
<1>5. Tail(toVisit) \in Seq(visited \cup new) /\ next \in Seq(visited \cup new)
  BY <1>2, <1>3
<1>6. Range(Tail(toVisit)) \cap Range(next) = {}
  BY <1>2, <1>3, <1>4
<1>. QED
  <2>1. /\ Tail(toVisit) \o next \in Seq(visited \cup new)
        /\ IsInjective(Tail(toVisit) \o next)
        /\ Range(Tail(toVisit) \o next) = Range(Tail(toVisit)) \cup Range(next)
    <3>1. PICK V : V = visited \cup new
      OBVIOUS
    <3>2. PICK a \in Seq(V), b \in Seq(V) : a = Tail(toVisit) /\ b = next
      BY <1>5, <3>1
    <3>3. IsInjective(a) /\ IsInjective(b) /\ Range(a) \cap Range(b) = {}
      BY <1>2, <1>3, <1>6, <3>2
    <3>4. a \o b \in Seq(V) /\ IsInjective(a \o b) /\ Range(a \o b) = Range(a) \cup Range(b)
      BY <3>3, ConcatIsInjective
    <3>. QED
      BY <3>1, <3>2, <3>4
  <2>. QED
    BY <1>2, <1>3, <1>4, <2>1

LEMMA WalkStepKeeps ==
  ASSUME ViewInv, NEW dir \in Directions, WalkStep(dir)
  PROVE  ViewInv'
<1>. DEFINE left == Head(toVisit)
            found == Leaving(dir, left)
            new == {Beyond(dir, e) : e \in found} \ visited
<1>1. GraphType /\ LayoutInv /\ WalkInv /\ WalkType /\ WalkIsSound(dir)
  BY DEF ViewInv, WalkInv, WalkStep
<1>2. /\ phase = dir /\ phase' = dir /\ focus' = focus /\ toVisit # <<>>
      /\ UNCHANGED <<graph, layoutVars>>
  BY DEF WalkStep
<1>3. PICK next \in SetToSeqs(new) : toVisit' = Tail(toVisit) \o next
  BY DEF WalkStep
<1>4. /\ visited' = visited \cup new
      /\ reached' = [reached EXCEPT ![dir] = visited \cup new]
      /\ reachedEdges' = [reachedEdges EXCEPT ![dir] = @ \cup found]
  BY DEF WalkStep
<1>5. GraphType' /\ LayoutInv'
  <2>1. Done = Services
    BY <1>1, <1>2 DEF LayoutInv, Directions
  <2>. QED
    BY <1>1, <1>2, <2>1, LayoutStays
<1>6. found \subseteq Edges
  BY DEF Leaving
<1>7. new \in SUBSET Nodes /\ IsFiniteSet(new)
  <2>1. new \in SUBSET Nodes
    BY <1>1, <1>6, EdgesAre
  <2>. QED
    BY <1>1, <2>1, EdgesAre, FS_Subset
<1>8. /\ left \in visited
      /\ toVisit' \in Seq(visited') /\ IsInjective(toVisit')
      /\ Range(toVisit') = (Range(toVisit) \ {left}) \cup new
  BY <1>1, <1>2, <1>3, <1>4, <1>7, NodesToLeave
<1>9. Edges' = Edges /\ \A d, n : Leaving(d, n)' = Leaving(d, n)
  BY <1>2, EdgesStay
<1>10. /\ reached'[dir] = visited' /\ reachedEdges'[dir] = reachedEdges[dir] \cup found
       /\ \A d \in Directions : d # dir => reached'[d] = reached[d] /\ reachedEdges'[d] = reachedEdges[d]
  BY <1>1, <1>4 DEF WalkType
<1>11. WalkType'
  <2>1. visited' \subseteq Nodes
    BY <1>1, <1>4, <1>7 DEF WalkType
  <2>2. reached' \in [Directions -> SUBSET Nodes]
    BY <1>1, <1>4, <2>1 DEF WalkType
  <2>3. reachedEdges' \in [Directions -> SUBSET Edges]
    BY <1>1, <1>4, <1>6 DEF WalkType
  <2>4. IsInjective(toVisit)'
    BY <1>8 DEF IsInjective
  <2>. QED
    BY <1>1, <1>2, <1>8, <1>9, <2>1, <2>2, <2>3, <2>4 DEF WalkType
<1>12. WalkIsSound(dir)'
  <2>1. ASSUME NEW S \in SUBSET Nodes, Closed(S, dir)' PROVE visited' \subseteq S
    <3>1. Closed(S, dir)
      BY <1>2, <2>1, ClosureStays
    <3>2. visited \subseteq S
      BY <1>1, <3>1 DEF WalkIsSound
    <3>3. {Beyond(dir, e) : e \in found} \subseteq S
      BY <1>8, <3>1, <3>2 DEF Closed
    <3>. QED
      BY <1>4, <3>2, <3>3
  <2>2. ASSUME NEW n \in visited' \ Range(toVisit'), NEW e \in Leaving(dir, n)
        PROVE  e \in reachedEdges'[dir] /\ Beyond(dir, e) \in visited'
    <3>1. CASE n = left
      BY <1>4, <1>10, <2>2, <3>1
    <3>2. CASE n # left
      <4>1. n \in visited \ Range(toVisit)
        BY <1>4, <1>8, <2>2, <3>2
      <4>2. e \in reachedEdges[dir] /\ Beyond(dir, e) \in visited
        BY <1>1, <2>2, <4>1 DEF WalkIsSound
      <4>. QED
        BY <1>4, <1>10, <4>2
    <3>. QED
      BY <3>1, <3>2
  <2>3. ASSUME NEW e \in reachedEdges'[dir] PROVE \E n \in visited' : e \in Leaving(dir, n)
    <3>1. CASE e \in found
      BY <1>4, <1>8, <3>1
    <3>2. CASE e \in reachedEdges[dir]
      BY <1>1, <1>4, <3>2 DEF WalkIsSound
    <3>. QED
      BY <1>10, <2>3, <3>1, <3>2
  <2>4. focus' \in Nodes /\ focus' \in visited'
    BY <1>1, <1>2, <1>4 DEF WalkIsSound
  <2>5. \A n \in visited' \ Range(toVisit') : \A e \in Leaving(dir, n)' :
          e \in reachedEdges'[dir] /\ Beyond(dir, e) \in visited'
    BY <1>9, <2>2
  <2>6. \A e \in reachedEdges'[dir] : \E n \in visited' : e \in Leaving(dir, n)'
    BY <1>9, <2>3
  <2>. QED
    BY <1>10, <2>1, <2>4, <2>5, <2>6 DEF WalkIsSound, Beyond
<1>13. WalkInv'
  <2>1. dir = "up" => reachedEdges'["down"] = {}
    BY <1>1, <1>2, <1>10 DEF WalkInv, Directions
  <2>2. dir = "down" => Exact("up")'
    <3>. SUFFICES ASSUME dir = "down" PROVE Exact("up")'
      OBVIOUS
    <3>1. Exact("up") /\ "up" \in Directions /\ "up" # dir
      BY <1>1, <1>2 DEF WalkInv, Directions
    <3>2. reached'["up"] = reached["up"] /\ reachedEdges'["up"] = reachedEdges["up"]
      BY <1>10, <3>1
    <3>. QED
      BY <1>2, <3>1, <3>2, ExactStays
  <2>3. dir # "layout" /\ dir # "shown"
    BY DEF Directions
  <2>. QED
    BY <1>2, <1>11, <1>12, <2>1, <2>2, <2>3 DEF WalkInv
<1>. QED
  BY <1>5, <1>13 DEF ViewInv

LEMMA WalkEndsKeeps ==
  ASSUME ViewInv, NEW dir \in Directions, WalkEnds(dir)
  PROVE  ViewInv'
<1>1. GraphType /\ LayoutInv /\ WalkInv /\ WalkType /\ WalkIsSound(dir)
  BY DEF ViewInv, WalkInv, WalkEnds
<1>2. /\ phase = dir /\ toVisit = <<>> /\ focus' = focus /\ focus \in Nodes
      /\ phase' = (IF dir = "up" THEN "down" ELSE "shown")
      /\ visited' = {focus} /\ toVisit' = (IF dir = "up" THEN <<focus>> ELSE <<>>)
      /\ UNCHANGED <<graph, layoutVars>> /\ UNCHANGED <<reached, reachedEdges>>
  BY <1>1 DEF WalkEnds, WalkIsSound
<1>3. GraphType' /\ LayoutInv'
  <2>1. Done = Services
    BY <1>1, <1>2 DEF LayoutInv, Directions
  <2>. QED
    BY <1>1, <1>2, <2>1, LayoutStays
<1>4. Exact(dir)
  <2>1. Range(toVisit) = {}
    BY <1>2 DEF Range
  <2>2. reached[dir] = visited
    BY <1>1, <2>1 DEF WalkIsSound
  <2>3. Closed(visited, dir)
    BY <1>1, <2>1 DEF WalkIsSound, Closed
  <2>4. reachedEdges[dir] = UNION {Leaving(dir, n) : n \in visited}
    BY <1>1, <2>1 DEF WalkIsSound
  <2>. QED
    BY <1>1, <2>2, <2>3, <2>4 DEF WalkIsSound, Exact
<1>5. \A d \in Directions : Exact(d) => Exact(d)'
  BY <1>2, ExactStays
<1>6. WalkType'
  <2>1. DOMAIN <<focus>> = {1} /\ DOMAIN <<>> = {}
    OBVIOUS
  <2>2. IsInjective(<<focus>>) /\ IsInjective(<<>>)
    BY <2>1 DEF IsInjective
  <2>3. IsInjective(toVisit')
    BY <1>2, <2>2
  <2>4. toVisit' \in Seq(visited')
    <3>1. <<focus>> \in Seq({focus}) /\ <<>> \in Seq({focus})
      OBVIOUS
    <3>. QED
      BY <1>2, <3>1
  <2>5. Edges' = Edges
    BY <1>2, EdgesStay
  <2>6. IsInjective(toVisit)'
    BY <2>3 DEF IsInjective
  <2>. QED
    BY <1>1, <1>2, <2>4, <2>5, <2>6 DEF WalkType, Directions
<1>7. CASE dir = "up"
  <2>1. DOMAIN toVisit' = {1} /\ toVisit'[1] = focus
    BY <1>2, <1>7
  <2>2. Range(toVisit') = {focus}
    BY <2>1 DEF Range
  <2>3. reachedEdges'["down"] = {}
    BY <1>1, <1>2, <1>7 DEF WalkInv
  <2>4. \A S : Closed(S, "down")' => focus \in S
    BY <1>2 DEF Closed
  <2>5. WalkIsSound("down")'
    BY <1>2, <2>2, <2>3, <2>4 DEF WalkIsSound
  <2>6. Exact("up")'
    BY <1>4, <1>5, <1>7
  <2>. QED
    BY <1>2, <1>3, <1>6, <1>7, <2>5, <2>6 DEF ViewInv, WalkInv, Directions
<1>8. CASE dir = "down"
  <2>1. Exact("up") /\ Exact("down")
    BY <1>1, <1>2, <1>4, <1>8 DEF WalkInv
  <2>2. \A d \in Directions : Exact(d)'
    BY <1>5, <2>1 DEF Directions
  <2>. QED
    BY <1>2, <1>3, <1>6, <1>8, <2>2 DEF ViewInv, WalkInv, Directions
<1>. QED
  BY <1>7, <1>8 DEF Directions

-----------------------------------------------------------------------------
(* The theorems *)

LEMMA Stutter ==
  ASSUME ViewInv, UNCHANGED vars
  PROVE  ViewInv'
<1>1. GraphType /\ LayoutInv /\ WalkInv
  BY DEF ViewInv
<1>2. /\ UNCHANGED <<graph, layoutVars>> /\ phase' = phase /\ focus' = focus
      /\ visited' = visited /\ toVisit' = toVisit /\ reached' = reached
      /\ reachedEdges' = reachedEdges
  BY DEF vars, graph, layoutVars, walkVars
<1>3. GraphType' /\ LayoutInv'
  BY <1>1, <1>2, LayoutStays DEF LayoutInv
<1>4. Edges' = Edges /\ \A d, n : Leaving(d, n)' = Leaving(d, n)
  BY <1>2, EdgesStay
<1>5. WalkType'
  BY <1>1, <1>2, <1>4 DEF WalkInv, WalkType, IsInjective
<1>6. ASSUME NEW dir \in Directions, WalkIsSound(dir) PROVE WalkIsSound(dir)'
  <2>1. \A S : Closed(S, dir)' = Closed(S, dir)
    BY <1>2, ClosureStays
  <2>. QED
    BY <1>2, <1>4, <1>6, <2>1 DEF WalkIsSound, Beyond
<1>7. \A dir \in Directions : Exact(dir) => Exact(dir)'
  BY <1>2, ExactStays
<1>8. WalkInv'
  BY <1>1, <1>2, <1>5, <1>6, <1>7 DEF WalkInv, Directions
<1>. QED
  BY <1>3, <1>8 DEF ViewInv

(* Whatever the graph, every turn of the two loops keeps the counts, the levels
   and the walk as they should be. *)
THEOREM ViewIsExact == Spec => []ViewInv
<1>1. Init => ViewInv
  BY StartIsExact
<1>2. ViewInv /\ [Next]_vars => ViewInv'
  <2>. SUFFICES ASSUME ViewInv, [Next]_vars PROVE ViewInv'
    OBVIOUS
  <2>1. CASE LayoutStep
    BY <2>1, LayoutStepKeeps
  <2>2. CASE LayoutEnds
    BY <2>2, LayoutEndsKeeps
  <2>3. ASSUME NEW n \in Nodes, onNodeClick(n) PROVE ViewInv'
    BY <2>3, ClickKeeps
  <2>4. ASSUME NEW dir \in Directions, WalkStep(dir) PROVE ViewInv'
    BY <2>4, WalkStepKeeps
  <2>5. ASSUME NEW dir \in Directions, WalkEnds(dir) PROVE ViewInv'
    BY <2>5, WalkEndsKeeps
  <2>6. CASE UNCHANGED vars
    BY <2>6, Stutter
  <2>. QED
    BY <2>1, <2>2, <2>3, <2>4, <2>5, <2>6 DEF Next, Directions
<1>. QED
  BY <1>1, <1>2, PTL DEF Spec

(* The types; the history lists exactly the services that are counted off. *)
THEOREM ViewTypes == Spec => []TypeOK
<1>1. ViewInv => TypeOK
  <2>. SUFFICES ASSUME ViewInv PROVE TypeOK
    OBVIOUS
  <2>1. GraphType /\ LayoutType /\ CountsAreExact /\ WalkType
    BY DEF ViewInv, LayoutInv, WalkInv
  <2>2. Range(queue) \cup Range(order) \subseteq Services /\ IsInjective(order)
    BY <2>1 DEF LayoutType, Range
  <2>3. Done = {s \in Services : inDegree[s] = -1}
    <3>1. ASSUME NEW s \in Services PROVE s \in Done <=> inDegree[s] = -1
      <4>1. CASE s \in Done
        BY <2>1, <4>1, CountsAre
      <4>2. CASE s \notin Done
        <5>1. inDegree[s] \in Nat
          BY <2>1, <4>2, CountsAre
        <5>. QED
          BY <4>2, <5>1
      <4>. QED
        BY <4>1, <4>2
    <3>2. Done \subseteq Services
      BY <2>2 DEF Done
    <3>. QED
      BY <3>1, <3>2
  <2>4. visited \cup Range(toVisit) \subseteq Nodes
    BY <2>1 DEF WalkType, Range
  <2>. QED
    BY <2>1, <2>2, <2>3, <2>4 DEF TypeOK, GraphType, LayoutType, WalkType, Directions, Done
<1>. QED
  BY <1>1, ViewIsExact, PTL

(* In every layout the callers stand above what they call, save for cycles. *)
THEOREM CallersStandAbove == Spec => []CallsRunDown
<1>1. ViewInv => CallsRunDown
  <2>. SUFFICES ASSUME ViewInv, phase # "layout", NEW e \in structuralEdges
                PROVE  \/ LevelOf(e.source) < LevelOf(e.target)
                       \/ ~Acyclic /\ DoneBefore(e.target, e.source)
    BY DEF CallsRunDown, DoneBefore
  <2>1. e.source \in Services
    BY CallsAre DEF ViewInv
  <2>2. Done = Services /\ LevelsRise
    BY DEF ViewInv, LayoutInv
  <2>. QED
    BY <2>1, <2>2 DEF LevelsRise
<1>. QED
  BY <1>1, ViewIsExact, PTL

(* After a click the page shows all that the clicked node's failure touches, and
   all that the node rests on, and nothing else. *)
THEOREM WalksAreExact == Spec => []BlastRadiusIsExact
<1>1. ViewInv => BlastRadiusIsExact
  <2>. SUFFICES ASSUME ViewInv, phase = "shown", focus # NoNode
                PROVE  \A dir \in Directions : Exact(dir)
    BY DEF BlastRadiusIsExact, Exact, Directions
  <2>. QED
    BY DEF ViewInv, WalkInv
<1>. QED
  BY <1>1, ViewIsExact, PTL

-----------------------------------------------------------------------------
(* Room for every node *)

(* Pods of one service have places of their own, and no level is deeper than there
   are services. *)
PlacesAreOwn ==
  /\ place \in [Pods -> Places]
  /\ \A p \in Pods : place[p] < Cardinality(Siblings(parent[p]))
  /\ \A p, q \in Pods : parent[p] = parent[q] /\ place[p] = place[q] => p = q

LevelsAreFew ==
  \A s \in Services : LevelOf(s) <= Len(order) /\ LevelOf(s) < Cardinality(Services)

SpaceInv == PlacesAreOwn /\ LevelsAreFew

LEMMA LevelsStayFew ==
  ASSUME ViewInv, ViewInv', SpaceInv, LayoutStep
  PROVE  LevelsAreFew'
<1>1. GraphType /\ LayoutInv /\ LayoutType /\ LayoutType'
  BY DEF ViewInv, LayoutInv
<1>2. PICK s \in Services, called \in SUBSET Services : TurnOf(s, called)
  BY <1>1, LayoutStepIsATurn
<1>3. PICK n \in Nat, c \in Nat : n = Len(order) /\ c = Cardinality(Services)
  BY <1>1, SomeAreToCome
<1>4. Len(order') = n + 1 /\ Done' = Done \cup {s}
  <2>1. DOMAIN order' = 1 .. n + 1
    BY <1>1, <1>2, <1>3, TurnCountsOff
  <2>2. Len(order') \in Nat /\ DOMAIN order' = 1 .. Len(order')
    BY <1>1, LenProperties DEF LayoutType
  <2>3. ASSUME NEW l \in Nat, 1 .. n + 1 = 1 .. l PROVE l = n + 1
    <3>1. n + 1 \in 1 .. l
      BY <2>3
    <3>2. l \in 1 .. n + 1
      BY <2>3, <3>1
    <3>. QED
      BY <3>1, <3>2
  <2>. QED
    BY <1>1, <1>2, <2>1, <2>2, <2>3, TurnCountsOff
<1>5. (Len(order') = c <=> Done' = Services) /\ Len(order') <= c
  <2>1. (LayoutType => (Len(order) = Cardinality(Services) <=> Done = Services)
                       /\ Len(order) <= Cardinality(Services))'
    BY SomeAreToCome, PTL
  <2>. QED
    BY <1>1, <1>3, <2>1
<1>6. /\ \A t \in Services : LevelOf(t) \in Nat /\ LevelOf(t)' \in Nat
      /\ \A t \in Services \ called : LevelOf(t)' = LevelOf(t)
      /\ \A t \in called : LevelOf(t)' \in {LevelOf(t), LevelOf(s) + 1}
  BY <1>1, <1>2, TurnKeepsLevels, LevelsAre
<1>7. \A t \in Services : LevelOf(t) <= n /\ LevelOf(t) < c
  BY <1>3 DEF SpaceInv, LevelsAreFew
<1>8. ASSUME NEW t \in called PROVE n + 1 < c
  <2>1. t # s /\ t \notin Done
    BY <1>1, <1>2, CountsAre DEF TurnOf, LayoutInv
  <2>2. Len(order') # c
    BY <1>4, <1>5, <2>1
  <2>. QED
    BY <1>4, <1>5, <2>2
<1>9. ASSUME NEW t \in Services PROVE LevelOf(t)' <= n + 1 /\ LevelOf(t)' < c
  <2>1. LevelOf(t) \in Nat /\ LevelOf(s) \in Nat /\ LevelOf(t) <= n /\ LevelOf(s) <= n /\ LevelOf(t) < c
    BY <1>6, <1>7
  <2>2. CASE LevelOf(t)' = LevelOf(t)
    BY <2>1, <2>2
  <2>3. CASE t \in called /\ LevelOf(t)' = LevelOf(s) + 1
    <3>1. n + 1 < c
      BY <1>8, <2>3
    <3>. QED
      BY <2>1, <2>3, <3>1
  <2>. QED
    BY <1>6, <2>2, <2>3
<1>. QED
  BY <1>3, <1>4, <1>9 DEF LevelsAreFew

(* The pods of a service keep places of their own, and there are fewer levels than
   services, so that every band lies above the bottom. *)
THEOREM SpacesAreKept == Spec => []SpaceInv
<1>1. Init => SpaceInv
  <2>. SUFFICES ASSUME Init PROVE SpaceInv
    OBVIOUS
  <2>1. PlacesAreOwn
    BY DEF Init, PlacesAreOwn
  <2>2. ASSUME NEW s \in Services
        PROVE  LevelOf(s) <= Len(order) /\ LevelOf(s) < Cardinality(Services)
    <3>1. LevelOf(s) = 0 /\ Len(order) = 0
      BY DEF Init, StartLayout, LevelOf
    <3>2. Cardinality(Services) \in Nat /\ Cardinality(Services) # 0
      BY GraphAssumption, FS_CardinalityType, FS_EmptySet
    <3>. QED
      BY <3>1, <3>2
  <2>. QED
    BY <2>1, <2>2 DEF SpaceInv, LevelsAreFew
<1>2. ViewInv /\ ViewInv' /\ SpaceInv /\ [Next]_vars => SpaceInv'
  <2>. SUFFICES ASSUME ViewInv, ViewInv', SpaceInv, [Next]_vars PROVE SpaceInv'
    OBVIOUS
  <2>1. UNCHANGED graph
    BY DEF Next, LayoutStep, LayoutEnds, onNodeClick, WalkStep, WalkEnds, vars
  <2>2. PlacesAreOwn'
    BY <2>1 DEF SpaceInv, PlacesAreOwn, Siblings, graph
  <2>3. CASE LayoutStep
    BY <2>2, <2>3, LevelsStayFew DEF SpaceInv
  <2>4. CASE UNCHANGED layoutVars
    BY <2>2, <2>4 DEF SpaceInv, LevelsAreFew, LevelOf, layoutVars
  <2>. QED
    BY <2>3, <2>4 DEF Next, LayoutEnds, onNodeClick, WalkStep, WalkEnds, vars
<1>. QED
  BY <1>1, <1>2, ViewIsExact, PTL DEF Spec

(* Running sums, by which the bands of the levels lie: g is one up to n. *)
IsRunningSum(g, n, a, b) ==
  /\ g \in [0 .. n -> Int] /\ g[0] = a
  /\ \A k \in 1 .. n : g[k] = g[k - 1] + b[k - 1]

LEMMA RunningSumsExist ==
  ASSUME NEW b \in [Nat -> Int], NEW a \in Int, NEW n \in Nat
  PROVE  \E g : IsRunningSum(g, n, a, b)
<1>. DEFINE U == {m \in Nat : ~ \E g : IsRunningSum(g, m, a, b)}
<1>. SUFFICES ASSUME U # {} PROVE FALSE
  OBVIOUS
<1>1. U \in SUBSET Nat
  OBVIOUS
<1>. HIDE DEF U
<1>2. PICK m \in U : \A l \in U : m <= l
  BY <1>1, LeastNumber
<1>3. m \in Nat /\ ~ \E g : IsRunningSum(g, m, a, b)
  BY DEF U
<1>4. m # 0
  <2>. SUFFICES ASSUME m = 0 PROVE FALSE
    OBVIOUS
  <2>1. IsRunningSum([k \in 0 .. 0 |-> a], 0, a, b)
    BY DEF IsRunningSum
  <2>. QED
    BY <1>3, <2>1
<1>5. m - 1 \in Nat /\ m - 1 \notin U
  BY <1>2, <1>3, <1>4
<1>6. PICK g : IsRunningSum(g, m - 1, a, b)
  BY <1>5 DEF U
<1>7. /\ g \in [0 .. m - 1 -> Int] /\ g[0] = a
      /\ \A k \in 1 .. m - 1 : g[k] = g[k - 1] + b[k - 1]
  BY <1>6 DEF IsRunningSum
<1>. DEFINE h == [k \in 0 .. m |-> IF k = m THEN g[m - 1] + b[m - 1] ELSE g[k]]
<1>8. \A k \in 0 .. m : k # m => k \in 0 .. m - 1 /\ h[k] = g[k]
  BY <1>3
<1>9. m - 1 \in 0 .. m - 1 /\ m - 1 \in Nat /\ m \in 0 .. m /\ 0 \in 0 .. m
  BY <1>3, <1>5
<1>10. g[m - 1] \in Int /\ b[m - 1] \in Int /\ h[m] = g[m - 1] + b[m - 1]
  BY <1>7, <1>9
<1>11. h \in [0 .. m -> Int]
  BY <1>7, <1>8, <1>10
<1>12. ASSUME NEW k \in 1 .. m PROVE h[k] = h[k - 1] + b[k - 1]
  <2>1. k \in 0 .. m /\ k - 1 \in 0 .. m /\ k - 1 # m
    BY <1>3
  <2>2. h[k - 1] = g[k - 1]
    BY <1>8, <2>1
  <2>3. CASE k = m
    BY <1>10, <2>2, <2>3
  <2>4. CASE k # m
    <3>1. k \in 1 .. m - 1 /\ h[k] = g[k]
      BY <1>3, <1>8, <2>1, <2>4
    <3>. QED
      BY <1>7, <2>2, <3>1
  <2>. QED
    BY <2>3, <2>4
<1>13. h[0] = a
  BY <1>4, <1>7, <1>8, <1>9
<1>. HIDE DEF h
<1>14. IsRunningSum(h, m, a, b)
  BY <1>11, <1>12, <1>13 DEF IsRunningSum
<1>. QED
  BY <1>3, <1>14

LEMMA RunningSumsAgree ==
  ASSUME NEW b \in [Nat -> Int], NEW a \in Int, NEW n \in Nat, NEW m \in Nat,
         NEW g, IsRunningSum(g, n, a, b), NEW h, IsRunningSum(h, m, a, b)
  PROVE  \A k \in Nat : k <= n /\ k <= m => g[k] = h[k]
<1>. DEFINE U == {k \in Nat : k <= n /\ k <= m /\ g[k] # h[k]}
<1>. SUFFICES ASSUME U # {} PROVE FALSE
  OBVIOUS
<1>1. U \in SUBSET Nat
  OBVIOUS
<1>. HIDE DEF U
<1>2. PICK k \in U : \A l \in U : k <= l
  BY <1>1, LeastNumber
<1>3. k \in Nat /\ k <= n /\ k <= m /\ g[k] # h[k]
  BY DEF U
<1>4. k # 0
  BY <1>3 DEF IsRunningSum
<1>5. /\ k - 1 \in Nat /\ k - 1 \notin U /\ k - 1 <= n /\ k - 1 <= m
      /\ k \in 1 .. n /\ k \in 1 .. m
  BY <1>2, <1>3, <1>4
<1>6. g[k - 1] = h[k - 1]
  BY <1>5 DEF U
<1>7. g[k] = g[k - 1] + b[k - 1] /\ h[k] = h[k - 1] + b[k - 1]
  BY <1>5 DEF IsRunningSum
<1>. QED
  BY <1>3, <1>6, <1>7

LEMMA RunningSum ==
  ASSUME NEW b \in [Nat -> Int], NEW a \in Int
  PROVE  \E f \in [Nat -> Int] :
           f = [n \in Nat |-> IF n = 0 THEN a ELSE f[n - 1] + b[n - 1]]
<1>. DEFINE sum(n) == CHOOSE g : IsRunningSum(g, n, a, b)
            f == [n \in Nat |-> sum(n)[n]]
<1>1. \A n \in Nat : IsRunningSum(sum(n), n, a, b)
  BY RunningSumsExist
<1>. HIDE DEF sum
<1>2. ASSUME NEW n \in Nat PROVE sum(n)[n] \in Int /\ (n = 0 => sum(n)[n] = a)
  <2>1. n \in 0 .. n
    OBVIOUS
  <2>. QED
    BY <1>1, <2>1 DEF IsRunningSum
<1>3. ASSUME NEW n \in Nat, n # 0 PROVE sum(n)[n] = sum(n - 1)[n - 1] + b[n - 1]
  <2>1. n - 1 \in Nat /\ n \in 1 .. n /\ n - 1 <= n /\ n - 1 <= n - 1
    BY <1>3
  <2>2. sum(n)[n] = sum(n)[n - 1] + b[n - 1]
    BY <1>1, <2>1 DEF IsRunningSum
  <2>3. IsRunningSum(sum(n), n, a, b) /\ IsRunningSum(sum(n - 1), n - 1, a, b)
    BY <1>1, <2>1
  <2>4. sum(n)[n - 1] = sum(n - 1)[n - 1]
    BY <2>1, <2>3, RunningSumsAgree
  <2>. QED
    BY <2>2, <2>4
<1>4. f \in [Nat -> Int]
  BY <1>2
<1>5. ASSUME NEW n \in Nat PROVE f[n] = IF n = 0 THEN a ELSE f[n - 1] + b[n - 1]
  <2>1. CASE n = 0
    BY <1>2, <2>1
  <2>2. CASE n # 0
    <3>1. n - 1 \in Nat
      BY <2>2
    <3>2. f[n] = sum(n)[n] /\ f[n - 1] = sum(n - 1)[n - 1]
      BY <3>1
    <3>. QED
      BY <1>3, <2>2, <3>2
  <2>. QED
    BY <2>1, <2>2
<1>. HIDE DEF f
<1>6. f = [n \in Nat |-> IF n = 0 THEN a ELSE f[n - 1] + b[n - 1]]
  BY <1>4, <1>5
<1>. QED
  BY <1>4, <1>6

(* A band has room for the pods of its services. *)
LEMMA BandsHold ==
  ASSUME GraphType, NEW lv
  PROVE  /\ BandAt(lv) \in Nat
         /\ \A s \in AtLevel(lv) : /\ Cardinality(Siblings(s)) \in Nat
                                   /\ BandAt(lv) >= 700
                                   /\ BandAt(lv) >= 530 + Cardinality(Siblings(s)) * 170
<1>. DEFINE C == {1} \cup {Cardinality(Siblings(s)) : s \in AtLevel(lv)}
<1>1. PICK b \in Nat : b = Cardinality(Pods)
  BY GraphAssumption, FS_CardinalityType
<1>2. \A s : Cardinality(Siblings(s)) \in Nat /\ Cardinality(Siblings(s)) <= b
  <2>. SUFFICES ASSUME NEW s
                PROVE  Cardinality(Siblings(s)) \in Nat /\ Cardinality(Siblings(s)) <= b
    OBVIOUS
  <2>1. Siblings(s) \in SUBSET Pods
    BY DEF Siblings
  <2>. QED
    BY <1>1, <2>1, GraphAssumption, FS_Subset, FS_CardinalityType
<1>3. C \in SUBSET Nat /\ C # {} /\ \A n \in C : n <= b + 1
  BY <1>2
<1>4. MostPods(lv) \in C /\ \A n \in C : n <= MostPods(lv)
  <2>. HIDE DEF C
  <2>0. PICK d \in Nat : d = b + 1
    OBVIOUS
  <2>1. Max(C) \in C /\ \A n \in C : n <= Max(C)
    BY <1>3, <2>0, GreatestNumber
  <2>. QED
    BY <2>1 DEF MostPods, C
<1>5. MostPods(lv) \in Nat /\ 1 <= MostPods(lv)
  BY <1>3, <1>4
<1>6. BandHeight(lv) + BandGap = 530 + MostPods(lv) * 170
  BY <1>5 DEF BandHeight, BandGap, ServiceRowGap, PodRowGap
<1>7. BandAt(lv) = IF AtLevel(lv) = {} THEN 0 ELSE 530 + MostPods(lv) * 170
  BY <1>6 DEF BandAt
<1>8. BandAt(lv) \in Nat
  BY <1>5, <1>7
<1>9. ASSUME NEW s \in AtLevel(lv)
      PROVE  BandAt(lv) >= 700 /\ BandAt(lv) >= 530 + Cardinality(Siblings(s)) * 170
  <2>1. Cardinality(Siblings(s)) <= MostPods(lv) /\ Cardinality(Siblings(s)) \in Nat
    BY <1>2, <1>4
  <2>2. BandAt(lv) = 530 + MostPods(lv) * 170
    BY <1>7, <1>9
  <2>. QED
    BY <1>5, <2>1, <2>2
<1>. QED
  BY <1>2, <1>8, <1>9

LEMMA LevelYIs ==
  ASSUME GraphType
  PROVE  /\ \A k \in Nat : LevelY[k] \in Int
         /\ \A k \in Nat \ {0} : LevelY[k] = LevelY[k - 1] + BandAt(k - 1)
<1>1. PICK b \in [Nat -> Int] : b = [k \in Nat |-> BandAt(k)]
  <2>1. \A k \in Nat : BandAt(k) \in Int
    BY BandsHold
  <2>2. [k \in Nat |-> BandAt(k)] \in [Nat -> Int]
    BY <2>1
  <2>. QED
    BY <2>2
<1>2. Top \in Int
  BY DEF Top
<1>3. PICK f \in [Nat -> Int] :
        f = [n \in Nat |-> IF n = 0 THEN Top ELSE f[n - 1] + b[n - 1]]
  BY <1>2, RunningSum
<1>4. \A n \in Nat \ {0} : b[n - 1] = BandAt(n - 1)
  BY <1>1
<1>5. f = [n \in Nat |-> IF n = 0 THEN Top ELSE f[n - 1] + BandAt(n - 1)]
  BY <1>3, <1>4
<1>6. LevelY = [n \in Nat |-> IF n = 0 THEN Top ELSE LevelY[n - 1] + BandAt(n - 1)]
  BY <1>5 DEF LevelY
<1>. DEFINE U == {k \in Nat : LevelY[k] \notin Int}
<1>7. U = {}
  <2>. SUFFICES ASSUME U # {} PROVE FALSE
    OBVIOUS
  <2>1. PICK k \in U : \A l \in U : k <= l
    BY LeastNumber
  <2>2. k \in Nat /\ LevelY[k] \notin Int
    BY <2>1
  <2>3. k # 0
    BY <1>2, <1>6, <2>2
  <2>4. k - 1 \in Nat /\ LevelY[k - 1] \in Int
    BY <2>1, <2>2, <2>3
  <2>5. BandAt(k - 1) \in Nat /\ LevelY[k] = LevelY[k - 1] + BandAt(k - 1)
    BY <1>6, <2>2, <2>3, BandsHold
  <2>. QED
    BY <2>2, <2>4, <2>5
<1>8. \A k \in Nat : LevelY[k] \in Int
  BY <1>7
<1>. QED
  BY <1>6, <1>8

LEMMA BandsLieBelow ==
  ASSUME GraphType, NEW k \in Nat, NEW l \in Nat, k < l
  PROVE  LevelY[l] >= LevelY[k] + BandAt(k)
<1>. DEFINE U == {m \in Nat : k < m /\ ~(LevelY[m] >= LevelY[k] + BandAt(k))}
<1>. SUFFICES ASSUME U # {} PROVE FALSE
  OBVIOUS
<1>1. U \in SUBSET Nat
  OBVIOUS
<1>. HIDE DEF U
<1>2. PICK m \in U : \A n \in U : m <= n
  BY <1>1, LeastNumber
<1>3. m \in Nat /\ k < m /\ ~(LevelY[m] >= LevelY[k] + BandAt(k))
  BY DEF U
<1>4. m # 0 /\ m - 1 \in Nat
  BY <1>3
<1>5. /\ LevelY[m] = LevelY[m - 1] + BandAt(m - 1)
      /\ LevelY[m] \in Int /\ LevelY[m - 1] \in Int /\ LevelY[k] \in Int
      /\ BandAt(m - 1) \in Nat /\ BandAt(k) \in Nat
  BY <1>3, <1>4, LevelYIs, BandsHold
<1>6. CASE k = m - 1
  BY <1>3, <1>5, <1>6
<1>7. CASE k # m - 1
  <2>1. k < m - 1
    BY <1>3, <1>7
  <2>2. m - 1 \notin U
    BY <1>2, <1>3, <1>4
  <2>3. LevelY[m - 1] >= LevelY[k] + BandAt(k)
    BY <1>4, <2>1, <2>2 DEF U
  <2>. QED
    BY <1>3, <1>5, <2>3
<1>. QED
  BY <1>6, <1>7

(* Services of a level stand in columns of their own. *)
LEMMA ColumnsAre ==
  ASSUME NEW s \in Services
  PROVE  \E i \in Nat, c \in Nat :
           /\ i = Cardinality({t \in AtLevel(LevelOf(s)) : Rank[t] < Rank[s]})
           /\ c = Cardinality(AtLevel(LevelOf(s)))
           /\ ServiceX(s) = (2 * i - (c - 1)) * 230
<1>1. AtLevel(LevelOf(s)) \in SUBSET Services
  BY DEF AtLevel
<1>2. {t \in AtLevel(LevelOf(s)) : Rank[t] < Rank[s]} \in SUBSET Services
  BY <1>1
<1>3. PICK i \in Nat : i = Cardinality({t \in AtLevel(LevelOf(s)) : Rank[t] < Rank[s]})
  BY <1>2, GraphAssumption, FS_Subset, FS_CardinalityType
<1>4. PICK c \in Nat : c = Cardinality(AtLevel(LevelOf(s)))
  BY <1>1, GraphAssumption, FS_Subset, FS_CardinalityType
<1>5. ServiceColGap \div 2 = 230
  BY DEF ServiceColGap
<1>6. ServiceX(s) = (2 * i - (c - 1)) * 230
  BY <1>3, <1>4, <1>5 DEF ServiceX
<1>. QED
  BY <1>3, <1>4, <1>6

LEMMA ColumnsRise ==
  ASSUME NEW s \in Services, NEW t \in Services, LevelOf(s) = LevelOf(t), Rank[s] < Rank[t]
  PROVE  ServiceX(t) - ServiceX(s) >= 460
<1>1. PICK i \in Nat, c \in Nat :
           /\ i = Cardinality({u \in AtLevel(LevelOf(s)) : Rank[u] < Rank[s]})
           /\ c = Cardinality(AtLevel(LevelOf(s)))
           /\ ServiceX(s) = (2 * i - (c - 1)) * 230
  BY ColumnsAre
<1>2. PICK j \in Nat, d \in Nat :
           /\ j = Cardinality({u \in AtLevel(LevelOf(t)) : Rank[u] < Rank[t]})
           /\ d = Cardinality(AtLevel(LevelOf(t)))
           /\ ServiceX(t) = (2 * j - (d - 1)) * 230
  BY ColumnsAre
<1>. DEFINE A == {u \in AtLevel(LevelOf(s)) : Rank[u] < Rank[s]}
            B == {u \in AtLevel(LevelOf(s)) : Rank[u] < Rank[t]}
<1>3. c = d /\ i = Cardinality(A) /\ j = Cardinality(B)
  BY <1>1, <1>2
<1>4. AtLevel(LevelOf(s)) \subseteq Services /\ s \in AtLevel(LevelOf(s))
  BY DEF AtLevel
<1>5. \A u \in Services : Rank[u] \in Nat
  BY GraphAssumption
<1>6. A \subseteq B /\ s \in B /\ s \notin A
  <2>1. \A u \in Services : Rank[u] < Rank[s] => Rank[u] < Rank[t]
    BY <1>5
  <2>2. ~ (Rank[s] < Rank[s])
    BY <1>5
  <2>. QED
    BY <1>4, <2>1, <2>2
<1>7. IsFiniteSet(B)
  BY <1>4, GraphAssumption, FS_Subset
<1>8. i <= j /\ i # j
  <2>. HIDE DEF A, B
  <2>1. Cardinality(A) <= Cardinality(B) /\ (Cardinality(B) = Cardinality(A) => B = A)
    BY <1>6, <1>7, FS_Subset
  <2>. QED
    BY <1>3, <1>6, <2>1
<1>9. i + 1 <= j
  BY <1>8
<1>. QED
  BY <1>1, <1>2, <1>3, <1>9

LEMMA ColumnsApart ==
  ASSUME NEW s \in Services, NEW t \in Services, s # t, LevelOf(s) = LevelOf(t)
  PROVE  ServiceX(s) - ServiceX(t) >= 460 \/ ServiceX(t) - ServiceX(s) >= 460
<1>1. Rank[s] \in Nat /\ Rank[t] \in Nat /\ Rank[s] # Rank[t]
  BY GraphAssumption
<1>2. Rank[s] < Rank[t] \/ Rank[t] < Rank[s]
  BY <1>1
<1>. QED
  BY <1>2, ColumnsRise

(* A node's service, and how far below the top of its band it is. *)
Host(n) == IF n \in Pods THEN parent[n] ELSE n
Offset(n) == IF n \in Pods THEN 180 + place[n] * 170 ELSE 0

LEMMA PositionIs ==
  ASSUME GraphType, LayoutType, PlacesAreOwn, NEW n \in Nodes, Host(n) # NoNode
  PROVE  /\ Host(n) \in Services
         /\ Position(n).x = ServiceX(Host(n))
         /\ Position(n).y = LevelY[LevelOf(Host(n))] + Offset(n)
         /\ Offset(n) \in Nat /\ Offset(n) + 170 <= BandAt(LevelOf(Host(n)))
<1>1. CASE n \in Pods
  <2>1. Host(n) = parent[n] /\ parent[n] \in Services /\ Offset(n) = 180 + place[n] * 170
    BY <1>1 DEF Host, Offset, GraphType
  <2>2. PICK k \in Nat : k = place[n]
    BY <1>1 DEF PlacesAreOwn, Places
  <2>3. Host(n) \in AtLevel(LevelOf(Host(n)))
    BY <2>1 DEF AtLevel
  <2>4. PICK c \in Nat : c = Cardinality(Siblings(Host(n)))
    BY <2>3, BandsHold
  <2>5. BandAt(LevelOf(Host(n))) \in Nat /\ BandAt(LevelOf(Host(n))) >= 530 + c * 170
    BY <2>3, <2>4, BandsHold
  <2>6. k < c
    BY <1>1, <2>1, <2>2, <2>4 DEF PlacesAreOwn
  <2>7. Offset(n) = 180 + k * 170
    BY <2>1, <2>2
  <2>8. LevelY[LevelOf(parent[n])] + 180 + place[n] * PodRowGap = LevelY[LevelOf(Host(n))] + Offset(n)
    <3>1. PICK y \in Int : y = LevelY[LevelOf(Host(n))]
      BY <2>1, LevelYIs, LevelsAre
    <3>. QED
      BY <2>1, <2>2, <2>7, <3>1 DEF PodRowGap
  <2>9. Position(n) = [x |-> ServiceX(parent[n]),
                       y |-> LevelY[LevelOf(parent[n])] + 180 + place[n] * PodRowGap]
    BY <1>1, <2>1, GraphAssumption DEF Position, PodPosition, Nodes
  <2>. QED
    BY <2>1, <2>5, <2>6, <2>7, <2>8, <2>9
<1>2. CASE n \notin Pods
  <2>1. Host(n) = n /\ n \in Services /\ Offset(n) = 0
    BY <1>2 DEF Host, Offset, Nodes
  <2>2. Position(n) = [x |-> ServiceX(n), y |-> LevelY[LevelOf(n)]]
    BY <1>2 DEF Position
  <2>3. n \in AtLevel(LevelOf(n))
    BY <2>1 DEF AtLevel
  <2>4. BandAt(LevelOf(n)) \in Nat /\ BandAt(LevelOf(n)) >= 700
    BY <2>3, BandsHold
  <2>5. LevelY[LevelOf(n)] \in Int
    BY <2>1, LevelYIs, LevelsAre
  <2>. QED
    BY <2>1, <2>2, <2>4, <2>5
<1>. QED
  BY <1>1, <1>2

(* Two nodes of one service are a row apart, one below the other. *)
LEMMA RowsApart ==
  ASSUME GraphType, PlacesAreOwn, NEW m \in Nodes, NEW n \in Nodes, m # n,
         Host(m) = Host(n), Host(m) # NoNode
  PROVE  Offset(m) - Offset(n) >= 170 \/ Offset(n) - Offset(m) >= 170
<1>1. \A p \in Pods : place[p] \in Nat
  BY DEF PlacesAreOwn, Places
<1>2. CASE m \in Pods /\ n \in Pods
  <2>1. PICK i \in Nat, j \in Nat : i = place[m] /\ j = place[n]
    BY <1>1, <1>2
  <2>2. i # j
    BY <1>2, <2>1 DEF PlacesAreOwn, Host
  <2>3. Offset(m) = 180 + i * 170 /\ Offset(n) = 180 + j * 170
    BY <1>2, <2>1 DEF Offset
  <2>. QED
    BY <2>2, <2>3
<1>3. CASE m \in Pods /\ n \notin Pods
  BY <1>1, <1>3 DEF Offset
<1>4. CASE m \notin Pods /\ n \in Pods
  BY <1>1, <1>4 DEF Offset
<1>5. CASE m \notin Pods /\ n \notin Pods
  BY <1>5 DEF Host
<1>. QED
  BY <1>2, <1>3, <1>4, <1>5

(* All bands are above the place of the pods without a service. *)
LEMMA NothingReachesTheBottom ==
  ASSUME GraphType, LayoutType, SpaceInv, NEW m \in Nodes, Host(m) = NoNode,
         NEW n \in Nodes, Host(n) # NoNode
  PROVE  Position(m).y - Position(n).y >= 170
<1>1. m \in Pods /\ parent[m] = NoNode
  BY GraphAssumption DEF Host, Nodes
<1>2. Position(m).y = LevelY[Cardinality(Services)]
  BY <1>1 DEF Position, PodPosition, Bottom
<1>3. /\ Host(n) \in Services
      /\ Position(n).y = LevelY[LevelOf(Host(n))] + Offset(n)
      /\ Offset(n) \in Nat /\ Offset(n) + 170 <= BandAt(LevelOf(Host(n)))
  BY PositionIs DEF SpaceInv
<1>4. PICK k \in Nat, c \in Nat : k = LevelOf(Host(n)) /\ c = Cardinality(Services) /\ k < c
  BY <1>3, LevelsAre, GraphAssumption, FS_CardinalityType DEF SpaceInv, LevelsAreFew
<1>5. LevelY[c] >= LevelY[k] + BandAt(k) /\ LevelY[c] \in Int /\ LevelY[k] \in Int
  BY <1>4, BandsLieBelow, LevelYIs
<1>6. BandAt(k) \in Nat
  BY BandsHold
<1>. QED
  BY <1>2, <1>3, <1>4, <1>5, <1>6

LEMMA LowerLevelsAreBelow ==
  ASSUME GraphType, LayoutType, PlacesAreOwn, NEW m \in Nodes, Host(m) # NoNode,
         NEW n \in Nodes, Host(n) # NoNode, LevelOf(Host(n)) < LevelOf(Host(m))
  PROVE  Position(m).y - Position(n).y >= 170
<1>1. /\ Host(n) \in Services
      /\ Position(n).y = LevelY[LevelOf(Host(n))] + Offset(n)
      /\ Offset(n) \in Nat /\ Offset(n) + 170 <= BandAt(LevelOf(Host(n)))
  BY PositionIs
<1>2. /\ Host(m) \in Services
      /\ Position(m).y = LevelY[LevelOf(Host(m))] + Offset(m)
      /\ Offset(m) \in Nat
  BY PositionIs
<1>3. PICK k \in Nat, l \in Nat : k = LevelOf(Host(n)) /\ l = LevelOf(Host(m)) /\ k < l
  BY <1>1, <1>2, LevelsAre
<1>4. LevelY[l] >= LevelY[k] + BandAt(k) /\ LevelY[l] \in Int /\ LevelY[k] \in Int
  BY <1>3, BandsLieBelow, LevelYIs
<1>5. BandAt(k) \in Nat
  BY BandsHold
<1>. QED
  BY <1>1, <1>2, <1>3, <1>4, <1>5

(* In every layout of every graph no node hides another. *)
THEOREM NodesAreApart == Spec => []NodesKeepApart
<1>1. ViewInv /\ SpaceInv => NodesKeepApart
  <2>. SUFFICES ASSUME ViewInv, SpaceInv, NEW m \in Nodes, NEW n \in Nodes, m # n,
                       ~({m, n} \subseteq Siblings(NoNode))
                PROVE  Apart(Position(m), Position(n))
    BY DEF NodesKeepApart
  <2>1. GraphType /\ LayoutType /\ PlacesAreOwn
    BY DEF ViewInv, LayoutInv, SpaceInv
  <2>2. \A k \in Nodes : Host(k) = NoNode => k \in Siblings(NoNode)
    BY GraphAssumption DEF Host, Siblings, Nodes
  <2>3. CASE Host(m) = NoNode
    <3>1. Host(n) # NoNode
      BY <2>2, <2>3
    <3>2. Position(m).y - Position(n).y >= 170
      BY <2>1, <2>3, <3>1, NothingReachesTheBottom
    <3>. QED
      BY <3>2 DEF Apart, PodRowGap
  <2>4. CASE Host(n) = NoNode
    <3>1. Host(m) # NoNode
      BY <2>2, <2>4
    <3>2. Position(n).y - Position(m).y >= 170
      BY <2>1, <2>4, <3>1, NothingReachesTheBottom
    <3>. QED
      BY <3>2 DEF Apart, PodRowGap
  <2>5. CASE Host(m) # NoNode /\ Host(n) # NoNode
    <3>1. /\ Host(m) \in Services /\ Position(m).x = ServiceX(Host(m))
          /\ Position(m).y = LevelY[LevelOf(Host(m))] + Offset(m) /\ Offset(m) \in Nat
      BY <2>1, <2>5, PositionIs
    <3>2. /\ Host(n) \in Services /\ Position(n).x = ServiceX(Host(n))
          /\ Position(n).y = LevelY[LevelOf(Host(n))] + Offset(n) /\ Offset(n) \in Nat
      BY <2>1, <2>5, PositionIs
    <3>3. LevelOf(Host(m)) \in Nat /\ LevelOf(Host(n)) \in Nat
      BY <2>1, <3>1, <3>2, LevelsAre
    <3>4. CASE Host(m) = Host(n)
      <4>1. Offset(m) - Offset(n) >= 170 \/ Offset(n) - Offset(m) >= 170
        BY <2>1, <2>5, <3>4, RowsApart
      <4>2. PICK y \in Int : y = LevelY[LevelOf(Host(m))]
        BY <2>1, <3>3, LevelYIs
      <4>3. Position(m).y = y + Offset(m) /\ Position(n).y = y + Offset(n)
        BY <3>1, <3>2, <3>4, <4>2
      <4>. QED
        BY <3>1, <3>2, <4>1, <4>3 DEF Apart, PodRowGap
    <3>5. CASE Host(m) # Host(n) /\ LevelOf(Host(m)) = LevelOf(Host(n))
      <4>1. \/ ServiceX(Host(m)) - ServiceX(Host(n)) >= 460
            \/ ServiceX(Host(n)) - ServiceX(Host(m)) >= 460
        BY <3>1, <3>2, <3>5, ColumnsApart
      <4>. QED
        BY <3>1, <3>2, <4>1 DEF Apart, ServiceColGap
    <3>6. CASE LevelOf(Host(m)) < LevelOf(Host(n))
      <4>1. Position(n).y - Position(m).y >= 170
        BY <2>1, <2>5, <3>6, LowerLevelsAreBelow
      <4>. QED
        BY <4>1 DEF Apart, PodRowGap
    <3>7. CASE LevelOf(Host(n)) < LevelOf(Host(m))
      <4>1. Position(m).y - Position(n).y >= 170
        BY <2>1, <2>5, <3>7, LowerLevelsAreBelow
      <4>. QED
        BY <4>1 DEF Apart, PodRowGap
    <3>8. \/ LevelOf(Host(m)) = LevelOf(Host(n)) \/ LevelOf(Host(m)) < LevelOf(Host(n))
          \/ LevelOf(Host(n)) < LevelOf(Host(m))
      BY <3>3
    <3>. QED
      BY <3>4, <3>5, <3>6, <3>7, <3>8
  <2>. QED
    BY <2>3, <2>4, <2>5
<1>. QED
  BY <1>1, ViewIsExact, SpacesAreKept, PTL
=============================================================================
