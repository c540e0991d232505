--------------------------- MODULE GraphPage_proofs ---------------------------
(* For any contexts, namespaces, pods and lengths of the history: the selection
   that all pages share, and the graph page that follows it. *)
EXTENDS GraphPage, SequenceEnds, TLAPS

-----------------------------------------------------------------------------
(* The selection.  What makes the property of patient users inductive: while the
   contexts are asked for no namespaces are, and who is not hasty waits for those
   of the selected context alone. *)
OneIsAsked ==
  /\ contextsAsked => asked = {}
  /\ ~hasty => asked \subseteq {selectedContext}

SelectionInv ==
  /\ SelectionTypeOK
  /\ CacheOwnsItsNamespaces
  /\ OneIsAsked
  /\ PatientUsersStayInTheirContext

-----------------------------------------------------------------------------
(* The page.  Only the latest socket is open, it is the selection's, and none is
   before the splash screen goes. *)
SocketFollowsSelection ==
  open # {} => /\ ~isLoading /\ open = {socket}
               /\ socket = <<selectedContext, selectedNamespace>>
               /\ Nothing \notin {selectedContext, selectedNamespace}

(* Streams run, and are opened, on an open socket.  While the gateway is told nothing
   as it opens one, it opens one at a time, with none filed, and loses none; and the
   one it opens or has filed is that of the pod in the panel. *)
LogIsOfPanel ==
  /\ Opening \/ following # NoPod \/ lost # {} => open # {}
  /\ ~rushed => /\ lost = {}
                /\ Opening => following = NoPod
                /\ \A p, q \in Pods : opening[p] > 0 /\ opening[q] > 0 => p = q
                /\ \A p \in Pods : opening[p] <= 1
  /\ ~(strayed \/ rushed) =>
       \A p \in Pods : opening[p] > 0 \/ following = p => isPanelOpen /\ selectedPodName = p

(* What the page shows now is the end of the past, the history is in the order of
   time, and of every moment the last snapshot at or before it is what was shown. *)
Shows(t, i) ==
  /\ graphHistory[i].ts <= t
  /\ \A j \in DOMAIN graphHistory : graphHistory[j].ts <= t => j <= i

PastIsKept ==
  /\ now \in Nat \ {0}
  /\ past \in [1 .. now -> GraphType]
  /\ past[now] = live

HistoryIsFaithful ==
  /\ graphHistory \in Seq([ts : 1 .. now, graph : GraphType])
  /\ \A i, j \in DOMAIN graphHistory : i < j => graphHistory[i].ts <= graphHistory[j].ts
  /\ \A t \in 1 .. now : \A i \in DOMAIN graphHistory :
       Shows(t, i) => past[t] \in {graphHistory[i].graph, Empty}

PageInv ==
  /\ TypeOK
  /\ SelectionInv
  /\ SocketFollowsSelection
  /\ LiveGraphIsOfSelection
  /\ LogIsOfPanel
  /\ PastIsKept
  /\ HistoryIsFaithful

-----------------------------------------------------------------------------
(* The history that is kept *)

(* Of a history whose last snapshot is new, an end is kept that is not empty and no
   longer than MaxHistory. *)
LEMMA KeptHistory ==
  ASSUME NEW S, NEW h \in Seq(S), h # <<>>,
         now \in Nat, \A i \in DOMAIN h : h[i].ts \in Nat, h[Len(h)].ts = now
  PROVE  /\ Newest(Recent(h)) \in Seq(S)
         /\ Len(Newest(Recent(h))) \in 1 .. MaxHistory
         /\ EndOf(Newest(Recent(h)), h)
<1>1. Len(h) \in Nat \ {0} /\ DOMAIN h = 1 .. Len(h)
  BY EmptySeq, LenProperties
<1>2. PICK m \in 0 .. Len(h) - 1 : Recent(h) = SubSeq(h, 1 + m, Len(h))
  <2>. DEFINE old == {i \in DOMAIN h : now - h[i].ts > HistorySpan}
  <2>1. Len(h) \notin old
    BY <1>1, HistoryAssumption
  <2>2. {0} \cup old \in SUBSET Nat /\ \A i \in {0} \cup old : i <= Len(h)
    BY <1>1
  <2>3. Max({0} \cup old) \in {0} \cup old
    BY <1>1, <2>2, GreatestNumber
  <2>4. Max({0} \cup old) \in 0 .. Len(h) - 1
    BY <1>1, <2>1, <2>3
  <2>. QED
    BY <2>4 DEF Recent
<1>3. m \in 0 .. Len(h) /\ Len(h) - m \in Nat \ {0}
  <2>1. ASSUME NEW a \in Nat \ {0}, NEW b \in 0 .. a - 1
        PROVE  b \in 0 .. a /\ a - b \in Nat \ {0}
    BY <2>1
  <2>. QED
    BY <1>1, <1>2, <2>1
<1>4. /\ Recent(h) \in Seq(S) /\ Len(Recent(h)) = Len(h) - m /\ EndOf(Recent(h), h)
  BY <1>2, <1>3, SuffixIsEnd
<1>5. ASSUME NEW r \in Seq(S), Len(r) \in Nat \ {0}, EndOf(r, h)
      PROVE  /\ Newest(r) \in Seq(S) /\ Len(Newest(r)) \in 1 .. MaxHistory
             /\ EndOf(Newest(r), h)
  <2>1. /\ Newest(r) \in Seq(S) /\ Len(Newest(r)) \in 1 .. MaxHistory
        /\ EndOf(Newest(r), r)
    BY <1>5, HistoryAssumption, LastOnes DEF Newest
  <2>. QED
    BY <1>5, <2>1, EndOfEnd
<1>. QED
  BY <1>3, <1>4, <1>5

-----------------------------------------------------------------------------
(* Each action of the selection keeps its invariant. *)

LEMMA NamespacesExist ==
  /\ \A c \in Contexts : /\ Preferred[c] \in NamespacesOf[c]
                        /\ NamespacesOf[c] \subseteq AllNamespaces
  /\ Nothing \notin AllNamespaces /\ Nothing \notin Contexts
  BY NamespacesAssumption, NothingAssumption DEF AllNamespaces

LEMMA SelectionStarts == SelectionInit => SelectionInv
  BY DEF SelectionInit, SelectionInv, SelectionTypeOK, CacheOwnsItsNamespaces, OneIsAsked,
         PatientUsersStayInTheirContext

LEMMA ContextSelected ==
  ASSUME SelectionInv, NEW c \in Contexts, c \notin asked, UseCached(c) \/ Ask(c),
         selectedContext' = c, ~contextsAsked',
         hasty' \/ asked = {}, UNCHANGED cachedNamespacesByContext
  PROVE  SelectionInv'
<1>. USE NamespacesExist DEF SelectionInv
<1>1. SelectionTypeOK'
  BY DEF SelectionTypeOK, CacheOwnsItsNamespaces, UseCached, Ask
<1>2. CacheOwnsItsNamespaces'
  BY DEF CacheOwnsItsNamespaces
<1>3. OneIsAsked'
  BY DEF OneIsAsked, UseCached, Ask
<1>4. PatientUsersStayInTheirContext'
  BY DEF CacheOwnsItsNamespaces, PatientUsersStayInTheirContext, UseCached, Ask
<1>. QED
  BY <1>1, <1>2, <1>3, <1>4

LEMMA SelectionStep ==
  ASSUME SelectionInv, SelectionNext
  PROVE  SelectionInv'
<1>. USE NamespacesExist DEF SelectionInv
<1>1. CASE ContextsFail
  BY <1>1 DEF ContextsFail, SelectionTypeOK, CacheOwnsItsNamespaces, OneIsAsked,
              PatientUsersStayInTheirContext
<1>2. ASSUME NEW c \in Contexts, ContextsArrive(c) PROVE SelectionInv'
  <2>1. asked = {}
    BY <1>2 DEF ContextsArrive, OneIsAsked
  <2>. QED
    BY <1>2, <2>1, ContextSelected DEF ContextsArrive
<1>3. ASSUME NEW c \in Contexts, handleContextChange(c) PROVE SelectionInv'
  <2>1. ~contextsAsked'
    BY <1>3 DEF handleContextChange, SelectionTypeOK
  <2>2. hasty' \/ asked = {}
    BY <1>3 DEF handleContextChange
  <2>. QED
    BY <1>3, <2>1, <2>2, ContextSelected DEF handleContextChange
<1>4. ASSUME NEW c \in Contexts, NamespacesArrive(c) PROVE SelectionInv'
  <2>1. SelectionTypeOK'
    BY <1>4 DEF NamespacesArrive, KeepNamespaces, SelectionTypeOK
  <2>2. CacheOwnsItsNamespaces'
    BY <1>4 DEF NamespacesArrive, KeepNamespaces, CacheOwnsItsNamespaces
  <2>3. OneIsAsked'
    BY <1>4 DEF NamespacesArrive, OneIsAsked
  <2>4. PatientUsersStayInTheirContext'
    BY <1>4 DEF NamespacesArrive, OneIsAsked, PatientUsersStayInTheirContext
  <2>. QED
    BY <2>1, <2>2, <2>3, <2>4
<1>5. ASSUME NEW c \in Contexts, NamespacesRefused(c) PROVE SelectionInv'
  BY <1>5 DEF NamespacesRefused, SelectionTypeOK, CacheOwnsItsNamespaces, OneIsAsked,
              PatientUsersStayInTheirContext
<1>6. ASSUME NEW c \in Contexts, NamespacesLost(c) PROVE SelectionInv'
  BY <1>6 DEF NamespacesLost, SelectionTypeOK, CacheOwnsItsNamespaces, OneIsAsked,
              PatientUsersStayInTheirContext
<1>7. ASSUME NEW n \in namespaces, handleNamespaceChange(n) PROVE SelectionInv'
  BY <1>7 DEF handleNamespaceChange, SelectionTypeOK, CacheOwnsItsNamespaces, OneIsAsked,
              PatientUsersStayInTheirContext
<1>. QED
  BY <1>1, <1>2, <1>3, <1>4, <1>5, <1>6, <1>7 DEF SelectionNext

LEMMA SelectionStays ==
  ASSUME SelectionInv, UNCHANGED selection
  PROVE  SelectionInv'
  BY DEF selection, SelectionInv, SelectionTypeOK, CacheOwnsItsNamespaces, OneIsAsked,
         PatientUsersStayInTheirContext

-----------------------------------------------------------------------------
(* The graph and its history *)

LEMMA GraphTypes ==
  /\ Empty \in GraphType /\ Empty.of = Nothing
  /\ \A sel \in Contexts \X AllNamespaces :
       GraphOf(sel) \in GraphType /\ GraphOf(sel).of = sel
  /\ \A g \in GraphType : /\ [g EXCEPT !.observed = TRUE] \in GraphType
                          /\ [g EXCEPT !.observed = TRUE].of = g.of
  BY DEF Empty, GraphOf, GraphType

LEMMA Recorded ==
  ASSUME PastIsKept, HistoryIsFaithful, NEW g \in GraphType, recordSnapshot(g), UNCHANGED now
  PROVE  PastIsKept' /\ HistoryIsFaithful' /\ Len(graphHistory') <= MaxHistory
<1>. DEFINE Snapshots == [ts : 1 .. now, graph : GraphType]
            s == [ts |-> now, graph |-> g]
            h == Append(graphHistory, s)
<1>1. now \in Nat \ {0} /\ now \in 1 .. now
  BY DEF PastIsKept
<1>2. s \in Snapshots
  BY <1>1
<1>3. graphHistory \in Seq(Snapshots)
  BY DEF HistoryIsFaithful
<1>4. /\ h \in Seq(Snapshots) /\ Len(h) = Len(graphHistory) + 1 /\ h # <<>>
      /\ \A i \in 1 .. Len(graphHistory) : h[i] = graphHistory[i]
      /\ h[Len(h)] = s
  BY <1>2, <1>3, AppendProperties, LenProperties
<1>5. graphHistory' = Newest(Recent(h))
  BY DEF recordSnapshot
<1>. HIDE DEF Snapshots, s, h
<1>6. \A x \in Snapshots : x.ts \in 1 .. now /\ x.ts \in Nat /\ x.graph \in GraphType
  BY <1>1 DEF Snapshots
<1>7. s.ts = now /\ s.graph = g
  BY DEF s
<1>8. DOMAIN h = 1 .. Len(h) /\ \A i \in 1 .. Len(h) : h[i] \in Snapshots
  BY <1>4, LenProperties, ElementOfSeq
<1>9. /\ graphHistory' \in Seq(Snapshots) /\ Len(graphHistory') \in 1 .. MaxHistory
      /\ EndOf(graphHistory', h)
  BY <1>1, <1>4, <1>5, <1>6, <1>7, <1>8, KeptHistory
<1>10. PICK k \in Nat : /\ k + Len(graphHistory') = Len(h)
                        /\ \A i \in 1 .. Len(graphHistory') : graphHistory'[i] = h[k + i]
  <2>1. Len(h) \in Nat /\ Len(graphHistory') \in 0 .. Len(h)
    BY <1>4, <1>9, LenProperties DEF EndOf
  <2>2. PICK k \in Nat : k = Len(h) - Len(graphHistory')
    BY <2>1
  <2>3. k + Len(graphHistory') = Len(h)
    BY <2>1, <2>2
  <2>. QED
    BY <1>9, <2>2, <2>3 DEF EndOf
<1>11. PICK l \in Nat : l = Len(graphHistory') /\ DOMAIN graphHistory' = 1 .. l
                       /\ k + l = Len(h) /\ l <= MaxHistory /\ l > 0
  <2>1. Len(graphHistory') \in Nat /\ DOMAIN graphHistory' = 1 .. Len(graphHistory')
    BY <1>9, LenProperties
  <2>2. Len(graphHistory') <= MaxHistory /\ Len(graphHistory') > 0
    BY <1>9, HistoryAssumption
  <2>. QED
    BY <1>10, <2>1, <2>2
<1>12. PICK m \in Nat : /\ m = Len(graphHistory) /\ DOMAIN graphHistory = 1 .. m
                        /\ k + l = m + 1
  BY <1>3, <1>4, <1>11, LenProperties
<1>13. \A i, j \in 1 .. m + 1 : i < j => h[i].ts <= h[j].ts
  <2>. SUFFICES ASSUME NEW i \in 1 .. m + 1, NEW j \in 1 .. m + 1, i < j
                PROVE  h[i].ts <= h[j].ts
    OBVIOUS
  <2>1. i \in 1 .. m
    BY <1>12
  <2>2. CASE j \in 1 .. m
    BY <1>4, <1>12, <2>1, <2>2 DEF HistoryIsFaithful
  <2>3. CASE j = m + 1
    <3>1. h[j].ts = now
      BY <1>4, <1>7, <1>12, <2>3
    <3>2. h[i].ts \in 1 .. now
      BY <1>4, <1>6, <1>8, <1>12
    <3>. QED
      BY <1>1, <3>1, <3>2
  <2>. QED
    BY <2>2, <2>3
<1>14. \A i, j \in 1 .. l : i < j => graphHistory'[i].ts <= graphHistory'[j].ts
  <2>. SUFFICES ASSUME NEW i \in 1 .. l, NEW j \in 1 .. l, i < j
                PROVE  graphHistory'[i].ts <= graphHistory'[j].ts
    OBVIOUS
  <2>1. k + i \in 1 .. m + 1 /\ k + j \in 1 .. m + 1 /\ k + i < k + j
    BY <1>12
  <2>. QED
    BY <1>10, <1>11, <1>13, <2>1
<1>15. ASSUME NEW t \in 1 .. now, NEW i \in 1 .. l, Shows(t, i)'
       PROVE  past'[t] \in {graphHistory'[i].graph, Empty}
  <2>1. graphHistory'[l].ts = now /\ graphHistory'[l].graph = g
    BY <1>4, <1>7, <1>10, <1>11
  <2>2. CASE t = now
    <3>1. i = l
      BY <1>1, <1>11, <1>15, <2>1, <2>2 DEF Shows
    <3>2. past'[now] = g
      BY <1>1 DEF recordSnapshot, PastIsKept
    <3>. QED
      BY <2>1, <2>2, <3>1, <3>2
  <2>3. CASE t < now
    <3>1. i # l
      BY <1>1, <1>15, <2>1, <2>3 DEF Shows
    <3>2. k + i \in 1 .. m /\ graphHistory'[i] = graphHistory[k + i]
      <4>1. k + i \in 1 .. m
        BY <1>12, <3>1
      <4>. QED
        BY <1>4, <1>10, <1>11, <1>12, <4>1
    <3>3. ASSUME NEW j \in 1 .. m, graphHistory[j].ts <= t PROVE j <= k + i
      <4>1. CASE j <= k
        BY <4>1
      <4>2. CASE j > k
        <5>1. PICK n \in 1 .. l : k + n = j
          <6>1. j - k \in 1 .. l /\ k + (j - k) = j
            BY <1>12, <4>2
          <6>. QED
            BY <6>1
        <5>2. graphHistory'[n].ts <= t
          BY <1>4, <1>10, <1>11, <1>12, <3>3, <5>1
        <5>3. n <= i
          BY <1>11, <1>15, <5>2 DEF Shows
        <5>. QED
          BY <5>1, <5>3
      <4>. QED
        BY <4>1, <4>2
    <3>4. Shows(t, k + i)
      BY <1>12, <1>15, <3>2, <3>3 DEF Shows
    <3>5. past'[t] = past[t]
      BY <1>1, <2>3 DEF recordSnapshot, PastIsKept
    <3>. QED
      BY <1>12, <3>2, <3>4, <3>5 DEF HistoryIsFaithful
  <2>. QED
    BY <1>1, <2>2, <2>3
<1>16. HistoryIsFaithful'
  <2>1. graphHistory' \in Seq([ts : 1 .. now', graph : GraphType])
    BY <1>9 DEF Snapshots
  <2>. QED
    BY <1>11, <1>14, <1>15, <2>1 DEF HistoryIsFaithful
<1>17. PastIsKept'
  BY <1>1 DEF recordSnapshot, PastIsKept
<1>. QED
  BY <1>11, <1>16, <1>17

LEMMA HistoryTypes ==
  ASSUME HistoryIsFaithful
  PROVE  \A i \in DOMAIN graphHistory :
           graphHistory[i].ts \in 1 .. now /\ graphHistory[i].graph \in GraphType
<1>1. ASSUME NEW i \in DOMAIN graphHistory
      PROVE  graphHistory[i] \in [ts : 1 .. now, graph : GraphType]
  BY LenProperties, ElementOfSeq DEF HistoryIsFaithful
<1>. QED
  BY <1>1

LEMMA HistoryStays ==
  ASSUME PastIsKept, HistoryIsFaithful, UNCHANGED <<now, graphHistory, past, live>>
  PROVE  PastIsKept' /\ HistoryIsFaithful'
  BY DEF PastIsKept, HistoryIsFaithful, Shows

LEMMA Emptied ==
  ASSUME PastIsKept, HistoryIsFaithful, UNCHANGED <<now, graphHistory>>,
         live' = Empty, past' = [past EXCEPT ![now] = Empty]
  PROVE  PastIsKept' /\ HistoryIsFaithful'
<1>1. PastIsKept'
  BY GraphTypes DEF PastIsKept
<1>2. \A t \in 1 .. now : past'[t] \in {past[t], Empty}
  BY DEF PastIsKept
<1>3. HistoryIsFaithful'
  BY <1>2 DEF HistoryIsFaithful, Shows
<1>. QED
  BY <1>1, <1>3

LEMMA TimePasses ==
  ASSUME PastIsKept, HistoryIsFaithful, Tick
  PROVE  PastIsKept' /\ HistoryIsFaithful'
<1>1. now \in Nat \ {0} /\ now' = now + 1 /\ DOMAIN past = 1 .. now /\ live \in GraphType
  BY DEF Tick, PastIsKept
<1>2. UNCHANGED <<graphHistory, live>>
  BY DEF Tick
<1>3. /\ past' \in [1 .. now + 1 -> GraphType] /\ past'[now + 1] = live
      /\ \A t \in 1 .. now : past'[t] = past[t]
  BY <1>1 DEF Tick, PastIsKept
<1>4. PastIsKept'
  BY <1>1, <1>2, <1>3 DEF PastIsKept
<1>5. \A i \in DOMAIN graphHistory : graphHistory[i].ts \in 1 .. now
  BY HistoryTypes
<1>6. graphHistory' \in Seq([ts : 1 .. now', graph : GraphType])
  <2>1. 1 .. now \subseteq 1 .. now'
    BY <1>1
  <2>2. /\ graphHistory \in Seq([ts : 1 .. now, graph : GraphType])
        /\ [ts : 1 .. now, graph : GraphType] \subseteq [ts : 1 .. now', graph : GraphType]
    BY <2>1 DEF HistoryIsFaithful
  <2>3. graphHistory \in Seq([ts : 1 .. now', graph : GraphType])
    BY <2>2, SeqMonotonic
  <2>. QED
    BY <1>2, <2>3
<1>7. ASSUME NEW t \in 1 .. now', NEW i \in DOMAIN graphHistory, Shows(t, i)'
      PROVE  past'[t] \in {graphHistory[i].graph, Empty}
  <2>1. CASE t \in 1 .. now
    BY <1>2, <1>3, <1>7, <2>1 DEF HistoryIsFaithful, Shows
  <2>2. CASE t = now + 1
    <3>1. Shows(now, i)
      BY <1>1, <1>2, <1>5, <1>7, <2>2 DEF Shows
    <3>. QED
      BY <1>1, <1>3, <2>2, <3>1 DEF HistoryIsFaithful, PastIsKept
  <2>. QED
    BY <1>1, <2>1, <2>2
<1>8. HistoryIsFaithful'
  BY <1>2, <1>6, <1>7 DEF HistoryIsFaithful
<1>. QED
  BY <1>4, <1>8

-----------------------------------------------------------------------------
(* Each action of the page keeps its invariant. *)

LEMMA SocketType ==
  ASSUME SelectionInv, Nothing \notin {selectedContext, selectedNamespace}
  PROVE  <<selectedContext, selectedNamespace>> \in Contexts \X AllNamespaces
  BY DEF SelectionInv, SelectionTypeOK

LEMMA NoStream ==
  (/\ following = NoPod /\ NoPod \notin Pods /\ lost = {}
   /\ \A p \in Pods : opening[p] = 0) => LogIsOfPanel
<1>. SUFFICES ASSUME following = NoPod, NoPod \notin Pods, lost = {},
                     \A p \in Pods : opening[p] = 0
              PROVE  LogIsOfPanel
  OBVIOUS
<1>1. \A p \in Pods : ~ (opening[p] > 0) /\ opening[p] <= 1 /\ following # p
  OBVIOUS
<1>2. ~Opening
  BY <1>1 DEF Opening
<1>. QED
  BY <1>1, <1>2 DEF LogIsOfPanel

LEMMA PageStarts == Init => PageInv
<1>. SUFFICES ASSUME Init PROVE PageInv
  OBVIOUS
<1>1. SelectionInv
  BY SelectionStarts DEF Init
<1>2. PastIsKept
  BY GraphTypes DEF Init, PastIsKept
<1>3. HistoryIsFaithful /\ Len(graphHistory) = 0 /\ DOMAIN graphHistory = {}
  BY EmptySeq DEF Init, HistoryIsFaithful, Shows
<1>4. SocketFollowsSelection /\ LiveGraphIsOfSelection
  BY DEF Init, SocketFollowsSelection, LiveGraphIsOfSelection
<1>5. LogIsOfPanel
  <2>1. /\ following = NoPod /\ NoPod \notin Pods /\ lost = {}
        /\ \A p \in Pods : opening[p] = 0
    BY HistoryAssumption DEF Init
  <2>. QED
    BY <2>1, NoStream
<1>6. TypeOK
  BY <1>1, <1>3, GraphTypes, HistoryAssumption DEF Init, TypeOK, SelectionInv
<1>. QED
  BY <1>1, <1>2, <1>3, <1>4, <1>5, <1>6 DEF PageInv

(* A selection, or the end of the splash screen, opens another socket or none. *)
LEMMA ConnectStep ==
  ASSUME PageInv, SelectionInv', Connect, ~isLoading', NoLogs,
         UNCHANGED <<graphStateRef, graphHistory, timeTravel, panel, now>>
  PROVE  PageInv'
<1>. USE DEF PageInv, Connect, panel
<1>1. SocketFollowsSelection'
  BY DEF OpenOnly, SocketFollowsSelection
<1>2. LiveGraphIsOfSelection'
  BY DEF LiveGraphIsOfSelection
<1>3. LogIsOfPanel'
  <2>1. (/\ following = NoPod /\ NoPod \notin Pods /\ lost = {}
         /\ \A p \in Pods : opening[p] = 0)'
    BY HistoryAssumption DEF NoLogs
  <2>. QED
    BY <2>1, NoStream, PTL
<1>4. PastIsKept' /\ HistoryIsFaithful'
  BY HistoryStays, Emptied
<1>5. TypeOK'
  <2>1. live' \in GraphType
    BY GraphTypes DEF TypeOK
  <2>2. /\ following' \in Pods \cup {NoPod} /\ opening' \in [Pods -> Nat]
        /\ lost' \subseteq Pods
    BY DEF NoLogs
  <2>3. viewedAt' \in 1 .. now
    BY DEF TypeOK, PastIsKept
  <2>. QED
    BY <1>1, <2>1, <2>2, <2>3 DEF TypeOK, SelectionInv, SocketFollowsSelection
<1>. QED
  BY <1>1, <1>2, <1>3, <1>4, <1>5

(* A message of a socket: the graph it brings is the selection's, or nobody's. *)
LEMMA MessageStep ==
  ASSUME PageInv, NEW g \in GraphType, recordSnapshot(g), open # {},
         served' => g.of \in {socket, Nothing},
         UNCHANGED <<selection, isLoading, socket, open, timeTravel, panel, logs, now>>
  PROVE  PageInv'
<1>. USE DEF PageInv, panel, logs
<1>1. SelectionInv'
  BY SelectionStays
<1>2. PastIsKept' /\ HistoryIsFaithful' /\ Len(graphHistory') <= MaxHistory
  BY Recorded
<1>3. SocketFollowsSelection'
  BY DEF SocketFollowsSelection, selection
<1>4. LiveGraphIsOfSelection'
  BY DEF LiveGraphIsOfSelection, SocketFollowsSelection, selection, recordSnapshot
<1>5. LogIsOfPanel'
  BY DEF LogIsOfPanel, Opening
<1>6. TypeOK'
  <2>1. (\A i \in DOMAIN graphHistory :
           graphHistory[i].ts \in 1 .. now /\ graphHistory[i].graph \in GraphType)'
    BY <1>2, HistoryTypes, PTL
  <2>2. {live, graphStateRef}' \subseteq GraphType
    BY DEF recordSnapshot
  <2>3. viewedAt' \in 1 .. now
    BY DEF recordSnapshot, PastIsKept
  <2>. QED
    BY <1>1, <1>2, <1>3, <2>1, <2>2, <2>3 DEF TypeOK, SelectionInv, SocketFollowsSelection
<1>. QED
  BY <1>1, <1>2, <1>3, <1>4, <1>5, <1>6

(* What the page and the gateway do with logs leaves the graph and the selection
   alone. *)
LEMMA LogStep ==
  ASSUME PageInv, LogIsOfPanel',
         {selectedPodName', following'} \subseteq Pods \cup {NoPod},
         opening' \in [Pods -> Nat], lost' \subseteq Pods,
         UNCHANGED <<selection, isLoading, socket, open, graph, timeTravel, now>>
  PROVE  PageInv'
<1>. USE DEF PageInv, graph
<1>1. SelectionInv' /\ PastIsKept' /\ HistoryIsFaithful'
  BY SelectionStays, HistoryStays
<1>2. SocketFollowsSelection' /\ LiveGraphIsOfSelection'
  BY DEF SocketFollowsSelection, LiveGraphIsOfSelection, selection
<1>3. TypeOK'
  BY <1>1 DEF TypeOK, SelectionInv, selection
<1>. QED
  BY <1>1, <1>2, <1>3

LEMMA ClickStep ==
  ASSUME PageInv, NEW p \in Pods \cup {NoPod}, onNodeClick(p)
  PROVE  PageInv'
<1>1. /\ opening \in [Pods -> Nat] /\ lost \subseteq Pods /\ following \in Pods \cup {NoPod}
      /\ LogIsOfPanel
  BY DEF PageInv, TypeOK
<1>2. UNCHANGED <<selection, isLoading, socket, open, graph, timeTravel, lost, now>>
      /\ isPanelOpen' = TRUE /\ selectedPodName' = p
  BY DEF onNodeClick
<1>3. CASE p # NoPod /\ open # {} /\ handleSubscribeLogs(p) /\ UNCHANGED strayed
  <2>1. p \in Pods /\ NoPod \notin Pods
    BY <1>3, HistoryAssumption
  <2>2. /\ opening' \in [Pods -> Nat] /\ opening'[p] = opening[p] + 1
        /\ \A q \in Pods : q # p => opening'[q] = opening[q]
        /\ following' = NoPod /\ rushed' = (rushed \/ Opening)
    BY <1>1, <1>3, <2>1 DEF handleSubscribeLogs, Tells
  <2>3. ~rushed' => /\ lost' = {} /\ opening'[p] = 1
                    /\ \A q \in Pods : q # p => opening'[q] = 0
    <3>1. ~rushed' => ~rushed /\ ~Opening
      BY <2>2
    <3>2. ~Opening => \A q \in Pods : opening[q] = 0
      BY <1>1 DEF Opening
    <3>. QED
      BY <1>1, <1>2, <2>1, <2>2, <3>1, <3>2 DEF LogIsOfPanel
  <2>4. LogIsOfPanel'
    BY <1>1, <1>2, <1>3, <2>1, <2>2, <2>3 DEF LogIsOfPanel
  <2>. QED
    BY <1>1, <1>2, <2>2, <2>4, LogStep
<1>4. CASE /\ strayed' = (strayed \/ following # NoPod \/ Opening)
           /\ UNCHANGED <<following, opening, rushed>>
  <2>1. Opening' <=> Opening
    BY <1>4 DEF Opening
  <2>2. LogIsOfPanel'
    <3>1. ~strayed' => \A q \in Pods : ~ (opening[q] > 0) /\ following # q
      <4>1. ~strayed' => following = NoPod /\ ~Opening
        BY <1>4
      <4>. QED
        BY <4>1, HistoryAssumption DEF Opening
    <3>. QED
      BY <1>1, <1>2, <1>4, <2>1, <3>1 DEF LogIsOfPanel
  <2>. QED
    BY <1>1, <1>2, <1>4, <2>2, LogStep
<1>. QED
  BY <1>3, <1>4 DEF onNodeClick

LEMMA CloseStep ==
  ASSUME PageInv, handleClosePanel
  PROVE  PageInv'
<1>1. /\ opening \in [Pods -> Nat] /\ lost \subseteq Pods /\ following \in Pods \cup {NoPod}
      /\ LogIsOfPanel
  BY DEF PageInv, TypeOK
<1>2. /\ UNCHANGED <<selection, isLoading, socket, open, graph, timeTravel, lost, strayed,
                     opening, now>>
      /\ selectedPodName' = NoPod
  BY DEF handleClosePanel, handleUnsubscribeLogs
<1>3. Opening' <=> Opening
  BY <1>2 DEF Opening
<1>4. CASE handleUnsubscribeLogs
  <2>1. following' = NoPod /\ rushed' = (rushed \/ Opening)
    BY <1>4 DEF handleUnsubscribeLogs, Tells
  <2>2. ~rushed' => \A q \in Pods : ~ (opening'[q] > 0)
    BY <1>2, <2>1 DEF Opening
  <2>3. LogIsOfPanel'
    BY <1>1, <1>2, <1>3, <2>1, <2>2, HistoryAssumption DEF LogIsOfPanel
  <2>. QED
    BY <1>1, <1>2, <2>1, <2>3, LogStep
<1>5. CASE (selectedPodName = NoPod \/ open = {}) /\ UNCHANGED <<following, rushed>>
  <2>1. ~(strayed \/ rushed) => \A q \in Pods : ~ (opening[q] > 0) /\ following # q
    BY <1>1, <1>5, HistoryAssumption DEF LogIsOfPanel, Opening
  <2>2. LogIsOfPanel'
    BY <1>1, <1>2, <1>3, <1>5, <2>1 DEF LogIsOfPanel
  <2>. QED
    BY <1>1, <1>2, <1>5, <2>2, LogStep
<1>. QED
  BY <1>4, <1>5 DEF handleClosePanel

LEMMA StreamStep ==
  ASSUME PageInv, NEW p \in Pods, StreamOpens(p) \/ StreamFails(p) \/ StreamEnds(p)
  PROVE  PageInv'
<1>1. /\ opening \in [Pods -> Nat] /\ lost \subseteq Pods /\ following \in Pods \cup {NoPod}
      /\ selectedPodName \in Pods \cup {NoPod} /\ LogIsOfPanel /\ p # NoPod
  BY HistoryAssumption DEF PageInv, TypeOK
<1>2. UNCHANGED <<selection, isLoading, socket, open, graph, timeTravel, panel, strayed,
                  rushed, now>>
  BY DEF StreamOpens, StreamFails, StreamEnds
<1>3. UNCHANGED <<isPanelOpen, selectedPodName>>
  BY <1>2 DEF panel
<1>4. CASE StreamOpens(p) \/ StreamFails(p)
  <2>0. opening[p] > 0 /\ opening' = [opening EXCEPT ![p] = @ - 1]
    BY <1>4 DEF StreamOpens, StreamFails
  <2>1. /\ opening' \in [Pods -> Nat] /\ opening'[p] = opening[p] - 1
        /\ \A q \in Pods : q # p => opening'[q] = opening[q]
    BY <1>1, <2>0
  <2>2. Opening /\ open # {}
    BY <1>1, <2>0 DEF Opening, LogIsOfPanel
  <2>3. ~rushed => /\ following = NoPod /\ lost = {}
                   /\ \A q \in Pods : ~ (opening'[q] > 0)
    BY <1>1, <2>0, <2>1, <2>2 DEF LogIsOfPanel
  <2>4. CASE following' = p /\ lost' = lost \cup ({following} \ {NoPod})
    <3>1. LogIsOfPanel'
      BY <1>1, <1>2, <1>3, <2>0, <2>1, <2>2, <2>3, <2>4 DEF LogIsOfPanel, Opening
    <3>. QED
      BY <1>1, <1>2, <1>3, <2>1, <2>4, <3>1, LogStep
  <2>5. CASE UNCHANGED <<following, lost>>
    <3>1. LogIsOfPanel'
      BY <1>1, <1>2, <1>3, <2>0, <2>1, <2>2, <2>3, <2>5 DEF LogIsOfPanel, Opening
    <3>. QED
      BY <1>1, <1>2, <1>3, <2>1, <2>5, <3>1, LogStep
  <2>. QED
    BY <1>4, <2>4, <2>5 DEF StreamOpens, StreamFails
<1>5. CASE StreamEnds(p)
  <2>1. following' \in {following, NoPod} /\ lost' \subseteq lost /\ UNCHANGED opening
    BY <1>5 DEF StreamEnds
  <2>2. LogIsOfPanel'
    BY <1>1, <1>2, <1>3, <2>1, HistoryAssumption DEF LogIsOfPanel, Opening
  <2>. QED
    BY <1>1, <1>2, <1>3, <2>1, <2>2, LogStep
<1>. QED
  BY <1>4, <1>5

(* The view is computed anew, perhaps for another time. *)
LEMMA ViewStep ==
  ASSUME PageInv, viewedAt' = now, timeTravel' \in Lookbacks \cup {0},
         UNCHANGED <<selection, isLoading, socket, open, live, graphStateRef, graphHistory, past,
                     served, panel, logs, now>>
  PROVE  PageInv'
<1>. USE DEF PageInv, panel, logs
<1>1. SelectionInv' /\ PastIsKept' /\ HistoryIsFaithful'
  BY SelectionStays, HistoryStays
<1>2. SocketFollowsSelection' /\ LiveGraphIsOfSelection' /\ LogIsOfPanel'
  BY DEF SocketFollowsSelection, LiveGraphIsOfSelection, LogIsOfPanel, Opening, selection
<1>3. TypeOK'
  BY <1>1 DEF TypeOK, PastIsKept, SelectionInv, selection
<1>. QED
  BY <1>1, <1>2, <1>3

LEMMA PageStep == PageInv /\ [Next]_vars => PageInv'
<1>. SUFFICES ASSUME PageInv, [Next]_vars PROVE PageInv'
  OBVIOUS
<1>. USE DEF PageInv
<1>1. CASE SplashEnds
  BY <1>1, SelectionStays, ConnectStep DEF SplashEnds
<1>2. CASE Selects
  <2>1. SelectionInv'
    BY <1>2, SelectionStep DEF Selects
  <2>2. CASE isLoading \/ UNCHANGED <<selectedContext, selectedNamespace>>
    <3>1. UNCHANGED <<isLoading, socket, open, live, graphStateRef, graphHistory, timeTravel,
                      viewedAt, panel, logs, now, served, past>>
      BY <1>2, <2>2 DEF Selects
    <3>. QED
      BY <2>1, <2>2, <3>1, HistoryStays
         DEF panel, logs, TypeOK, SelectionInv, SocketFollowsSelection,
             LiveGraphIsOfSelection, LogIsOfPanel, Opening
  <2>3. CASE ~ (isLoading \/ UNCHANGED <<selectedContext, selectedNamespace>>)
    BY <1>2, <2>1, <2>3, ConnectStep DEF Selects
  <2>. QED
    BY <2>2, <2>3
<1>3. ASSUME NEW sel \in open, graphUpdate(sel) PROVE PageInv'
  <2>1. sel = socket /\ sel \in Contexts \X AllNamespaces
    BY SocketType DEF SocketFollowsSelection
  <2>2. CASE recordSnapshot(GraphOf(sel))
    BY <1>3, <2>1, <2>2, GraphTypes, MessageStep DEF graphUpdate
  <2>3. CASE recordSnapshot(Empty)
    BY <1>3, <2>3, GraphTypes, MessageStep DEF graphUpdate
  <2>. QED
    BY <1>3, <2>2, <2>3 DEF graphUpdate
<1>4. CASE telemetryUpdate
  <2>1. graphStateRef \in GraphType /\ open # {} /\ UNCHANGED served
    BY <1>4 DEF TypeOK, telemetryUpdate
  <2>2. PICK g \in GraphType : recordSnapshot(g) /\ g.of = graphStateRef.of
    BY <1>4, <2>1, GraphTypes DEF telemetryUpdate
  <2>3. served' => g.of \in {socket, Nothing}
    BY <2>1, <2>2 DEF LiveGraphIsOfSelection, SocketFollowsSelection
  <2>. QED
    BY <1>4, <2>1, <2>2, <2>3, MessageStep DEF telemetryUpdate
<1>5. ASSUME NEW p \in Pods \cup {NoPod}, onNodeClick(p) PROVE PageInv'
  BY <1>5, ClickStep
<1>6. CASE handleClosePanel
  BY <1>6, CloseStep
<1>7. ASSUME NEW p \in Pods, StreamOpens(p) \/ StreamFails(p) \/ StreamEnds(p) PROVE PageInv'
  BY <1>7, StreamStep
<1>8. ASSUME NEW l \in Lookbacks, setTimeTravelMinutes(l) PROVE PageInv'
  BY <1>8, ViewStep DEF setTimeTravelMinutes
<1>9. CASE onNodesChange
  BY <1>9, ViewStep DEF onNodesChange, TypeOK
<1>10. CASE Tick
  <2>1. SelectionInv' /\ PastIsKept' /\ HistoryIsFaithful'
    BY <1>10, SelectionStays, TimePasses DEF Tick
  <2>2. SocketFollowsSelection' /\ LiveGraphIsOfSelection' /\ LogIsOfPanel'
    BY <1>10 DEF Tick, panel, logs, selection, SocketFollowsSelection, LiveGraphIsOfSelection,
                LogIsOfPanel, Opening
  <2>3. (\A i \in DOMAIN graphHistory :
           graphHistory[i].ts \in 1 .. now /\ graphHistory[i].graph \in GraphType)'
    BY <2>1, HistoryTypes, PTL
  <2>4. TypeOK'
    <3>1. viewedAt' \in 1 .. now'
      BY <1>10 DEF Tick, TypeOK, PastIsKept
    <3>. QED
      BY <1>10, <2>1, <2>2, <2>3, <3>1
         DEF Tick, panel, logs, selection, TypeOK, SelectionInv, SocketFollowsSelection
  <2>. QED
    BY <2>1, <2>2, <2>4
<1>11. CASE UNCHANGED vars
  BY <1>11, SelectionStays, HistoryStays
     DEF vars, pageVars, graph, panel, logs, TypeOK, SelectionInv, SocketFollowsSelection,
         LiveGraphIsOfSelection, LogIsOfPanel, Opening, selection
<1>. QED
  BY <1>1, <1>2, <1>3, <1>4, <1>5, <1>6, <1>7, <1>8, <1>9, <1>10, <1>11 DEF Next

-----------------------------------------------------------------------------
LEMMA PageAlways == Spec => []PageInv
  BY PageStarts, PageStep, PTL DEF Spec

(* Whatever the page shows and plays back, it changes the selection only as the menus
   and the answers with contexts and namespaces do. *)
THEOREM PageRefinesSelection == Spec => SelectionInit /\ [][SelectionNext]_selection
<1>1. Init => SelectionInit
  BY DEF Init
<1>2. [Next]_vars => [SelectionNext]_selection
  BY DEF Next, vars, SplashEnds, Selects, graphUpdate, telemetryUpdate, onNodeClick,
         handleClosePanel, StreamOpens, StreamFails, StreamEnds, setTimeTravelMinutes,
         onNodesChange, Tick
<1>. QED
  BY <1>1, <1>2, PTL DEF Spec

(* The types; a page without a selection has no socket. *)
THEOREM PageTypes == Spec => []TypeOK
<1>1. PageInv => TypeOK
  BY DEF PageInv
<1>. QED
  BY <1>1, PageAlways, PTL

(* A list of namespaces that comes late is kept under its own context. *)
THEOREM ListsAreKeptUnderTheirContext == Spec => []CacheOwnsItsNamespaces
<1>1. PageInv => CacheOwnsItsNamespaces
  BY DEF PageInv, SelectionInv
<1>. QED
  BY <1>1, PageAlways, PTL

(* Who waits for the namespaces, and is refused nothing, works in one of the selected
   context's. *)
THEOREM PatientUsersAreNotMisled == Spec => []PatientUsersStayInTheirContext
<1>1. PageInv => PatientUsersStayInTheirContext
  BY DEF PageInv, SelectionInv
<1>. QED
  BY <1>1, PageAlways, PTL

(* Once the selection's socket has sent a graph, no other selection's is shown or
   merged into. *)
THEOREM PageShowsItsSelection == Spec => []LiveGraphIsOfSelection
<1>1. PageInv => LiveGraphIsOfSelection
  BY DEF PageInv
<1>. QED
  BY <1>1, PageAlways, PTL

(* Time travel shows what the page showed that long before the view was last computed,
   whatever has been dropped from the history since. *)
THEOREM TimeTravelIsFaithful == Spec => []ReplayIsFaithful
<1>1. ASSUME PageInv, timeTravel > 0, NEW k \in DOMAIN graphHistory,
             graphHistory[k].ts <= viewedAt - timeTravel
      PROVE  past[viewedAt - timeTravel] \in {visibleSnapshot, Empty}
  <2>1. timeTravel \in Nat /\ now \in Nat /\ viewedAt \in 1 .. now
    <3>1. timeTravel \in Lookbacks \cup {0} /\ now \in Nat /\ viewedAt \in 1 .. now
      BY <1>1 DEF PageInv, TypeOK, PastIsKept
    <3>2. Lookbacks \subseteq Nat
      BY HistoryAssumption
    <3>. QED
      BY <3>1, <3>2
  <2>2. graphHistory[k].ts \in 1 .. now
    BY <1>1, HistoryTypes DEF PageInv
  <2>3. PICK t \in 1 .. now : t = viewedAt - timeTravel
    BY <1>1, <2>1, <2>2
  <2>. DEFINE old == {i \in DOMAIN graphHistory : graphHistory[i].ts <= t}
  <2>4. Len(graphHistory) \in Nat /\ DOMAIN graphHistory = 1 .. Len(graphHistory)
    BY <1>1, LenProperties DEF PageInv, HistoryIsFaithful
  <2>5. old \in SUBSET Nat /\ old # {} /\ \A i \in old : i <= Len(graphHistory)
    BY <1>1, <2>3, <2>4
  <2>6. Max(old) \in old /\ \A i \in old : i <= Max(old)
    BY <2>4, <2>5, GreatestNumber
  <2>7. Shows(t, Max(old))
    BY <2>6 DEF Shows
  <2>8. past[t] \in {graphHistory[Max(old)].graph, Empty}
    BY <1>1, <2>6, <2>7 DEF PageInv, HistoryIsFaithful
  <2>9. visibleSnapshot = graphHistory[Max(old)].graph
    <3>1. timeTravel # 0 /\ graphHistory # <<>>
      BY <1>1, <2>1, EmptySeq
    <3>. QED
      BY <2>3, <2>5, <3>1 DEF visibleSnapshot, findNearestSnapshot
  <2>. QED
    BY <2>3, <2>8, <2>9
<1>2. PageInv => ReplayIsFaithful
  BY <1>1 DEF ReplayIsFaithful
<1>. QED
  BY <1>2, PageAlways, PTL

(* The log is the panel's pod's and ends with the panel, unless the gateway was told
   something while it opened a stream or a node without a pod was clicked over one. *)
THEOREM ClosedPanelsFollowNoLog == Spec => []LogEndsWithPanel
<1>1. PageInv => LogEndsWithPanel
  <2>. SUFFICES ASSUME PageInv, ~(strayed \/ rushed)
                PROVE  ({following} \ {NoPod}) \cup lost \subseteq
                         (IF isPanelOpen THEN {selectedPodName} ELSE {})
    BY DEF LogEndsWithPanel
  <2>1. lost = {} /\ following \in Pods \cup {NoPod}
    BY DEF PageInv, LogIsOfPanel, TypeOK
  <2>2. following # NoPod => isPanelOpen /\ selectedPodName = following
    BY <2>1 DEF PageInv, LogIsOfPanel
  <2>. QED
    BY <2>1, <2>2
<1>. QED
  BY <1>1, PageAlways, PTL
=============================================================================
