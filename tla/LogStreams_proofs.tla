------------------------- MODULE LogStreams_proofs -------------------------
(* For any number of clients, pods and subscriptions: a client that lets each
   stream open before it goes on follows one pod, the one it asked for. *)
EXTENDS LogStreams, TLAPS

(* The invariant has to say what a stream being opened will find when it is
   filed: for a client that is not hasty nothing else is filed or being opened,
   and the stream is the one last asked for. *)
OpeningIsLatest ==
  \A c \in Clients \ hasty :
    \A r \in Opening(c) :
      /\ Opening(c) = {r}
      /\ c \notin DOMAIN logStreams
      /\ streams[r].pod = asked[c]

LogInv == TypeOK /\ OpeningIsLatest /\ PatientClientsFollowOnePod

LEMMA LogInit == Init => LogInv
  BY NobodyAssumption
  DEF Init, LogInv, TypeOK, OpeningIsLatest, PatientClientsFollowOnePod, Opening,
      Live, Nothing, StreamType

(* What aborting does to the streams of all clients. *)
LEMMA AbortEffect ==
  ASSUME TypeOK, NEW c \in Clients
  PROVE  /\ Abort(c) \in [Requests -> StreamType \cup {Nothing}]
         /\ \A r \in Requests :
              \/ Abort(c)[r] = streams[r]
              \/ /\ Abort(c)[r] = Nothing /\ streams[r].client = c
                 /\ streams[r].st \in {"live", "ended"}
                 /\ c \in DOMAIN logStreams /\ r = logStreams[c]
         /\ c \in DOMAIN logStreams => Abort(c)[logStreams[c]] = Nothing
  BY NobodyAssumption DEF TypeOK, Abort, StreamType, Nothing

(* Unsubscribing and disconnecting have the same effect on the streams. *)
LEMMA StopPreserves ==
  ASSUME LogInv, NEW c \in Clients,
         streams' = Abort(c), logStreams' = Unfiled(c), Wishes(c, NoPod),
         sockets' \in [Clients -> {"new", "open", "closed"}]
  PROVE  LogInv'
<1>. USE DEF LogInv
<1>1. TypeOK'
  <2>1. \A d \in DOMAIN logStreams' : d # c /\ d \in DOMAIN logStreams /\ logStreams'[d] = logStreams[d]
    BY DEF Unfiled
  <2>2. \A d \in DOMAIN logStreams' : streams'[logStreams[d]] = streams[logStreams[d]]
    BY <2>1, AbortEffect DEF TypeOK
  <2>3. streams' \in [Requests -> StreamType \cup {Nothing}]
    BY AbortEffect
  <2>4. asked' \in [Clients -> Pods \cup {NoPod}] /\ hasty' \subseteq Clients
    BY DEF Wishes, TypeOK
  <2>5. DOMAIN logStreams' \subseteq Clients
    BY <2>1 DEF TypeOK
  <2>6. \A d \in DOMAIN logStreams' :
          /\ logStreams'[d] \in Requests
          /\ streams'[logStreams'[d]].client = d
          /\ streams'[logStreams'[d]].st \in {"live", "ended"}
    BY <2>1, <2>2 DEF TypeOK
  <2>. QED
    BY <2>3, <2>4, <2>5, <2>6 DEF TypeOK
<1>2. OpeningIsLatest'
  <2>. SUFFICES ASSUME NEW d \in Clients, d \notin hasty', NEW r \in Opening(d)'
                PROVE  /\ Opening(d)' = {r}
                       /\ d \notin DOMAIN logStreams'
                       /\ streams'[r].pod = asked'[d]
    BY DEF OpeningIsLatest
  <2>1. Opening(d)' = Opening(d) /\ streams'[r] = streams[r]
    BY AbortEffect, NobodyAssumption DEF Opening, Nothing
  <2>2. d # c /\ d \notin hasty
    BY <2>1 DEF Wishes
  <2>3. asked'[d] = asked[d]
    BY <2>2 DEF Wishes, TypeOK
  <2>. QED
    BY <2>1, <2>2, <2>3 DEF OpeningIsLatest, Unfiled
<1>3. PatientClientsFollowOnePod'
  <2>. SUFFICES ASSUME NEW d \in Clients, d \notin hasty', NEW r \in Live(d)'
                PROVE  /\ d \in DOMAIN logStreams' /\ logStreams'[d] = r
                       /\ streams'[r].pod = asked'[d]
    BY DEF PatientClientsFollowOnePod
  <2>1. streams'[r] = streams[r] /\ r \in Live(d)
    BY AbortEffect, NobodyAssumption DEF Live, Nothing
  <2>2. d \notin hasty
    BY DEF Wishes
  <2>3. d \in DOMAIN logStreams /\ logStreams[d] = r /\ streams[r].pod = asked[d]
    BY <2>1, <2>2 DEF PatientClientsFollowOnePod
  <2>4. d # c
    BY <2>1, <2>3, AbortEffect DEF Live, Nothing
  <2>. QED
    BY <2>1, <2>3, <2>4 DEF Unfiled, Wishes, TypeOK
<1>. QED
  BY <1>1, <1>2, <1>3

LEMMA SubscribePreserves ==
  ASSUME LogInv, NEW c \in Clients, NEW pod \in Pods, NEW q \in Requests,
         handleSubscribeLogs(c, pod, q)
  PROVE  LogInv'
<1>. DEFINE opening == [st |-> "opening", client |-> c, pod |-> pod]
<1>. USE DEF LogInv
<1>0. /\ streams'[q] = opening /\ streams[q] = Nothing
      /\ \A r \in Requests \ {q} : streams'[r] = Abort(c)[r]
      /\ streams' \in [Requests -> StreamType \cup {Nothing}]
  BY AbortEffect DEF handleSubscribeLogs, StreamType
<1>a. c \in DOMAIN logStreams => logStreams[c] # q
  BY <1>0 DEF TypeOK, Nothing
<1>1. TypeOK'
  <2>1. \A d \in DOMAIN logStreams' : d # c /\ logStreams'[d] = logStreams[d]
    BY DEF handleSubscribeLogs, Unfiled
  <2>2. \A d \in DOMAIN logStreams' : logStreams[d] # q
    BY <2>1, <1>0 DEF TypeOK, Nothing, handleSubscribeLogs, Unfiled
  <2>3. \A d \in DOMAIN logStreams' : streams'[logStreams[d]] = streams[logStreams[d]]
    BY <2>1, <2>2, <1>0, AbortEffect DEF TypeOK, handleSubscribeLogs, Unfiled
  <2>. QED
    BY <1>0, <2>1, <2>3 DEF TypeOK, handleSubscribeLogs, Unfiled, Wishes
<1>2. OpeningIsLatest'
  <2>. SUFFICES ASSUME NEW d \in Clients, d \notin hasty', NEW r \in Opening(d)'
                PROVE  /\ Opening(d)' = {r}
                       /\ d \notin DOMAIN logStreams'
                       /\ streams'[r].pod = asked'[d]
    BY DEF OpeningIsLatest
  <2>0. d \notin hasty
    BY DEF handleSubscribeLogs, Wishes
  <2>1. CASE d = c
    <3>1. Opening(c) = {}
      BY <2>1 DEF handleSubscribeLogs, Wishes
    <3>2. Opening(c)' = {q}
      BY <3>1, <1>0, AbortEffect, NobodyAssumption DEF Opening, Nothing
    <3>. QED
      BY <2>1, <3>2, <1>0 DEF handleSubscribeLogs, Unfiled, Wishes, TypeOK
  <2>2. CASE d # c
    <3>1. Opening(d)' = Opening(d)
      BY <2>2, <1>0, AbortEffect, NobodyAssumption DEF Opening, Nothing
    <3>2. r # q /\ streams'[r] = streams[r]
      BY <2>2, <3>1, <1>0, AbortEffect, NobodyAssumption DEF Opening, Nothing
    <3>. QED
      BY <2>0, <2>2, <3>1, <3>2 DEF OpeningIsLatest, handleSubscribeLogs, Unfiled, Wishes, TypeOK
  <2>. QED
    BY <2>1, <2>2
<1>3. PatientClientsFollowOnePod'
  <2>. SUFFICES ASSUME NEW d \in Clients, d \notin hasty', NEW r \in Live(d)'
                PROVE  /\ d \in DOMAIN logStreams' /\ logStreams'[d] = r
                       /\ streams'[r].pod = asked'[d]
    BY DEF PatientClientsFollowOnePod
  <2>1. r # q /\ streams'[r] = streams[r] /\ r \in Live(d)
    BY <1>0, AbortEffect, NobodyAssumption DEF Live, Nothing
  <2>2. d \notin hasty
    BY DEF handleSubscribeLogs, Wishes
  <2>3. d \in DOMAIN logStreams /\ logStreams[d] = r /\ streams[r].pod = asked[d]
    BY <2>1, <2>2 DEF PatientClientsFollowOnePod
  <2>4. d # c
    BY <2>1, <2>3, <1>0, AbortEffect DEF Live, Nothing
  <2>. QED
    BY <2>1, <2>3, <2>4 DEF handleSubscribeLogs, Unfiled, Wishes, TypeOK
<1>. QED
  BY <1>1, <1>2, <1>3

LEMMA OpensPreserves ==
  ASSUME LogInv, NEW q \in Requests, StreamOpens(q)
  PROVE  LogInv'
<1>. USE DEF LogInv
<1>. DEFINE c == streams[q].client
<1>0. c \in Clients /\ streams[q] \in StreamType
  BY NobodyAssumption DEF StreamOpens, TypeOK, Nothing, StreamType
<1>1. /\ streams'[q] = [st |-> "live", client |-> c, pod |-> streams[q].pod]
      /\ \A r \in Requests \ {q} :
           \/ streams'[r] = streams[r]
           \/ /\ streams'[r] = Nothing /\ streams[r].st = "ended"
              /\ c \in DOMAIN logStreams /\ r = logStreams[c]
  BY DEF StreamOpens
<1>2. logStreams' = Filed(c, q) /\ UNCHANGED <<sockets, asked, hasty>>
  BY DEF StreamOpens
<1>3. \A d \in DOMAIN logStreams : logStreams[d] # q
  BY DEF TypeOK, StreamOpens
<1>4. TypeOK'
  <2>1. streams' \in [Requests -> StreamType \cup {Nothing}]
    BY <1>0 DEF StreamOpens, TypeOK, StreamType
  <2>2. \A d \in DOMAIN logStreams \ {c} : streams'[logStreams[d]] = streams[logStreams[d]]
    BY <1>1, <1>3 DEF TypeOK
  <2>. QED
    BY <1>0, <1>1, <1>2, <2>1, <2>2 DEF TypeOK, Filed
<1>5. \A d \in Clients : Opening(d)' = Opening(d) \ {q}
  BY <1>1, NobodyAssumption DEF Opening, Nothing
<1>6. OpeningIsLatest'
  <2>. SUFFICES ASSUME NEW d \in Clients, d \notin hasty, NEW r \in Opening(d)'
                PROVE  /\ Opening(d)' = {r}
                       /\ d \notin DOMAIN logStreams'
                       /\ streams'[r].pod = asked'[d]
    BY <1>2 DEF OpeningIsLatest
  <2>1. r \in Opening(d) /\ r # q
    BY <1>5
  <2>2. Opening(d) = {r} /\ d \notin DOMAIN logStreams /\ streams[r].pod = asked[d]
    BY <2>1 DEF OpeningIsLatest
  <2>3. d # c
    BY <2>1, <2>2 DEF Opening, StreamOpens
  <2>4. streams'[r] = streams[r]
    BY <1>1, <2>1 DEF Opening
  <2>. QED
    BY <1>2, <1>5, <2>1, <2>2, <2>3, <2>4 DEF Filed
<1>7. PatientClientsFollowOnePod'
  <2>. SUFFICES ASSUME NEW d \in Clients, d \notin hasty, NEW r \in Live(d)'
                PROVE  /\ d \in DOMAIN logStreams' /\ logStreams'[d] = r
                       /\ streams'[r].pod = asked'[d]
    BY <1>2 DEF PatientClientsFollowOnePod
  <2>1. CASE d = c
    <3>1. q \in Opening(c)
      BY DEF Opening, StreamOpens
    <3>2. c \notin DOMAIN logStreams /\ streams[q].pod = asked[c]
      BY <2>1, <3>1 DEF OpeningIsLatest
    <3>3. r = q
      BY <2>1, <3>2, <1>1, NobodyAssumption DEF Live, PatientClientsFollowOnePod, Nothing
    <3>. QED
      BY <2>1, <3>2, <3>3, <1>1, <1>2 DEF Filed
  <2>2. CASE d # c
    <3>1. r # q /\ streams'[r] = streams[r] /\ r \in Live(d)
      BY <2>2, <1>1, NobodyAssumption DEF Live, Nothing
    <3>. QED
      BY <2>2, <3>1, <1>2 DEF PatientClientsFollowOnePod, Filed
  <2>. QED
    BY <2>1, <2>2
<1>. QED
  BY <1>4, <1>6, <1>7

(* A stream that fails or ends leaves the table or stays in it as ended. *)
LEMMA StreamOverPreserves ==
  ASSUME LogInv, NEW q \in Requests, StreamFails(q) \/ StreamEnds(q)
  PROVE  LogInv'
<1>. USE DEF LogInv
<1>1. UNCHANGED <<sockets, logStreams, asked, hasty>>
  BY DEF StreamFails, StreamEnds
<1>2. /\ streams' \in [Requests -> StreamType \cup {Nothing}]
      /\ \A r \in Requests \ {q} : streams'[r] = streams[r]
      /\ streams'[q].st \in {"none", "ended"}
      /\ (\E c \in DOMAIN logStreams : logStreams[c] = q) =>
            streams'[q].st = "ended" /\ streams'[q].client = streams[q].client
  BY NobodyAssumption DEF StreamFails, StreamEnds, TypeOK, StreamType, Nothing
<1>3. TypeOK'
  BY <1>1, <1>2 DEF TypeOK
<1>4. OpeningIsLatest'
  BY <1>1, <1>2 DEF OpeningIsLatest, Opening
<1>5. PatientClientsFollowOnePod'
  BY <1>1, <1>2 DEF PatientClientsFollowOnePod, Live
<1>. QED
  BY <1>3, <1>4, <1>5

LEMMA LogStep == LogInv /\ [Next]_vars => LogInv'
<1>. SUFFICES ASSUME LogInv, [Next]_vars PROVE LogInv'
  OBVIOUS
<1>1. ASSUME NEW c \in Clients, handleConnection(c) PROVE LogInv'
  BY <1>1 DEF handleConnection, LogInv, TypeOK, OpeningIsLatest, Opening,
              PatientClientsFollowOnePod, Live
<1>2. ASSUME NEW c \in Clients, handleDisconnect(c) \/ handleUnsubscribeLogs(c)
      PROVE  LogInv'
  BY <1>2, StopPreserves DEF handleDisconnect, handleUnsubscribeLogs, LogInv, TypeOK
<1>3. ASSUME UNCHANGED vars PROVE LogInv'
  BY <1>3 DEF vars, LogInv, TypeOK, OpeningIsLatest, Opening,
              PatientClientsFollowOnePod, Live
<1>. QED
  BY <1>1, <1>2, <1>3, SubscribePreserves, OpensPreserves, StreamOverPreserves DEF Next

\* The gateway's log state always has its types, and every entry of logStreams
\* is a stream of the client it is filed for.
THEOREM LogTypes == Spec => []TypeOK
<1>1. LogInv => TypeOK
  BY DEF LogInv
<1>. QED
  BY <1>1, LogInit, LogStep, PTL DEF Spec

\* A client that waits for its streams to open is served as it asked: whatever
\* other clients do, one stream at most runs for it, of the pod it asked for last.
THEOREM PatientClientsAreServed == Spec => []PatientClientsFollowOnePod
<1>1. LogInv => PatientClientsFollowOnePod
  BY DEF LogInv
<1>. QED
  BY <1>1, LogInit, LogStep, PTL DEF Spec
=============================================================================
