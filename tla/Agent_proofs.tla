---------------------------- MODULE Agent_proofs ----------------------------
(* For any connections, any numbers of requests and restarts, and buffers of any
   size: what the agent's reports say is true.

   The invariant orders what may happen on a connection: its requests and
   responses alternate, and each has a place in that order. *)
EXTENDS Agent, SequenceEnds, TLAPS

\* The place of a request or a response among those of its connection, and the place
\* the connection has reached.
Place(e) == IF e.response THEN 2 * e.n + 1 ELSE 2 * e.n
Reached(c) == IF exchange[c].asked THEN 2 * exchange[c].n ELSE 2 * exchange[c].n + 1

-----------------------------------------------------------------------------
(* The invariant *)

AgentType ==
  /\ exchange \in [Conns -> [n : Nat, asked : BOOLEAN]]
  /\ tcpEvents \in Seq(Conns) /\ Len(tcpEvents) <= TcpRing
  /\ httpEvents \in Seq(PacketType) /\ Len(httpEvents) <= HttpRing
  /\ DOMAIN reqMap \subseteq Conns \ (Skipped \cup {Own})
  /\ \A c \in DOMAIN reqMap : reqMap[c] \in [n : Numbers, old : BOOLEAN]
  /\ telemetryQueue \in Seq(ReportType) /\ Len(telemetryQueue) <= QueueSize
  /\ sending \in Seq(ReportType) /\ Len(sending) <= 1
  /\ running \in BOOLEAN /\ exits \in 0 .. MaxExits
  /\ missed \subseteq Conns
  /\ told \in [Conns -> Seq(Numbers)] /\ told[Own] = <<>>

\* What the process held is lost with it.
NothingWithoutProcess ==
  ~running => /\ tcpEvents = <<>> /\ httpEvents = <<>>
              /\ telemetryQueue = <<>> /\ sending = <<>>
              /\ DOMAIN reqMap = {}

\* The agent's own requests are told apart; those of others are numbered from 1.
PacketsAreKnown ==
  \A i \in DOMAIN httpEvents :
    IF httpEvents[i].conn = Own THEN httpEvents[i].path # "app"
    ELSE httpEvents[i].response \/ httpEvents[i].n # 0

\* The packets of a connection wait in their order.
PacketsAreInOrder ==
  \A i, j \in DOMAIN httpEvents :
    i <= j /\ httpEvents[i].conn # Own /\ httpEvents[j].conn = httpEvents[i].conn =>
      Place(httpEvents[i]) <= Place(httpEvents[j])

\* What a connection's remembered request and reports speak of is before place p.
Before(c, p) ==
  /\ c \in DOMAIN reqMap => 2 * reqMap[c].n <= p
  /\ \A t \in DOMAIN told[c] : 2 * told[c][t] < p

\* A packet that waits was sent, and comes after all that was read.
ReadingKeepsPace ==
  /\ \A i \in DOMAIN httpEvents : httpEvents[i].conn # Own =>
       /\ Place(httpEvents[i]) <= Reached(httpEvents[i].conn)
       /\ Before(httpEvents[i].conn, Place(httpEvents[i]))
  /\ \A c \in Conns : Before(c, Reached(c))
  /\ \A c \in DOMAIN reqMap : \A t \in DOMAIN told[c] : told[c][t] < reqMap[c].n

\* Unless one was missed, the response to a request that is remembered, or waits, is
\* outstanding, or waits.
Known(c, n) ==
  \/ c \in DOMAIN reqMap /\ reqMap[c].n = n
  \/ \E i \in DOMAIN httpEvents :
       httpEvents[i].conn = c /\ ~httpEvents[i].response /\ httpEvents[i].n = n

Comes(c, n) ==
  \/ exchange[c].asked /\ exchange[c].n = n
  \/ \E i \in DOMAIN httpEvents :
       httpEvents[i].conn = c /\ httpEvents[i].response /\ httpEvents[i].n = n

ResponsesCome ==
  \A c \in Conns \ (missed \cup {Own}), n \in Nat : Known(c, n) => Comes(c, n)

Right(p) == p.kind = "http" /\ p.conn \notin missed => p.request \in {NoRequest, p.n}

ReportsAreRight ==
  /\ \A i \in DOMAIN telemetryQueue : Right(telemetryQueue[i])
  /\ \A i \in DOMAIN sending : Right(sending[i])

AgentInv ==
  /\ AgentType
  /\ NothingWithoutProcess
  /\ PacketsAreKnown
  /\ PacketsAreInOrder
  /\ ReadingKeepsPace
  /\ ResponsesCome
  /\ ReportsAreRight
  /\ RequestsAreToldOnce

-----------------------------------------------------------------------------
(* What is said of the buffers *)

(* Appending an element twice. *)
LEMMA Twice ==
  ASSUME NEW S, NEW s \in Seq(S), NEW e \in S
  PROVE  /\ s \o <<e, e>> \in Seq(S)
         /\ Len(s \o <<e, e>>) = Len(s) + 2
         /\ \A i \in 1 .. Len(s) : (s \o <<e, e>>)[i] = s[i]
         /\ \A i \in Len(s) + 1 .. Len(s) + 2 : (s \o <<e, e>>)[i] = e
<1>1. <<e, e>> \in Seq(S) /\ Len(<<e, e>>) = 2 /\ <<e, e>>[1] = e /\ <<e, e>>[2] = e
  OBVIOUS
<1>2. Len(s) \in Nat
  BY LenProperties
<1>3. s \o <<e, e>> \in Seq(S) /\ Len(s \o <<e, e>>) = Len(s) + 2
  BY <1>1, ConcatProperties
<1>4. ASSUME NEW i \in 1 .. Len(s) PROVE (s \o <<e, e>>)[i] = s[i]
  BY <1>1, <1>2, ConcatProperties
<1>5. ASSUME NEW i \in Len(s) + 1 .. Len(s) + 2 PROVE (s \o <<e, e>>)[i] = e
  <2>1. (s \o <<e, e>>)[i] = <<e, e>>[i - Len(s)] /\ i - Len(s) \in {1, 2}
    BY <1>1, <1>2, ConcatProperties
  <2>. QED
    BY <1>1, <2>1
<1>. QED
  BY <1>3, <1>4, <1>5

(* A packet is appended, or an event without text, once or twice or not at all. *)
LEMMA SeenAdds ==
  ASSUME AgentType, NEW packet \in PacketType, Seen(packet)
  PROVE  \E event \in {packet, Unread} :
           /\ httpEvents' \in Seq(PacketType)
           /\ Len(httpEvents) <= Len(httpEvents') /\ Len(httpEvents') <= HttpRing
           /\ \A i \in 1 .. Len(httpEvents) : httpEvents'[i] = httpEvents[i]
           /\ \A i \in Len(httpEvents) + 1 .. Len(httpEvents') : httpEvents'[i] = event
           /\ ~running => httpEvents' = httpEvents
<1>1. httpEvents \in Seq(PacketType) /\ Len(httpEvents) \in Nat /\ Len(httpEvents) <= HttpRing
  BY LenProperties DEF AgentType
<1>2. HttpRing \in Nat /\ Unread \in PacketType
  BY AgentAssumption DEF Unread, PacketType, Paths, NoRequest
<1>3. CASE httpEvents' = httpEvents
  BY <1>1, <1>3
<1>4. ASSUME running, HttpRing - Len(httpEvents) # 0, NEW event \in {packet, Unread},
             httpEvents' = Append(httpEvents, event)
      PROVE  /\ httpEvents' \in Seq(PacketType)
             /\ Len(httpEvents) <= Len(httpEvents') /\ Len(httpEvents') <= HttpRing
             /\ \A i \in 1 .. Len(httpEvents) : httpEvents'[i] = httpEvents[i]
             /\ \A i \in Len(httpEvents) + 1 .. Len(httpEvents') : httpEvents'[i] = event
  <2>1. event \in PacketType
    BY <1>2, <1>4
  <2>2. /\ httpEvents' \in Seq(PacketType)
        /\ Len(httpEvents') = Len(httpEvents) + 1
        /\ \A i \in 1 .. Len(httpEvents) : httpEvents'[i] = httpEvents[i]
        /\ httpEvents'[Len(httpEvents) + 1] = event
    BY <1>1, <1>4, <2>1, AppendProperties
  <2>. QED
    BY <1>1, <1>2, <1>4, <2>2
<1>5. ASSUME running, HttpRing - Len(httpEvents) > 1, NEW event \in {packet, Unread},
             httpEvents' = httpEvents \o <<event, event>>
      PROVE  /\ httpEvents' \in Seq(PacketType)
             /\ Len(httpEvents) <= Len(httpEvents') /\ Len(httpEvents') <= HttpRing
             /\ \A i \in 1 .. Len(httpEvents) : httpEvents'[i] = httpEvents[i]
             /\ \A i \in Len(httpEvents) + 1 .. Len(httpEvents') : httpEvents'[i] = event
  <2>1. event \in PacketType
    BY <1>2, <1>5
  <2>2. /\ httpEvents' \in Seq(PacketType)
        /\ Len(httpEvents') = Len(httpEvents) + 2
        /\ \A i \in 1 .. Len(httpEvents) : httpEvents'[i] = httpEvents[i]
        /\ \A i \in Len(httpEvents) + 1 .. Len(httpEvents) + 2 : httpEvents'[i] = event
    BY <1>1, <1>5, <2>1, Twice
  <2>. QED
    BY <1>1, <1>2, <1>5, <2>2
<1>6. CASE running /\ HttpRing - Len(httpEvents) # 0
  <2>1. PICK event \in {packet, Unread} :
          \/ httpEvents' = Append(httpEvents, event)
          \/ HttpRing - Len(httpEvents) > 1 /\ httpEvents' = httpEvents \o <<event, event>>
    BY <1>6 DEF Seen
  <2>. QED
    BY <1>4, <1>5, <1>6, <2>1
<1>. QED
  BY <1>3, <1>6 DEF Seen

(* What is left of a buffer when its first element is read. *)
LEMMA TailOf ==
  ASSUME NEW S, NEW s \in Seq(S), s # <<>>
  PROVE  /\ Head(s) \in S /\ Head(s) = s[1] /\ 1 \in DOMAIN s
         /\ Tail(s) \in Seq(S) /\ Len(Tail(s)) = Len(s) - 1 /\ Len(Tail(s)) <= Len(s)
         /\ \A i \in DOMAIN Tail(s) : i + 1 \in DOMAIN s /\ Tail(s)[i] = s[i + 1]
         /\ \A i \in DOMAIN s : i = 1 \/ (i - 1 \in DOMAIN Tail(s) /\ Tail(s)[i - 1] = s[i])
<1>1. Len(s) \in Nat \ {0} /\ DOMAIN s = 1 .. Len(s)
  BY EmptySeq, LenProperties
<1>2. /\ Head(s) \in S /\ Head(s) = s[1]
      /\ Tail(s) \in Seq(S) /\ Len(Tail(s)) = Len(s) - 1
      /\ \A i \in 1 .. Len(Tail(s)) : Tail(s)[i] = s[i + 1]
  BY <1>1, HeadTailProperties
<1>3. DOMAIN Tail(s) = 1 .. Len(s) - 1
  BY <1>2, LenProperties
<1>. QED
  BY <1>1, <1>2, <1>3

(* A report is queued, if there is room. *)
LEMMA Queued ==
  ASSUME AgentType, NEW report \in ReportType, enqueueTelemetry(report)
  PROVE  /\ telemetryQueue' \in Seq(ReportType) /\ Len(telemetryQueue') <= QueueSize
         /\ \A i \in DOMAIN telemetryQueue' :
              telemetryQueue'[i] = report
              \/ (i \in DOMAIN telemetryQueue /\ telemetryQueue'[i] = telemetryQueue[i])
<1>1. /\ telemetryQueue \in Seq(ReportType) /\ Len(telemetryQueue) \in Nat
      /\ Len(telemetryQueue) <= QueueSize /\ QueueSize \in Nat
      /\ DOMAIN telemetryQueue = 1 .. Len(telemetryQueue)
  BY AgentAssumption, LenProperties DEF AgentType
<1>2. CASE Len(telemetryQueue) < QueueSize
  <2>1. telemetryQueue' = Append(telemetryQueue, report)
    BY <1>2 DEF enqueueTelemetry
  <2>2. /\ telemetryQueue' \in Seq(ReportType) /\ Len(telemetryQueue') = Len(telemetryQueue) + 1
        /\ \A i \in 1 .. Len(telemetryQueue) : telemetryQueue'[i] = telemetryQueue[i]
        /\ telemetryQueue'[Len(telemetryQueue) + 1] = report
    BY <1>1, <2>1, AppendProperties
  <2>3. DOMAIN telemetryQueue' = 1 .. Len(telemetryQueue) + 1
    BY <2>2, LenProperties
  <2>. QED
    BY <1>1, <1>2, <2>2, <2>3
<1>3. CASE ~(Len(telemetryQueue) < QueueSize)
  BY <1>1, <1>3 DEF enqueueTelemetry
<1>. QED
  BY <1>2, <1>3

-----------------------------------------------------------------------------
(* The types *)

LEMMA InitType == Init => AgentType /\ NothingWithoutProcess
<1>. SUFFICES ASSUME Init PROVE AgentType /\ NothingWithoutProcess
  OBVIOUS
<1>1. /\ <<>> \in Seq(Conns) /\ <<>> \in Seq(PacketType) /\ <<>> \in Seq(ReportType)
      /\ <<>> \in Seq(Numbers) /\ Len(<<>>) = 0
  OBVIOUS
<1>2. DOMAIN reqMap = {}
  BY DEF Init
<1>3. exchange \in [Conns -> [n : Nat, asked : BOOLEAN]]
  BY DEF Init
<1>4. told \in [Conns -> Seq(Numbers)] /\ told[Own] = <<>>
  BY AgentAssumption, <1>1 DEF Init
<1>. QED
  BY <1>1, <1>2, <1>3, <1>4, AgentAssumption DEF Init, AgentType, NothingWithoutProcess

(* A request or a response leaves the types. *)
LEMMA AskType ==
  ASSUME AgentType, NEW c \in Conns, NEW path \in Paths, Ask(c, path)
  PROVE  /\ exchange' \in [Conns -> [n : Nat, asked : BOOLEAN]]
         /\ tcpEvents' \in Seq(Conns) /\ Len(tcpEvents') <= TcpRing
         /\ httpEvents' \in Seq(PacketType) /\ Len(httpEvents') <= HttpRing
         /\ ~running => tcpEvents' = tcpEvents /\ httpEvents' = httpEvents
<1>1. exchange[c].n + 1 \in Nat
  BY DEF AgentType
<1>2. exchange' = [exchange EXCEPT ![c] = [n |-> exchange[c].n + 1, asked |-> TRUE]]
  BY DEF Ask
<1>3. exchange' \in [Conns -> [n : Nat, asked : BOOLEAN]]
  BY <1>1, <1>2 DEF AgentType
<1>4. tcpEvents' \in Seq(Conns) /\ Len(tcpEvents') <= TcpRing
  <2>1. tcpEvents \in Seq(Conns) /\ Len(tcpEvents) \in Nat /\ Len(tcpEvents) <= TcpRing
        /\ TcpRing \in Nat
    BY AgentAssumption, LenProperties DEF AgentType
  <2>2. \/ tcpEvents' = tcpEvents
        \/ Len(tcpEvents) < TcpRing /\ tcpEvents' = Append(tcpEvents, c)
    BY DEF Ask
  <2>. QED
    BY <2>1, <2>2, AppendProperties
<1>5. ~running => tcpEvents' = tcpEvents
  BY DEF Ask
<1>6. [conn |-> c, n |-> exchange[c].n + 1, response |-> FALSE, path |-> path] \in PacketType
  BY <1>1 DEF PacketType
<1>7. Seen([conn |-> c, n |-> exchange[c].n + 1, response |-> FALSE, path |-> path])
  BY DEF Ask
<1>. QED
  BY <1>3, <1>4, <1>5, <1>6, <1>7, SeenAdds

LEMMA AnswerType ==
  ASSUME AgentType, NEW c \in Conns, Answer(c)
  PROVE  /\ exchange' \in [Conns -> [n : Nat, asked : BOOLEAN]]
         /\ httpEvents' \in Seq(PacketType) /\ Len(httpEvents') <= HttpRing
         /\ ~running => httpEvents' = httpEvents
         /\ missed' \subseteq Conns /\ missed \subseteq missed'
         /\ tcpEvents' = tcpEvents
<1>1. exchange[c].n \in Nat
  BY DEF AgentType
<1>2. exchange' \in [Conns -> [n : Nat, asked : BOOLEAN]]
  BY DEF AgentType, Answer
<1>3. [conn |-> c, n |-> exchange[c].n, response |-> TRUE, path |-> "none"] \in PacketType
  BY <1>1 DEF PacketType, Paths
<1>4. Seen([conn |-> c, n |-> exchange[c].n, response |-> TRUE, path |-> "none"])
  BY DEF Answer
<1>5. missed' \subseteq Conns /\ missed \subseteq missed' /\ tcpEvents' = tcpEvents
  BY DEF AgentType, Answer
<1>. QED
  BY <1>2, <1>3, <1>4, <1>5, SeenAdds

LEMMA TypeStep ==
  ASSUME AgentType, NothingWithoutProcess, PacketsAreKnown, [Next]_vars
  PROVE  AgentType' /\ NothingWithoutProcess'
<1>1. CASE UNCHANGED vars
  BY <1>1 DEF vars, net, process, AgentType, NothingWithoutProcess
<1>2. ASSUME NEW c \in Conns, OthersAsk(c) PROVE AgentType' /\ NothingWithoutProcess'
  <2>1. PICK path \in Paths : Ask(c, path)
    BY <1>2 DEF OthersAsk, Paths
  <2>2. UNCHANGED <<reqMap, telemetryQueue, sending, process, missed, told>>
    BY <1>2 DEF OthersAsk
  <2>. QED
    BY <2>1, <2>2, AskType DEF process, AgentType, NothingWithoutProcess
<1>3. ASSUME NEW c \in Conns, OthersAnswer(c) PROVE AgentType' /\ NothingWithoutProcess'
  <2>1. Answer(c) /\ UNCHANGED <<reqMap, telemetryQueue, sending, process, told>>
    BY <1>3 DEF OthersAnswer
  <2>. QED
    BY <2>1, AnswerType DEF process, AgentType, NothingWithoutProcess
<1>4. ASSUME NEW c \in Conns, Ages(c) PROVE AgentType' /\ NothingWithoutProcess'
  <2>1. DOMAIN reqMap' = DOMAIN reqMap
    BY <1>4 DEF Ages
  <2>2. \A d \in DOMAIN reqMap : reqMap'[d] \in [n : Numbers, old : BOOLEAN]
    BY <1>4 DEF Ages, AgentType
  <2>. QED
    BY <1>4, <2>1, <2>2 DEF Ages, net, process, AgentType, NothingWithoutProcess
<1>5. CASE ReadTcpEvent
  <2>1. tcpEvents' \in Seq(Conns) /\ Len(tcpEvents') <= TcpRing /\ Head(tcpEvents) \in Conns
    <3>1. tcpEvents \in Seq(Conns) /\ Len(tcpEvents) \in Nat /\ TcpRing \in Nat
          /\ Len(tcpEvents) <= TcpRing
      BY AgentAssumption, LenProperties DEF AgentType
    <3>2. tcpEvents # <<>> /\ tcpEvents' = Tail(tcpEvents)
      BY <1>5 DEF ReadTcpEvent
    <3>3. Len(Tail(tcpEvents)) = Len(tcpEvents) - 1 /\ Head(tcpEvents) \in Conns
          /\ Tail(tcpEvents) \in Seq(Conns)
      BY <3>1, <3>2, TailOf
    <3>. QED
      BY <3>1, <3>2, <3>3
  <2>2. TcpReport(Head(tcpEvents)) \in ReportType
    BY <2>1 DEF TcpReport, ReportType, NoRequest
  <2>3. telemetryQueue' \in Seq(ReportType) /\ Len(telemetryQueue') <= QueueSize
    BY <1>5, <2>2, Queued DEF ReadTcpEvent
  <2>. QED
    BY <1>5, <2>1, <2>3 DEF ReadTcpEvent, process, AgentType, NothingWithoutProcess
<1>6. ASSUME ReadRequest \/ ReadResponse
      PROVE  /\ running /\ httpEvents # <<>> /\ httpEvents' = Tail(httpEvents)
             /\ httpEvents' \in Seq(PacketType) /\ Len(httpEvents') <= HttpRing
             /\ Head(httpEvents) \in PacketType /\ Head(httpEvents) = httpEvents[1]
             /\ 1 \in DOMAIN httpEvents
  <2>1. httpEvents \in Seq(PacketType) /\ Len(httpEvents) \in Nat /\ HttpRing \in Nat
        /\ Len(httpEvents) <= HttpRing
    BY AgentAssumption, LenProperties DEF AgentType
  <2>2. running /\ httpEvents # <<>> /\ httpEvents' = Tail(httpEvents)
    BY <1>6 DEF ReadRequest, ReadResponse
  <2>3. Len(Tail(httpEvents)) = Len(httpEvents) - 1 /\ Tail(httpEvents) \in Seq(PacketType)
        /\ Head(httpEvents) \in PacketType /\ Head(httpEvents) = httpEvents[1]
        /\ 1 \in DOMAIN httpEvents
    BY <2>1, <2>2, TailOf
  <2>. QED
    BY <2>1, <2>2, <2>3
<1>7. CASE ReadRequest
  <2>1. PICK e \in PacketType : e = Head(httpEvents) /\ e = httpEvents[1]
    BY <1>6, <1>7
  <2>2. CASE shouldSkipTelemetry(e.conn, e.path)
    <3>1. reqMap' = reqMap
      BY <1>7, <2>1, <2>2 DEF ReadRequest
    <3>. QED
      BY <1>6, <1>7, <3>1 DEF ReadRequest, process, AgentType, NothingWithoutProcess
  <2>3. CASE ~shouldSkipTelemetry(e.conn, e.path)
    <3>1. e.conn \in Conns \ (Skipped \cup {Own}) /\ e.n \in Numbers
      BY <1>6, <1>7, <2>1, <2>3
      DEF ReadRequest, shouldSkipTelemetry, PacketsAreKnown, PacketType, Numbers
    <3>2. Remember(e.conn, e.n)
      BY <1>7, <2>1, <2>3 DEF ReadRequest
    <3>3. /\ DOMAIN reqMap' = DOMAIN reqMap \cup {e.conn}
          /\ \A c \in DOMAIN reqMap' :
               reqMap'[c] = IF c = e.conn THEN [n |-> e.n, old |-> FALSE] ELSE reqMap[c]
      BY <3>2 DEF Remember
    <3>4. [n |-> e.n, old |-> FALSE] \in [n : Numbers, old : BOOLEAN]
      BY <3>1
    <3>5. \A c \in DOMAIN reqMap' : reqMap'[c] \in [n : Numbers, old : BOOLEAN]
      BY <3>3, <3>4 DEF AgentType
    <3>. QED
      BY <1>6, <1>7, <3>1, <3>3, <3>5 DEF ReadRequest, process, AgentType, NothingWithoutProcess
  <2>. QED
    BY <2>2, <2>3
<1>8. CASE ReadResponse
  <2>1. PICK e \in PacketType : e = Head(httpEvents)
    BY <1>6, <1>8
  <2>2. reqMap' = Forget(e.conn)
    BY <1>8, <2>1 DEF ReadResponse
  <2>3. DOMAIN reqMap' \subseteq DOMAIN reqMap /\ \A c \in DOMAIN reqMap' : reqMap'[c] = reqMap[c]
    BY <2>2 DEF Forget
  <2>4. PICK request \in Nat : request = IF e.conn \in DOMAIN reqMap THEN reqMap[e.conn].n ELSE NoRequest
    BY DEF AgentType, Numbers, NoRequest
  <2>5. e.conn \in Conns /\ (e.conn \in DOMAIN reqMap => request \in Numbers /\ e.conn # Own)
    BY <2>4 DEF PacketType, AgentType
  <2>6. HttpReport(e.conn, e.n, request) \in ReportType
    BY <2>5 DEF HttpReport, ReportType, PacketType
  <2>7. telemetryQueue' \in Seq(ReportType) /\ Len(telemetryQueue') <= QueueSize
    <3>1. telemetryQueue' = telemetryQueue \/ enqueueTelemetry(HttpReport(e.conn, e.n, request))
      BY <1>8, <2>1, <2>4 DEF ReadResponse
    <3>. QED
      BY <2>6, <3>1, Queued DEF AgentType
  <2>8. told' \in [Conns -> Seq(Numbers)] /\ told'[Own] = <<>>
    <3>1. \/ told' = told
          \/ e.conn \in DOMAIN reqMap /\ told' = [told EXCEPT ![e.conn] = Append(told[e.conn], request)]
      BY <1>8, <2>1, <2>4 DEF ReadResponse
    <3>2. told \in [Conns -> Seq(Numbers)] /\ told[Own] = <<>> /\ Own \in Conns
      BY AgentAssumption DEF AgentType
    <3>3. e.conn \in DOMAIN reqMap => Append(told[e.conn], request) \in Seq(Numbers)
      BY <2>5, <3>2, AppendProperties
    <3>. QED
      BY <2>5, <3>1, <3>2, <3>3
  <2>. QED
    BY <1>6, <1>8, <2>3, <2>7, <2>8 DEF ReadResponse, process, AgentType, NothingWithoutProcess
<1>9. CASE Cleanup
  <2>1. DOMAIN reqMap' \subseteq DOMAIN reqMap /\ \A c \in DOMAIN reqMap' : reqMap'[c] = reqMap[c]
    BY <1>9 DEF Cleanup
  <2>. QED
    BY <1>9, <2>1 DEF Cleanup, net, process, AgentType, NothingWithoutProcess
<1>10. CASE telemetrySender
  <2>1. telemetryQueue \in Seq(ReportType) /\ telemetryQueue # <<>> /\ Len(telemetryQueue) \in Nat
        /\ Len(telemetryQueue) <= QueueSize /\ QueueSize \in Nat
    BY <1>10, AgentAssumption, LenProperties DEF telemetrySender, AgentType
  <2>2. /\ Head(telemetryQueue) \in ReportType
        /\ Tail(telemetryQueue) \in Seq(ReportType)
        /\ Len(Tail(telemetryQueue)) = Len(telemetryQueue) - 1
    BY <2>1, TailOf
  <2>3. telemetryQueue' \in Seq(ReportType) /\ Len(telemetryQueue') <= QueueSize
    BY <1>10, <2>1, <2>2 DEF telemetrySender
  <2>4. sending' \in Seq(ReportType) /\ Len(sending') <= 1
    BY <1>10, <2>2 DEF telemetrySender
  <2>. QED
    BY <1>10, <2>3, <2>4 DEF telemetrySender, net, process, AgentType, NothingWithoutProcess
<1>11. CASE PostReport
  <2>1. Ask(Own, "telemetry") /\ Own \in Conns /\ "telemetry" \in Paths
    BY <1>11, AgentAssumption DEF PostReport, Paths
  <2>. QED
    BY <1>11, <2>1, AskType DEF PostReport, process, AgentType, NothingWithoutProcess
<1>12. CASE PostAnswered
  <2>1. Answer(Own) /\ Own \in Conns
    BY <1>12, AgentAssumption DEF PostAnswered
  <2>2. sending' \in Seq(ReportType) /\ Len(sending') <= 1
    BY <1>12 DEF PostAnswered
  <2>. QED
    BY <1>12, <2>1, <2>2, AnswerType DEF PostAnswered, process, AgentType, NothingWithoutProcess
<1>13. CASE PostFails
  <2>1. exchange' \in [Conns -> [n : Nat, asked : BOOLEAN]]
    BY <1>13 DEF PostFails, AgentType
  <2>2. sending' \in Seq(ReportType) /\ Len(sending') <= 1
    BY <1>13 DEF PostFails
  <2>. QED
    BY <1>13, <2>1, <2>2 DEF PostFails, process, AgentType, NothingWithoutProcess
<1>14. CASE Exit
  <2>1. exchange' \in [Conns -> [n : Nat, asked : BOOLEAN]]
    BY <1>14 DEF Exit, AgentType
  <2>2. <<>> \in Seq(Conns) /\ <<>> \in Seq(PacketType) /\ <<>> \in Seq(ReportType) /\ Len(<<>>) = 0
    OBVIOUS
  <2>3. DOMAIN reqMap' = {}
    BY <1>14 DEF Exit
  <2>4. exits' \in 0 .. MaxExits
    BY <1>14, AgentAssumption DEF Exit, AgentType
  <2>5. /\ tcpEvents' = <<>> /\ httpEvents' = <<>> /\ telemetryQueue' = <<>> /\ sending' = <<>>
        /\ running' = FALSE /\ missed' = missed /\ told' = told
    BY <1>14 DEF Exit
  <2>6. TcpRing \in Nat /\ HttpRing \in Nat /\ QueueSize \in Nat
    BY AgentAssumption
  <2>7. /\ tcpEvents' \in Seq(Conns) /\ Len(tcpEvents') <= TcpRing
        /\ httpEvents' \in Seq(PacketType) /\ Len(httpEvents') <= HttpRing
    BY <2>2, <2>5, <2>6
  <2>8. /\ telemetryQueue' \in Seq(ReportType) /\ Len(telemetryQueue') <= QueueSize
        /\ sending' \in Seq(ReportType) /\ Len(sending') <= 1
    BY <2>2, <2>5, <2>6
  <2>9. /\ running' \in BOOLEAN /\ missed' \subseteq Conns
        /\ told' \in [Conns -> Seq(Numbers)] /\ told'[Own] = <<>>
    BY <2>5 DEF AgentType
  <2>10. NothingWithoutProcess'
    BY <2>3, <2>5 DEF NothingWithoutProcess
  <2>. QED
    BY <2>1, <2>3, <2>4, <2>7, <2>8, <2>9, <2>10 DEF AgentType
<1>15. CASE Start
  BY <1>15 DEF Start, net, AgentType, NothingWithoutProcess
<1>. QED
  BY <1>1, <1>2, <1>3, <1>4, <1>5, <1>7, <1>8, <1>9, <1>10, <1>11, <1>12, <1>13, <1>14, <1>15
  DEF Next

-----------------------------------------------------------------------------
(* The order of what happens on a connection *)

LEMMA Places ==
  /\ \A e \in PacketType : Place(e) \in Nat
  /\ AgentType => \A c \in Conns : Reached(c) \in Nat
  /\ AgentType' => \A c \in Conns : Reached(c)' \in Nat
<1>1. \A e \in PacketType : Place(e) \in Nat
  BY DEF Place, PacketType
<1>2. AgentType => \A c \in Conns : Reached(c) \in Nat
  BY DEF Reached, AgentType
<1>3. ASSUME AgentType', NEW c \in Conns PROVE Reached(c)' \in Nat
  <2>1. PICK n \in Nat : n = exchange'[c].n
    BY <1>3 DEF AgentType
  <2>2. Reached(c)' \in {2 * n, 2 * n + 1}
    BY <2>1 DEF Reached
  <2>. QED
    BY <2>2
<1>. QED
  BY <1>1, <1>2, <1>3

(* A packet that is sent comes last. *)
LEMMA Traffic ==
  ASSUME AgentType, AgentType', PacketsAreKnown, PacketsAreInOrder, ReadingKeepsPace,
         NEW c \in Conns, NEW packet \in PacketType, packet.conn = c, Seen(packet),
         IF c = Own THEN packet.path # "app"
         ELSE (packet.response \/ packet.n # 0) /\ Place(packet) = Reached(c)',
         Reached(c) <= Reached(c)',
         \A d \in Conns \ {c} : Reached(d)' = Reached(d),
         UNCHANGED <<reqMap, told>>
  PROVE  PacketsAreKnown' /\ PacketsAreInOrder' /\ ReadingKeepsPace'
<1>1. PICK event \in {packet, Unread} :
        /\ httpEvents' \in Seq(PacketType)
        /\ Len(httpEvents) <= Len(httpEvents')
        /\ \A i \in 1 .. Len(httpEvents) : httpEvents'[i] = httpEvents[i]
        /\ \A i \in Len(httpEvents) + 1 .. Len(httpEvents') : httpEvents'[i] = event
  BY SeenAdds
<1>2. /\ Len(httpEvents) \in Nat /\ Len(httpEvents') \in Nat
      /\ DOMAIN httpEvents = 1 .. Len(httpEvents) /\ DOMAIN httpEvents' = 1 .. Len(httpEvents')
  BY <1>1, LenProperties DEF AgentType
<1>3. ASSUME NEW i \in DOMAIN httpEvents'
      PROVE  \/ i \in DOMAIN httpEvents /\ httpEvents'[i] = httpEvents[i]
             \/ i > Len(httpEvents) /\ httpEvents'[i] \in {packet, Unread}
  BY <1>1, <1>2
<1>4. Unread.conn = Own /\ Unread.path # "app"
  BY DEF Unread
<1>5. PacketsAreKnown'
  BY <1>3, <1>4 DEF PacketsAreKnown
<1>6. ASSUME NEW i \in DOMAIN httpEvents', httpEvents'[i].conn # Own
      PROVE  /\ httpEvents'[i] \in PacketType
             /\ \/ i \in DOMAIN httpEvents /\ httpEvents'[i] = httpEvents[i]
                \/ i > Len(httpEvents) /\ httpEvents'[i] = packet /\ c # Own
  BY <1>1, <1>3, <1>4, <1>6
<1>7. ASSUME NEW d \in Conns
      PROVE  Reached(d) \in Nat /\ Reached(d)' \in Nat /\ Reached(d) <= Reached(d)'
  <2>1. Reached(d) \in Nat
    BY Places
  <2>2. Reached(d)' \in Nat
    BY Places
  <2>. QED
    BY <2>1, <2>2
<1>8. PacketsAreInOrder'
  <2>. SUFFICES ASSUME NEW i \in DOMAIN httpEvents', NEW j \in DOMAIN httpEvents', i <= j,
                       httpEvents'[i].conn # Own, httpEvents'[j].conn = httpEvents'[i].conn
                PROVE  Place(httpEvents'[i]) <= Place(httpEvents'[j])
    BY DEF PacketsAreInOrder, Place
  <2>1. CASE i \in DOMAIN httpEvents /\ httpEvents'[i] = httpEvents[i]
    <3>1. CASE j \in DOMAIN httpEvents /\ httpEvents'[j] = httpEvents[j]
      BY <2>1, <3>1 DEF PacketsAreInOrder
    <3>2. CASE httpEvents'[j] = packet /\ c # Own
      <4>1. httpEvents[i].conn = c
        BY <2>1, <3>2
      <4>2. Place(httpEvents[i]) <= Reached(c)
        BY <2>1, <3>2, <4>1 DEF ReadingKeepsPace
      <4>3. Place(httpEvents[i]) \in Nat /\ Place(packet) = Reached(c)'
        BY <1>6, <2>1, <3>2, Places
      <4>. QED
        BY <1>7, <2>1, <3>2, <4>2, <4>3
    <3>. QED
      BY <1>6, <3>1, <3>2
  <2>2. CASE i > Len(httpEvents) /\ httpEvents'[i] = packet /\ c # Own
    <3>1. httpEvents'[j] = packet
      BY <1>2, <1>6, <2>2
    <3>2. Place(packet) \in Nat
      BY Places
    <3>. QED
      BY <2>2, <3>1, <3>2
  <2>. QED
    BY <1>6, <2>1, <2>2
<1>9. \A d \in Conns, p \in Nat, q \in Nat : Before(d, p) /\ p <= q => Before(d, q)'
  <2>. SUFFICES ASSUME NEW d \in Conns, NEW p \in Nat, NEW q \in Nat, Before(d, p), p <= q
                PROVE  Before(d, q)'
    OBVIOUS
  <2>1. d \in DOMAIN reqMap => reqMap[d].n \in Nat
    BY DEF AgentType, Numbers
  <2>2. \A t \in DOMAIN told[d] : told[d][t] \in Nat
    BY DEF AgentType, Numbers
  <2>. QED
    BY <2>1, <2>2 DEF Before
<1>10. ASSUME NEW i \in DOMAIN httpEvents', httpEvents'[i].conn # Own
       PROVE  \E d \in Conns, p \in Nat :
                /\ d = httpEvents'[i].conn /\ p = Place(httpEvents'[i])
                /\ p <= Reached(d)' /\ Before(d, p)'
  <2>1. PICK d \in Conns : d = httpEvents'[i].conn
    BY <1>6, <1>10 DEF PacketType
  <2>2. PICK p \in Nat : p = Place(httpEvents'[i])
    BY <1>6, <1>10, Places
  <2>3. p <= Reached(d)' /\ Before(d, p)'
    <3>1. CASE i \in DOMAIN httpEvents /\ httpEvents'[i] = httpEvents[i]
      <4>1. p <= Reached(d) /\ Before(d, p)
        BY <1>10, <2>1, <2>2, <3>1 DEF ReadingKeepsPace
      <4>. QED
        BY <1>7, <1>9, <4>1
    <3>2. CASE httpEvents'[i] = packet /\ c # Own
      <4>1. d = c /\ p = Reached(c)'
        BY <2>1, <2>2, <3>2
      <4>2. Before(c, Reached(c))
        BY DEF ReadingKeepsPace
      <4>. QED
        BY <1>7, <1>9, <4>1, <4>2
    <3>. QED
      BY <1>6, <1>10, <3>1, <3>2
  <2>. QED
    BY <2>1, <2>2, <2>3
<1>11. ASSUME NEW d \in Conns PROVE Before(d, Reached(d))'
  <2>1. Before(d, Reached(d))
    BY DEF ReadingKeepsPace
  <2>2. PICK q \in Nat : q = Reached(d)'
    BY <1>7
  <2>3. Before(d, q)'
    BY <1>7, <1>9, <2>1, <2>2
  <2>. QED
    BY <2>2, <2>3 DEF Before
<1>12. (\A d \in DOMAIN reqMap : \A t \in DOMAIN told[d] : told[d][t] < reqMap[d].n)'
  BY DEF ReadingKeepsPace
<1>13. ReadingKeepsPace'
  BY <1>10, <1>11, <1>12 DEF ReadingKeepsPace, Before, Place, Reached
<1>. QED
  BY <1>5, <1>8, <1>13

\* What is known of a connection's packets, its remembered request and reports.
OrderInv ==
  /\ PacketsAreKnown
  /\ PacketsAreInOrder
  /\ ReadingKeepsPace
  /\ ResponsesCome
  /\ RequestsAreToldOnce

(* What is before a place stays so when less is remembered, and is before a later
   place, too. *)
LEMMA StaysBefore ==
  ASSUME AgentType, DOMAIN reqMap' \subseteq DOMAIN reqMap,
         \A d \in DOMAIN reqMap' : reqMap'[d].n = reqMap[d].n,
         told' = told,
         NEW c \in Conns, NEW p \in Nat, NEW q \in Nat, Before(c, p), p <= q
  PROVE  Before(c, q)'
<1>1. c \in DOMAIN reqMap => reqMap[c].n \in Nat
  BY DEF AgentType, Numbers
<1>2. \A t \in DOMAIN told[c] : told[c][t] \in Nat
  BY DEF AgentType, Numbers
<1>. QED
  BY <1>1, <1>2 DEF Before

(* A step that sends and reads no packet, though it may lose what there is. *)
LEMMA QuietStep ==
  ASSUME AgentType, AgentType', OrderInv,
         DOMAIN reqMap' \subseteq DOMAIN reqMap,
         \A d \in DOMAIN reqMap' : reqMap'[d].n = reqMap[d].n,
         told' = told,
         \A d \in Conns : Reached(d) <= Reached(d)',
         \A d \in Conns \ {Own} : exchange'[d] = exchange[d],
         \/ httpEvents' = httpEvents /\ missed \subseteq missed'
         \/ httpEvents' = <<>> /\ DOMAIN reqMap' = {}
  PROVE  OrderInv'
<1>. USE DEF OrderInv
<1>1. PacketsAreKnown' /\ PacketsAreInOrder' /\ RequestsAreToldOnce'
  BY DEF PacketsAreKnown, PacketsAreInOrder, RequestsAreToldOnce, Place
<1>2. ASSUME NEW i \in DOMAIN httpEvents', httpEvents'[i].conn # Own
      PROVE  \E d \in Conns, p \in Nat :
               /\ d = httpEvents'[i].conn /\ p = Place(httpEvents'[i])
               /\ p <= Reached(d)' /\ Before(d, p)'
  <2>1. httpEvents' = httpEvents
    BY <1>2
  <2>2. httpEvents[i] \in PacketType
    BY <1>2, <2>1 DEF AgentType
  <2>3. PICK d \in Conns, p \in Nat : d = httpEvents[i].conn /\ p = Place(httpEvents[i])
    BY <2>2, Places DEF PacketType
  <2>4. p <= Reached(d) /\ Before(d, p)
    BY <1>2, <2>1, <2>3 DEF ReadingKeepsPace
  <2>5. p <= Reached(d)'
    BY <2>4, Places
  <2>6. Before(d, p)'
    BY <2>4, StaysBefore
  <2>. QED
    BY <2>1, <2>3, <2>5, <2>6
<1>3. ASSUME NEW d \in Conns PROVE Before(d, Reached(d))'
  <2>1. PICK p \in Nat, q \in Nat : p = Reached(d) /\ q = Reached(d)'
    BY Places
  <2>2. Before(d, q)'
    BY <2>1, StaysBefore DEF ReadingKeepsPace
  <2>. QED
    BY <2>1, <2>2 DEF Before
<1>4. ReadingKeepsPace'
  <2>1. (\A d \in DOMAIN reqMap : \A t \in DOMAIN told[d] : told[d][t] < reqMap[d].n)'
    BY DEF ReadingKeepsPace
  <2>. QED
    BY <1>2, <1>3, <2>1 DEF ReadingKeepsPace, Before, Place, Reached
<1>5. ResponsesCome'
  <2>1. CASE httpEvents' = httpEvents /\ missed \subseteq missed'
    <3>. SUFFICES ASSUME NEW d \in Conns \ (missed \cup {Own}), NEW n \in Nat, Known(d, n)'
                  PROVE  Comes(d, n)'
      BY <2>1 DEF ResponsesCome
    <3>1. Known(d, n)
      BY <2>1 DEF Known
    <3>2. Comes(d, n)
      BY <3>1 DEF ResponsesCome
    <3>. QED
      BY <2>1, <3>2 DEF Comes
  <2>2. CASE httpEvents' = <<>> /\ DOMAIN reqMap' = {}
    <3>1. ASSUME NEW d, NEW n PROVE ~Known(d, n)'
      BY <2>2 DEF Known
    <3>. QED
      BY <3>1 DEF ResponsesCome
  <2>. QED
    BY <2>1, <2>2
<1>. QED
  BY <1>1, <1>4, <1>5

(* A request is sent. *)
LEMMA AskStep ==
  ASSUME AgentType, AgentType', OrderInv, NEW c \in Conns, NEW path \in Paths, Ask(c, path),
         c = Own => path # "app",
         UNCHANGED <<reqMap, missed, told>>
  PROVE  OrderInv'
<1>. DEFINE packet == [conn |-> c, n |-> exchange[c].n + 1, response |-> FALSE, path |-> path]
<1>1. exchange[c].n \in Nat /\ packet \in PacketType /\ Seen(packet) /\ ~exchange[c].asked
  BY DEF AgentType, PacketType, Ask
<1>2. /\ exchange'[c].n = exchange[c].n + 1 /\ exchange'[c].asked
      /\ \A d \in Conns \ {c} : exchange'[d] = exchange[d]
  BY DEF Ask, AgentType
<1>3. Reached(c)' = 2 * (exchange[c].n + 1) /\ Reached(c) = 2 * exchange[c].n + 1
  BY <1>1, <1>2 DEF Reached
<1>4. packet.n # 0 /\ Place(packet) = 2 * (exchange[c].n + 1)
  BY <1>1 DEF Place
<1>5. Reached(c) <= Reached(c)'
  BY <1>1, <1>3
<1>6. \A d \in Conns \ {c} : Reached(d)' = Reached(d)
  BY <1>2 DEF Reached
<1>7. packet.conn = c /\ packet.path = path
  OBVIOUS
<1>8. ~packet.response
  OBVIOUS
<1>. HIDE DEF packet
<1>9. PacketsAreKnown' /\ PacketsAreInOrder' /\ ReadingKeepsPace'
  BY <1>1, <1>3, <1>4, <1>5, <1>6, <1>7, Traffic DEF OrderInv
<1>10. PICK event \in {packet, Unread} :
        /\ httpEvents' \in Seq(PacketType)
        /\ Len(httpEvents) <= Len(httpEvents')
        /\ \A i \in 1 .. Len(httpEvents) : httpEvents'[i] = httpEvents[i]
        /\ \A i \in Len(httpEvents) + 1 .. Len(httpEvents') : httpEvents'[i] = event
  BY <1>1, SeenAdds
<1>11. /\ \A i \in DOMAIN httpEvents : i \in DOMAIN httpEvents' /\ httpEvents'[i] = httpEvents[i]
       /\ \A i \in DOMAIN httpEvents' : \/ i \in DOMAIN httpEvents /\ httpEvents'[i] = httpEvents[i]
                                        \/ httpEvents'[i] \in {packet, Unread}
  <2>1. /\ Len(httpEvents) \in Nat /\ Len(httpEvents') \in Nat
        /\ DOMAIN httpEvents = 1 .. Len(httpEvents) /\ DOMAIN httpEvents' = 1 .. Len(httpEvents')
    BY <1>10, LenProperties DEF AgentType
  <2>. QED
    BY <1>10, <2>1
<1>12. ResponsesCome'
  <2>. SUFFICES ASSUME NEW d \in Conns \ (missed \cup {Own}), NEW n \in Nat, Known(d, n)'
                PROVE  Comes(d, n)'
    BY DEF ResponsesCome
  <2>1. CASE d = c /\ n = exchange[c].n + 1
    BY <1>2, <2>1 DEF Comes
  <2>2. CASE ~(d = c /\ n = exchange[c].n + 1)
    <3>1. \A i \in DOMAIN httpEvents' : httpEvents'[i].conn = d /\ httpEvents'[i].n = n =>
            i \in DOMAIN httpEvents /\ httpEvents'[i] = httpEvents[i]
      <4>1. packet.n = exchange[c].n + 1 /\ Unread.conn = Own
        BY DEF packet, Unread
      <4>. QED
        BY <1>7, <1>11, <2>2, <4>1
    <3>2. Known(d, n)
      BY <3>1 DEF Known
    <3>3. Comes(d, n)
      BY <3>2 DEF OrderInv, ResponsesCome
    <3>4. CASE exchange[d].asked /\ exchange[d].n = n
      BY <1>1, <1>2, <3>4 DEF Comes
    <3>5. CASE \E i \in DOMAIN httpEvents :
                 httpEvents[i].conn = d /\ httpEvents[i].response /\ httpEvents[i].n = n
      BY <1>11, <3>5 DEF Comes
    <3>. QED
      BY <3>3, <3>4, <3>5 DEF Comes
  <2>. QED
    BY <2>1, <2>2
<1>13. RequestsAreToldOnce'
  BY DEF OrderInv, RequestsAreToldOnce
<1>. QED
  BY <1>9, <1>12, <1>13 DEF OrderInv

(* A response is sent. *)
LEMMA AnswerStep ==
  ASSUME AgentType, AgentType', OrderInv, NEW c \in Conns, Answer(c),
         UNCHANGED <<reqMap, told>>
  PROVE  OrderInv'
<1>. DEFINE packet == [conn |-> c, n |-> exchange[c].n, response |-> TRUE, path |-> "none"]
<1>1. exchange[c].n \in Nat /\ packet \in PacketType /\ Seen(packet) /\ exchange[c].asked
  BY DEF AgentType, PacketType, Paths, Answer
<1>2. /\ exchange'[c].n = exchange[c].n /\ ~exchange'[c].asked
      /\ \A d \in Conns \ {c} : exchange'[d] = exchange[d]
  BY DEF Answer, AgentType
<1>3. Reached(c)' = 2 * exchange[c].n + 1 /\ Reached(c) = 2 * exchange[c].n
  BY <1>1, <1>2 DEF Reached
<1>4. Place(packet) = 2 * exchange[c].n + 1
  BY <1>1 DEF Place
<1>5. Reached(c) <= Reached(c)'
  BY <1>1, <1>3
<1>6. \A d \in Conns \ {c} : Reached(d)' = Reached(d)
  BY <1>2 DEF Reached
<1>7. packet.conn = c /\ packet.path # "app" /\ packet.response /\ packet.n = exchange[c].n
  OBVIOUS
<1>8. \/ missed' = missed /\ Contains(httpEvents', packet)
      \/ missed' = missed \cup {c}
  BY DEF Answer
<1>. HIDE DEF packet
<1>9. PacketsAreKnown' /\ PacketsAreInOrder' /\ ReadingKeepsPace'
  BY <1>1, <1>3, <1>4, <1>5, <1>6, <1>7, Traffic DEF OrderInv
<1>10. PICK event \in {packet, Unread} :
        /\ httpEvents' \in Seq(PacketType)
        /\ Len(httpEvents) <= Len(httpEvents')
        /\ \A i \in 1 .. Len(httpEvents) : httpEvents'[i] = httpEvents[i]
        /\ \A i \in Len(httpEvents) + 1 .. Len(httpEvents') : httpEvents'[i] = event
  BY <1>1, SeenAdds
<1>11. /\ Len(httpEvents) \in Nat /\ Len(httpEvents') \in Nat
       /\ DOMAIN httpEvents = 1 .. Len(httpEvents) /\ DOMAIN httpEvents' = 1 .. Len(httpEvents')
  BY <1>10, LenProperties DEF AgentType
<1>12. /\ \A i \in DOMAIN httpEvents : i \in DOMAIN httpEvents' /\ httpEvents'[i] = httpEvents[i]
       /\ \A i \in DOMAIN httpEvents' : \/ i \in DOMAIN httpEvents /\ httpEvents'[i] = httpEvents[i]
                                        \/ httpEvents'[i] \in {packet, Unread}
  BY <1>10, <1>11
<1>13. ResponsesCome'
  <2>. SUFFICES ASSUME NEW d \in Conns \ (missed' \cup {Own}), NEW n \in Nat, Known(d, n)'
                PROVE  Comes(d, n)'
    BY DEF ResponsesCome
  <2>1. \A i \in DOMAIN httpEvents' : httpEvents'[i].conn = d /\ ~httpEvents'[i].response =>
          i \in DOMAIN httpEvents /\ httpEvents'[i] = httpEvents[i]
    <3>1. Unread.conn = Own
      BY DEF Unread
    <3>. QED
      BY <1>7, <1>12, <3>1
  <2>2. Known(d, n)
    BY <2>1 DEF Known
  <2>3. d \notin missed /\ Comes(d, n)
    BY <1>8, <2>2 DEF OrderInv, ResponsesCome
  <2>4. CASE \E i \in DOMAIN httpEvents :
               httpEvents[i].conn = d /\ httpEvents[i].response /\ httpEvents[i].n = n
    BY <1>12, <2>4 DEF Comes
  <2>5. CASE d # c /\ exchange[d].asked /\ exchange[d].n = n
    BY <1>2, <2>5 DEF Comes
  <2>6. CASE d = c /\ exchange[d].n = n
    <3>1. \E i \in 1 .. Len(httpEvents') : httpEvents'[i] = packet
      BY <1>8, <2>6 DEF Contains
    <3>. QED
      BY <1>7, <1>11, <2>6, <3>1 DEF Comes
  <2>. QED
    BY <2>3, <2>4, <2>5, <2>6 DEF Comes
<1>14. RequestsAreToldOnce'
  BY DEF OrderInv, RequestsAreToldOnce
<1>. QED
  BY <1>9, <1>13, <1>14 DEF OrderInv

-----------------------------------------------------------------------------
(* Reading *)

\* What is read is the first packet; the others keep their order.
LEMMA ReadingTakesTheFirst ==
  ASSUME AgentType, httpEvents # <<>>, httpEvents' = Tail(httpEvents)
  PROVE  /\ Head(httpEvents) = httpEvents[1] /\ 1 \in DOMAIN httpEvents
         /\ DOMAIN httpEvents \subseteq Nat \ {0}
         /\ \A i \in DOMAIN httpEvents : httpEvents[i] \in PacketType
         /\ \A i \in DOMAIN httpEvents' :
              i \in Nat /\ i + 1 \in DOMAIN httpEvents /\ httpEvents'[i] = httpEvents[i + 1]
         /\ \A i \in DOMAIN httpEvents :
              i = 1 \/ \E j \in DOMAIN httpEvents' : httpEvents'[j] = httpEvents[i]
<1>1. httpEvents \in Seq(PacketType) /\ DOMAIN httpEvents = 1 .. Len(httpEvents)
  BY LenProperties DEF AgentType
<1>2. /\ Head(httpEvents) = httpEvents[1] /\ 1 \in DOMAIN httpEvents
      /\ \A i \in DOMAIN httpEvents' : i + 1 \in DOMAIN httpEvents /\ httpEvents'[i] = httpEvents[i + 1]
      /\ \A i \in DOMAIN httpEvents :
           i = 1 \/ (i - 1 \in DOMAIN httpEvents' /\ httpEvents'[i - 1] = httpEvents[i])
  BY <1>1, TailOf
<1>3. \A i \in DOMAIN httpEvents' : i \in Nat
  <2>1. httpEvents' \in Seq(PacketType)
    BY <1>1, TailOf
  <2>. QED
    BY <2>1, LenProperties
<1>4. \A i \in DOMAIN httpEvents : httpEvents[i] \in PacketType
  BY <1>1, ElementOfSeq
<1>5. DOMAIN httpEvents \subseteq Nat \ {0}
  BY <1>1
<1>6. \A i \in DOMAIN httpEvents : i = 1 \/ \E j \in DOMAIN httpEvents' : httpEvents'[j] = httpEvents[i]
  BY <1>2
<1>. QED
  BY <1>2, <1>3, <1>4, <1>5, <1>6

\* What is said of a connection's packets holds of those that are left, and what
\* is left of the connection comes after what is read.
LEMMA ReadKeepsOrder ==
  ASSUME AgentType, AgentType', PacketsAreKnown, PacketsAreInOrder,
         httpEvents # <<>>, httpEvents' = Tail(httpEvents)
  PROVE  /\ PacketsAreKnown' /\ PacketsAreInOrder'
         /\ \A i \in DOMAIN httpEvents' :
              /\ httpEvents'[i] \in PacketType
              /\ \E k \in DOMAIN httpEvents : httpEvents'[i] = httpEvents[k]
              /\ httpEvents[1].conn # Own /\ httpEvents'[i].conn = httpEvents[1].conn =>
                   Place(httpEvents[1]) <= Place(httpEvents'[i])
<1>. USE ReadingTakesTheFirst
<1>1. PacketsAreKnown'
  BY DEF PacketsAreKnown
<1>2. PacketsAreInOrder'
  <2>. SUFFICES ASSUME NEW i \in DOMAIN httpEvents', NEW j \in DOMAIN httpEvents', i <= j,
                       httpEvents'[i].conn # Own, httpEvents'[j].conn = httpEvents'[i].conn
                PROVE  Place(httpEvents'[i]) <= Place(httpEvents'[j])
    BY DEF PacketsAreInOrder, Place
  <2>1. i + 1 <= j + 1 /\ i + 1 \in DOMAIN httpEvents /\ j + 1 \in DOMAIN httpEvents
        /\ httpEvents'[i] = httpEvents[i + 1] /\ httpEvents'[j] = httpEvents[j + 1]
    OBVIOUS
  <2>. QED
    BY <2>1 DEF PacketsAreInOrder
<1>3. ASSUME NEW i \in DOMAIN httpEvents'
      PROVE  /\ httpEvents'[i] \in PacketType
             /\ \E k \in DOMAIN httpEvents : httpEvents'[i] = httpEvents[k]
             /\ httpEvents[1].conn # Own /\ httpEvents'[i].conn = httpEvents[1].conn =>
                  Place(httpEvents[1]) <= Place(httpEvents'[i])
  <2>1. 1 <= i + 1 /\ i + 1 \in DOMAIN httpEvents /\ 1 \in DOMAIN httpEvents
        /\ httpEvents'[i] = httpEvents[i + 1] /\ httpEvents[i + 1] \in PacketType
    OBVIOUS
  <2>. QED
    BY <2>1 DEF PacketsAreInOrder
<1>. QED
  BY <1>1, <1>2, <1>3

LEMMA PaceAfterReading ==
  ASSUME AgentType, AgentType', PacketsAreKnown, PacketsAreInOrder, ReadingKeepsPace,
         httpEvents # <<>>, httpEvents' = Tail(httpEvents), exchange' = exchange,
         \A d \in Conns, q \in Nat :
           Before(d, q) /\ (d = httpEvents[1].conn /\ d # Own => Place(httpEvents[1]) <= q)
             => Before(d, q)',
         (\A d \in DOMAIN reqMap : \A t \in DOMAIN told[d] : told[d][t] < reqMap[d].n)'
  PROVE  ReadingKeepsPace'
<1>1. \A d \in Conns : Reached(d)' = Reached(d) /\ Reached(d) \in Nat
  BY Places DEF Reached
<1>2. ASSUME NEW i \in DOMAIN httpEvents', httpEvents'[i].conn # Own
      PROVE  \E d \in Conns, p \in Nat :
               /\ d = httpEvents'[i].conn /\ p = Place(httpEvents'[i])
               /\ p <= Reached(d)' /\ Before(d, p)'
  <2>1. PICK k \in DOMAIN httpEvents : httpEvents'[i] = httpEvents[k]
    BY ReadKeepsOrder
  <2>2. httpEvents[k] \in PacketType
    BY <2>1, ReadKeepsOrder
  <2>3. PICK d \in Conns, p \in Nat : d = httpEvents[k].conn /\ p = Place(httpEvents[k])
    BY <2>2, Places DEF PacketType
  <2>4. p <= Reached(d) /\ Before(d, p)
    BY <1>2, <2>1, <2>3 DEF ReadingKeepsPace
  <2>5. d = httpEvents[1].conn /\ d # Own => Place(httpEvents[1]) <= p
    BY <2>1, <2>3, ReadKeepsOrder
  <2>6. Before(d, p)'
    BY <2>4, <2>5
  <2>. QED
    BY <1>1, <2>1, <2>3, <2>4, <2>6
<1>3. ASSUME NEW d \in Conns PROVE Before(d, Reached(d))'
  <2>1. PICK q \in Nat : q = Reached(d) /\ q = Reached(d)'
    BY <1>1
  <2>2. Before(d, q)
    BY <2>1 DEF ReadingKeepsPace
  <2>3. d = httpEvents[1].conn /\ d # Own => Place(httpEvents[1]) <= q
    <3>1. 1 \in DOMAIN httpEvents
      BY ReadingTakesTheFirst
    <3>. QED
      BY <2>1, <3>1 DEF ReadingKeepsPace
  <2>4. Before(d, q)'
    BY <2>2, <2>3
  <2>. QED
    BY <2>1, <2>4 DEF Before
<1>. QED
  BY <1>2, <1>3 DEF ReadingKeepsPace, Before, Place, Reached

LEMMA ReadRequestStep ==
  ASSUME AgentType, AgentType', OrderInv, ReadRequest
  PROVE  OrderInv'
<1>1. httpEvents # <<>> /\ httpEvents' = Tail(httpEvents)
      /\ UNCHANGED <<exchange, missed, told>>
  BY DEF ReadRequest
<1>2. PICK e \in PacketType : e = httpEvents[1] /\ e = Head(httpEvents) /\ ~e.response
  BY <1>1, ReadingTakesTheFirst DEF ReadRequest
<1>3. PICK n \in Nat : n = e.n
  BY DEF PacketType
<1>4. Place(e) = 2 * n
  BY <1>2, <1>3 DEF Place
<1>5. e.conn # Own => 2 * n <= Reached(e.conn) /\ Before(e.conn, 2 * n)
  BY <1>1, <1>2, <1>4, ReadingTakesTheFirst DEF OrderInv, ReadingKeepsPace
<1>6. ASSUME NEW d \in DOMAIN reqMap'
      PROVE  \/ d \in DOMAIN reqMap /\ reqMap'[d] = reqMap[d]
             \/ d = e.conn /\ d # Own /\ reqMap'[d].n = n
  <2>1. CASE shouldSkipTelemetry(e.conn, e.path)
    BY <1>2, <2>1 DEF ReadRequest
  <2>2. CASE ~shouldSkipTelemetry(e.conn, e.path)
    <3>1. reqMap' = [c \in DOMAIN reqMap \cup {e.conn} |->
                      IF c = e.conn THEN [n |-> e.n, old |-> FALSE] ELSE reqMap[c]]
      BY <1>2, <2>2 DEF ReadRequest, Remember
    <3>2. d # Own
      BY DEF AgentType
    <3>. QED
      BY <1>3, <3>1, <3>2
  <2>. QED
    BY <2>1, <2>2
<1>7. PacketsAreKnown' /\ PacketsAreInOrder'
  BY <1>1, ReadKeepsOrder DEF OrderInv
<1>8. ReadingKeepsPace'
  <2>1. ASSUME NEW d \in Conns, NEW q \in Nat, Before(d, q),
               d = httpEvents[1].conn /\ d # Own => Place(httpEvents[1]) <= q
        PROVE  Before(d, q)'
    BY <1>1, <1>2, <1>4, <1>6, <2>1 DEF Before
  <2>2. (\A d \in DOMAIN reqMap : \A t \in DOMAIN told[d] : told[d][t] < reqMap[d].n)'
    <3>. SUFFICES ASSUME NEW d \in DOMAIN reqMap', NEW t \in DOMAIN told[d]
                  PROVE  told[d][t] < reqMap'[d].n
      BY <1>1
    <3>1. CASE d \in DOMAIN reqMap /\ reqMap'[d] = reqMap[d]
      BY <3>1 DEF OrderInv, ReadingKeepsPace
    <3>2. CASE d = e.conn /\ d # Own /\ reqMap'[d].n = n
      <4>1. d \in Conns /\ told[d][t] \in Nat
        BY <3>2 DEF AgentType, PacketType, Numbers
      <4>2. 2 * told[d][t] < 2 * n
        BY <1>5, <3>2 DEF Before
      <4>. QED
        BY <3>2, <4>1, <4>2
    <3>. QED
      BY <1>6, <3>1, <3>2
  <2>. QED
    BY <1>1, <2>1, <2>2, PaceAfterReading DEF OrderInv
<1>9. ResponsesCome'
  <2>. SUFFICES ASSUME NEW d \in Conns \ (missed \cup {Own}), NEW m \in Nat, Known(d, m)'
                PROVE  Comes(d, m)'
    BY <1>1 DEF ResponsesCome
  <2>1. Known(d, m)
    <3>1. CASE d \in DOMAIN reqMap' /\ reqMap'[d].n = m
      <4>1. d = e.conn /\ m = n => Known(d, m)
        BY <1>1, <1>2, <1>3, ReadingTakesTheFirst DEF Known
      <4>. QED
        BY <1>6, <3>1, <4>1 DEF Known
    <3>2. CASE \E i \in DOMAIN httpEvents' : httpEvents'[i].conn = d
                  /\ ~httpEvents'[i].response /\ httpEvents'[i].n = m
      BY <1>1, <3>2, ReadingTakesTheFirst DEF Known
    <3>. QED
      BY <3>1, <3>2 DEF Known
  <2>2. Comes(d, m)
    BY <2>1 DEF OrderInv, ResponsesCome
  <2>. QED
    BY <1>1, <1>2, <2>2, ReadingTakesTheFirst DEF Comes
<1>10. RequestsAreToldOnce'
  BY <1>1 DEF OrderInv, RequestsAreToldOnce
<1>. QED
  BY <1>7, <1>8, <1>9, <1>10 DEF OrderInv

\* A response on a connection of which none was missed finds its own request or none.
LEMMA OwnRequestFound ==
  ASSUME AgentType, OrderInv, httpEvents # <<>>,
         NEW e \in PacketType, e = httpEvents[1], e.response, e.conn \notin missed,
         e.conn \in DOMAIN reqMap
  PROVE  reqMap[e.conn].n = e.n
<1>1. 1 \in DOMAIN httpEvents /\ \A i \in DOMAIN httpEvents : 1 <= i /\ httpEvents[i] \in PacketType
  <2>1. httpEvents \in Seq(PacketType) /\ Len(httpEvents) \in Nat \ {0}
        /\ DOMAIN httpEvents = 1 .. Len(httpEvents)
    BY EmptySeq, LenProperties DEF AgentType
  <2>. QED
    BY <2>1, ElementOfSeq
<1>2. PICK c \in Conns : c = e.conn /\ c # Own
  BY DEF AgentType
<1>3. PICK m \in Nat, k \in Nat : m = e.n /\ k = reqMap[c].n
  BY <1>2 DEF AgentType, PacketType, Numbers
<1>4. Place(e) = 2 * m + 1
  BY <1>3 DEF Place
<1>5. 2 * k <= 2 * m + 1 /\ 2 * m + 1 <= Reached(c)
  BY <1>1, <1>2, <1>3, <1>4 DEF OrderInv, ReadingKeepsPace, Before
<1>6. Comes(c, k)
  BY <1>2, <1>3 DEF OrderInv, ResponsesCome, Known
<1>7. CASE exchange[c].asked /\ exchange[c].n = k
  <2>1. Reached(c) = 2 * k
    BY <1>7 DEF Reached
  <2>. QED
    BY <1>5, <2>1
<1>8. CASE \E i \in DOMAIN httpEvents :
             httpEvents[i].conn = c /\ httpEvents[i].response /\ httpEvents[i].n = k
  <2>1. PICK i \in DOMAIN httpEvents :
          httpEvents[i].conn = c /\ httpEvents[i].response /\ httpEvents[i].n = k
    BY <1>8
  <2>2. Place(httpEvents[i]) = 2 * k + 1
    BY <2>1 DEF Place
  <2>3. 2 * m + 1 <= 2 * k + 1
    BY <1>1, <1>2, <1>4, <2>1, <2>2 DEF OrderInv, PacketsAreInOrder
  <2>4. m = k
    BY <1>5, <2>3
  <2>. QED
    BY <1>2, <1>3, <2>4
<1>. QED
  BY <1>6, <1>7, <1>8 DEF Comes

LEMMA ReadResponseStep ==
  ASSUME AgentType, AgentType', OrderInv, ReadResponse
  PROVE  OrderInv'
<1>1. httpEvents # <<>> /\ httpEvents' = Tail(httpEvents)
      /\ UNCHANGED <<exchange, missed>>
  BY DEF ReadResponse
<1>2. PICK e \in PacketType : e = httpEvents[1] /\ e = Head(httpEvents) /\ e.response
  BY <1>1, ReadingTakesTheFirst DEF ReadResponse
<1>3. PICK c \in Conns, m \in Nat : c = e.conn /\ m = e.n
  BY DEF PacketType
<1>4. Place(e) = 2 * m + 1
  BY <1>2, <1>3 DEF Place
<1>5. DOMAIN reqMap' = DOMAIN reqMap \ {c} /\ \A d \in DOMAIN reqMap' : reqMap'[d] = reqMap[d]
  <2>1. reqMap' = [d \in DOMAIN reqMap \ {c} |-> reqMap[d]]
    BY <1>2, <1>3 DEF ReadResponse, Forget
  <2>. QED
    BY <2>1
<1>6. PICK k \in Nat : c \in DOMAIN reqMap => k = reqMap[c].n /\ k \in Numbers
  BY DEF AgentType, Numbers
<1>7. \/ told' = told
      \/ c \in DOMAIN reqMap /\ told' = [told EXCEPT ![c] = Append(told[c], k)]
  BY <1>2, <1>3, <1>6 DEF ReadResponse
<1>8. c \in DOMAIN reqMap =>
        c # Own /\ 2 * k <= 2 * m + 1 /\ \A t \in DOMAIN told[c] : told[c][t] < k
  <2>. SUFFICES ASSUME c \in DOMAIN reqMap
                PROVE  c # Own /\ 2 * k <= 2 * m + 1 /\ \A t \in DOMAIN told[c] : told[c][t] < k
    OBVIOUS
  <2>1. c # Own
    BY DEF AgentType
  <2>2. Before(c, Place(e))
    BY <1>1, <1>2, <1>3, <2>1, ReadingTakesTheFirst DEF OrderInv, ReadingKeepsPace
  <2>3. 2 * k <= 2 * m + 1
    BY <1>4, <1>6, <2>2 DEF Before
  <2>4. \A t \in DOMAIN told[c] : told[c][t] < k
    BY <1>6 DEF OrderInv, ReadingKeepsPace
  <2>. QED
    BY <2>1, <2>3, <2>4
<1>9. /\ \A d \in Conns \ {c} : told'[d] = told[d]
      /\ \/ told'[c] = told[c]
         \/ /\ c \in DOMAIN reqMap
            /\ \A t \in DOMAIN told'[c] :
                 \/ t \in DOMAIN told[c] /\ told'[c][t] = told[c][t]
                 \/ t = Len(told[c]) + 1 /\ told'[c][t] = k
  <2>1. told \in [Conns -> Seq(Numbers)]
    BY DEF AgentType
  <2>2. CASE told' = told
    BY <2>2
  <2>3. CASE c \in DOMAIN reqMap /\ told' = [told EXCEPT ![c] = Append(told[c], k)]
    <3>1. told'[c] = Append(told[c], k) /\ \A d \in Conns \ {c} : told'[d] = told[d]
      BY <2>1, <2>3
    <3>2. told[c] \in Seq(Numbers) /\ k \in Numbers /\ Len(told[c]) \in Nat
      BY <1>6, <2>1, <2>3, LenProperties
    <3>3. /\ Append(told[c], k) \in Seq(Numbers) /\ Len(Append(told[c], k)) = Len(told[c]) + 1
          /\ \A t \in 1 .. Len(told[c]) : Append(told[c], k)[t] = told[c][t]
          /\ Append(told[c], k)[Len(told[c]) + 1] = k
      BY <3>2, AppendProperties
    <3>4. DOMAIN told[c] = 1 .. Len(told[c]) /\ DOMAIN Append(told[c], k) = 1 .. Len(told[c]) + 1
      BY <3>2, <3>3, LenProperties
    <3>5. \A t \in DOMAIN told'[c] : t \in DOMAIN told[c] \/ t = Len(told[c]) + 1
      BY <3>1, <3>2, <3>4
    <3>. QED
      BY <2>3, <3>1, <3>3, <3>4, <3>5
  <2>. QED
    BY <1>7, <2>2, <2>3
<1>10. PacketsAreKnown' /\ PacketsAreInOrder'
  BY <1>1, ReadKeepsOrder DEF OrderInv
<1>11. ReadingKeepsPace'
  <2>1. ASSUME NEW d \in Conns, NEW q \in Nat, Before(d, q),
               d = httpEvents[1].conn /\ d # Own => Place(httpEvents[1]) <= q
        PROVE  Before(d, q)'
    <3>1. d \in DOMAIN reqMap' => 2 * reqMap'[d].n <= q
      BY <1>5, <2>1 DEF Before
    <3>2. ASSUME NEW t \in DOMAIN told'[d] PROVE 2 * told'[d][t] < q
      <4>1. CASE d # c \/ (t \in DOMAIN told[d] /\ told'[d][t] = told[d][t])
        BY <1>9, <2>1, <3>2, <4>1 DEF Before
      <4>2. CASE d = c /\ c \in DOMAIN reqMap /\ told'[d][t] = k
        <5>1. 2 * m + 1 <= q
          BY <1>2, <1>3, <1>4, <1>8, <2>1, <4>2
        <5>2. 2 * k <= 2 * m + 1
          BY <1>8, <4>2
        <5>3. 2 * k < q
          BY <5>1, <5>2
        <5>. QED
          BY <4>2, <5>3
      <4>3. d = c /\ told'[c] = told[c] => t \in DOMAIN told[d] /\ told'[d][t] = told[d][t]
        BY <3>2
      <4>. QED
        BY <1>9, <3>2, <4>1, <4>2, <4>3
    <3>. QED
      BY <3>1, <3>2 DEF Before
  <2>2. (\A d \in DOMAIN reqMap : \A t \in DOMAIN told[d] : told[d][t] < reqMap[d].n)'
    <3>. SUFFICES ASSUME NEW d \in DOMAIN reqMap', NEW t \in DOMAIN told'[d]
                  PROVE  told'[d][t] < reqMap'[d].n
      OBVIOUS
    <3>1. d \in Conns \ {c} /\ d \in DOMAIN reqMap /\ reqMap'[d] = reqMap[d] /\ told'[d] = told[d]
      BY <1>5, <1>9 DEF AgentType
    <3>. QED
      BY <3>1 DEF OrderInv, ReadingKeepsPace
  <2>. QED
    BY <1>1, <2>1, <2>2, PaceAfterReading DEF OrderInv
<1>12. ResponsesCome'
  <2>. SUFFICES ASSUME NEW d \in Conns \ (missed \cup {Own}), NEW n \in Nat, Known(d, n)'
                PROVE  Comes(d, n)'
    BY <1>1 DEF ResponsesCome
  <2>1. Known(d, n)
    BY <1>1, <1>5, ReadingTakesTheFirst DEF Known
  <2>2. Comes(d, n)
    BY <2>1 DEF OrderInv, ResponsesCome
  <2>3. ~(d = c /\ n = m)
    <3>. SUFFICES ASSUME d = c, n = m PROVE FALSE
      OBVIOUS
    <3>1. PICK i \in DOMAIN httpEvents' : httpEvents'[i].conn = d
                  /\ ~httpEvents'[i].response /\ httpEvents'[i].n = n
      BY <1>5 DEF Known
    <3>2. Place(httpEvents'[i]) = 2 * m
      BY <3>1 DEF Place
    <3>3. 2 * m + 1 <= 2 * m
      BY <1>1, <1>2, <1>3, <1>4, <3>1, <3>2, ReadKeepsOrder DEF OrderInv
    <3>. QED
      BY <3>3
  <2>4. CASE exchange[d].asked /\ exchange[d].n = n
    BY <1>1, <2>4 DEF Comes
  <2>5. CASE \E i \in DOMAIN httpEvents :
               httpEvents[i].conn = d /\ httpEvents[i].response /\ httpEvents[i].n = n
    BY <1>1, <1>2, <1>3, <2>3, <2>5, ReadingTakesTheFirst DEF Comes
  <2>. QED
    BY <2>2, <2>4, <2>5 DEF Comes
<1>13. RequestsAreToldOnce'
  <2>. SUFFICES ASSUME NEW d \in Conns, NEW s \in DOMAIN told'[d], NEW t \in DOMAIN told'[d], s < t
                PROVE  told'[d][s] < told'[d][t]
    BY DEF RequestsAreToldOnce
  <2>1. CASE told'[d] = told[d]
    BY <2>1 DEF OrderInv, RequestsAreToldOnce
  <2>2. CASE told'[d] # told[d]
    <3>1. d = c /\ c \in DOMAIN reqMap
      BY <1>9, <2>2
    <3>2. DOMAIN told[c] = 1 .. Len(told[c]) /\ Len(told[c]) \in Nat
      BY LenProperties DEF AgentType
    <3>3. \/ s \in DOMAIN told[c] /\ told'[c][s] = told[c][s]
          \/ s = Len(told[c]) + 1 /\ told'[c][s] = k
      BY <1>9, <2>2, <3>1
    <3>4. \/ t \in DOMAIN told[c] /\ told'[c][t] = told[c][t]
          \/ t = Len(told[c]) + 1 /\ told'[c][t] = k
      BY <1>9, <2>2, <3>1
    <3>5. s \in DOMAIN told[c] /\ told'[c][s] = told[c][s]
      BY <3>2, <3>3, <3>4
    <3>6. CASE t \in DOMAIN told[c] /\ told'[c][t] = told[c][t]
      BY <3>1, <3>5, <3>6 DEF OrderInv, RequestsAreToldOnce
    <3>7. CASE told'[c][t] = k
      BY <1>8, <3>1, <3>5, <3>7
    <3>. QED
      BY <3>4, <3>6, <3>7
  <2>. QED
    BY <2>1, <2>2
<1>. QED
  BY <1>10, <1>11, <1>12, <1>13 DEF OrderInv

-----------------------------------------------------------------------------
(* All steps *)

LEMMA OrderStep ==
  ASSUME AgentType, AgentType', NothingWithoutProcess, NothingWithoutProcess', OrderInv, [Next]_vars
  PROVE  OrderInv'
<1>. DEFINE Quiet ==
       /\ DOMAIN reqMap' \subseteq DOMAIN reqMap
       /\ \A d \in DOMAIN reqMap' : reqMap'[d].n = reqMap[d].n
       /\ told' = told
       /\ \A d \in Conns : exchange'[d] = exchange[d]
            \/ (d = Own /\ exchange'[d].n = exchange[d].n /\ ~exchange'[d].asked)
       /\ \/ httpEvents' = httpEvents /\ missed \subseteq missed'
          \/ httpEvents' = <<>> /\ DOMAIN reqMap' = {}
<1>1. ASSUME Quiet PROVE OrderInv'
  <2>1. ASSUME NEW d \in Conns PROVE Reached(d) <= Reached(d)'
    <3>1. PICK n \in Nat : n = exchange[d].n
      BY DEF AgentType
    <3>2. exchange'[d].n = n /\ (exchange'[d].asked => exchange[d].asked)
      BY <1>1, <3>1
    <3>3. Reached(d) = 2 * n \/ Reached(d) = 2 * n + 1
      BY <3>1 DEF Reached
    <3>4. Reached(d)' = 2 * n \/ Reached(d)' = 2 * n + 1
      BY <3>2 DEF Reached
    <3>5. CASE exchange[d].asked
      <4>1. Reached(d) = 2 * n
        BY <3>1, <3>5 DEF Reached
      <4>. QED
        BY <3>1, <3>4, <4>1
    <3>6. CASE ~exchange[d].asked
      <4>1. Reached(d)' = 2 * n + 1
        BY <3>2, <3>6 DEF Reached
      <4>. QED
        BY <3>1, <3>3, <4>1
    <3>. QED
      BY <3>5, <3>6
  <2>2. \A d \in Conns \ {Own} : exchange'[d] = exchange[d]
    BY <1>1
  <2>. QED
    BY <1>1, <2>1, <2>2, QuietStep
<1>2. CASE UNCHANGED vars
  <2>1. Quiet
    BY <1>2 DEF vars, net
  <2>. QED
    BY <1>1, <2>1
<1>3. ASSUME NEW c \in Conns, OthersAsk(c) PROVE OrderInv'
  <2>1. PICK path \in Paths : Ask(c, path)
    BY <1>3 DEF OthersAsk, Paths
  <2>. QED
    BY <1>3, <2>1, AskStep DEF OthersAsk
<1>4. ASSUME NEW c \in Conns, OthersAnswer(c) PROVE OrderInv'
  BY <1>4, AnswerStep DEF OthersAnswer
<1>5. ASSUME NEW c \in Conns, Ages(c) PROVE OrderInv'
  <2>1. Quiet
    BY <1>5 DEF Ages, net, AgentType
  <2>. QED
    BY <1>1, <2>1
<1>6. CASE ReadTcpEvent
  <2>1. Quiet
    BY <1>6 DEF ReadTcpEvent
  <2>. QED
    BY <1>1, <2>1
<1>7. CASE Cleanup
  <2>1. Quiet
    BY <1>7 DEF Cleanup, net
  <2>. QED
    BY <1>1, <2>1
<1>8. CASE telemetrySender
  <2>1. Quiet
    BY <1>8 DEF telemetrySender, net
  <2>. QED
    BY <1>1, <2>1
<1>9. CASE PostReport
  <2>1. Own \in Conns /\ "telemetry" \in Paths
    BY AgentAssumption DEF Paths
  <2>. QED
    BY <1>9, <2>1, AskStep DEF PostReport
<1>10. CASE PostAnswered
  <2>1. Own \in Conns
    BY AgentAssumption
  <2>. QED
    BY <1>10, <2>1, AnswerStep DEF PostAnswered
<1>11. CASE PostFails
  <2>1. Quiet
    BY <1>11 DEF PostFails, AgentType
  <2>. QED
    BY <1>1, <2>1
<1>12. CASE Exit
  <2>1. DOMAIN reqMap' = {} /\ httpEvents' = <<>> /\ told' = told
    BY <1>12 DEF Exit
  <2>2. exchange' = [exchange EXCEPT ![Own].asked = FALSE]
    BY <1>12 DEF Exit
  <2>3. \A d \in Conns : exchange'[d] = exchange[d]
          \/ (d = Own /\ exchange'[d].n = exchange[d].n /\ ~exchange'[d].asked)
    BY <2>2 DEF AgentType
  <2>4. Quiet
    BY <2>1, <2>3
  <2>. QED
    BY <1>1, <2>4
<1>13. CASE Start
  <2>1. Quiet
    BY <1>13 DEF Start, net, NothingWithoutProcess
  <2>. QED
    BY <1>1, <2>1
<1>. QED
  BY <1>2, <1>3, <1>4, <1>5, <1>6, <1>7, <1>8, <1>9, <1>10, <1>11, <1>12, <1>13,
     ReadRequestStep, ReadResponseStep
  DEF Next

LEMMA ReportsStep ==
  ASSUME AgentType, AgentType', NothingWithoutProcess, OrderInv, ReportsAreRight, [Next]_vars
  PROVE  ReportsAreRight'
<1>1. ASSUME missed \subseteq missed',
             \A i \in DOMAIN telemetryQueue' :
               \/ Right(telemetryQueue'[i])
               \/ i \in DOMAIN telemetryQueue /\ telemetryQueue'[i] = telemetryQueue[i],
             \A i \in DOMAIN sending' :
               \/ Right(sending'[i])
               \/ i \in DOMAIN sending /\ sending'[i] = sending[i]
      PROVE  ReportsAreRight'
  <2>1. \A p : Right(p) => Right(p)'
    BY <1>1 DEF Right
  <2>2. \A i \in DOMAIN telemetryQueue' : Right(telemetryQueue'[i])
    BY <1>1 DEF ReportsAreRight
  <2>3. \A i \in DOMAIN sending' : Right(sending'[i])
    BY <1>1 DEF ReportsAreRight
  <2>. QED
    BY <1>1, <2>2, <2>3 DEF ReportsAreRight, Right
<1>2. ASSUME UNCHANGED <<telemetryQueue, sending>>, missed \subseteq missed' PROVE ReportsAreRight'
  BY <1>1, <1>2
<1>3. CASE UNCHANGED vars
  BY <1>2, <1>3 DEF vars
<1>4. ASSUME NEW c \in Conns, OthersAsk(c) \/ OthersAnswer(c) \/ Ages(c) PROVE ReportsAreRight'
  <2>1. missed \subseteq missed'
    BY <1>4 DEF OthersAsk, OthersAnswer, Ages, Answer
  <2>. QED
    BY <1>2, <1>4, <2>1 DEF OthersAsk, OthersAnswer, Ages
<1>5. CASE ReadRequest \/ Cleanup \/ PostReport
  BY <1>2, <1>5 DEF ReadRequest, Cleanup, PostReport
<1>6. CASE ReadTcpEvent
  <2>1. tcpEvents \in Seq(Conns) /\ tcpEvents # <<>>
    BY <1>6 DEF ReadTcpEvent, AgentType
  <2>2. PICK report \in ReportType : report = TcpReport(Head(tcpEvents))
    BY <2>1, TailOf DEF TcpReport, ReportType, NoRequest
  <2>3. Right(report)
    BY <2>2 DEF TcpReport, Right
  <2>4. enqueueTelemetry(report) /\ UNCHANGED <<sending, missed>>
    BY <1>6, <2>2 DEF ReadTcpEvent
  <2>5. \A i \in DOMAIN telemetryQueue' :
          \/ Right(telemetryQueue'[i])
          \/ i \in DOMAIN telemetryQueue /\ telemetryQueue'[i] = telemetryQueue[i]
    BY <2>3, <2>4, Queued
  <2>. QED
    BY <1>1, <2>4, <2>5
<1>7. CASE ReadResponse
  <2>1. httpEvents # <<>> /\ httpEvents' = Tail(httpEvents) /\ UNCHANGED <<sending, missed>>
    BY <1>7 DEF ReadResponse
  <2>2. PICK e \in PacketType : e = httpEvents[1] /\ e = Head(httpEvents) /\ e.response
    BY <1>7, <2>1, ReadingTakesTheFirst DEF ReadResponse
  <2>3. PICK request \in Nat :
          request = IF e.conn \in DOMAIN reqMap THEN reqMap[e.conn].n ELSE NoRequest
    BY DEF AgentType, Numbers, NoRequest
  <2>4. PICK report \in ReportType : report = HttpReport(e.conn, e.n, request)
    BY <2>3 DEF HttpReport, ReportType, PacketType
  <2>5. Right(report)
    <3>1. e.conn \notin missed => request \in {NoRequest, e.n}
      BY <2>1, <2>2, <2>3, OwnRequestFound
    <3>. QED
      BY <2>4, <3>1 DEF HttpReport, Right
  <2>6. telemetryQueue' = telemetryQueue \/ enqueueTelemetry(report)
    BY <1>7, <2>2, <2>3, <2>4 DEF ReadResponse
  <2>7. \A i \in DOMAIN telemetryQueue' :
          \/ Right(telemetryQueue'[i])
          \/ i \in DOMAIN telemetryQueue /\ telemetryQueue'[i] = telemetryQueue[i]
    BY <2>5, <2>6, Queued
  <2>. QED
    BY <1>1, <2>1, <2>7
<1>8. CASE telemetrySender
  <2>1. telemetryQueue \in Seq(ReportType) /\ telemetryQueue # <<>> /\ UNCHANGED missed
        /\ telemetryQueue' = Tail(telemetryQueue) /\ sending' = <<Head(telemetryQueue)>>
    BY <1>8 DEF telemetrySender, AgentType
  <2>2. /\ Head(telemetryQueue) = telemetryQueue[1] /\ 1 \in DOMAIN telemetryQueue
        /\ \A i \in DOMAIN telemetryQueue' :
             i + 1 \in DOMAIN telemetryQueue /\ telemetryQueue'[i] = telemetryQueue[i + 1]
    BY <2>1, TailOf
  <2>3. \A i \in DOMAIN telemetryQueue' : Right(telemetryQueue'[i])
    BY <2>2 DEF ReportsAreRight
  <2>4. Right(Head(telemetryQueue))
    BY <2>2 DEF ReportsAreRight
  <2>5. \A i \in DOMAIN sending' : Right(sending'[i])
    <3>1. DOMAIN sending' = {1} /\ sending'[1] = Head(telemetryQueue)
      BY <2>1
    <3>. QED
      BY <2>4, <3>1
  <2>. QED
    BY <1>1, <2>1, <2>3, <2>5
<1>9. CASE PostAnswered \/ PostFails
  <2>1. missed \subseteq missed' /\ telemetryQueue' = telemetryQueue /\ DOMAIN sending' = {}
    BY <1>9 DEF PostAnswered, PostFails, Answer
  <2>. QED
    BY <1>1, <2>1
<1>10. CASE Exit
  <2>1. DOMAIN telemetryQueue' = {} /\ DOMAIN sending' = {} /\ missed' = missed
    BY <1>10 DEF Exit
  <2>. QED
    BY <1>1, <2>1
<1>11. CASE Start
  <2>1. DOMAIN telemetryQueue' = {} /\ DOMAIN sending' = {}
    BY <1>11 DEF Start, NothingWithoutProcess
  <2>. QED
    BY <2>1 DEF ReportsAreRight
<1>. QED
  BY <1>3, <1>4, <1>5, <1>6, <1>7, <1>8, <1>9, <1>10, <1>11 DEF Next

-----------------------------------------------------------------------------
(* The theorems *)

LEMMA InitAgent == Init => AgentInv
<1>. SUFFICES ASSUME Init PROVE AgentInv
  OBVIOUS
<1>1. AgentType /\ NothingWithoutProcess
  BY InitType
<1>2. DOMAIN httpEvents = {} /\ DOMAIN telemetryQueue = {} /\ DOMAIN sending = {} /\ DOMAIN reqMap = {}
  BY DEF Init
<1>3. \A c \in Conns : DOMAIN told[c] = {}
  BY DEF Init
<1>4. PacketsAreKnown /\ PacketsAreInOrder /\ ReportsAreRight
  BY <1>2 DEF PacketsAreKnown, PacketsAreInOrder, ReportsAreRight
<1>5. ReadingKeepsPace
  BY <1>2, <1>3 DEF ReadingKeepsPace, Before
<1>6. ResponsesCome
  BY <1>2 DEF ResponsesCome, Known
<1>7. RequestsAreToldOnce
  BY <1>3 DEF RequestsAreToldOnce
<1>. QED
  BY <1>1, <1>4, <1>5, <1>6, <1>7 DEF AgentInv

LEMMA AgentAlways == Spec => []AgentInv
<1>1. AgentInv /\ [Next]_vars => AgentInv'
  <2>. SUFFICES ASSUME AgentInv, [Next]_vars PROVE AgentInv'
    OBVIOUS
  <2>1. AgentType /\ NothingWithoutProcess /\ OrderInv /\ ReportsAreRight /\ PacketsAreKnown
    BY DEF AgentInv, OrderInv
  <2>2. AgentType' /\ NothingWithoutProcess'
    BY <2>1, TypeStep
  <2>3. OrderInv'
    BY <2>1, <2>2, OrderStep
  <2>4. ReportsAreRight'
    BY <2>1, <2>2, ReportsStep
  <2>. QED
    BY <2>2, <2>3, <2>4 DEF AgentInv, OrderInv
<1>. QED
  BY InitAgent, <1>1, PTL DEF Spec

(* Requests, reports and buffers are what they are declared to be: in particular
   no buffer takes more than it has room for (agent/main.go, the ring buffers and the
   channel), and the agent's own requests and those to system ports are never
   remembered. *)
THEOREM AgentTypes == Spec => []TypeOK
<1>1. AgentInv => TypeOK
  <2>. SUFFICES ASSUME AgentType PROVE TypeOK
    BY DEF AgentInv
  <2>1. \A S : \A s \in Seq(S) : ToSet(s) \subseteq S
    BY ElementOfSeq, LenProperties DEF ToSet
  <2>2. /\ ToSet(tcpEvents) \subseteq Conns /\ ToSet(httpEvents) \subseteq PacketType
        /\ ToSet(telemetryQueue) \subseteq ReportType /\ ToSet(sending) \subseteq ReportType
    BY <2>1 DEF AgentType
  <2>. QED
    BY <2>2 DEF AgentType, TypeOK
<1>. QED
  BY <1>1, AgentAlways, PTL

(* On a connection of which this process has missed no response, a response is
   reported with its own request or with none (agent/main.go, the request map):
   an older request is never left over for it, though requests are seen twice,
   skipped, forgotten after 60 s, and dropped when the ring buffer is full. *)
THEOREM ResponsesAreMatched == Spec => []ResponsesNameTheirRequest
<1>1. AgentInv => ResponsesNameTheirRequest
  <2>. SUFFICES ASSUME AgentInv, NEW p \in ToSet(telemetryQueue \o sending)
                PROVE  Right(p)
    BY DEF ResponsesNameTheirRequest, Right
  <2>1. telemetryQueue \in Seq(ReportType) /\ sending \in Seq(ReportType)
        /\ Len(telemetryQueue) \in Nat /\ Len(sending) \in Nat
        /\ DOMAIN telemetryQueue = 1 .. Len(telemetryQueue) /\ DOMAIN sending = 1 .. Len(sending)
    BY LenProperties DEF AgentInv, AgentType
  <2>2. PICK i \in 1 .. Len(telemetryQueue) + Len(sending) : p = (telemetryQueue \o sending)[i]
    <3>1. telemetryQueue \o sending \in Seq(ReportType)
          /\ Len(telemetryQueue \o sending) = Len(telemetryQueue) + Len(sending)
      BY <2>1, ConcatProperties
    <3>2. DOMAIN (telemetryQueue \o sending) = 1 .. Len(telemetryQueue) + Len(sending)
      BY <3>1, LenProperties
    <3>. QED
      BY <3>2 DEF ToSet
  <2>3. CASE i <= Len(telemetryQueue)
    <3>1. p = telemetryQueue[i] /\ i \in DOMAIN telemetryQueue
      BY <2>1, <2>2, <2>3, ConcatProperties
    <3>. QED
      BY <3>1 DEF AgentInv, ReportsAreRight
  <2>4. CASE i > Len(telemetryQueue)
    <3>1. p = sending[i - Len(telemetryQueue)] /\ i - Len(telemetryQueue) \in DOMAIN sending
      BY <2>1, <2>2, <2>4, ConcatProperties
    <3>. QED
      BY <3>1 DEF AgentInv, ReportsAreRight
  <2>. QED
    BY <2>1, <2>3, <2>4
<1>. QED
  BY <1>1, AgentAlways, PTL

(* Reports name the requests of a connection in their order and none twice
   (agent/main.go, the request is deleted with its first response), though packets
   are seen twice, dropped, and the process restarts. *)
THEOREM RequestsAreReportedOnce == Spec => []RequestsAreToldOnce
<1>1. AgentInv => RequestsAreToldOnce
  BY DEF AgentInv
<1>. QED
  BY <1>1, AgentAlways, PTL
=============================================================================
