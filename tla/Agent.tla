------------------------------- MODULE Agent -------------------------------
(* agent/main.go: the agent of a node.  The kernel program (agent/tcptracer.c)
   writes every connect and every HTTP packet it sees to a ring buffer each, and
   drops what does not fit.  Two loops read them.  A request is remembered until
   the response of the same connection comes, and is reported with it; a cleanup
   forgets requests older than 60 s.  Reports wait in a channel that drops what
   does not fit, for one sender that posts them one by one.

   The loops, the cleanup and the sender are goroutines.  They share only the
   request map, under a mutex, and the channel, so that the handling of one
   record is one step.  The connections are the environment: requests and
   responses alternate on each; a packet is seen once or twice, on the
   interfaces it passes, and its sightings precede those of the next packet of
   its connection.  The agent's own posts are packets like others. *)
EXTENDS Naturals, Sequences, SequencesExt

CONSTANTS
  Conns,        \* connections: addresses and ports of client and server
  Own,          \* the agent's connection to the backend
  Local,        \* connections whose client is on this node
  Skipped,      \* connections to system ports and metadata servers
  MaxExchanges, \* bound: requests on each connection
  MaxExits,     \* bound: restarts
  TcpRing,      \* connects that fit into their ring buffer
  HttpRing,     \* packets that fit into theirs
  QueueSize     \* reports that fit into the channel

ASSUME AgentAssumption ==
  /\ Own \in Local /\ Local \subseteq Conns
  /\ Skipped \subseteq Conns \ {Own}
  /\ MaxExchanges \in [Conns -> Nat]
  /\ MaxExits \in Nat /\ TcpRing \in Nat
  /\ HttpRing \in Nat \ {0} /\ QueueSize \in Nat \ {0}

VARIABLES
  exchange,     \* the request each connection is at: its number, and whether its
                \* response is outstanding
  tcpEvents,    \* connects in the ring buffer
  httpEvents,   \* packets in the ring buffer
  reqMap,       \* connection -> the remembered request, and whether it is old
  telemetryQueue,
  sending,      \* the report being posted, in a sequence of at most one
  running,      \* the process is up
  exits,        \* how often it ended
  missed,       \* history: connections of which this process missed a response
  told          \* history: the requests of each connection that reports name

net == <<exchange, tcpEvents, httpEvents>>
process == <<running, exits>>
vars == <<net, reqMap, telemetryQueue, sending, process, missed, told>>

Paths == {"app", "quiet", "telemetry", "none"}   \* quiet: metrics, health, readiness

NoRequest == 0
TcpReport(c) == [kind |-> "tcp", conn |-> c, n |-> NoRequest, request |-> NoRequest]
\* The report of response n, with the remembered request, if any.
HttpReport(c, n, request) == [kind |-> "http", conn |-> c, n |-> n, request |-> request]

Init ==
  /\ exchange = [c \in Conns |-> [n |-> 0, asked |-> FALSE]]
  /\ tcpEvents = <<>>
  /\ httpEvents = <<>>
  /\ reqMap = [c \in {} |-> NoRequest]
  /\ telemetryQueue = <<>>
  /\ sending = <<>>
  /\ running = TRUE
  /\ exits = 0
  /\ missed = {}
  /\ told = [c \in Conns |-> <<>>]

-----------------------------------------------------------------------------
(* The network and the kernel program *)

\* An event without text: neither a request nor a response.
Unread == [conn |-> Own, n |-> NoRequest, response |-> FALSE, path |-> "none"]

\* A packet is seen on one or two interfaces; what does not fit is dropped.  The
\* text of a packet shorter than the event's buffer is not copied, and the event
\* is without one.
Seen(packet) ==
  LET room == HttpRing - Len(httpEvents)
  IN IF ~running \/ room = 0 THEN httpEvents' = httpEvents
     ELSE \E event \in {packet, Unread} :
            \/ httpEvents' = Append(httpEvents, event)
            \/ room > 1 /\ httpEvents' = httpEvents \o <<event, event>>

Ask(c, path) ==
  LET n == exchange[c].n + 1
  IN /\ ~exchange[c].asked
     /\ n <= MaxExchanges[c]
     /\ exchange' = [exchange EXCEPT ![c] = [n |-> n, asked |-> TRUE]]
     /\ tcpEvents' = IF n = 1 /\ c \in Local /\ running /\ Len(tcpEvents) < TcpRing
                     THEN Append(tcpEvents, c) ELSE tcpEvents
     /\ Seen([conn |-> c, n |-> n, response |-> FALSE, path |-> path])

Answer(c) ==
  LET packet == [conn |-> c, n |-> exchange[c].n, response |-> TRUE, path |-> "none"]
  IN /\ exchange[c].asked
     /\ exchange' = [exchange EXCEPT ![c].asked = FALSE]
     /\ Seen(packet)
     /\ missed' = IF Contains(httpEvents', packet) THEN missed ELSE missed \cup {c}
     /\ UNCHANGED tcpEvents

OthersAsk(c) ==
  /\ c # Own
  /\ \E path \in {"app", "quiet"} : Ask(c, path)
  /\ UNCHANGED <<reqMap, telemetryQueue, sending, process, missed, told>>

OthersAnswer(c) ==
  /\ c # Own
  /\ Answer(c)
  /\ UNCHANGED <<reqMap, telemetryQueue, sending, process, told>>

-----------------------------------------------------------------------------
(* The loops *)

EnqueueAlways(report) == telemetryQueue' = Append(telemetryQueue, report)   \* mutant: a slice
enqueueTelemetry(report) ==
  telemetryQueue' = IF Len(telemetryQueue) < QueueSize
                    THEN Append(telemetryQueue, report) ELSE telemetryQueue

ReadTcpEvent ==
  /\ running
  /\ tcpEvents # <<>>
  /\ tcpEvents' = Tail(tcpEvents)
  /\ enqueueTelemetry(TcpReport(Head(tcpEvents)))
  /\ UNCHANGED <<exchange, httpEvents, reqMap, sending, process, missed, told>>

\* parseHTTPMessage finds a path in requests only.
shouldSkipTelemetry(c, path) == c \in Skipped \/ path # "app"

Remember(c, n) ==
  reqMap' = [d \in DOMAIN reqMap \cup {c} |-> IF d = c THEN [n |-> n, old |-> FALSE] ELSE reqMap[d]]
KeepAll(c) == reqMap   \* mutant: the entry is not deleted
Forget(c) == [d \in DOMAIN reqMap \ {c} |-> reqMap[d]]

\* A request is remembered, not reported.
ReadRequest ==
  LET e == Head(httpEvents)
  IN /\ running /\ httpEvents # <<>> /\ ~e.response
     /\ httpEvents' = Tail(httpEvents)
     /\ IF shouldSkipTelemetry(e.conn, e.path) THEN UNCHANGED reqMap
        ELSE Remember(e.conn, e.n)
     /\ UNCHANGED <<exchange, tcpEvents, telemetryQueue, sending, process, missed, told>>

\* A response is reported with the remembered request of its connection, or by
\* itself.  It has no path of its own to be skipped for.
ReadResponse ==
  LET e == Head(httpEvents)
      known == e.conn \in DOMAIN reqMap
      request == IF known THEN reqMap[e.conn].n ELSE NoRequest
  IN /\ running /\ httpEvents # <<>> /\ e.response
     /\ httpEvents' = Tail(httpEvents)
     /\ reqMap' = Forget(e.conn)
     /\ IF e.conn \in Skipped
        THEN UNCHANGED <<telemetryQueue, told>>
        ELSE /\ enqueueTelemetry(HttpReport(e.conn, e.n, request))
             /\ told' = IF known THEN [told EXCEPT ![e.conn] = Append(@, request)] ELSE told
     /\ UNCHANGED <<exchange, tcpEvents, sending, process, missed>>

\* 60 s pass since a request was remembered; the next tick forgets it.
Ages(c) ==
  /\ c \in DOMAIN reqMap /\ ~reqMap[c].old
  /\ reqMap' = [reqMap EXCEPT ![c].old = TRUE]
  /\ UNCHANGED <<net, telemetryQueue, sending, process, missed, told>>

CleanupWhenFull ==   \* mutant: only when every connection has an entry
  /\ running
  /\ DOMAIN reqMap = Conns
  /\ reqMap' = [c \in {d \in DOMAIN reqMap : ~reqMap[d].old} |-> reqMap[c]]
  /\ UNCHANGED <<net, telemetryQueue, sending, process, missed, told>>
Cleanup ==
  /\ running
  /\ \E c \in DOMAIN reqMap : reqMap[c].old
  /\ reqMap' = [c \in {d \in DOMAIN reqMap : ~reqMap[d].old} |-> reqMap[c]]
  /\ UNCHANGED <<net, telemetryQueue, sending, process, missed, told>>

-----------------------------------------------------------------------------
(* The sender *)

telemetrySender ==
  /\ running
  /\ sending = <<>> /\ telemetryQueue # <<>>
  /\ sending' = <<Head(telemetryQueue)>>
  /\ telemetryQueue' = Tail(telemetryQueue)
  /\ UNCHANGED <<net, reqMap, process, missed, told>>

\* sendTelemetry: the request goes out, and is seen like any other.
PostReport ==
  /\ running
  /\ sending # <<>>
  /\ Ask(Own, "telemetry")
  /\ UNCHANGED <<reqMap, telemetryQueue, sending, process, missed, told>>

PostAnswered ==
  /\ running
  /\ sending # <<>>
  /\ Answer(Own)
  /\ sending' = <<>>
  /\ UNCHANGED <<reqMap, telemetryQueue, process, told>>

\* No connection, an error, or five seconds without an answer: the report is
\* given up, and so is the request, if it had gone out.
PostRefused ==   \* mutant: a client without a timeout
  /\ running
  /\ sending # <<>> /\ ~exchange[Own].asked /\ exchange[Own].n = 0
  /\ sending' = <<>>
  /\ UNCHANGED <<net, reqMap, telemetryQueue, process, missed, told>>
PostFails ==
  /\ running
  /\ sending # <<>>
  /\ sending' = <<>>
  /\ exchange' = [exchange EXCEPT ![Own].asked = FALSE]
  /\ UNCHANGED <<tcpEvents, httpEvents, reqMap, telemetryQueue, process, missed, told>>

\* A signal ends the process: what it holds is lost.
Exit ==
  /\ running
  /\ exits < MaxExits
  /\ running' = FALSE
  /\ exits' = exits + 1
  /\ reqMap' = [c \in {} |-> NoRequest]
  /\ telemetryQueue' = <<>>
  /\ sending' = <<>>
  /\ tcpEvents' = <<>>
  /\ httpEvents' = <<>>
  /\ exchange' = [exchange EXCEPT ![Own].asked = FALSE]
  /\ UNCHANGED <<missed, told>>

Start ==
  /\ ~running
  /\ running' = TRUE
  /\ missed' = {}
  /\ UNCHANGED <<net, reqMap, telemetryQueue, sending, exits, told>>

Next ==
  \/ \E c \in Conns : OthersAsk(c) \/ OthersAnswer(c) \/ Ages(c)
  \/ ReadTcpEvent \/ ReadRequest \/ ReadResponse \/ Cleanup
  \/ telemetrySender \/ PostReport \/ PostAnswered \/ PostFails
  \/ Exit \/ Start

Spec == Init /\ [][Next]_vars

\* Time passes and the ticker ticks; the sender takes what is there, and its
\* client's timeout ends every post.
Fairness ==
  /\ \A c \in Conns : WF_vars(Ages(c))
  /\ WF_vars(Cleanup)
  /\ WF_vars(telemetrySender)
  /\ WF_vars(PostFails)

FairSpec == Spec /\ Fairness

-----------------------------------------------------------------------------
Numbers == Nat \ {0}
PacketType == [conn : Conns, n : Nat, response : BOOLEAN, path : Paths]
ReportType == [kind : {"tcp", "http"}, conn : Conns, n : Nat, request : Nat]

\* The types, and that the buffers keep their sizes.
TypeOK ==
  /\ exchange \in [Conns -> [n : Nat, asked : BOOLEAN]]
  /\ ToSet(tcpEvents) \subseteq Conns /\ Len(tcpEvents) <= TcpRing
  /\ ToSet(httpEvents) \subseteq PacketType /\ Len(httpEvents) <= HttpRing
  /\ DOMAIN reqMap \subseteq Conns \ (Skipped \cup {Own})
  /\ \A c \in DOMAIN reqMap : reqMap[c] \in [n : Numbers, old : BOOLEAN]
  /\ ToSet(telemetryQueue) \subseteq ReportType /\ Len(telemetryQueue) <= QueueSize
  /\ ToSet(sending) \subseteq ReportType /\ Len(sending) <= 1
  /\ running \in BOOLEAN /\ exits \in 0..MaxExits
  /\ missed \subseteq Conns
  /\ told \in [Conns -> Seq(Numbers)]

\* A response is reported with its own request or with none, although requests
\* are missed, skipped and forgotten: on a connection of which no response has
\* been missed, an older request is never left over for a later response.
ResponsesNameTheirRequest ==
  \A p \in ToSet(telemetryQueue \o sending) :
    p.kind = "http" /\ p.conn \notin missed => p.request \in {NoRequest, p.n}

\* The reports of a connection name its requests in their order and none twice,
\* although packets are seen twice and missed, also across a restart.
RequestsAreToldOnce ==
  \A c \in Conns : \A i, j \in DOMAIN told[c] : i < j => told[c][i] < told[c][j]

\* The request map does not keep a request for ever, whether or not its
\* response is seen.
StoredRequestsGo ==
  \A c \in Conns : \A n \in 1..MaxExchanges[c] :
    (c \in DOMAIN reqMap /\ reqMap[c].n = n) ~> ~(c \in DOMAIN reqMap /\ reqMap[c].n = n)

\* A full queue gets room again, though the backend may never answer.
QueueMoves == (Len(telemetryQueue) = QueueSize) ~> (Len(telemetryQueue) < QueueSize)
=============================================================================
