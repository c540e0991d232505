--------------------------- MODULE MCGraphService ---------------------------
(* A small cluster for GraphService: a service with a pod behind it, a service
   called by it, the program's own service, a pod of no service, an address
   outside the cluster. *)
EXTENDS GraphService, FiniteSets, TLC

CONSTANTS api, web, krg,            \* services
          apiPod, jobPod,           \* pods
          webIp, krgIp, p1, x       \* addresses; x is outside the cluster

MCServices == {api, web, krg}
MCSvcName == [s \in Services |-> CASE s = api -> "api" [] s = web -> "web"
                                     [] s = krg -> "kube-runtime-graph"]
MCNamespaces == {"shop"}
MCSvcNs == [s \in Services |-> "shop"]
MCSvcIps == [s \in Services |-> CASE s = api -> {} [] s = web -> {webIp} [] s = krg -> {krgIp}]
MCSelects == [s \in Services |-> IF s = api THEN {apiPod} ELSE {}]
MCPods == {apiPod, jobPod}
MCPodName == [p \in Pods |-> IF p = apiPod THEN "api-0" ELSE "job-0"]
MCPodNs == [p \in Pods |-> "shop"]
MCPodIps == {p1}
MCIps == {webIp, krgIp, p1, x}

CONSTANTS t1, c1, c2, h1, h2   \* a trace id, calls, handlers

Report(src, dst, port, trace) ==
  [src |-> src, dst |-> dst, port |-> port, trace |-> trace, apim |-> FALSE, supabase |-> FALSE]

\* A request to web, whose reports carry one trace; the program's own traffic; a
\* probe, which is dropped.
CallReport == Report(p1, webIp, 80, t1)
OwnReport == Report(x, krgIp, 3001, NoTrace)
HealthReport == Report(x, webIp, 10250, NoTrace)

OneReport == {CallReport, HealthReport}
OwnReports == {OwnReport}

\* Calls and handlers are interchangeable.
Symmetry == Permutations(Calls) \cup Permutations(Handlers)

\* Bound: the graph is not followed beyond MaxEdges edges.
CONSTANT MaxEdges
FewEdges == Cardinality(DOMAIN activeEdges) <= MaxEdges

\* Bound: two reports overlap while no request for the graph is under way or
\* unanswered, no snapshot is kept and the graph has room for an edge; one report
\* overlaps with requests at all times.
Pairs ==
  \/ Cardinality({h \in Handlers : handlers'[h].pc # "idle"}) <= 1
  \/ /\ \A c \in Calls : calls'[c].pc = "idle" /\ c \notin DOMAIN answer'
     /\ DOMAIN graphCache' = {}
     /\ Cardinality(DOMAIN activeEdges') < MaxEdges
=============================================================================
