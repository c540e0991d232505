------------------------------ MODULE MCIngest ------------------------------
(* A service with a pod behind it calls one in another namespace, with an error;
   the same address answers probes, a request to the pod comes without text, and
   one report lacks an address. *)
EXTENDS Ingest, TLC

CONSTANTS api, web, apiPod, webIp, p1, h1, h2, c1

MCServices == {api, web}
MCSvcName == [s \in MCServices |-> IF s = api THEN "api" ELSE "web"]
MCSvcNs == [s \in MCServices |-> IF s = api THEN "shop" ELSE "data"]
MCSvcIps == [s \in MCServices |-> IF s = api THEN {} ELSE {webIp}]
MCSelects == [s \in MCServices |-> IF s = api THEN {apiPod} ELSE {}]
MCPodName == [p \in {apiPod} |-> "api-0"]
MCPodNs == [p \in {apiPod} |-> "shop"]

Report(src, dst, port) ==
  [src |-> src, dst |-> dst, port |-> port, trace |-> NoTrace, apim |-> FALSE, supabase |-> FALSE]

MCPayloads == {Report(p1, webIp, 80), Report(p1, webIp, 8081), Report(webIp, p1, 8080), Report(NoIp, webIp, 80)}

MCText == [p \in MCPayloads |->
  [endpoint |-> IF p.port = 8080 THEN NoEndpoint ELSE "GET /cart",
   status |-> IF p.port = 80 THEN 500 ELSE 0, slow |-> FALSE]]

\* Handlers are interchangeable.
Symmetry == Permutations(Handlers)

\* Bounds: the pod stays, a client asks once, for one namespace.
Bounded ==
  /\ podIp[apiPod] # NoIp /\ podIp' = podIp
  /\ \A c \in Calls : calls'[c].pc # "idle" => calls'[c].key[2] = "shop"
  /\ DOMAIN answer \subseteq DOMAIN answer'

\* Bounds: the clock starts with the first report; all of the reports and of the time
\* come without a client, fewer with one.
Asked == DOMAIN answer # {} \/ \E c \in Calls : calls[c].pc # "idle"
LessOnceAsked ==
  /\ now' > now => received > 0
  /\ Asked' => received' + now' <= 4
=============================================================================
