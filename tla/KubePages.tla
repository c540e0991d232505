------------------------------- MODULE KubePages -------------------------------
(* The pages that show what Kubernetes lists, and the backend's side of it: the
   five-second caches of kube.service.ts and the pages dashboard, events, rbac and
   logs, which ask for the namespace that the user has selected.  The browser
   starts a request whenever an effect, a timer or a button says so; answers come
   back in any order, also after the selection has changed.

   One page is mounted, or an API client polls the route of Kubernetes' events,
   which no page uses.  What a listing says is
   the version that the clusters' state had. *)
EXTENDS Integers, FiniteSets

CONSTANTS
  Contexts, Namespaces,
  Offered,      \* bound: the selections that the user makes, by page
  CurrentNames, \* "in-cluster" and "inClusterContext": they stand for ...
  Default,      \* ... the kubeconfig's current context
  InCluster,    \* the backend runs in a cluster
  Requests,     \* bound: requests that can be under way
  NoData,
  Ignored,      \* bound: parts of a page that are not followed
  MaxChanges,   \* bound: changes of the cluster
  MaxFailures   \* bound: listings that fail

ASSUME SelectionAssumption ==
  /\ Default \in Contexts /\ InCluster \in BOOLEAN
  /\ {MaxChanges, MaxFailures} \subseteq Nat

Selections == Contexts \X Namespaces
\* Whose a listing is: a namespace's of a cluster, or of the backend's memory, which
\* has all that is reported to it.
Places == Selections \cup ({"memory"} \X Namespaces)
ASSUME NoDataAssumption == NoData \notin [place : Places, version : Nat]
\* The logs page chooses a pod from its listing.
ASSUME IgnoredAssumption == "pods" \notin Ignored["logs"]
Pages == {"dashboard", "events", "rbac", "logs", "client"}
ASSUME OfferedAssumption == Offered \in [Pages -> SUBSET Selections]
AllOffered == UNION {Offered[p] : p \in Pages}

\* What a page's request asks for.  (The dashboard's third part, its metrics, is
\* in the backend's memory like the traces and never waits.)
AllParts == [p \in Pages |->
  CASE p = "dashboard" -> {"services", "pods"}
    [] p = "events" -> {"traces"}
    [] p = "rbac" -> {"roles", "roleBindings", "clusterRoles"}
    [] p = "logs" -> {"pods"}
    [] p = "client" -> {"kubeEvents"}]
Wants(p) == AllParts[p] \ Ignored[p]

VARIABLES
  version,      \* of the clusters' state
  cache,        \* kind and selection -> the listing that is kept
  fresh,        \* the entries younger than their time to live
  page, selected,
  requests,
  shown,        \* what the page shows, by kind
  selectedPod,  \* logs page: the selection whose listing the pod followed is from
  subscribed,   \* logs page: selection and pod that it follows
  failures,     \* number of listings that have failed
  hasty,        \* history: a selection was changed, or a listing failed, while a
                \* request was under way
  settled       \* history: an answer for the present selection has been shown

backend == <<version, cache, fresh, failures>>
browser == <<page, selected, shown, selectedPod, subscribed, settled>>
vars == <<backend, browser, requests, hasty>>

Idle == [pc |-> "idle"]
Busy(r) == requests[r].pc = "busy"

-----------------------------------------------------------------------------
(* kube.service.ts *)

\* The cluster a context name leads to.
loadConfig(sel) == IF InCluster \/ sel[1] \in CurrentNames THEN <<Default, sel[2]>> ELSE sel

\* Whose listing of a kind a selection leads to: the traces' route ignores the context.
PlaceOf(kind, sel) == IF kind = "traces" THEN <<"memory", sel[2]>> ELSE loadConfig(sel)

KeyOfKind(kind, sel) == <<kind, "any">>   \* mutant: the key does not name the namespace
CacheKey(kind, sel) == <<kind, sel>>

Kept(key) == key \in DOMAIN cache   \* mutant: the time stamp is not looked at
Fresh(key) == key \in fresh

\* Request r's part of a kind goes from step to step; it is "in" once the backend
\* answers it.
Goes(r, kind, from, to, data) ==
  /\ Busy(r) /\ kind \in DOMAIN requests[r].step
  /\ requests[r].step[kind] = from
  /\ requests' = [requests EXCEPT ![r].step[kind] = to, ![r].data[kind] = data]

Listing(r, kind) == [place |-> PlaceOf(kind, requests[r].selection), version |-> version]

Hit(r, kind) ==
  LET key == CacheKey(kind, requests[r].selection)
  IN /\ Busy(r) /\ Fresh(key)
     /\ Goes(r, kind, "sent", "in", cache[key])
     /\ UNCHANGED <<backend, browser, hasty>>

\* The listing that will be kept is taken when it is asked for: what happens in the
\* cluster between that and the API server's look at it only makes it younger.
Miss(r, kind) ==
  /\ Busy(r) /\ ~Fresh(CacheKey(kind, requests[r].selection))
  /\ Goes(r, kind, "sent", "listed", Listing(r, kind))
  /\ UNCHANGED <<backend, browser, hasty>>

Keep(r, kind) ==
  LET key == CacheKey(kind, requests[r].selection)
  IN /\ Goes(r, kind, "listed", "in", requests[r].data[kind])
     /\ cache' = [k \in DOMAIN cache \cup {key} |->
                    IF k = key THEN requests[r].data[kind] ELSE cache[k]]
     /\ fresh' = fresh \cup {key}
     /\ UNCHANGED <<version, failures, browser, hasty>>

FailsFresh(r, kind) ==   \* mutant: a failure is a reason not to ask again
  /\ failures < MaxFailures
  /\ Goes(r, kind, "listed", "failed", NoData)
  /\ failures' = failures + 1
  /\ hasty' = TRUE
  /\ fresh' = fresh \cup {CacheKey(kind, requests[r].selection)}
  /\ UNCHANGED <<version, cache, browser>>
Fails(r, kind) ==
  /\ failures < MaxFailures
  /\ Goes(r, kind, "listed", "failed", NoData)
  /\ failures' = failures + 1
  /\ hasty' = TRUE
  /\ UNCHANGED <<version, cache, fresh, browser>>

Cached(r, kind) == Hit(r, kind) \/ Miss(r, kind) \/ Keep(r, kind)
getPods(r) == Cached(r, "pods")
getServices(r) == Cached(r, "services")
getEvents(r) == Cached(r, "kubeEvents")

\* Three listings, one after the other, none of them kept.
RbacOrder == <<"roles", "roleBindings", "clusterRoles">>
getRbac(r) ==
  /\ page = "rbac" /\ Busy(r)
  /\ \E i \in 1 .. 3 :
       /\ \A j \in 1 .. i - 1 : requests[r].step[RbacOrder[j]] = "in"
       /\ \/ Goes(r, RbacOrder[i], "sent", "listed", Listing(r, RbacOrder[i]))
          \/ Goes(r, RbacOrder[i], "listed", "in", requests[r].data[RbacOrder[i]])
  /\ UNCHANGED <<backend, browser, hasty>>

\* The traces of a namespace are in memory, those of all clusters' namespaces of that
\* name together.
getApiTraces(r) ==
  /\ Goes(r, "traces", "sent", "in", Listing(r, "traces"))
  /\ UNCHANGED <<backend, browser, hasty>>

Expires(key) ==
  /\ key \in fresh
  /\ fresh' = fresh \ {key}
  /\ UNCHANGED <<version, cache, failures, browser, requests, hasty>>

\* A pod or a service is deleted, or anything else happens in the cluster; the
\* caches are not told.
deletePod ==
  /\ version < MaxChanges
  /\ version' = version + 1
  /\ UNCHANGED <<cache, fresh, failures, browser, requests, hasty>>

-----------------------------------------------------------------------------
(* The pages *)

\* requests once a request for sel has been sent on r.  Requests of an effect that
\* has been cleaned up are not mounted.
Sent(reqs, r, sel) ==
  [reqs EXCEPT ![r] = [pc |-> "busy", selection |-> sel, mounted |-> TRUE,
                       step |-> [k \in Wants(page) |-> "sent"],
                       data |-> [k \in Wants(page) |-> NoData]]]
CleanedUp(r) == IF Busy(r) THEN [requests[r] EXCEPT !.mounted = FALSE] ELSE Idle

\* The logs page follows a pod of the namespace that is selected: the first of the
\* first listing that it gets, and that one from then on.
PodChosen(r) ==
  IF page # "logs" \/ selectedPod # NoData THEN selectedPod
  ELSE requests[r].data["pods"].place
Following(sel, pod) == IF pod = NoData THEN NoData ELSE <<sel, pod>>

\* The user selects another context or namespace: the effects run again.
Select(sel, r) ==
  /\ sel # selected
  /\ ~Busy(r)
  /\ selected' = sel
  /\ requests' = Sent([q \in Requests |-> CleanedUp(q)], r, sel)
  /\ hasty' = (hasty \/ \E q \in Requests : Busy(q))
  /\ settled' = FALSE
  /\ subscribed' = Following(sel, selectedPod)
  /\ UNCHANGED <<backend, page, shown, selectedPod>>

\* A timer or the refresh button.
Poll(r) ==
  /\ page \in {"dashboard", "events", "client"}
  /\ ~Busy(r)
  /\ requests' = Sent(requests, r, selected)
  /\ UNCHANGED <<backend, browser, hasty>>
Refresh(r) ==
  /\ page \in {"events", "rbac"}
  /\ ~Busy(r)
  /\ requests' = Sent(requests, r, selected)
  /\ UNCHANGED <<backend, browser, hasty>>

AcceptsAny(r) == TRUE   \* mutant: isMounted is not asked
Accepts(r) == page = "dashboard" => requests[r].mounted

\* All parts are in, or one has failed and nothing more is asked for: of the rbac
\* page's parts none after it.  An answer with a part that failed changes nothing.
Answered(r) ==
  /\ Busy(r)
  /\ \/ \A k \in Wants(page) : requests[r].step[k] \in {"in", "failed"}
     \/ page = "rbac" /\ \E k \in Wants(page) : requests[r].step[k] = "failed"
  /\ requests' = [requests EXCEPT ![r] = Idle]
  /\ IF Accepts(r) /\ \A k \in Wants(page) : requests[r].step[k] = "in"
     THEN /\ shown' = requests[r].data
          /\ settled' = (settled \/ requests[r].selection = selected)
          /\ selectedPod' = PodChosen(r)
          /\ subscribed' = Following(selected, selectedPod')
     ELSE UNCHANGED <<shown, settled, selectedPod, subscribed>>
  /\ UNCHANGED <<backend, page, selected, hasty>>

-----------------------------------------------------------------------------
Init ==
  /\ version = 0
  /\ cache = [k \in {} |-> NoData]
  /\ fresh = {}
  /\ page \in Pages
  /\ selected \in Offered[page]
  /\ \E r \in Requests : requests = Sent([q \in Requests |-> Idle], r, selected)
  /\ shown = [k \in Wants(page) |-> NoData]
  /\ selectedPod = NoData
  /\ subscribed = NoData
  /\ failures = 0
  /\ hasty = FALSE
  /\ settled = FALSE

Serve(r) == getPods(r) \/ getServices(r) \/ getEvents(r) \/ getRbac(r) \/ getApiTraces(r)

Next ==
  \/ \E r \in Requests : Serve(r) \/ \E k \in Wants(page) : Fails(r, k)
  \/ \E key \in fresh : Expires(key)
  \/ deletePod
  \/ \E r \in Requests : Poll(r) \/ Refresh(r) \/ Answered(r) \/ \E sel \in Offered[page] : Select(sel, r)

\* Timers fire, requests are served (but for the failures), entries grow old.
Spec == Init /\ [][Next]_vars
FairSpec ==
  /\ Spec
  /\ \A r \in Requests : WF_vars(Serve(r)) /\ WF_vars(Answered(r))
  /\ WF_vars(\E r \in Requests : Poll(r))
  /\ \A k \in {"pods", "services", "kubeEvents"}, sel \in AllOffered :
       WF_vars(Expires(CacheKey(k, sel)))

-----------------------------------------------------------------------------
Data == [place : Places, version : 0 .. MaxChanges]
Steps == {"sent", "listed", "in", "failed"}

\* The types; what counts as fresh is there.
TypeOK ==
  /\ version \in 0 .. MaxChanges
  /\ \A k \in DOMAIN cache : cache[k] \in Data
  /\ fresh \subseteq DOMAIN cache
  /\ page \in Pages /\ selected \in Selections
  /\ \A r \in Requests :
       Busy(r) => /\ requests[r].selection \in Selections
                  /\ requests[r].step \in [Wants(page) -> Steps]
                  /\ requests[r].data \in [Wants(page) -> Data \cup {NoData}]
  /\ shown \in [Wants(page) -> Data \cup {NoData}]
  /\ selectedPod \in Places \cup {NoData}
  /\ subscribed \in (Selections \X Places) \cup {NoData}
  /\ failures \in 0 .. MaxFailures

\* Once the dashboard has shown the namespace that is selected it shows no other,
\* whichever requests of an earlier selection are still to be answered.
DashboardKeepsToSelection ==
  (page = "dashboard" /\ settled) =>
    \A k \in Wants(page) : shown[k].place = PlaceOf(k, selected)

\* A user who waits for each answer before selecting anew is shown what is
\* selected, on every page and through every cache: the selected namespace of the
\* selected context's cluster, but on the events page the traces of all namespaces of
\* that name, whatever the context.  (One who does not wait may be left with another
\* namespace on the pages that do not ask isMounted.)
PatientUsersSeeTheirSelection ==
  (~hasty /\ \A r \in Requests : ~Busy(r)) =>
    \A k \in Wants(page) : shown[k] # NoData /\ shown[k].place = PlaceOf(k, selected)

\* A page that polls shows the present state of the selected namespace in the
\* end: neither a late answer of an old selection, nor an older listing that was
\* kept last, nor a failure, nor a deletion that the caches were not told of
\* stays on it.  (What the events page catches up with is the traces that the backend
\* has for a namespace of that name.)
PollingPagesCatchUp ==
  page \in {"dashboard", "events", "client"} =>
    \A sel \in AllOffered :
      <>[](selected = sel) =>
        <>[](\A k \in Wants(page) :
               shown[k] = [place |-> PlaceOf(k, sel), version |-> version])
=============================================================================
