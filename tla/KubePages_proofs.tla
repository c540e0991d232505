--------------------------- MODULE KubePages_proofs ---------------------------
(* For any contexts, namespaces and requests, any number of changes and failures:
   what the pages show is of the selection that they are meant to show.

   The invariant follows a listing on its way.  While it is kept or held by a
   request it is of the selection that it was asked for (ListingsAreOwn); a request
   that is mounted was sent for what is selected now (MountedIsCurrent); and before
   the user was ever hasty all requests are mounted and none has failed. *)
EXTENDS KubePages, TLAPS

Request == [pc : {"busy"}, selection : Selections, mounted : BOOLEAN,
            step : [Wants(page) -> Steps], data : [Wants(page) -> Data \cup {NoData}]]

CacheType ==
  /\ \A k \in DOMAIN cache : k[2] \in Selections => cache[k].place = PlaceOf(k[1], k[2])
  /\ \A k \in DOMAIN cache : cache[k] \in Data

ListingsAreOwn ==
  \A r \in Requests : Busy(r) =>
    \A k \in Wants(page) : requests[r].step[k] \in {"listed", "in"} =>
      /\ requests[r].data[k] \in Data
      /\ requests[r].data[k].place = PlaceOf(k, requests[r].selection)

MountedIsCurrent ==
  \A r \in Requests : Busy(r) /\ requests[r].mounted => requests[r].selection = selected

PatientRequests ==
  ~hasty => \A r \in Requests : Busy(r) =>
    /\ requests[r].mounted
    /\ \A k \in Wants(page) : requests[r].step[k] # "failed"

PagesInv ==
  /\ TypeOK
  /\ requests \in [Requests -> {Idle} \cup Request]
  /\ CacheType
  /\ ListingsAreOwn
  /\ MountedIsCurrent
  /\ PatientRequests
  /\ DashboardKeepsToSelection
  /\ PatientUsersSeeTheirSelection

-----------------------------------------------------------------------------
(* Operators *)

(* A selection leads to a cluster's namespace, or one in memory. *)
LEMMA PlaceType == \A kind : \A sel \in Selections : PlaceOf(kind, sel) \in Places
  BY SelectionAssumption DEF Places, PlaceOf, Selections, loadConfig

LEMMA DataIsNotNoData == NoData \notin Data
  BY NoDataAssumption, SelectionAssumption DEF Data

(* A listing that is taken now is of the selection that it was asked for. *)
LEMMA ListingIsOwn ==
  ASSUME PagesInv, NEW r \in Requests, Busy(r), NEW kind
  PROVE  /\ Listing(r, kind) \in Data
         /\ Listing(r, kind).place = PlaceOf(kind, requests[r].selection)
<1>1. requests[r].selection \in Selections
  BY DEF PagesInv, TypeOK
<1>. QED
  BY <1>1, PlaceType DEF PagesInv, TypeOK, Listing, Data

-----------------------------------------------------------------------------
(* The backend's steps *)

(* What a step of one part of a request does to the requests. *)
LEMMA GoesEffect ==
  ASSUME PagesInv, UNCHANGED page, NEW r \in Requests, NEW kind, NEW from, NEW to \in Steps,
         NEW data \in Data \cup {NoData}, Goes(r, kind, from, to, data)
  PROVE  /\ kind \in Wants(page) /\ Busy(r) /\ requests[r].step[kind] = from
         /\ requests' \in [Requests -> {Idle} \cup Request']
         /\ \A q \in Requests \ {r} : requests'[q] = requests[q]
         /\ Busy(r)'
         /\ requests'[r].selection = requests[r].selection
         /\ requests'[r].mounted = requests[r].mounted
         /\ requests'[r].step[kind] = to
         /\ requests'[r].data[kind] = data
         /\ \A k \in Wants(page) \ {kind} : /\ requests'[r].step[k] = requests[r].step[k]
                                           /\ requests'[r].data[k] = requests[r].data[k]
<1>1. requests[r] \in Request
  BY DEF PagesInv, Goes, Busy, Idle
<1>2. kind \in Wants(page)
  BY <1>1 DEF Goes, Request
<1>3. requests'[r] = [requests[r] EXCEPT !.step[kind] = to, !.data[kind] = data]
  BY DEF Goes, PagesInv
<1>4. requests'[r] \in Request
  <2>. DEFINE sel == requests[r].selection
              m == requests[r].mounted
              s == requests[r].step
              d == requests[r].data
              q0 == [pc |-> "busy", selection |-> sel, mounted |-> m, step |-> s, data |-> d]
              q1 == [pc |-> "busy", selection |-> sel, mounted |-> m,
                     step |-> [s EXCEPT ![kind] = to], data |-> d]
              q2 == [pc |-> "busy", selection |-> sel, mounted |-> m,
                     step |-> [s EXCEPT ![kind] = to], data |-> [d EXCEPT ![kind] = data]]
  <2>1. /\ sel \in Selections /\ m \in BOOLEAN
        /\ s \in [Wants(page) -> Steps] /\ d \in [Wants(page) -> Data \cup {NoData}]
        /\ requests[r] = q0
    BY <1>1 DEF Request
  <2>2. /\ [s EXCEPT ![kind] = to] \in [Wants(page) -> Steps]
        /\ [d EXCEPT ![kind] = data] \in [Wants(page) -> Data \cup {NoData}]
    BY <1>2, <2>1
  <2>. HIDE DEF sel, m, s, d
  <2>3. [q0 EXCEPT !.step[kind] = to] = q1
    OBVIOUS
  <2>4. [q1 EXCEPT !.data[kind] = data] = q2
    OBVIOUS
  <2>5. q2 \in Request
    BY <2>1, <2>2 DEF Request
  <2>. HIDE DEF q0, q1
  <2>6. requests'[r] = [q1 EXCEPT !.data[kind] = data]
    BY <1>3, <2>1, <2>3
  <2>. QED
    BY <2>4, <2>5, <2>6
<1>5. Request' = Request
  BY DEF Request
<1>. QED
  BY <1>1, <1>2, <1>3, <1>4, <1>5 DEF Goes, PagesInv, Busy, Request

(* A step of one part preserves the invariant if the listing that it puts into the
   request is the request's own, and the caches stay right. *)
LEMMA GoesPreserves ==
  ASSUME PagesInv, UNCHANGED <<browser, version>>,
         NEW r \in Requests, NEW kind, NEW from, NEW to \in Steps,
         NEW data \in Data \cup {NoData}, Goes(r, kind, from, to, data),
         to \in {"listed", "in"} =>
           data \in Data /\ data.place = PlaceOf(kind, requests[r].selection),
         to = "failed" => hasty', hasty => hasty',
         failures' \in 0 .. MaxFailures,
         CacheType', fresh' \subseteq DOMAIN cache'
  PROVE  PagesInv'
<1>. USE DEF browser
<1>0. UNCHANGED page
  OBVIOUS
<1>1. /\ kind \in Wants(page) /\ Busy(r)
      /\ requests' \in [Requests -> {Idle} \cup Request']
      /\ \A q \in Requests \ {r} : requests'[q] = requests[q]
      /\ Busy(r)'
      /\ requests'[r].selection = requests[r].selection
      /\ requests'[r].mounted = requests[r].mounted
      /\ requests'[r].step[kind] = to
      /\ requests'[r].data[kind] = data
      /\ \A k \in Wants(page) \ {kind} : /\ requests'[r].step[k] = requests[r].step[k]
                                         /\ requests'[r].data[k] = requests[r].data[k]
  BY <1>0, GoesEffect
<1>2. \A q \in Requests : /\ Busy(q)' = Busy(q)
                          /\ requests'[q].selection = requests[q].selection
                          /\ requests'[q].mounted = requests[q].mounted
  BY <1>1 DEF Busy
<1>3. Wants(page)' = Wants(page)
  BY DEF Wants
<1>4. /\ requests[r].step \in [Wants(page) -> Steps]
      /\ requests[r].data \in [Wants(page) -> Data \cup {NoData}]
  BY <1>1 DEF PagesInv, TypeOK
<1>5. TypeOK'
  <2>1. \A q \in Requests : Busy(q)' => requests'[q] \in Request'
    BY <1>1 DEF Busy, Idle
  <2>. QED
    BY <1>3, <2>1 DEF PagesInv, TypeOK, CacheType, Request
<1>6. ListingsAreOwn'
  BY <1>1, <1>2, <1>3, <1>4 DEF PagesInv, ListingsAreOwn
<1>7. MountedIsCurrent'
  BY <1>2 DEF PagesInv, MountedIsCurrent
<1>8. PatientRequests'
  BY <1>1, <1>2, <1>3, <1>4 DEF PagesInv, PatientRequests
<1>9. DashboardKeepsToSelection' /\ PatientUsersSeeTheirSelection'
  BY <1>2, <1>3 DEF PagesInv, DashboardKeepsToSelection, PatientUsersSeeTheirSelection
<1>. QED
  BY <1>1, <1>5, <1>6, <1>7, <1>8, <1>9 DEF PagesInv

LEMMA HitPreserves ==
  ASSUME PagesInv, NEW r \in Requests, NEW kind, Hit(r, kind)
  PROVE  PagesInv'
<1>. DEFINE key == CacheKey(kind, requests[r].selection)
<1>1. requests[r].selection \in Selections /\ key \in DOMAIN cache
  BY DEF PagesInv, TypeOK, Hit, Fresh
<1>2. cache[key] \in Data /\ cache[key].place = PlaceOf(kind, requests[r].selection)
  BY <1>1 DEF PagesInv, CacheType, CacheKey
<1>3. UNCHANGED <<browser, backend, hasty>> /\ Goes(r, kind, "sent", "in", cache[key])
  BY DEF Hit
<1>. QED
  BY <1>2, <1>3, GoesPreserves DEF backend, PagesInv, TypeOK, CacheType, Steps

LEMMA MissPreserves ==
  ASSUME PagesInv, NEW r \in Requests, NEW kind, Miss(r, kind)
  PROVE  PagesInv'
<1>1. UNCHANGED <<browser, backend, hasty>> /\ Goes(r, kind, "sent", "listed", Listing(r, kind))
  BY DEF Miss
<1>. QED
  BY <1>1, ListingIsOwn, GoesPreserves DEF Goes, backend, PagesInv, TypeOK, CacheType, Steps

(* A listing that is in, or on its way in, is the request's own. *)
LEMMA ListedIsOwn ==
  ASSUME PagesInv, NEW r \in Requests, NEW kind, NEW to, NEW data,
         Goes(r, kind, "listed", to, data)
  PROVE  /\ requests[r].selection \in Selections
         /\ requests[r].data[kind] \in Data
         /\ requests[r].data[kind].place = PlaceOf(kind, requests[r].selection)
<1>1. kind \in Wants(page) /\ Busy(r) /\ requests[r].selection \in Selections
  BY DEF PagesInv, TypeOK, Goes
<1>. QED
  BY <1>1 DEF PagesInv, ListingsAreOwn, Goes

LEMMA KeepPreserves ==
  ASSUME PagesInv, NEW r \in Requests, NEW kind, Keep(r, kind)
  PROVE  PagesInv'
<1>. DEFINE key == CacheKey(kind, requests[r].selection)
            kept == requests[r].data[kind]
<1>1. /\ Goes(r, kind, "listed", "in", kept)
      /\ cache' = [k \in DOMAIN cache \cup {key} |-> IF k = key THEN kept ELSE cache[k]]
      /\ fresh' = fresh \cup {key}
      /\ UNCHANGED <<version, failures, browser, hasty>>
  BY DEF Keep
<1>2. kept \in Data /\ kept.place = PlaceOf(kind, requests[r].selection)
  BY <1>1, ListedIsOwn
<1>3. CacheType'
  BY <1>1, <1>2 DEF PagesInv, CacheType, CacheKey, Data
<1>4. fresh' \subseteq DOMAIN cache'
  BY <1>1 DEF PagesInv, TypeOK
<1>. HIDE DEF kept
<1>. QED
  BY <1>1, <1>2, <1>3, <1>4, GoesPreserves DEF PagesInv, TypeOK, Steps

LEMMA FailsPreserves ==
  ASSUME PagesInv, NEW r \in Requests, NEW kind, Fails(r, kind)
  PROVE  PagesInv'
<1>1. failures' \in 0 .. MaxFailures
  BY SelectionAssumption DEF Fails, PagesInv, TypeOK
<1>2. CacheType' /\ fresh' \subseteq DOMAIN cache' /\ UNCHANGED <<version, browser>> /\ hasty'
  BY DEF Fails, PagesInv, TypeOK, CacheType
<1>3. Goes(r, kind, "listed", "failed", NoData)
  BY DEF Fails
<1>. QED
  BY <1>1, <1>2, <1>3, GoesPreserves DEF Steps

(* The parts that no cache keeps. *)
LEMMA UncachedPreserves ==
  ASSUME PagesInv, NEW r \in Requests, getRbac(r) \/ getApiTraces(r)
  PROVE  PagesInv'
<1>1. UNCHANGED <<backend, browser, hasty>>
  BY DEF getRbac, getApiTraces
<1>2. ASSUME NEW kind, NEW to \in {"listed", "in"}, Goes(r, kind, "sent", to, Listing(r, kind))
      PROVE  PagesInv'
  BY <1>1, <1>2, ListingIsOwn, GoesPreserves DEF Goes, backend, PagesInv, TypeOK, CacheType, Steps
<1>3. ASSUME NEW kind, Goes(r, kind, "listed", "in", requests[r].data[kind])
      PROVE  PagesInv'
  BY <1>1, <1>3, ListedIsOwn, GoesPreserves DEF backend, PagesInv, TypeOK, CacheType, Steps
<1>. QED
  BY <1>2, <1>3 DEF getRbac, getApiTraces

LEMMA ServePreserves ==
  ASSUME PagesInv, NEW r \in Requests, Serve(r)
  PROVE  PagesInv'
  BY HitPreserves, MissPreserves, KeepPreserves, UncachedPreserves
  DEF Serve, getPods, getServices, getEvents, Cached

(* Neither time nor a change of the cluster touches what is kept or shown. *)
LEMMA SurroundingsPreserve ==
  ASSUME PagesInv, deletePod \/ \E key \in fresh : Expires(key)
  PROVE  PagesInv'
<1>1. UNCHANGED <<cache, failures, browser, requests, hasty>> /\ fresh' \subseteq fresh
  BY DEF deletePod, Expires
<1>2. version' \in 0 .. MaxChanges
  BY SelectionAssumption DEF deletePod, Expires, PagesInv, TypeOK
<1>3. Wants(page)' = Wants(page) /\ Request' = Request /\ \A r \in Requests : Busy(r)' = Busy(r)
  BY <1>1 DEF Wants, Request, Busy, browser
<1>4. TypeOK'
  BY <1>1, <1>2, <1>3 DEF PagesInv, TypeOK, browser
<1>. QED
  BY <1>1, <1>3, <1>4
  DEF PagesInv, CacheType, ListingsAreOwn, MountedIsCurrent, PatientRequests,
      DashboardKeepsToSelection, PatientUsersSeeTheirSelection, browser

-----------------------------------------------------------------------------
(* The pages' steps *)

(* A request that has just been sent: all its parts are under way. *)
LEMMA SentEffect ==
  ASSUME NEW reqs \in [Requests -> {Idle} \cup Request], NEW r \in Requests,
         NEW sel \in Selections
  PROVE  /\ Sent(reqs, r, sel) \in [Requests -> {Idle} \cup Request]
         /\ \A q \in Requests \ {r} : Sent(reqs, r, sel)[q] = reqs[q]
         /\ LET s == Sent(reqs, r, sel)[r]
            IN /\ s.pc = "busy" /\ s.selection = sel /\ s.mounted
               /\ \A k \in Wants(page) : s.step[k] = "sent"
  BY DEF Sent, Request, Steps

LEMMA SendPreserves ==
  ASSUME PagesInv, NEW r \in Requests, ~Busy(r), requests' = Sent(requests, r, selected),
         UNCHANGED <<backend, browser, hasty>>
  PROVE  PagesInv'
<1>1. /\ requests' \in [Requests -> {Idle} \cup Request]
      /\ \A q \in Requests \ {r} : requests'[q] = requests[q]
      /\ Busy(r)' /\ requests'[r].selection = selected /\ requests'[r].mounted
      /\ \A k \in Wants(page) : requests'[r].step[k] = "sent"
  BY SentEffect DEF PagesInv, TypeOK, Busy
<1>2. Wants(page)' = Wants(page) /\ Request' = Request
  BY DEF Wants, Request, browser
<1>3. \A q \in Requests \ {r} : Busy(q)' = Busy(q)
  BY <1>1 DEF Busy
<1>4. requests'[r] \in Request
  BY <1>1 DEF Busy, Idle
<1>5. TypeOK'
  BY <1>1, <1>2, <1>3, <1>4 DEF PagesInv, TypeOK, browser, backend, Request
<1>. QED
  BY <1>1, <1>2, <1>3, <1>5
  DEF PagesInv, CacheType, ListingsAreOwn, MountedIsCurrent, PatientRequests,
      DashboardKeepsToSelection, PatientUsersSeeTheirSelection, browser, backend

LEMMA SelectPreserves ==
  ASSUME PagesInv, NEW sel \in Selections, NEW r \in Requests, Select(sel, r)
  PROVE  PagesInv'
<1>. DEFINE reqs == [q \in Requests |-> CleanedUp(q)]
<1>1. UNCHANGED <<backend, page, shown, selectedPod>> /\ selected' = sel /\ settled' = FALSE
  BY DEF Select
<1>2. reqs \in [Requests -> {Idle} \cup Request]
  BY DEF PagesInv, CleanedUp, Request, Busy, Idle
<1>3. /\ requests' \in [Requests -> {Idle} \cup Request]
      /\ \A q \in Requests \ {r} : requests'[q] = reqs[q]
      /\ Busy(r)' /\ requests'[r].selection = sel /\ requests'[r].mounted
      /\ \A k \in Wants(page) : requests'[r].step[k] = "sent"
  BY <1>2, SentEffect DEF Select, Busy
<1>4. Wants(page)' = Wants(page) /\ Request' = Request
  BY <1>1 DEF Wants, Request
<1>5. \A q \in Requests \ {r} : Busy(q)' =>
        /\ Busy(q)
        /\ ~requests'[q].mounted
        /\ requests'[q].selection = requests[q].selection
        /\ requests'[q].step = requests[q].step
        /\ requests'[q].data = requests[q].data
  BY <1>3 DEF PagesInv, CleanedUp, Busy, Request, Idle
<1>6. requests'[r] \in Request
  BY <1>3 DEF Busy, Idle
<1>7. subscribed' \in (Selections \X Places) \cup {NoData}
  BY DEF Select, Following, PagesInv, TypeOK
<1>8. TypeOK'
  BY <1>1, <1>3, <1>4, <1>5, <1>6, <1>7 DEF PagesInv, TypeOK, backend, Request
<1>9. hasty' <=> hasty \/ \E q \in Requests : Busy(q)
  BY DEF Select
<1>10. ListingsAreOwn' /\ MountedIsCurrent'
  BY <1>1, <1>3, <1>4, <1>5 DEF PagesInv, ListingsAreOwn, MountedIsCurrent
<1>11. PatientRequests'
  BY <1>3, <1>4, <1>5, <1>9 DEF PatientRequests
<1>12. DashboardKeepsToSelection' /\ PatientUsersSeeTheirSelection' /\ CacheType'
  BY <1>1, <1>3
  DEF DashboardKeepsToSelection, PatientUsersSeeTheirSelection, PagesInv, CacheType, backend
<1>. QED
  BY <1>3, <1>4, <1>8, <1>10, <1>11, <1>12 DEF PagesInv

LEMMA AnsweredPreserves ==
  ASSUME PagesInv, NEW r \in Requests, Answered(r)
  PROVE  PagesInv'
<1>. DEFINE good == Accepts(r) /\ \A k \in Wants(page) : requests[r].step[k] = "in"
<1>1. UNCHANGED <<backend, page, selected, hasty>> /\ requests' = [requests EXCEPT ![r] = Idle]
  BY DEF Answered
<1>2. /\ Wants(page)' = Wants(page) /\ Request' = Request
      /\ requests' \in [Requests -> {Idle} \cup Request]
      /\ \A q \in Requests : Busy(q)' => Busy(q) /\ requests'[q] = requests[q]
  BY <1>1 DEF Wants, Request, PagesInv, Busy, Idle
<1>3. Busy(r) /\ requests[r].selection \in Selections
      /\ requests[r].data \in [Wants(page) -> Data \cup {NoData}]
  BY DEF Answered, PagesInv, TypeOK
<1>4. CASE good
  <2>1. /\ shown' = requests[r].data
        /\ settled' = (settled \/ requests[r].selection = selected)
        /\ selectedPod' = PodChosen(r)
        /\ subscribed' = Following(selected, selectedPod')
    BY <1>4 DEF Answered
  <2>2. \A k \in Wants(page) : /\ shown'[k] \in Data
                               /\ shown'[k].place = PlaceOf(k, requests[r].selection)
    BY <1>3, <1>4, <2>1 DEF PagesInv, ListingsAreOwn
  <2>3. selectedPod' \in Places \cup {NoData}
    <3>1. CASE page = "logs" /\ selectedPod = NoData
      <4>1. "pods" \in Wants(page)
        BY <3>1, IgnoredAssumption DEF Wants, AllParts, Pages
      <4>2. selectedPod' = shown'["pods"].place
        BY <2>1, <3>1 DEF PodChosen
      <4>. QED
        BY <1>3, <2>2, <4>1, <4>2 DEF Data
    <3>2. CASE ~(page = "logs" /\ selectedPod = NoData)
      BY <2>1, <3>2 DEF PodChosen, PagesInv, TypeOK
    <3>. QED
      BY <3>1, <3>2
  <2>4. subscribed' \in (Selections \X Places) \cup {NoData}
    BY <2>1, <2>3 DEF Following, PagesInv, TypeOK
  <2>5. TypeOK'
    BY <1>1, <1>2, <1>3, <2>1, <2>3, <2>4 DEF PagesInv, TypeOK, backend
  <2>6. DashboardKeepsToSelection'
    <3>1. ASSUME page = "dashboard"
          PROVE  requests[r].selection = selected
      BY <1>3, <1>4, <3>1 DEF Accepts, PagesInv, MountedIsCurrent
    <3>. QED
      BY <1>1, <1>2, <2>2, <3>1 DEF DashboardKeepsToSelection, PlaceOf, loadConfig
  <2>7. PatientUsersSeeTheirSelection'
    <3>1. ~hasty => requests[r].selection = selected
      BY <1>3 DEF PagesInv, PatientRequests, MountedIsCurrent
    <3>. QED
      BY <1>1, <1>2, <2>2, <3>1, DataIsNotNoData DEF PatientUsersSeeTheirSelection, PlaceOf, loadConfig
  <2>. QED
    BY <1>1, <1>2, <2>5, <2>6, <2>7
    DEF PagesInv, CacheType, ListingsAreOwn, MountedIsCurrent, PatientRequests, backend
<1>5. CASE ~good
  <2>1. UNCHANGED <<shown, settled, selectedPod, subscribed>>
    BY <1>5 DEF Answered
  <2>2. TypeOK'
    BY <1>1, <1>2, <2>1 DEF PagesInv, TypeOK, backend
  <2>3. PatientUsersSeeTheirSelection'
    <3>1. hasty
      <4>. SUFFICES ASSUME ~hasty PROVE good
        BY <1>5
      <4>1. requests[r].mounted /\ \A k \in Wants(page) : requests[r].step[k] # "failed"
        BY <1>3 DEF PagesInv, PatientRequests
      <4>. QED
        BY <4>1 DEF Answered, Accepts
    <3>. QED
      BY <1>1, <3>1 DEF PatientUsersSeeTheirSelection
  <2>. QED
    BY <1>1, <1>2, <2>1, <2>2, <2>3
    DEF PagesInv, CacheType, ListingsAreOwn, MountedIsCurrent, PatientRequests, backend,
        DashboardKeepsToSelection
<1>. QED
  BY <1>4, <1>5

-----------------------------------------------------------------------------
LEMMA PagesInit == Init => PagesInv
<1>. SUFFICES ASSUME Init PROVE PagesInv
  OBVIOUS
<1>. DEFINE idle == [q \in Requests |-> Idle]
<1>1. PICK r \in Requests : requests = Sent(idle, r, selected)
  BY DEF Init
<1>2. idle \in [Requests -> {Idle} \cup Request] /\ selected \in Selections
  BY OfferedAssumption DEF Init
<1>. HIDE DEF idle
<1>3. /\ requests \in [Requests -> {Idle} \cup Request]
      /\ \A q \in Requests \ {r} : requests[q] = idle[q]
      /\ Busy(r) /\ requests[r].selection = selected /\ requests[r].mounted
      /\ \A k \in Wants(page) : requests[r].step[k] = "sent"
  BY <1>1, <1>2, SentEffect DEF Busy
<1>4. \A q \in Requests : Busy(q) => q = r
  BY <1>3 DEF idle, Busy, Idle
<1>5. requests[r] \in Request
  BY <1>3 DEF Busy, Idle
<1>6. shown \in [Wants(page) -> Data \cup {NoData}]
  BY DEF Init
<1>7. TypeOK
  BY <1>2, <1>4, <1>5, <1>6, SelectionAssumption DEF Init, TypeOK, Request
<1>. QED
  BY <1>3, <1>4, <1>7
  DEF Init, PagesInv, CacheType, ListingsAreOwn, MountedIsCurrent, PatientRequests,
      DashboardKeepsToSelection, PatientUsersSeeTheirSelection

LEMMA PagesStep == PagesInv /\ [Next]_vars => PagesInv'
<1>. SUFFICES ASSUME PagesInv, [Next]_vars PROVE PagesInv'
  OBVIOUS
<1>1. ASSUME NEW r \in Requests, Poll(r) \/ Refresh(r) PROVE PagesInv'
  BY <1>1, SendPreserves DEF Poll, Refresh
<1>2. ASSUME UNCHANGED vars PROVE PagesInv'
  <2>1. /\ Wants(page)' = Wants(page) /\ Request' = Request
        /\ \A r \in Requests : Busy(r)' = Busy(r)
    BY <1>2 DEF vars, browser, Wants, Request, Busy
  <2>2. TypeOK'
    BY <1>2, <2>1 DEF vars, browser, backend, PagesInv, TypeOK
  <2>. QED
    BY <1>2, <2>1, <2>2
    DEF vars, browser, backend, PagesInv, CacheType, ListingsAreOwn, MountedIsCurrent,
        PatientRequests, DashboardKeepsToSelection, PatientUsersSeeTheirSelection
<1>3. \A p \in Pages : Offered[p] \subseteq Selections
  BY OfferedAssumption
<1>4. Offered[page] \subseteq Selections
  BY <1>3 DEF PagesInv, TypeOK
<1>. QED
  BY <1>1, <1>2, <1>4, ServePreserves, FailsPreserves, SurroundingsPreserve, SelectPreserves,
     AnsweredPreserves
  DEF Next

\* The types of the pages and of the caches: what counts as fresh is kept, and a
\* page holds listings for the parts that it asks for and for no others.
THEOREM PagesTypes == Spec => []TypeOK
<1>1. PagesInv => TypeOK
  BY DEF PagesInv
<1>. QED
  BY <1>1, PagesInit, PagesStep, PTL DEF Spec

\* The dashboard asks isMounted before it shows an answer: whichever requests of
\* earlier selections are answered late, in whatever order, once it has shown the
\* selected namespace it shows that one and no other.
THEOREM DashboardIsSteady == Spec => []DashboardKeepsToSelection
<1>1. PagesInv => DashboardKeepsToSelection
  BY DEF PagesInv
<1>. QED
  BY <1>1, PagesInit, PagesStep, PTL DEF Spec

\* Every page, through every cache, shows a user who waits for the answers the
\* selected namespace, of the selected context's cluster, or on the events page of the
\* backend's memory, which tells no contexts apart.
THEOREM PatientUsersAreShownTheirs == Spec => []PatientUsersSeeTheirSelection
<1>1. PagesInv => PatientUsersSeeTheirSelection
  BY DEF PagesInv
<1>. QED
  BY <1>1, PagesInit, PagesStep, PTL DEF Spec
=============================================================================
