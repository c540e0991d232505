----------------------------- MODULE LogStreams -----------------------------
(* The log streams of backend/src/graph/graph.gateway.ts: every client of the
   gateway may follow the log of one pod.  handleSubscribeLogs ends the stream
   the client has, asks streamPodLogs of the Kubernetes service for a new one,
   and files it under the client's id when it comes.  Between the two nothing is
   filed, and the client may subscribe again, unsubscribe or disconnect.

   Sockets and pods are outside the repository.  A client is a socket id, which
   Socket.IO never gives out twice.  An action is the code from one await, or
   the start of a handler, to the next await or the end. *)

CONSTANTS
  Clients,            \* socket ids
  Pods,               \* pods whose log can be followed
  Requests,           \* subscriptions, with their streams, that can exist at once
  NoClient, NoPod     \* no client, no pod

ASSUME NobodyAssumption == NoClient \notin Clients /\ NoPod \notin Pods

VARIABLES
  sockets,      \* whether each client is still to come, connected, or gone
  streams,      \* each subscription's stream: being opened, live, or ended
  logStreams,   \* client -> the subscription whose stream is filed for it
  asked,        \* history: the pod each client follows by its last request
  hasty         \* history: clients that did not wait for a stream being opened

vars == <<sockets, streams, logStreams, asked, hasty>>

Nothing == [st |-> "none", client |-> NoClient, pod |-> NoPod]

Init ==
  /\ sockets = [c \in Clients |-> "new"]
  /\ streams = [r \in Requests |-> Nothing]
  /\ logStreams = [c \in {} |-> NoPod]
  /\ asked = [c \in Clients |-> NoPod]
  /\ hasty = {}

Opening(c) == {r \in Requests : streams[r].st = "opening" /\ streams[r].client = c}
Live(c) == {r \in Requests : streams[r].st = "live" /\ streams[r].client = c}

\* The client's wish changes; it is hasty if a stream is still being opened.
Wishes(c, pod) ==
  /\ asked' = [asked EXCEPT ![c] = pod]
  /\ hasty' = IF Opening(c) # {} THEN hasty \cup {c} ELSE hasty

-----------------------------------------------------------------------------
handleConnection(c) ==
  /\ sockets[c] = "new"
  /\ sockets' = [sockets EXCEPT ![c] = "open"]
  /\ UNCHANGED <<streams, logStreams, asked, hasty>>

\* The streams once the one filed for c, if any, is aborted.
AbortNothing(c) == streams   \* mutant: the entry is deleted, the stream runs on
Abort(c) ==
  IF c \in DOMAIN logStreams
  THEN [streams EXCEPT ![logStreams[c]] = Nothing]
  ELSE streams

\* logStreams.delete and logStreams.set.
Unfiled(c) == [d \in DOMAIN logStreams \ {c} |-> logStreams[d]]
Filed(c, r) == [d \in DOMAIN logStreams \cup {c} |-> IF d = c THEN r ELSE logStreams[d]]

handleDisconnect(c) ==
  /\ sockets[c] = "open"
  /\ sockets' = [sockets EXCEPT ![c] = "closed"]
  /\ streams' = Abort(c)
  /\ logStreams' = Unfiled(c)
  /\ Wishes(c, NoPod)

handleUnsubscribeLogs(c) ==
  /\ sockets[c] = "open"
  /\ streams' = Abort(c)
  /\ logStreams' = Unfiled(c)
  /\ Wishes(c, NoPod)
  /\ UNCHANGED sockets

\* Up to the await of streamPodLogs.
handleSubscribeLogs(c, pod, r) ==
  /\ sockets[c] = "open"
  /\ streams[r] = Nothing
  /\ streams' = [Abort(c) EXCEPT ![r] = [st |-> "opening", client |-> c, pod |-> pod]]
  /\ logStreams' = Unfiled(c)
  /\ Wishes(c, pod)
  /\ UNCHANGED sockets

\* The stream opens and is filed, over whatever is filed for the client by then;
\* an ended stream that loses its entry is nobody's concern any more.
StreamOpens(r) ==
  LET c == streams[r].client
      dropped(q) == c \in DOMAIN logStreams /\ q = logStreams[c] /\ streams[q].st = "ended"
  IN /\ streams[r].st = "opening"
     /\ streams' = [q \in Requests |->
                      IF q = r THEN [st |-> "live", client |-> c, pod |-> streams[r].pod]
                      ELSE IF dropped(q) THEN Nothing ELSE streams[q]]
     /\ logStreams' = Filed(c, r)
     /\ UNCHANGED <<sockets, asked, hasty>>

\* streamPodLogs returns null: the entry stays as it is.
StreamFailsFiled(r) ==   \* mutant: what was returned is filed without a look at it
  /\ streams[r].st = "opening"
  /\ streams' = [streams EXCEPT ![r] = Nothing]
  /\ logStreams' = Filed(streams[r].client, r)
  /\ UNCHANGED <<sockets, asked, hasty>>
StreamFails(r) ==
  /\ streams[r].st = "opening"
  /\ streams' = [streams EXCEPT ![r] = Nothing]
  /\ UNCHANGED <<sockets, logStreams, asked, hasty>>

\* The pod's log ends.  Nobody listens for that: an entry stays.
StreamEnds(r) ==
  LET c == streams[r].client
      filed == c \in DOMAIN logStreams /\ logStreams[c] = r
  IN /\ streams[r].st = "live"
     /\ streams' = [streams EXCEPT ![r] =
                      IF filed THEN [st |-> "ended", client |-> c, pod |-> streams[r].pod]
                      ELSE Nothing]
     /\ UNCHANGED <<sockets, logStreams, asked, hasty>>

Next ==
  \/ \E c \in Clients :
       \/ handleConnection(c)
       \/ handleDisconnect(c)
       \/ handleUnsubscribeLogs(c)
       \/ \E pod \in Pods, r \in Requests : handleSubscribeLogs(c, pod, r)
  \/ \E r \in Requests : StreamOpens(r) \/ StreamFails(r) \/ StreamEnds(r)

Spec == Init /\ [][Next]_vars

-----------------------------------------------------------------------------
StreamType == [st : {"opening", "live", "ended"}, client : Clients, pod : Pods]

\* The types of the gateway's log state, and that a filed stream is its
\* client's and has been opened.
TypeOK ==
  /\ sockets \in [Clients -> {"new", "open", "closed"}]
  /\ streams \in [Requests -> StreamType \cup {Nothing}]
  /\ DOMAIN logStreams \subseteq Clients
  /\ \A c \in DOMAIN logStreams :
       /\ logStreams[c] \in Requests
       /\ streams[logStreams[c]].client = c
       /\ streams[logStreams[c]].st \in {"live", "ended"}
  /\ asked \in [Clients -> Pods \cup {NoPod}]
  /\ hasty \subseteq Clients

\* A client that lets each stream open before it does anything else follows one
\* pod at most, and the one it asked for last; what it unsubscribed from or left
\* by disconnecting runs no longer.
PatientClientsFollowOnePod ==
  \A c \in Clients \ hasty :
    \A r \in Live(c) :
      /\ c \in DOMAIN logStreams /\ logStreams[c] = r
      /\ streams[r].pod = asked[c]

(* What comments say, and the code does not do *)

\* "Clean up existing stream for this client" (the comment in
\* handleSubscribeLogs): no client has two streams running.
OneStreamPerClient ==
  \A c \in Clients : \A q, r \in Live(c) : q = r
=============================================================================
