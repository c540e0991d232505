---------------------------- MODULE MCLogStreams ----------------------------
(* Two clients, two pods, three subscriptions at once: enough for a client to
   subscribe over a stream being opened while another stream of its own, or of
   the other client, is live. *)
EXTENDS LogStreams, TLC

Symmetry == Permutations(Clients) \cup Permutations(Pods) \cup Permutations(Requests)
=============================================================================
