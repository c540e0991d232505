---------------------------- MODULE MCGraphView ----------------------------
(* All graphs of three services, with one pair of parallel calls and one service
   that calls itself, and of two pods. *)
EXTENDS GraphView

CONSTANTS a, b, c, p, q

MCRank == [s \in {a, b, c} |-> CASE s = a -> 1 [] s = b -> 2 [] s = c -> 3]
Call(s, t, port) == [id |-> <<s, t, port>>, source |-> s, target |-> t]
MCCalls ==
  ({Call(s, t, 80) : s, t \in {a, b, c}} \ {Call(b, b, 80), Call(c, c, 80)})
    \cup {Call(a, b, 443)}
=============================================================================
