----------------------------- MODULE MCGraphPage -----------------------------
(* Two contexts, one with two namespaces; two pods. *)
EXTENDS GraphPage, TLC

CONSTANTS dev, prod, default, shop, p, q

MCNamespacesOf == [c \in {dev, prod} |-> IF c = dev THEN {default, shop} ELSE {shop}]
MCPreferred == [c \in {dev, prod} |-> IF c = dev THEN default ELSE shop]

Symmetry == Permutations(Pods)

\* Bound: the panel is used while the clock stands still and few updates come; the
\* log and the replay share nothing but the click that needs a graph to be shown.
Bounded ==
  (isPanelOpen \/ following # NoPod \/ Opening \/ lost # {} \/ strayed \/ rushed) =>
    now = 1 /\ updates <= 2
=============================================================================
