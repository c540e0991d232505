----------------------------- MODULE MCKubePages -----------------------------
(* A namespace that two contexts have, and another of one of them; two requests under
   way.  A page moves between two of these selections, the events page between all
   three.  Of the dashboard the services are followed: its pods come through a cache
   like theirs. *)
EXTENDS KubePages, TLC

CONSTANTS dev, prod, shop, data, r1, r2

MCOffered == [p \in Pages |->
  CASE p = "events" -> {<<dev, shop>>, <<prod, shop>>, <<dev, data>>}
    [] p = "client" -> {<<dev, shop>>, <<dev, data>>}
    [] OTHER -> {<<dev, shop>>, <<prod, shop>>}]

MCIgnored == [p \in Pages |-> IF p = "dashboard" THEN {"pods"} ELSE {}]
=============================================================================
