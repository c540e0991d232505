------------------------------ MODULE MCAgent ------------------------------
(* One connection between services, one to a system port, the agent's own. *)
EXTENDS Agent

CONSTANTS app, sys, own, AppRequests, SysRequests, OwnRequests

Limits == [c \in {app, sys, own} |-> CASE c = app -> AppRequests
                                       [] c = sys -> SysRequests
                                       [] c = own -> OwnRequests]
=============================================================================
