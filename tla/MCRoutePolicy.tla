---------------------------- MODULE MCRoutePolicy ----------------------------
(* The instance of RoutePolicy for TLC: two writers and the loop of a      *)
(* replica set and refresh the policies of two routes.                     *)
EXTENDS RoutePolicy

CONSTANTS x1, x2, r1, r2, w1, w2

=============================================================================
