------------------------------ MODULE MCRouteSync ------------------------------
(* The instance of RouteSync for TLC: two releases that share a route.     *)
EXTENDS RouteSync

CONSTANTS a, b, c

\* The new release has c instead of b.
TwoReleases == {{a, b}, {a, c}}

=============================================================================
