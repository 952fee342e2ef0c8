------------------------------ MODULE PolicyLog ------------------------------
(***************************************************************************)
(* What the authorization store promises its readers, whatever the         *)
(* interleaving of the transactions behind it: the policy of a tenant is a *)
(* sequence of versions; a change is ONE step that makes the next version; *)
(* a change made through the management API also leaves one event, which   *)
(* carries that version and the row it changed.                            *)
(*                                                                         *)
(* PolicyStore implements this specification; DecisionCache starts from    *)
(* it.                                                                     *)
(***************************************************************************)
EXTENDS Naturals

CONSTANTS
    Tenants,    \* tenant identifiers, the reserved platform tenant included
    Rows        \* the rows a change may touch

VARIABLES
    version,    \* version[t]: authorization_policy_versions.policy_version
    events      \* the AuthorizationChanged events written so far

vars == <<version, events>>

Init ==
    /\ version = [t \in Tenants |-> 0]
    /\ events = {}

\* A change through the management API: version and event together.
Announce(t, r) ==
    /\ version' = [version EXCEPT ![t] = @ + 1]
    /\ events' = events \cup {[tenant |-> t, version |-> version[t] + 1, row |-> r]}

\* A change by a projection or the bootstrap command: no event.
Bump(t) ==
    /\ version' = [version EXCEPT ![t] = @ + 1]
    /\ UNCHANGED events

Next == \E t \in Tenants : Bump(t) \/ \E r \in Rows : Announce(t, r)

Spec == Init /\ [][Next]_vars

=============================================================================
