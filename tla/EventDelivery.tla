---------------------------- MODULE EventDelivery ----------------------------
(***************************************************************************)
(* What the transactional outbox promises: an event that is committed      *)
(* waits, and then reaches the stream.  It never disappears on the way and *)
(* is never announced before it is committed.                              *)
(***************************************************************************)
CONSTANT Events

VARIABLE status    \* status[e]: "absent", "waiting" or "delivered"

Init == status = [e \in Events |-> "absent"]

Commit(e) ==
    /\ status[e] = "absent"
    /\ status' = [status EXCEPT ![e] = "waiting"]

Deliver(e) ==
    /\ status[e] = "waiting"
    /\ status' = [status EXCEPT ![e] = "delivered"]

Next == \E e \in Events : Commit(e) \/ Deliver(e)

Spec == Init /\ [][Next]_status

FairSpec == Spec /\ \A e \in Events : WF_status(Deliver(e))

=============================================================================
