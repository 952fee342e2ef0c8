--------------------------- MODULE MCOutboxDispatch ---------------------------
(* The instance of OutboxDispatch for TLC: two replicas share an outbox.   *)
EXTENDS OutboxDispatch

CONSTANTS r1, r2, e1, e2

=============================================================================
