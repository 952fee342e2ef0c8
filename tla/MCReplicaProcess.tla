--------------------------- MODULE MCReplicaProcess ---------------------------
(* The instance of ReplicaProcess for TLC: the process a, another replica b *)
(* and a caller w of the blocking Lock.                                     *)
EXTENDS ReplicaProcess

CONSTANTS a, b, w

=============================================================================
