-------------------------- MODULE MCRequestPipeline --------------------------
(* The instance of RequestPipeline for TLC.                                *)
EXTENDS RequestPipeline, TLC

CONSTANTS r1, r2, r3, k1

Alice(key, transport, flaw) ==
    [key |-> key, print |-> "same", subject |-> "alice", transport |-> transport, flaw |-> flaw]
Bob(key, transport, flaw) ==
    [key |-> key, print |-> "other", subject |-> "bob", transport |-> transport, flaw |-> flaw]
Load(c1, c2, c3, failOpen, processingTTL, timeout) ==
    [calls |-> (r1 :> c1) @@ (r2 :> c2) @@ (r3 :> c3), failOpen |-> failOpen,
     processingTTL |-> processingTTL, timeout |-> timeout]

MCLoads == {
    \* A request, its retry, and another caller with the same key; a processing
    \* record outlives the handlers.
    Load(Alice(k1, "http", "none"), Alice(k1, "http", "none"), Bob(k1, "http", "none"),
         FALSE, 2, 1),
    \* The same over gRPC with a stream; handlers outlive the record.
    Load(Alice(k1, "unary", "none"), Alice(k1, "unary", "none"), Bob(k1, "stream", "none"),
         FALSE, 1, 2),
    \* Requests without a key, and one whose body is too large.
    Load(Alice(NoKey, "http", "none"), Alice(NoKey, "unary", "none"), Bob(k1, "http", "body"),
         TRUE, 2, 1),
    \* Requests each stage refuses.
    Load(Alice(k1, "http", "key"), Alice(k1, "http", "origin"), Bob(k1, "http", "content"),
         TRUE, 2, 1),
    Load(Alice(k1, "http", "credentials"), Alice(k1, "unary", "credentials"),
         Bob(k1, "stream", "key"), TRUE, 2, 1)}

=============================================================================
