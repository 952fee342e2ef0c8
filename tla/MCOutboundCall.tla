---------------------------- MODULE MCOutboundCall ----------------------------
(* The instance of OutboundCall for TLC: two callers share a client, one of *)
(* them with a call that may be repeated.                                   *)
EXTENDS OutboundCall, TLC

CONSTANTS c1, c2

MCMixes == {(c1 :> "get") @@ (c2 :> "post"),
            (c1 :> "keyed") @@ (c2 :> "post"),
            (c1 :> "get") @@ (c2 :> "absolute")}

=============================================================================
