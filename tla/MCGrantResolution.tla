-------------------------- MODULE MCGrantResolution --------------------------
(* Instances of GrantResolution for TLC: a reader, a lead of two units, a  *)
(* wildcard owner and a role of another tenant; every choice of links,     *)
(* bindings, group membership and of one disabled role.                    *)
EXTENDS GrantResolution, TLC

MCPermissions == {"view", "edit", "odd", "any", "theirs"}
MCRoles == {"reader", "lead", "owner", "foreign"}

MCPerm ==
    [x \in MCPermissions |->
       CASE x = "view" -> [tenant |-> "t1", resource |-> "doc", action |-> "read", code |-> "view", cond |-> "none", active |-> TRUE]
         [] x = "edit" -> [tenant |-> "t1", resource |-> "doc", action |-> "*", code |-> "edit", cond |-> "attr", active |-> TRUE]
         [] x = "odd"  -> [tenant |-> "t1", resource |-> "doc", action |-> "read", code |-> "odd", cond |-> "broken", active |-> TRUE]
         [] x = "any"  -> [tenant |-> "t1", resource |-> "*", action |-> "*", code |-> "any", cond |-> "none", active |-> TRUE]
         [] x = "theirs" -> [tenant |-> "t2", resource |-> "*", action |-> "*", code |-> "view", cond |-> "none", active |-> TRUE]]

MCRole(leadActive) ==
    [r \in MCRoles |->
       CASE r = "reader"  -> [tenant |-> "t1", scope |-> "self", active |-> TRUE]
         [] r = "lead"    -> [tenant |-> "t1", scope |-> "organization", active |-> leadActive]
         [] r = "owner"   -> [tenant |-> "t1", scope |-> "tenant", active |-> TRUE]
         [] r = "foreign" -> [tenant |-> "t2", scope |-> "all", active |-> TRUE]]

Binding(tenant, type, subject, role, unit) ==
    [tenant |-> tenant, type |-> type, subject |-> subject, role |-> role,
     unit |-> unit, active |-> TRUE]

MCBindings ==
    {Binding("t1", "membership", "alice", "reader", NoUnit),
     Binding("t1", "membership", "alice", "lead", "u1"),
     Binding("t1", "membership", "alice", "lead", NoUnit),
     Binding("t1", "group", "team", "lead", "u2"),
     Binding("t1", "group", "team", "owner", NoUnit),
     Binding("t2", "membership", "alice", "foreign", NoUnit)}

MCLinks ==
    {<<"reader", "view">>, <<"reader", "odd">>, <<"lead", "view">>,
     <<"lead", "edit">>, <<"owner", "any">>, <<"foreign", "theirs">>}

MCPolicies ==
    {[bindings |-> bindings, links |-> links, groups |-> groups,
      role |-> MCRole(leadActive), perm |-> MCPerm] :
        bindings \in SUBSET MCBindings, links \in SUBSET MCLinks,
        groups \in {{}, {<<"t1", "alice", "team">>}}, leadActive \in BOOLEAN}

Request(kind, resource, action, attrs, codes) ==
    [kind |-> kind, tenant |-> "t1", type |-> "membership", subject |-> "alice",
     resource |-> resource, action |-> action, attrs |-> attrs, codes |-> codes]

MCRequests ==
    {Request("check", "doc", "read", FALSE, {}), Request("check", "doc", "read", TRUE, {}),
     Request("check", "user", "write", FALSE, {}),
     Request("codes", "", "", FALSE, {"view", "edit", "odd"}),
     Request("codes", "", "", FALSE, {})}

=============================================================================
