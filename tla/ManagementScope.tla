--------------------------- MODULE ManagementScope ---------------------------
(***************************************************************************)
(* In which tenant a management request may act: the route check of        *)
(* internal/authorization/enforcer.go, the handlers of                     *)
(* internal/transport/http/authorization_handler.go, and                   *)
(* AuthorizeUserManagementScope and enforceInteractiveTenant of            *)
(* internal/authorization/service.go.                                      *)
(*                                                                         *)
(* A plain route asks, before its handler, for a permission in the scope   *)
(* of the caller (migration 000008, scope 'principal'); its handler acts   *)
(* in the tenant the request names.  A "my" route only asks for an         *)
(* authenticated caller; its handler resolves the tenant from the caller   *)
(* and the requested scope and asks for the permission there.  In the end  *)
(* the service compares the tenant it is to act in with the caller.        *)
(*                                                                         *)
(* Whether the permission is there is the business of PolicyStore and      *)
(* DecisionCache: here a check answers yes or no.                          *)
(***************************************************************************)
CONSTANTS
    Tenants,        \* tenant identifiers, Platform among them
    Platform,       \* __platform__
    None,           \* the empty string, an absent value
    Principals,     \* authenticated callers
    TypeOf,         \* user, service_account, system
    TenantOf,       \* TenantID of a caller, or None
    HasMembership   \* MembershipID of a caller is not empty

PrincipalType == {"user", "service_account", "system"}

ASSUME ScopeAssumption ==
    /\ Platform \in Tenants
    /\ None \notin Tenants
    /\ TypeOf \in [Principals -> PrincipalType]
    /\ TenantOf \in [Principals -> Tenants \cup {None}]
    /\ HasMembership \in [Principals -> BOOLEAN]

VARIABLE req        \* the request being served

-----------------------------------------------------------------------------
(* The routes.  A "my" handler hands to the service either the tenant it   *)
(* resolved or the one the request named.                                  *)

Plain(name) == [name |-> name, check |-> "route", passes |-> "named"]
Scoped(name, passes) == [name |-> name, check |-> "scope", passes |-> passes]
Preview(name, check) == [name |-> name, check |-> check, passes |-> "resolved"]

PermissionRoutes ==
    {Plain("CreatePermission"), Plain("GetPermission"), Plain("UpdatePermission"),
     Plain("ListPermissions")}

MyPermissionRoutes ==
    {Scoped("CreateMyPermission", "resolved"), Scoped("GetMyPermission", "named"),
     Scoped("UpdateMyPermission", "named"), Scoped("ListMyPermissions", "resolved")}

RoleRoutes ==
    {Plain("CreateRole"), Plain("GetRole"), Plain("UpdateRole"), Plain("ListRoles")}

MyRoleRoutes ==
    {Scoped("CreateMyRole", "resolved"), Scoped("GetMyRole", "named"),
     Scoped("UpdateMyRole", "named"), Scoped("ListMyRoles", "resolved"),
     Scoped("BatchGetMyRoles", "resolved")}

RolePermissionRoutes ==
    {Plain("GrantRolePermission"), Plain("RevokeRolePermission"),
     Plain("ListRolePermissions")}

MyRolePermissionRoutes ==
    {Scoped("GrantMyRolePermission", "resolved"), Scoped("RevokeMyRolePermission", "named"),
     Scoped("ListMyRolePermissions", "named"), Scoped("BatchGetMyRolePermissions", "named")}

BindingRoutes ==
    {Plain("CreateBinding"), Plain("GetBinding"), Plain("RevokeBinding"),
     Plain("ListBindings")}

MyBindingRoutes ==
    {Scoped("CreateMyBinding", "resolved"), Scoped("GetMyBinding", "named"),
     Scoped("RevokeMyBinding", "named"), Scoped("ListMyBindings", "resolved")}

\* These act on no tenant's rows: they answer what a subject may do.
DecisionRoutes ==
    {Preview("ListMyPermissionCatalog", "catalog"), Preview("CheckMyPermissionCodes", "codes"),
     Preview("CheckAuthorization", "decision"), Preview("BatchCheckAuthorization", "decision")}

Routes ==
    UNION {PermissionRoutes, MyPermissionRoutes, RoleRoutes, MyRoleRoutes,
           RolePermissionRoutes, MyRolePermissionRoutes, BindingRoutes, MyBindingRoutes,
           DecisionRoutes}

-----------------------------------------------------------------------------
(* Whose permission is asked, and where.                                   *)

Subject(t, type, p) == [tenant |-> t, type |-> type, principal |-> p]

\* localAuthorizationTarget for scope principal: a set with the subject, or
\* empty for ErrInvalidPrincipal.
LocalAuthorizationTarget(p) ==
    IF TypeOf[p] = "user"
    THEN IF TenantOf[p] = None THEN {Subject(Platform, "user", p)}
         ELSE IF HasMembership[p] THEN {Subject(TenantOf[p], "membership", p)} ELSE {}
    ELSE {Subject(IF TenantOf[p] = None THEN Platform ELSE TenantOf[p], "service_account", p)}

\* AuthorizeUserManagementScope and currentPermissionSubject.  A check in the
\* empty tenant is invalid.
ScopedSubject(p, named, scope) ==
    IF TypeOf[p] # "user" \/ ~HasMembership[p] \/ TenantOf[p] # named THEN {}
    ELSE IF scope = "platform" THEN {Subject(Platform, "user", p)}
    ELSE IF scope = "tenant" /\ named # None THEN {Subject(named, "membership", p)}
    ELSE {}

\* Seeded fault: the subject the request names is taken as it is.
UnboundDecision(p, named, asked) ==
    IF named = None THEN {} ELSE {Subject(named, asked[1], asked[2])}

\* bindDecisionToCaller; what a service asks about is not restricted.
BindDecisionToCaller(p, named, asked) ==
    IF TypeOf[p] # "user"
    THEN IF named = None THEN {} ELSE {Subject(named, asked[1], asked[2])}
    ELSE IF named = Platform /\ asked = <<"user", p>> THEN {Subject(Platform, "user", p)}
    ELSE IF named # TenantOf[p] \/ ~HasMembership[p] \/ named = None THEN {}
    ELSE {Subject(named, "membership", p)}

\* Seeded fault: the tenant that was authorized is not compared.
EnforceUnlessAuthorized(p, authorized, target) ==
    \/ authorized # None
    \/ TypeOf[p] # "user"
    \/ TenantOf[p] = None /\ target = Platform
    \/ TenantOf[p] # None /\ HasMembership[p] /\ target = TenantOf[p]

\* May the service act in target?  authorized is the tenant that
\* AuthorizeUserManagementScope left in the context.
EnforceInteractiveTenant(p, authorized, target) ==
    IF authorized # None THEN target = authorized
    ELSE \/ TypeOf[p] # "user"
         \/ TenantOf[p] = None /\ target = Platform
         \/ TenantOf[p] # None /\ HasMembership[p] /\ target = TenantOf[p]

-----------------------------------------------------------------------------

PC == {"idle", "received", "checked", "answered"}
Answer == {"none", "forbidden", "elsewhere", "done", "failed"}
SubjectType == {"user", "membership", "service_account"}
NoRoute == [name |-> "none", check |-> "none", passes |-> "named"]
NoneAsked == <<"user", None>>
Nobody == [tenant |-> None, type |-> "user", principal |-> None]

Request == [pc : PC, caller : Principals \cup {None}, route : Routes \cup {NoRoute},
            named : Tenants \cup {None}, scope : {"tenant", "platform", "unknown"},
            asked : SubjectType \X (Principals \cup {None}),
            subject : [tenant : Tenants \cup {None}, type : SubjectType,
                       principal : Principals \cup {None}],
            authorized : Tenants \cup {None}, acted : Tenants \cup {None}, answer : Answer]

Idle == [pc |-> "idle", caller |-> None, route |-> NoRoute, named |-> None,
         scope |-> "tenant", asked |-> NoneAsked, subject |-> Nobody,
         authorized |-> None, acted |-> None, answer |-> "none"]

CheckOfRoute == req.route.check

\* The subject of the check that stands before the operation.
CheckSubjects ==
    CASE CheckOfRoute = "route" -> LocalAuthorizationTarget(req.caller)
      [] CheckOfRoute \in {"scope", "catalog", "codes"} ->
            ScopedSubject(req.caller, req.named, req.scope)
      [] CheckOfRoute = "decision" -> BindDecisionToCaller(req.caller, req.named, req.asked)

\* An authenticated request arrives.
Receive(p, route, named, scope, asked) ==
    /\ req.pc = "idle"
    /\ req' = [Idle EXCEPT !.pc = "received", !.caller = p, !.route = route,
                           !.named = named, !.scope = scope, !.asked = asked]

\* The check finds its subject and allows it.  Only the scope check marks the
\* context.
Allow ==
    /\ req.pc = "received"
    /\ \E s \in CheckSubjects :
          req' = [req EXCEPT !.pc = "checked", !.subject = s,
                     !.authorized = IF CheckOfRoute = "scope" THEN s.tenant ELSE None]

\* There is no subject, or the permission is missing, or the check fails.
Deny ==
    /\ req.pc = "received"
    /\ req' = [req EXCEPT !.pc = "answered", !.answer = "forbidden"]

\* The tenant the handler hands to the service.
Target == IF req.route.passes = "named" THEN req.named ELSE req.subject.tenant

\* The service acts in the tenant, or answers that it must not.  The
\* permission catalog and the decisions do not go through the comparison.
Serve ==
    /\ req.pc = "checked"
    /\ IF CheckOfRoute \in {"catalog", "codes", "decision"}
          \/ EnforceInteractiveTenant(req.caller, req.authorized, Target)
       THEN req' = [req EXCEPT !.pc = "answered", !.answer = "done", !.acted = Target]
       ELSE req' = [req EXCEPT !.pc = "answered", !.answer = "elsewhere"]

\* A batch of checks goes on with the next one.
NextCheck(named, asked) ==
    /\ req.pc = "checked"
    /\ req.route.name = "BatchCheckAuthorization"
    /\ req' = [req EXCEPT !.pc = "received", !.named = named, !.asked = asked]

\* Validation, a lookup or the database refuses.
Reject ==
    /\ req.pc = "checked"
    /\ req' = [req EXCEPT !.pc = "answered", !.answer = "failed"]

Return ==
    /\ req.pc = "answered"
    /\ req' = Idle

ScopeInit == req = Idle

ScopeNext ==
    \/ \E p \in Principals, route \in Routes, named \in Tenants \cup {None} :
          \/ route.check = "route" /\ Receive(p, route, named, "tenant", NoneAsked)
          \/ /\ route.check \in {"scope", "catalog", "codes"}
             /\ \E scope \in {"tenant", "platform", "unknown"} :
                   Receive(p, route, named, scope, NoneAsked)
          \/ /\ route.check = "decision"
             /\ \E asked \in SubjectType \X Principals :
                   Receive(p, route, named, "tenant", asked)
    \/ \E named \in Tenants \cup {None}, asked \in SubjectType \X Principals :
          NextCheck(named, asked)
    \/ Allow
    \/ Deny
    \/ Serve
    \/ Reject
    \/ Return

ScopeSpec == ScopeInit /\ [][ScopeNext]_req

-----------------------------------------------------------------------------
(* Properties.                                                             *)

\* The request has its type.
ScopeTypeOK == req \in Request

\* enforceInteractiveTenant: whatever tenant the body names and whatever scope
\* it asks for, a user's operation runs in the very tenant in which the user's
\* permission was checked, and for every operation some permission was checked
\* that belongs to the caller.
ActsWhereChecked ==
    req.answer = "done" /\ CheckOfRoute \notin {"decision"} =>
        /\ req.subject.principal = req.caller
        /\ TypeOf[req.caller] = "user" => req.acted = req.subject.tenant

\* Nobody acts through a user account in a tenant that is not the user's:
\* the tenant of the membership, or the platform.
UsersStayInTheirTenants ==
    req.answer = "done" /\ TypeOf[req.caller] = "user" =>
        \/ req.acted = Platform
        \/ req.acted = TenantOf[req.caller] /\ HasMembership[req.caller]

\* bindDecisionToCaller: no decision about another subject is ever computed for
\* a user, at no position of a batch.
UsersPreviewThemselves ==
    req.pc = "checked" /\ TypeOf[req.caller] = "user" => req.subject.principal = req.caller

\* A user account reaches its own and nothing else: neither a tenant nor a
\* subject that is not the user's.
ScopeInvariant ==
    /\ ScopeTypeOK
    /\ UsersStayInTheirTenants
    /\ UsersPreviewThemselves

=============================================================================
