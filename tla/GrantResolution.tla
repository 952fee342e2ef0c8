---------------------------- MODULE GrantResolution ----------------------------
(***************************************************************************)
(* From rows to a decision: CheckWithAttributes and CheckPermissionCodes   *)
(* of internal/authorization/service.go over the two joins of              *)
(* repository.go.  The queries have no ORDER BY, so the rows are           *)
(* considered in any order; the policy does not move under the loop (that  *)
(* race is DecisionCache's subject).  A caller that was told which codes   *)
(* it holds goes on to a check (the interface shows a button, then the     *)
(* domain service asks).                                                   *)
(*                                                                         *)
(* A condition is what the loop can tell of it: "none" for an empty one,   *)
(* "attr" for one that holds when the caller's attributes satisfy it, and  *)
(* "broken" for one that does not compile, fails or is not boolean.        *)
(***************************************************************************)
EXTENDS Naturals, FiniteSets

CONSTANTS
    Permissions, Roles, Units, NoUnit,
    Policies,       \* contents of the five tables
    Requests        \* calls of the two checks

Scopes == {"none", "self", "organization", "tenant", "all"}

ASSUME GrantAssumption ==
    /\ NoUnit \notin Units
    /\ \A p \in Policies :
         /\ \A b \in p.bindings : b.role \in Roles /\ b.unit \in Units \cup {NoUnit}
         /\ \A r \in Roles : p.role[r].scope \in Scopes
    /\ \A q \in Requests : q.kind \in {"check", "codes"}

\* A binding names a role of its tenant and a role holds permissions of its
\* tenant: what CreateBinding and GrantRolePermission write, PolicyStore's
\* NoDanglingReference.  UNIQUE (tenant_id, code): a code names one permission
\* of a tenant.
ASSUME StoreAssumption ==
    \A p \in Policies :
      /\ \A b \in p.bindings : p.role[b.role].tenant = b.tenant
      /\ \A l \in p.links : p.role[l[1]].tenant = p.perm[l[2]].tenant
      /\ \A x, y \in Permissions :
           p.perm[x].tenant = p.perm[y].tenant /\ p.perm[x].code = p.perm[y].code => x = y

VARIABLES
    policy,             \* the tables, fixed
    request,            \* the call
    pc, rows,           \* where the call is; what the query returned
    todo,               \* rows the loop has not seen
    decision,           \* Decision, or PermissionCodeDecision
    shown               \* the codes the caller was told it holds before

vars == <<policy, request, pc, rows, todo, decision, shown>>

-----------------------------------------------------------------------------
scopeRank(scope) ==
    CASE scope = "self" -> 1 [] scope = "organization" -> 2
      [] scope = "tenant" -> 3 [] scope = "all" -> 4 [] OTHER -> 0

\* The units are a set: each is listed once.
appendUnique(units, unit) == units \cup {unit}

\* The subject's own binding, or one of a group the membership is active in.
Held(p, q, b) ==
    \/ b.subject = q.subject /\ b.type = q.type
    \/ /\ q.type = "membership" /\ b.type = "group"
       /\ <<b.tenant, q.subject, b.subject>> \in p.groups

\* The part both queries share.
Granted(p, q, b, x) ==
    /\ b.tenant = q.tenant
    /\ Held(p, q, b)
    /\ <<b.role, x>> \in p.links
    /\ b.active /\ p.role[b.role].active /\ p.perm[x].active

Resolve(p, q) ==
    {bx \in p.bindings \X Permissions :
       /\ Granted(p, q, bx[1], bx[2])
       /\ p.perm[bx[2]].resource \in {q.resource, "*"}
       /\ p.perm[bx[2]].action \in {q.action, "*"}}

ResolvePermissionCodes(p, q) ==
    {bx \in p.bindings \X Permissions :
       /\ Granted(p, q, bx[1], bx[2])
       /\ \/ p.perm[bx[2]].code \in q.codes
          \/ p.perm[bx[2]].resource = "*" /\ p.perm[bx[2]].action = "*"}

Cond(g) == policy.perm[g[2]].cond
Scope(g) == policy.role[g[1].role].scope

\* The result of a condition that can be evaluated.
matchesCondition(g) == Cond(g) = "none" \/ (Cond(g) = "attr" /\ request.attrs)

-----------------------------------------------------------------------------
Undecided == [allowed |-> FALSE, scope |-> "none", units |-> {},
              codes |-> {}, all |-> FALSE]

Init ==
    /\ policy \in Policies /\ request \in Requests
    /\ pc = "resolve" /\ rows = {} /\ todo = {}
    /\ decision = Undecided /\ shown = {}

\* Nothing that has to be there is empty, the type of the subject is known,
\* and a code is left once blank ones and repetitions are dropped.
Valid(q) ==
    /\ q.tenant # "" /\ q.subject # "" /\ q.type \in {"membership", "group", "user", "service_account"}
    /\ IF q.kind = "codes" THEN q.codes # {} ELSE q.resource # "" /\ q.action # ""

Refuse ==
    /\ pc = "resolve" /\ ~Valid(request)
    /\ pc' = "refused"
    /\ UNCHANGED <<policy, request, rows, todo, decision, shown>>

Query ==
    /\ pc = "resolve" /\ Valid(request)
    /\ rows' = IF request.kind = "check" THEN Resolve(policy, request)
               ELSE ResolvePermissionCodes(policy, request)
    /\ todo' = rows'
    /\ pc' = "loop"
    /\ UNCHANGED <<policy, request, decision, shown>>

\* A condition that cannot be evaluated fails the whole check.
ConditionFails(g) ==
    /\ pc = "loop" /\ request.kind = "check" /\ g \in todo
    /\ Cond(g) = "broken"
    /\ pc' = "failed" /\ decision' = Undecided
    /\ UNCHANGED <<policy, request, rows, todo, shown>>

\* Seeded fault: the loop ends at the first grant that matches.
CheckWithAttributesFirst(g) ==
    /\ pc = "loop" /\ request.kind = "check" /\ g \in todo
    /\ Cond(g) # "broken"
    /\ todo' = IF matchesCondition(g) THEN {} ELSE todo \ {g}
    /\ decision' = IF ~matchesCondition(g) THEN decision
                   ELSE [decision EXCEPT !.allowed = TRUE, !.scope = Scope(g)]
    /\ UNCHANGED <<policy, request, pc, rows, shown>>

\* One turn of the loop of CheckWithAttributes.
CheckWithAttributes(g) ==
    /\ pc = "loop" /\ request.kind = "check" /\ g \in todo
    /\ Cond(g) # "broken"
    /\ todo' = todo \ {g}
    /\ decision' =
         IF ~matchesCondition(g) THEN decision
         ELSE [decision EXCEPT
                 !.allowed = TRUE,
                 !.scope = IF scopeRank(Scope(g)) > scopeRank(@) THEN Scope(g) ELSE @,
                 !.units = IF Scope(g) = "organization" /\ g[1].unit # NoUnit
                           THEN appendUnique(@, g[1].unit) ELSE @]
    /\ UNCHANGED <<policy, request, pc, rows, shown>>

\* Seeded fault: conditional grants are counted as if their facts were known.
CheckPermissionCodesBlindly(g) ==
    /\ pc = "loop" /\ request.kind = "codes" /\ g \in todo
    /\ todo' = todo \ {g}
    /\ decision' =
         [decision EXCEPT
            !.codes = @ \cup {policy.perm[g[2]].code},
            !.all = @ \/ (policy.perm[g[2]].resource = "*" /\ policy.perm[g[2]].action = "*")]
    /\ UNCHANGED <<policy, request, pc, rows, shown>>

\* One turn of the loop of CheckPermissionCodes: a conditional grant cannot
\* be proven without a resource and stays hidden.
CheckPermissionCodes(g) ==
    /\ pc = "loop" /\ request.kind = "codes" /\ g \in todo
    /\ todo' = todo \ {g}
    /\ decision' =
         IF Cond(g) # "none" THEN decision
         ELSE [decision EXCEPT
                 !.codes = @ \cup {policy.perm[g[2]].code},
                 !.all = @ \/ (policy.perm[g[2]].resource = "*" /\ policy.perm[g[2]].action = "*")]
    /\ UNCHANGED <<policy, request, pc, rows, shown>>

\* The requested codes, each once, that are allowed or covered by a wildcard.
Answer ==
    /\ pc = "loop" /\ todo = {}
    /\ pc' = "answered"
    /\ decision' = IF request.kind = "check" THEN decision
                   ELSE [decision EXCEPT !.codes =
                           {c \in request.codes : c \in @ \/ decision.all}]
    /\ UNCHANGED <<policy, request, rows, todo, shown>>

\* The caller that was shown its codes asks for a decision.
GoOn(q) ==
    /\ pc = "answered" /\ request.kind = "codes"
    /\ q.kind = "check"
    /\ <<q.tenant, q.subject, q.type>> = <<request.tenant, request.subject, request.type>>
    /\ request' = q /\ shown' = decision.codes
    /\ pc' = "resolve" /\ rows' = {} /\ todo' = {} /\ decision' = Undecided
    /\ UNCHANGED policy

Next ==
    \/ Refuse \/ Query \/ Answer
    \/ \E q \in Requests : GoOn(q)
    \/ \E g \in todo : ConditionFails(g) \/ CheckWithAttributes(g) \/ CheckPermissionCodes(g)

Spec == Init /\ [][Next]_vars

-----------------------------------------------------------------------------
\* Every variable keeps to its type.
TypeOK ==
    /\ pc \in {"resolve", "loop", "answered", "failed", "refused"}
    /\ rows \subseteq policy.bindings \X Permissions /\ todo \subseteq rows
    /\ decision.allowed \in BOOLEAN /\ decision.scope \in Scopes
    /\ decision.units \subseteq Units /\ decision.all \in BOOLEAN

\* The decision that the rows G call for, without an order: allowed if some
\* grant matches, the widest scope of those that match, and the units of
\* those that are scoped to an organization.
DecisionOf(G) ==
    LET M == {g \in G : matchesCondition(g)}
    IN  /\ decision.allowed <=> M # {}
        /\ \A g \in M : scopeRank(Scope(g)) <= scopeRank(decision.scope)
        /\ decision.scope # "none" => \E g \in M : Scope(g) = decision.scope
        /\ decision.units = {g[1].unit : g \in {h \in M : Scope(h) = "organization" /\ h[1].unit # NoUnit}}

\* Whatever order the database returns the rows in, a check is answered with
\* the decision its rows call for, and it is answered exactly when no row it
\* returned has a broken condition: a grant that matches early never hides
\* one that cannot be evaluated (CheckWithAttributes has no early exit).
OrderDoesNotMatter ==
    request.kind = "check" =>
      /\ pc = "answered" => DecisionOf(rows) /\ \A g \in rows : Cond(g) # "broken"
      /\ pc = "failed" => ~decision.allowed /\ \E g \in rows : Cond(g) = "broken"

\* What a caller is shown it may do, it is not denied: a check of a resource
\* and an action that a permission of the tenant covers, whose code
\* CheckPermissionCodes listed, is allowed whatever the attributes, by another
\* query and another loop; or it has no answer at all, because the condition
\* of some grant it found cannot be evaluated.
ShownIsAllowed ==
    \A x \in Permissions :
      /\ request.kind = "check" /\ pc \in {"answered", "failed"}
      /\ policy.perm[x].tenant = request.tenant /\ policy.perm[x].code \in shown
      /\ policy.perm[x].resource \in {request.resource, "*"}
      /\ policy.perm[x].action \in {request.action, "*"}
      => \/ pc = "answered" /\ decision.allowed
         \/ pc = "failed" /\ \E g \in rows : Cond(g) = "broken"

=============================================================================
