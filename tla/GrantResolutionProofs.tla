------------------------- MODULE GrantResolutionProofs -------------------------
(***************************************************************************)
(* The loops over the grants, for every policy the store's references      *)
(* allow and every order of the rows.                                      *)
(*                                                                         *)
(* OrderDoesNotMatter speaks of the answer; its strengthening is the       *)
(* loop's invariant, that the decision so far is the one the rows seen so  *)
(* far (rows \ todo) call for.                                             *)
(***************************************************************************)
EXTENDS GrantResolution, TLAPS

Seen == rows \ todo

Shape ==
    decision = [allowed |-> decision.allowed, scope |-> decision.scope,
                units |-> decision.units, codes |-> decision.codes, all |-> decision.all]

RowsInv ==
    /\ policy \in Policies /\ request \in Requests
    /\ rows \subseteq policy.bindings \X Permissions
    /\ \A g \in rows : Granted(policy, request, g[1], g[2])
    /\ request.kind = "check" /\ pc \in {"loop", "answered", "failed"} =>
         rows = Resolve(policy, request)

LoopInv ==
    /\ pc = "resolve" => rows = {} /\ todo = {} /\ decision = Undecided
    /\ pc = "answered" => todo = {}
    /\ request.kind = "check" =>
         /\ pc \in {"loop", "answered"} => DecisionOf(Seen) /\ \A g \in Seen : Cond(g) # "broken"
         /\ pc = "failed" => ~decision.allowed /\ \E g \in rows : Cond(g) = "broken"

Inv == TypeOK /\ Shape /\ RowsInv /\ LoopInv

\* The loops of a call change neither the tables nor the request, so what
\* was said of a row stays said.
LEMMA RowsKept ==
    ASSUME RowsInv, UNCHANGED <<policy, request, rows>>,
           pc' \in {"loop", "answered", "failed"} => pc \in {"loop", "answered", "failed"}
    PROVE  RowsInv'
BY DEF RowsInv, Granted, Held, Resolve

\* What a row's role and unit can be.
LEMMA RowTypes ==
    ASSUME RowsInv, NEW g \in rows
    PROVE  /\ Scope(g) \in Scopes
           /\ g[1].unit \in Units \cup {NoUnit}
BY GrantAssumption DEF RowsInv, Scope

\* An undecided call has the decision that no rows call for.
LEMMA NoRowsUndecided ==
    ASSUME decision = Undecided
    PROVE  DecisionOf({})
BY DEF DecisionOf, Undecided

LEMMA InitInv == Init => Inv
BY DEF Init, Inv, TypeOK, Shape, RowsInv, LoopInv, Undecided, Scopes

LEMMA QueryInv ==
    ASSUME Inv, Query
    PROVE  Inv'
<1>1. /\ rows' \subseteq policy.bindings \X Permissions
      /\ \A g \in rows' : Granted(policy, request, g[1], g[2])
  BY DEF Query, Resolve, ResolvePermissionCodes
<1>2. RowsInv'
  BY <1>1 DEF Query, Inv, RowsInv, Granted, Held, Resolve
<1>3. TypeOK' /\ Shape'
  BY <1>1 DEF Query, Inv, TypeOK, Shape
<1>4. LoopInv'
  <2>1. decision' = Undecided /\ Seen' = {}
    BY DEF Query, Inv, LoopInv, Seen
  <2>2. DecisionOf({})'
    BY <2>1 DEF DecisionOf, Undecided
  <2> QED
    BY <2>1, <2>2 DEF Query, LoopInv
<1> QED
  BY <1>2, <1>3, <1>4 DEF Inv

\* One turn of the loop takes the decision of the rows seen to the decision
\* of those rows and one more.
LEMMA TurnDecides ==
    ASSUME Inv, NEW g \in todo, CheckWithAttributes(g)
    PROVE  DecisionOf(Seen)' /\ (\A h \in Seen : Cond(h) # "broken")'
<1>1. g \in rows /\ Seen' = Seen \cup {g}
  BY DEF CheckWithAttributes, Inv, TypeOK, Seen
<1>2. /\ \A h : Cond(h)' = Cond(h)
      /\ \A h : Scope(h)' = Scope(h)
      /\ \A h : matchesCondition(h)' = matchesCondition(h)
  BY DEF CheckWithAttributes, Cond, Scope, matchesCondition
<1>3. DecisionOf(Seen) /\ \A h \in Seen : Cond(h) # "broken"
  BY DEF CheckWithAttributes, Inv, LoopInv
<1>4. (\A h \in Seen : Cond(h) # "broken")'
  BY <1>1, <1>2, <1>3 DEF CheckWithAttributes
<1>5. CASE ~matchesCondition(g)
  <2>1. {h \in Seen' : matchesCondition(h)} = {h \in Seen : matchesCondition(h)}
    BY <1>1, <1>5
  <2>2. decision' = decision
    BY <1>5 DEF CheckWithAttributes
  <2> QED
    BY <1>2, <1>3, <1>4, <2>1, <2>2 DEF DecisionOf
<1>6. CASE matchesCondition(g)
  <2> DEFINE M == {h \in Seen : matchesCondition(h)}
             N == {h \in Seen' : matchesCondition(h)}
             Widened == IF scopeRank(Scope(g)) > scopeRank(decision.scope)
                        THEN Scope(g) ELSE decision.scope
             Grown == IF Scope(g) = "organization" /\ g[1].unit # NoUnit
                      THEN decision.units \cup {g[1].unit} ELSE decision.units
  <2>1. N = M \cup {g}
    BY <1>1, <1>6
  <2>2. /\ decision'.allowed = TRUE
        /\ decision'.scope = Widened
        /\ decision'.units = Grown
    BY <1>6 DEF CheckWithAttributes, Inv, Shape, appendUnique
  <2>3. /\ decision.allowed <=> M # {}
        /\ \A h \in M : scopeRank(Scope(h)) <= scopeRank(decision.scope)
        /\ decision.scope # "none" => \E h \in M : Scope(h) = decision.scope
        /\ decision.units = {h[1].unit : h \in {k \in M : Scope(k) = "organization" /\ k[1].unit # NoUnit}}
    BY <1>3 DEF DecisionOf
  <2> HIDE DEF M, N
  <2>4. \A s : scopeRank(s) \in Nat
    BY DEF scopeRank
  <2>5. \A h \in N : scopeRank(Scope(h)) <= scopeRank(Widened)
    <3> SUFFICES ASSUME NEW h \in N
                 PROVE  scopeRank(Scope(h)) <= scopeRank(Widened)
      OBVIOUS
    <3>1. scopeRank(decision.scope) <= scopeRank(Widened) /\ scopeRank(Scope(g)) <= scopeRank(Widened)
      BY <2>4
    <3> QED
      BY <2>1, <2>3, <2>4, <3>1
  <2>6. Widened # "none" => \E h \in N : Scope(h) = Widened
    BY <2>1, <2>3
  <2>7. Grown = {h[1].unit : h \in {k \in N : Scope(k) = "organization" /\ k[1].unit # NoUnit}}
    BY <2>1, <2>3
  <2>8. N # {}
    BY <2>1
  <2>9. DecisionOf(Seen)'
    BY <1>2, <2>2, <2>5, <2>6, <2>7, <2>8 DEF DecisionOf, N
  <2> QED
    BY <1>4, <2>9
<1> QED
  BY <1>5, <1>6

LEMMA CheckInv ==
    ASSUME Inv, NEW g \in todo, CheckWithAttributes(g)
    PROVE  Inv'
<1>1. RowsInv'
  BY RowsKept DEF CheckWithAttributes, Inv
<1>2. g \in rows
  BY DEF Inv, TypeOK
<1>3. Scope(g) \in Scopes /\ g[1].unit \in Units \cup {NoUnit}
  BY <1>2, RowTypes DEF Inv
<1>4. TypeOK' /\ Shape'
  BY <1>3 DEF CheckWithAttributes, Inv, TypeOK, Shape, appendUnique
<1>5. LoopInv'
  BY TurnDecides DEF CheckWithAttributes, LoopInv, Inv
<1> QED
  BY <1>1, <1>4, <1>5 DEF Inv

LEMMA CodesInv ==
    ASSUME Inv, NEW g \in todo, CheckPermissionCodes(g)
    PROVE  Inv'
<1>1. RowsInv'
  BY RowsKept DEF CheckPermissionCodes, Inv
<1>2. TypeOK' /\ Shape'
  BY DEF CheckPermissionCodes, Inv, TypeOK, Shape
<1>3. LoopInv'
  BY DEF CheckPermissionCodes, LoopInv, Inv
<1> QED
  BY <1>1, <1>2, <1>3 DEF Inv

LEMMA FailsInv ==
    ASSUME Inv, NEW g \in todo, ConditionFails(g)
    PROVE  Inv'
<1>1. RowsInv'
  BY RowsKept DEF ConditionFails, Inv
<1>2. TypeOK' /\ Shape'
  BY DEF ConditionFails, Inv, TypeOK, Shape, Undecided, Scopes
<1>3. g \in rows
  BY DEF Inv, TypeOK
<1>4. LoopInv'
  BY <1>3 DEF ConditionFails, LoopInv, Inv, Undecided, Cond
<1> QED
  BY <1>1, <1>2, <1>4 DEF Inv

LEMMA AnswerInv ==
    ASSUME Inv, Answer
    PROVE  Inv'
<1>1. RowsInv'
  BY RowsKept DEF Answer, Inv
<1>2. TypeOK' /\ Shape'
  BY DEF Answer, Inv, TypeOK, Shape
<1>3. LoopInv'
  <2>1. CASE request.kind = "check"
    <3>1. decision' = decision /\ Seen' = Seen
      BY <2>1 DEF Answer, Seen
    <3>2. (\A h : Cond(h)' = Cond(h)) /\ (\A h : Scope(h)' = Scope(h))
          /\ (\A h : matchesCondition(h)' = matchesCondition(h))
      BY DEF Answer, Cond, Scope, matchesCondition
    <3>3. DecisionOf(Seen) /\ \A g \in Seen : Cond(g) # "broken"
      BY <2>1 DEF Answer, Inv, LoopInv
    <3>4. DecisionOf(Seen)'
      BY <3>1, <3>2, <3>3 DEF DecisionOf
    <3> QED
      BY <3>1, <3>2, <3>3, <3>4 DEF Answer, LoopInv
  <2>2. CASE request.kind # "check"
    BY <2>2 DEF Answer, LoopInv
  <2> QED
    BY <2>1, <2>2
<1> QED
  BY <1>1, <1>2, <1>3 DEF Inv

\* A step that leaves the tables, the call, the rows and the decision alone.
LEMMA RefuseInv ==
    ASSUME Inv, Refuse
    PROVE  Inv'
<1>1. RowsInv'
  BY RowsKept DEF Refuse, Inv
<1>2. TypeOK' /\ Shape'
  BY DEF Refuse, Inv, TypeOK, Shape
<1>3. LoopInv'
  BY DEF Refuse, LoopInv
<1> QED
  BY <1>1, <1>2, <1>3 DEF Inv

LEMMA StutterInv ==
    ASSUME Inv, UNCHANGED vars
    PROVE  Inv'
BY DEF vars, Inv, TypeOK, Shape, RowsInv, LoopInv, Seen, DecisionOf, Cond, Scope,
       matchesCondition, Granted, Held, Resolve

\* The next call of the same caller starts like the first.
LEMMA GoOnInv ==
    ASSUME Inv, NEW q \in Requests, GoOn(q)
    PROVE  Inv'
BY DEF GoOn, Inv, TypeOK, Shape, RowsInv, LoopInv, Undecided, Scopes

LEMMA StepInv == Inv /\ [Next]_vars => Inv'
BY QueryInv, CheckInv, CodesInv, FailsInv, AnswerInv, RefuseInv, GoOnInv, StutterInv DEF Next

\* The variables keep to their types.
THEOREM TypeCorrect == Spec => []TypeOK
<1>1. Inv => TypeOK
  BY DEF Inv
<1> QED
  BY <1>1, InitInv, StepInv, PTL DEF Spec

\* CheckWithAttributes decides the same whatever order the rows come in.
THEOREM Deterministic == Spec => []OrderDoesNotMatter
<1>1. Inv => OrderDoesNotMatter
  <2> SUFFICES ASSUME Inv, request.kind = "check"
               PROVE  /\ pc = "answered" => DecisionOf(rows) /\ \A g \in rows : Cond(g) # "broken"
                      /\ pc = "failed" => ~decision.allowed /\ \E g \in rows : Cond(g) = "broken"
    BY DEF OrderDoesNotMatter
  <2>1. pc = "answered" => Seen = rows
    BY DEF Inv, LoopInv, Seen
  <2> QED
    BY <2>1 DEF Inv, LoopInv
<1> QED
  BY <1>1, InitInv, StepInv, PTL DEF Spec

-----------------------------------------------------------------------------
(* CheckPermissionCodes.  Every code collected so far, and the wildcard,    *)
(* has an unconditional row behind it; the answer adds only the codes the   *)
(* wildcard stands for.                                                     *)

Wildcard(g) == policy.perm[g[2]].resource = "*" /\ policy.perm[g[2]].action = "*"
Backed(c, G) == \E g \in G : Cond(g) = "none" /\ policy.perm[g[2]].code = c
Covered(G) == \E g \in G : Cond(g) = "none" /\ Wildcard(g)

CodeInv ==
    request.kind = "codes" =>
      /\ pc = "resolve" => decision.codes = {} /\ ~decision.all
      /\ pc = "loop" => /\ \A c \in decision.codes : Backed(c, rows)
                        /\ decision.all => Covered(rows)
      /\ pc = "answered" => \A c \in decision.codes : Backed(c, rows) \/ Covered(rows)

LEMMA InitCodes == Init => CodeInv
BY DEF Init, CodeInv, Undecided

\* A turn of the loop adds a code, or the wildcard, of the row it looks at.
LEMMA TurnBacked ==
    ASSUME Inv, CodeInv, NEW g \in todo, CheckPermissionCodes(g)
    PROVE  CodeInv'
<1>1. g \in rows
  BY DEF Inv, TypeOK
<1>2. /\ \A c \in decision.codes : Backed(c, rows)
      /\ decision.all => Covered(rows)
  BY DEF CodeInv, CheckPermissionCodes
<1>3. UNCHANGED <<policy, request, pc, rows>> /\ pc = "loop"
  BY DEF CheckPermissionCodes
<1>4. \A c : Backed(c, rows)' <=> Backed(c, rows)
  BY <1>3 DEF Backed, Cond
<1>5. Covered(rows)' <=> Covered(rows)
  BY <1>3 DEF Covered, Cond, Wildcard
<1>6. CASE Cond(g) # "none"
  <2>1. decision' = decision
    BY <1>6 DEF CheckPermissionCodes
  <2> QED
    BY <1>2, <1>3, <1>4, <1>5, <2>1 DEF CodeInv
<1>7. CASE Cond(g) = "none"
  <2>1. /\ decision'.codes = decision.codes \cup {policy.perm[g[2]].code}
        /\ decision'.all = (decision.all \/ Wildcard(g))
    BY <1>7 DEF CheckPermissionCodes, Inv, Shape, Wildcard
  <2>2. \A c \in decision'.codes : Backed(c, rows)
    BY <1>1, <1>2, <1>7, <2>1 DEF Backed
  <2>3. decision'.all => Covered(rows)
    BY <1>1, <1>2, <1>7, <2>1 DEF Covered
  <2> QED
    BY <1>3, <1>4, <1>5, <2>2, <2>3 DEF CodeInv
<1> QED
  BY <1>6, <1>7

LEMMA AnswerBacked ==
    ASSUME Inv, CodeInv, Answer
    PROVE  CodeInv'
<1> SUFFICES ASSUME request.kind = "codes"
             PROVE  \A c \in decision'.codes : Backed(c, rows)' \/ Covered(rows)'
  BY DEF CodeInv, Answer
<1>1. UNCHANGED <<policy, rows>> /\ pc = "loop"
  BY DEF Answer
<1>2. decision'.codes = {c \in request.codes : c \in decision.codes \/ decision.all}
  BY DEF Answer, Inv, Shape
<1>3. \A c \in decision'.codes : Backed(c, rows) \/ Covered(rows)
  BY <1>1, <1>2 DEF CodeInv
<1> QED
  BY <1>1, <1>3 DEF Backed, Covered, Cond, Wildcard

LEMMA StepCodes == Inv /\ CodeInv /\ [Next]_vars => CodeInv'
<1> SUFFICES ASSUME Inv, CodeInv, [Next]_vars
             PROVE  CodeInv'
  OBVIOUS
<1>1. CASE UNCHANGED vars
  BY <1>1 DEF vars, CodeInv, Backed, Covered, Cond, Wildcard
<1>2. CASE Refuse
  BY <1>2 DEF Refuse, CodeInv
<1>3. CASE Query
  BY <1>3 DEF Query, CodeInv, Inv, LoopInv, Undecided
<1>4. ASSUME NEW g \in todo, ConditionFails(g) \/ CheckWithAttributes(g)
      PROVE  CodeInv'
  BY <1>4 DEF ConditionFails, CheckWithAttributes, CodeInv
<1>5. ASSUME NEW q \in Requests, GoOn(q)
      PROVE  CodeInv'
  BY <1>5 DEF GoOn, CodeInv
<1> QED
  BY <1>1, <1>2, <1>3, <1>4, <1>5, TurnBacked, AnswerBacked DEF Next

\* A permission of the tenant that covers the check and whose code was shown.
Promised(x, q) ==
    /\ policy.perm[x].tenant = q.tenant /\ policy.perm[x].code \in shown
    /\ policy.perm[x].resource \in {q.resource, "*"}
    /\ policy.perm[x].action \in {q.action, "*"}

\* What was shown is among the rows the check will find, without a condition.
ShownInv ==
    request.kind = "check" =>
      \A x \in Permissions : Promised(x, request) =>
        \E g \in Resolve(policy, request) : Cond(g) = "none"

\* The two queries and the store's references: the row behind a shown code,
\* or the wildcard, matches the check as well.
LEMMA ShownIsFound ==
    ASSUME Inv, CodeInv, pc = "answered", request.kind = "codes",
           NEW x \in Permissions, NEW q \in Requests,
           policy.perm[x].tenant = request.tenant,
           policy.perm[x].code \in decision.codes,
           q.tenant = request.tenant, q.subject = request.subject, q.type = request.type,
           policy.perm[x].resource \in {q.resource, "*"},
           policy.perm[x].action \in {q.action, "*"}
    PROVE  \E g \in Resolve(policy, q) : Cond(g) = "none"
<1>1. \A g \in rows : /\ g \in policy.bindings \X Permissions
                      /\ Granted(policy, q, g[1], g[2])
  BY DEF Inv, RowsInv, Granted, Held
<1>2. PICK g \in rows : Cond(g) = "none" /\ (policy.perm[g[2]].code = policy.perm[x].code \/ Wildcard(g))
  BY DEF CodeInv, Backed, Covered
<1>3. CASE Wildcard(g)
  BY <1>1, <1>2, <1>3 DEF Resolve, Wildcard
<1>4. CASE policy.perm[g[2]].code = policy.perm[x].code
  <2>1. /\ policy \in Policies
        /\ g[1] \in policy.bindings /\ g[2] \in Permissions
        /\ g[1].tenant = request.tenant /\ <<g[1].role, g[2]>> \in policy.links
    BY DEF Inv, RowsInv, Granted
  <2>2. policy.role[g[1].role].tenant = g[1].tenant
    BY <2>1, StoreAssumption
  <2>3. policy.role[g[1].role].tenant = policy.perm[g[2]].tenant
    BY <2>1, StoreAssumption
  <2>4. g[2] = x
    BY <1>4, <2>1, <2>2, <2>3, StoreAssumption
  <2> QED
    BY <1>1, <1>2, <2>4 DEF Resolve
<1> QED
  BY <1>2, <1>3, <1>4

LEMMA StepShown == Inv /\ CodeInv /\ ShownInv /\ [Next]_vars => ShownInv'
<1> SUFFICES ASSUME Inv, CodeInv, ShownInv, [Next]_vars
             PROVE  ShownInv'
  OBVIOUS
<1>1. ASSUME UNCHANGED <<policy, request, shown>>
      PROVE  ShownInv'
  BY <1>1 DEF ShownInv, Promised, Resolve, Granted, Held, Cond
<1>2. ASSUME NEW q \in Requests, GoOn(q)
      PROVE  ShownInv'
  <2> SUFFICES ASSUME NEW x \in Permissions, Promised(x, request)'
               PROVE  (\E g \in Resolve(policy, request) : Cond(g) = "none")'
    BY DEF ShownInv
  <2>1. /\ pc = "answered" /\ request.kind = "codes"
        /\ q.tenant = request.tenant /\ q.subject = request.subject /\ q.type = request.type
        /\ shown' = decision.codes /\ policy' = policy /\ request' = q
    BY <1>2 DEF GoOn
  <2>2. /\ policy.perm[x].tenant = request.tenant /\ policy.perm[x].code \in decision.codes
        /\ policy.perm[x].resource \in {q.resource, "*"}
        /\ policy.perm[x].action \in {q.action, "*"}
    BY <2>1 DEF Promised
  <2>3. \E g \in Resolve(policy, q) : Cond(g) = "none"
    BY <2>1, <2>2, ShownIsFound
  <2> QED
    BY <2>1, <2>3 DEF Resolve, Granted, Held, Cond
<1> QED
  BY <1>1, <1>2 DEF Next, vars, Refuse, Query, Answer, ConditionFails, CheckWithAttributes,
     CheckPermissionCodes

\* CheckPermissionCodes and CheckWithAttributes agree: a check that a shown
\* code's permission covers is never denied, for every policy the store's
\* references allow; it is allowed, or fails over a condition that cannot be
\* evaluated.
THEOREM ShownCodesAllowed == Spec => []ShownIsAllowed
<1>1. Inv /\ ShownInv => ShownIsAllowed
  <2> SUFFICES ASSUME Inv, ShownInv, NEW x \in Permissions, request.kind = "check",
                      pc \in {"answered", "failed"}, Promised(x, request)
               PROVE  \/ pc = "answered" /\ decision.allowed
                      \/ pc = "failed" /\ \E g \in rows : Cond(g) = "broken"
    BY DEF ShownIsAllowed, Promised
  <2>1. PICK g \in rows : Cond(g) = "none"
    BY DEF ShownInv, Inv, RowsInv
  <2>2. CASE pc = "answered"
    <3>1. Seen = rows /\ DecisionOf(Seen)
      BY <2>2 DEF Inv, LoopInv, Seen
    <3>2. matchesCondition(g)
      BY <2>1 DEF matchesCondition
    <3> QED
      BY <2>1, <2>2, <3>1, <3>2 DEF DecisionOf
  <2>3. CASE pc = "failed"
    BY <2>3 DEF Inv, LoopInv
  <2> QED
    BY <2>2, <2>3
<1>2. Init => ShownInv
  BY DEF Init, ShownInv, Promised
<1> QED
  BY <1>1, <1>2, InitInv, StepInv, InitCodes, StepCodes, StepShown, PTL DEF Spec

=============================================================================
