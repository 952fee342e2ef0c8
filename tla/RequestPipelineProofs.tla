------------------------- MODULE RequestPipelineProofs -------------------------
(***************************************************************************)
(* Proofs about RequestPipeline, for any number of requests and keys and   *)
(* every configuration: authorization comes before execution and replay,   *)
(* a record holds its owner's answer, and a key whose record outlives the  *)
(* handlers has one execution at a time.                                   *)
(*                                                                         *)
(* The inductive invariant ties the place of a request in its chain to     *)
(* what must have happened to it (Fine), a record to the request that owns *)
(* it (Owned), and a running handler to the record it runs under (Held).   *)
(*                                                                         *)
(* The second part is about ManagementScope, the handlers behind the       *)
(* chain: in which tenant they act.                                        *)
(***************************************************************************)
EXTENDS RequestPipeline, ManagementScope, TLAPS

AuthorizeStages == {"authorize", "unary_authorize", "stream_authorize"}

\* The places of the route policy and of the handler in a request's chain.
Gate(r) == IF TransportOf(r) = "http" THEN 7 ELSE 3
Last(r) == IF TransportOf(r) = "http" THEN 10 ELSE IF TransportOf(r) = "unary" THEN 5 ELSE 4

\* Answers that tell of an execution or of the use of a key.
Telling == {"ok", "failed", "conflict", "in_progress"}

\* What is known of request r in state s.
Fine(r, s) ==
    /\ s.pos <= Last(r)
    /\ s.pos > Gate(r) => s.cleared
    /\ s.answer \in Telling => s.cleared
    /\ s.age > 0 => s.pos = Last(r)
    /\ s.persist => s.pos = 0 /\ s.of = r /\ Protected(r)
    /\ s.of # NoRequest /\ s.of # r => KeyOf(s.of) = KeyOf(r) /\ Fingerprint(s.of) = Fingerprint(r)

\* What is known of the record q of key k.
Owned(k, q) ==
    q.state # "none" =>
      /\ q.owner \in Requests
      /\ KeyOf(q.owner) = k
      /\ Fingerprint(q.owner) = q.print
      /\ q.state # "processing" => q.of = q.owner

\* A protected handler at the last stage runs under the record q, which has
\* at least as long to live as the handler still has to run.
Held(r, s, q) ==
    load.timeout < load.processingTTL /\ Protected(r) /\ s.pos = Last(r) =>
      /\ q.state = "processing"
      /\ q.owner = r
      /\ q.ttl + s.age >= load.processingTTL

Place == \A r \in Requests : Fine(r, st[r])
Records == \A k \in Keys : Owned(k, rec[k])
Executions == \A r \in Requests : Held(r, st[r], rec[KeyOf(r)])

Inv == TypeOK /\ Place /\ Records /\ Executions

-----------------------------------------------------------------------------
(* The chains.                                                             *)

LEMMA LoadType ==
    ASSUME TypeOK
    PROVE  /\ load.timeout \in Nat
           /\ load.processingTTL \in Nat \ {0}
           /\ \A r \in Requests : /\ TransportOf(r) \in {"http", "unary", "stream"}
                                  /\ KeyOf(r) \in Keys \cup {NoKey}
                                  /\ Fingerprint(r) \in Prints
                                  /\ Last(r) \in 4..10 /\ Gate(r) \in {3, 7}
                                  /\ Gate(r) < Last(r)
                                  /\ Protected(r) => KeyOf(r) \in Keys
<1>1. load \in [calls : [Requests -> Call], failOpen : BOOLEAN,
                processingTTL : Nat \ {0}, timeout : Nat]
  BY PipelineAssumption DEF TypeOK
<1>2. \A r \in Requests : load.calls[r] \in Call
  BY <1>1
<1> QED
  BY <1>1, <1>2 DEF Call, TransportOf, KeyOf, Fingerprint, Last, Gate, Protected

\* The stages by their places.
LEMMA HTTPStages ==
    ASSUME NEW i \in 1..10
    PROVE  /\ HTTPChain[i] = "handler" <=> i = 10
           /\ HTTPChain[i] = "idempotency" <=> i = 9
           /\ HTTPChain[i] \in AuthorizeStages <=> i = 7
<1>1. i \in {1, 2, 3, 4, 5, 6, 7, 8, 9, 10}
  OBVIOUS
<1> QED
  BY <1>1 DEF HTTPChain, AuthorizeStages

LEMMA UnaryStages ==
    ASSUME NEW i \in 1..5
    PROVE  /\ UnaryChain[i] = "handler" <=> i = 5
           /\ UnaryChain[i] = "idempotency" <=> i = 4
           /\ UnaryChain[i] \in AuthorizeStages <=> i = 3
<1>1. i \in {1, 2, 3, 4, 5}
  OBVIOUS
<1> QED
  BY <1>1 DEF UnaryChain, AuthorizeStages

LEMMA StreamStages ==
    ASSUME NEW i \in 1..4
    PROVE  /\ StreamChain[i] = "handler" <=> i = 4
           /\ StreamChain[i] # "idempotency"
           /\ StreamChain[i] \in AuthorizeStages <=> i = 3
<1>1. i \in {1, 2, 3, 4}
  OBVIOUS
<1> QED
  BY <1>1 DEF StreamChain, AuthorizeStages

LEMMA ChainOf ==
    ASSUME TypeOK, NEW r \in Requests
    PROVE  /\ TransportOf(r) = "http" => Chain(r) = HTTPChain
           /\ TransportOf(r) = "unary" => Chain(r) = UnaryChain
           /\ TransportOf(r) = "stream" => Chain(r) = StreamChain
BY DEF Chain

\* Which stages stand where: the idempotency stage is the last before the
\* handler, behind the route policy, and a stream has none.
LEMMA Positions ==
    ASSUME TypeOK, NEW r \in Requests, st[r].pos <= Last(r), NEW stage, At(r, stage)
    PROVE  /\ st[r].pos \in 1..Last(r) /\ ~st[r].persist
           /\ stage = "handler" => st[r].pos = Last(r)
           /\ stage = "idempotency" => /\ st[r].pos + 1 = Last(r)
                                       /\ st[r].pos > Gate(r)
                                       /\ TransportOf(r) # "stream"
           /\ stage \in AuthorizeStages => /\ st[r].pos = Gate(r)
                                           /\ st[r].pos + 1 = Last(r) => ~Protected(r)
           /\ stage \notin AuthorizeStages \cup {"idempotency", "handler"} =>
                 st[r].pos # Gate(r) /\ st[r].pos + 1 < Last(r)
<1>1. st[r] \in State /\ st[r].pos \in Nat /\ TransportOf(r) \in {"http", "unary", "stream"}
  BY LoadType DEF TypeOK, State
<1>2. st[r].pos > 0 /\ ~st[r].persist /\ Chain(r)[st[r].pos] = stage
  BY DEF At
<1> SUFFICES
           /\ st[r].pos \in 1..Last(r)
           /\ stage = "handler" => st[r].pos = Last(r)
           /\ stage = "idempotency" => /\ st[r].pos + 1 = Last(r)
                                       /\ st[r].pos > Gate(r)
                                       /\ TransportOf(r) # "stream"
           /\ stage \in AuthorizeStages => /\ st[r].pos = Gate(r)
                                           /\ st[r].pos + 1 = Last(r) => ~Protected(r)
           /\ stage \notin AuthorizeStages \cup {"idempotency", "handler"} =>
                 st[r].pos # Gate(r) /\ st[r].pos + 1 < Last(r)
  BY <1>2
<1> DEFINE i == st[r].pos
<1>a. i \in Nat /\ i > 0 /\ i <= Last(r)
  BY <1>1, <1>2
<1> HIDE DEF i
<1>3. CASE TransportOf(r) = "http"
  <2>1. Last(r) = 10 /\ Gate(r) = 7 /\ Chain(r) = HTTPChain
    BY <1>3, ChainOf DEF Last, Gate
  <2>2. i \in 1..10
    BY <1>a, <2>1
  <2>3. stage = HTTPChain[i]
    BY <1>2, <2>1 DEF i
  <2> QED
    BY <1>3, <2>1, <2>2, <2>3, HTTPStages DEF i
<1>4. CASE TransportOf(r) = "unary"
  <2>1. Last(r) = 5 /\ Gate(r) = 3 /\ Chain(r) = UnaryChain
    BY <1>4, ChainOf DEF Last, Gate
  <2>2. i \in 1..5
    BY <1>a, <2>1
  <2>3. stage = UnaryChain[i]
    BY <1>2, <2>1 DEF i
  <2> QED
    BY <1>4, <2>1, <2>2, <2>3, UnaryStages DEF i
<1>5. CASE TransportOf(r) = "stream"
  <2>1. Last(r) = 4 /\ Gate(r) = 3 /\ Chain(r) = StreamChain
    BY <1>5, ChainOf DEF Last, Gate
  <2>2. i \in 1..4
    BY <1>a, <2>1
  <2>3. stage = StreamChain[i]
    BY <1>2, <2>1 DEF i
  <2> QED
    BY <1>5, <2>1, <2>2, <2>3, StreamStages DEF i, Protected
<1> QED
  BY <1>1, <1>3, <1>4, <1>5 DEF i

\* A request at the end of its chain is in its handler.
LEMMA AtTheEnd ==
    ASSUME TypeOK, NEW r \in Requests, st[r].pos = Last(r), ~st[r].persist
    PROVE  Running(r)
<1>1. TransportOf(r) \in {"http", "unary", "stream"}
  BY LoadType
<1> QED
  <2>1. st[r].pos > 0 /\ Chain(r)[st[r].pos] = "handler"
    BY <1>1, ChainOf, HTTPStages, UnaryStages, StreamStages DEF Last
  <2> QED
    BY <2>1 DEF Running, At

-----------------------------------------------------------------------------
(* Steps of one request.                                                   *)

\* Request r goes to state s and the records stay.
LEMMA Moves ==
    ASSUME Inv, NEW r \in Requests, NEW s \in State, st' = [st EXCEPT ![r] = s],
           UNCHANGED <<load, rec>>, Fine(r, s), Held(r, s, rec[KeyOf(r)])
    PROVE  st' \in [Requests -> State'] /\ Place' /\ Records' /\ Executions'
<1> USE DEF Inv
<1>1. \A q \in Requests : st'[q] = IF q = r THEN s ELSE st[q]
  BY DEF TypeOK
<1>2. State' = State
  BY DEF State
<1>3. st' \in [Requests -> State']
  BY <1>2 DEF TypeOK
<1>4. \A q \in Requests : Fine(q, st'[q])
  BY <1>1 DEF Place
<1>5. Place'
  BY <1>4 DEF Place, Fine, Last, Gate, Protected, KeyOf, Fingerprint, TransportOf
<1>6. Records'
  BY DEF Records, Owned, KeyOf, Fingerprint
<1>7. \A q \in Requests : Held(q, st'[q], rec[KeyOf(q)])
  BY <1>1 DEF Executions
<1>8. Executions'
  BY <1>7 DEF Executions, Held, Last, Protected, KeyOf, TransportOf
<1> QED
  BY <1>3, <1>5, <1>6, <1>8

\* The request passes a stage before the handler's.
LEMMA Passes ==
    ASSUME Inv, NEW r \in Requests, UNCHANGED <<load, rec>>, Pass(r),
           st[r].pos \in 1..Last(r), ~st[r].persist, st[r].pos + 1 <= Last(r),
           st[r].pos + 1 > Gate(r) => st[r].cleared,
           st[r].pos + 1 = Last(r) => ~Protected(r)
    PROVE  st' \in [Requests -> State'] /\ Place' /\ Records' /\ Executions'
<1> DEFINE s == [st[r] EXCEPT !.pos = st[r].pos + 1]
<1>1. st[r] \in State /\ Fine(r, st[r]) /\ Last(r) \in 4..10
  BY LoadType DEF Inv, TypeOK, Place
<1>2. Len(HTTPChain) = 10
  BY DEF HTTPChain
<1>3. s \in State
  BY <1>1, <1>2 DEF State
<1>4. st' = [st EXCEPT ![r] = s]
  BY DEF Pass
<1>5. /\ s.pos = st[r].pos + 1 /\ s.answer = st[r].answer /\ s.of = st[r].of
      /\ s.cleared = st[r].cleared /\ s.age = st[r].age /\ s.persist = st[r].persist
  BY <1>1 DEF State
<1>6. Fine(r, s)
  BY <1>1, <1>5 DEF Fine, State
<1>7. Held(r, s, rec[KeyOf(r)])
  BY <1>5 DEF Held
<1> HIDE DEF s
<1> QED
  BY <1>3, <1>4, <1>6, <1>7, Moves

\* The request leaves its chain with an answer of the stage it is at.
LEMMA Refuses ==
    ASSUME Inv, NEW r \in Requests, UNCHANGED <<load, rec>>, NEW answer \in Answers,
           Refuse(r, answer), ~st[r].persist, answer \in Telling => st[r].cleared
    PROVE  st' \in [Requests -> State'] /\ Place' /\ Records' /\ Executions'
<1> DEFINE s == [st[r] EXCEPT !.pos = 0, !.answer = answer, !.age = 0]
<1>1. st[r] \in State /\ Fine(r, st[r]) /\ Last(r) \in 4..10 /\ load.timeout \in Nat
  BY LoadType DEF Inv, TypeOK, Place
<1>2. Len(HTTPChain) = 10
  BY DEF HTTPChain
<1>3. s \in State
  <2>1. 0 \in 0..Len(HTTPChain) /\ 0 \in 0..load.timeout
    BY <1>1, <1>2
  <2> QED
    BY <1>1, <2>1 DEF State
<1>4. st' = [st EXCEPT ![r] = s]
  BY DEF Refuse
<1>5. /\ s.pos = 0 /\ s.answer = answer /\ s.of = st[r].of
      /\ s.cleared = st[r].cleared /\ s.age = 0 /\ s.persist = st[r].persist
  BY <1>1 DEF State
<1>6. Gate(r) \in {3, 7}
  BY LoadType DEF Inv
<1>7. Fine(r, s)
  BY <1>1, <1>5, <1>6 DEF Fine
<1>8. Held(r, s, rec[KeyOf(r)])
  BY <1>1, <1>5 DEF Held
<1> HIDE DEF s
<1> QED
  BY <1>3, <1>4, <1>7, <1>8, Moves

\* Every stage but the route policy, the execution under the key and the
\* handler: the request passes, or is refused with an answer that tells
\* nothing.
LEMMA PlainStage ==
    ASSUME Inv, NEW r \in Requests, UNCHANGED <<load, rec>>, NEW stage, At(r, stage),
           stage \notin AuthorizeStages \cup {"idempotency", "handler"},
           NEW answer \in Answers \ Telling, Pass(r) \/ Refuse(r, answer)
    PROVE  st' \in [Requests -> State'] /\ Place' /\ Records' /\ Executions'
<1>1. TypeOK /\ Fine(r, st[r]) /\ st[r].pos <= Last(r)
  BY DEF Inv, Place, Fine
<1>2. /\ st[r].pos \in 1..Last(r) /\ ~st[r].persist
      /\ st[r].pos # Gate(r) /\ st[r].pos + 1 < Last(r)
  BY <1>1, Positions
<1>3. Gate(r) \in {3, 7} /\ Last(r) \in 4..10
  BY <1>1, LoadType
<1>4. st[r].pos + 1 > Gate(r) => st[r].cleared
  BY <1>1, <1>2, <1>3 DEF Fine
<1>5. CASE Pass(r)
  BY <1>2, <1>3, <1>4, <1>5, Passes
<1>6. CASE Refuse(r, answer)
  BY <1>2, <1>6, Refuses
<1> QED
  BY <1>5, <1>6

LEMMA ChecksInv ==
    ASSUME Inv, NEW r \in Requests, UNCHANGED load,
           \/ IdempotencyKey(r) \/ CORS(r) \/ RequireJSON(r) \/ Authentication(r)
           \/ idempotencyInterceptor(r) \/ idempotencyStreamInterceptor(r)
           \/ authInterceptor(r) \/ authStreamInterceptor(r)
    PROVE  st' \in [Requests -> State'] /\ Place' /\ Records' /\ Executions'
<1> DEFINE Refusals == {"invalid", "forbidden", "unsupported", "unauthorized"}
           Bare == {"key", "origin", "content", "authenticate", "unary_key",
                     "stream_key", "unary_authenticate", "stream_authenticate"}
<1>1. \E stage \in Bare, answer \in Refusals :
          At(r, stage) /\ (Pass(r) \/ Refuse(r, answer)) /\ UNCHANGED rec
  BY DEF IdempotencyKey, CORS, RequireJSON, Authentication, idempotencyInterceptor,
         idempotencyStreamInterceptor, authInterceptor, authStreamInterceptor, Check
<1>2. \A stage \in Bare : stage \notin AuthorizeStages \cup {"idempotency", "handler"}
  BY DEF AuthorizeStages
<1>3. \A answer \in Refusals : answer \in Answers \ Telling
  BY DEF Answers, Telling
<1> HIDE DEF Refusals, Bare
<1> QED
  BY <1>1, <1>2, <1>3, PlainStage

LEMMA RateLimitInv ==
    ASSUME Inv, NEW r \in Requests, UNCHANGED load, RateLimit(r)
    PROVE  st' \in [Requests -> State'] /\ Place' /\ Records' /\ Executions'
<1>1. \E stage \in {"ip", "api", "user"}, answer \in {"limited", "unavailable"} :
          At(r, stage) /\ (Pass(r) \/ Refuse(r, answer)) /\ UNCHANGED rec
  BY DEF RateLimit
<1>2. \A stage \in {"ip", "api", "user"} :
          stage \notin AuthorizeStages \cup {"idempotency", "handler"}
  BY DEF AuthorizeStages
<1>3. \A answer \in {"limited", "unavailable"} : answer \in Answers \ Telling
  BY DEF Answers, Telling
<1> QED
  BY <1>1, <1>2, <1>3, PlainStage

LEMMA EvaluateInv ==
    ASSUME Inv, NEW r \in Requests, UNCHANGED load, NEW stage \in AuthorizeStages,
           EvaluateRoute(r, stage)
    PROVE  st' \in [Requests -> State'] /\ Place' /\ Records' /\ Executions'
<1>1. TypeOK /\ Fine(r, st[r]) /\ st[r] \in State /\ st[r].pos <= Last(r)
  BY DEF Inv, Place, Fine, TypeOK
<1>2. At(r, stage) /\ UNCHANGED rec
  BY DEF EvaluateRoute
<1>3. /\ st[r].pos \in 1..Last(r) /\ ~st[r].persist /\ st[r].pos = Gate(r)
      /\ st[r].pos + 1 = Last(r) => ~Protected(r)
  BY <1>1, <1>2, Positions
<1>4. Gate(r) \in {3, 7} /\ Last(r) \in 4..10 /\ Gate(r) < Last(r)
  BY <1>1, LoadType
<1>5. CASE \E answer \in {"forbidden", "unavailable"} : Refuse(r, answer)
  <2>1. \A answer \in {"forbidden", "unavailable"} : answer \in Answers \ Telling
    BY DEF Answers, Telling
  <2> QED
    BY <1>2, <1>3, <1>5, <2>1, Refuses
<1>6. CASE st' = [st EXCEPT ![r].pos = @ + 1, ![r].cleared = TRUE]
  <2> DEFINE s == [st[r] EXCEPT !.pos = st[r].pos + 1, !.cleared = TRUE]
  <2>1. st[r].pos + 1 \in 0..Len(HTTPChain)
    <3>1. Len(HTTPChain) = 10
      BY DEF HTTPChain
    <3> QED
      BY <1>3, <1>4, <3>1
  <2>2. s \in State
    BY <1>1, <2>1 DEF State
  <2>3. st' = [st EXCEPT ![r] = s]
    BY <1>6
  <2>4. /\ s.pos = st[r].pos + 1 /\ s.of = st[r].of
        /\ s.cleared = TRUE /\ s.age = st[r].age /\ s.persist = st[r].persist
    BY <1>1 DEF State
  <2>5. st[r].age = 0
    BY <1>1, <1>3, <1>4 DEF Fine, State
  <2>6. Fine(r, s)
    BY <1>1, <1>3, <1>4, <2>4, <2>5 DEF Fine
  <2>7. Held(r, s, rec[KeyOf(r)])
    BY <1>3, <2>4 DEF Held
  <2> HIDE DEF s
  <2> QED
    BY <1>2, <2>2, <2>3, <2>6, <2>7, Moves
<1> QED
  BY <1>5, <1>6 DEF EvaluateRoute

\* A handler that is running, or a request somewhere on its way, is answered
\* without an execution to tell of.
LEMMA EndsInv ==
    ASSUME Inv, NEW r \in Requests, UNCHANGED load,
           \/ Recovery(r) \/ recoveryInterceptor(r) \/ recoveryStreamInterceptor(r)
           \/ Timeout(r) \/ Crash(r) \/ IdempotencyUnavailable(r)
           \/ idempotencyFingerprintFails(r)
    PROVE  st' \in [Requests -> State'] /\ Place' /\ Records' /\ Executions'
<1> DEFINE Ends == {"internal", "timeout", "lost", "unavailable", "invalid"}
<1>1. \E answer \in Ends : Refuse(r, answer) /\ st[r].pos > 0 /\ UNCHANGED rec
  BY DEF Recovery, recoveryInterceptor, recoveryStreamInterceptor, Panic, Timeout, Crash,
         IdempotencyUnavailable, idempotencyFingerprintFails, Running, At
<1>2. \A answer \in Ends : answer \in Answers \ Telling
  BY DEF Answers, Telling
<1>3. Fine(r, st[r]) /\ st[r] \in State
  BY DEF Inv, Place, TypeOK
<1>4. ~st[r].persist
  BY <1>1, <1>3 DEF Fine
<1> HIDE DEF Ends
<1> QED
  BY <1>1, <1>2, <1>4, Refuses

LEMMA BypassInv ==
    ASSUME Inv, NEW r \in Requests, UNCHANGED load, Bypass(r)
    PROVE  st' \in [Requests -> State'] /\ Place' /\ Records' /\ Executions'
<1>1. TypeOK /\ Fine(r, st[r]) /\ st[r].pos <= Last(r)
  BY DEF Inv, Place, Fine
<1>2. At(r, "idempotency") /\ Pass(r) /\ ~Protected(r) /\ UNCHANGED rec
  BY DEF Bypass, Protected
<1>3. /\ st[r].pos \in 1..Last(r) /\ ~st[r].persist
      /\ st[r].pos + 1 = Last(r) /\ st[r].pos > Gate(r)
  BY <1>1, <1>2, Positions
<1>4. st[r].cleared
  BY <1>1, <1>3 DEF Fine
<1>5. st[r].pos + 1 <= Last(r)
  BY <1>3
<1> QED
  BY <1>2, <1>3, <1>4, <1>5, Passes

\* Manager.Begin acquires the key: a new record, owned by the request that
\* goes on to its handler.
LEMMA AcquireInv ==
    ASSUME Inv, NEW r \in Requests, UNCHANGED load, At(r, "idempotency"),
           KeyOf(r) # NoKey, rec[KeyOf(r)].state = "none",
           rec' = [rec EXCEPT ![KeyOf(r)] = [state |-> "processing", owner |-> r,
                      print |-> Fingerprint(r), ttl |-> load.processingTTL, of |-> NoRequest]],
           Pass(r)
    PROVE  /\ rec' \in [Keys -> Record] /\ st' \in [Requests -> State']
           /\ Place' /\ Records' /\ Executions'
<1> DEFINE k == KeyOf(r)
           n == [state |-> "processing", owner |-> r, print |-> Fingerprint(r),
                 ttl |-> load.processingTTL, of |-> NoRequest]
           s == [st[r] EXCEPT !.pos = st[r].pos + 1]
<1>1. TypeOK /\ Fine(r, st[r]) /\ st[r] \in State /\ st[r].pos <= Last(r)
  BY DEF Inv, Place, Fine, TypeOK
<1>2. /\ st[r].pos \in 1..Last(r) /\ ~st[r].persist
      /\ st[r].pos + 1 = Last(r) /\ st[r].pos > Gate(r)
  BY <1>1, Positions
<1>3. k \in Keys /\ Fingerprint(r) \in Prints /\ load.processingTTL \in Nat \ {0}
      /\ Last(r) \in 4..10
  BY <1>1, LoadType
<1>4. n \in Record
  BY <1>3 DEF Record
<1>5. rec' \in [Keys -> Record] /\ \A j \in Keys : rec'[j] = IF j = k THEN n ELSE rec[j]
  BY <1>1, <1>3, <1>4 DEF TypeOK
<1>6. s \in State
  <2>1. st[r].pos + 1 \in 0..Len(HTTPChain)
    <3>1. Len(HTTPChain) = 10
      BY DEF HTTPChain
    <3> QED
      BY <1>2, <1>3, <3>1
  <2> QED
    BY <1>1, <2>1 DEF State
<1>7. st' \in [Requests -> State'] /\ \A q \in Requests : st'[q] = IF q = r THEN s ELSE st[q]
  BY <1>1, <1>6 DEF Pass, TypeOK, State
<1>8. /\ s.pos = Last(r) /\ s.answer = st[r].answer /\ s.of = st[r].of
      /\ s.cleared = st[r].cleared /\ s.age = st[r].age /\ s.persist = st[r].persist
  BY <1>1, <1>2 DEF State
<1>9. st[r].cleared /\ st[r].age = 0
  BY <1>1, <1>2, <1>3 DEF Fine, State
<1>10. Fine(r, s)
  BY <1>1, <1>2, <1>8, <1>9 DEF Fine, State
<1> HIDE DEF s, n
<1>11. Place'
  <2>1. \A q \in Requests : Fine(q, st'[q])
    BY <1>7, <1>10 DEF Inv, Place
  <2> QED
    BY <2>1 DEF Place, Fine, Last, Gate, Protected, KeyOf, Fingerprint, TransportOf
<1>12. Records'
  <2>1. Owned(k, n)
    BY DEF Owned, n
  <2>2. \A j \in Keys : Owned(j, rec'[j])
    BY <1>5, <2>1 DEF Inv, Records
  <2> QED
    BY <2>2 DEF Records, Owned, KeyOf, Fingerprint
<1>13. Executions'
  <2>1. ASSUME NEW q \in Requests
        PROVE  Held(q, st'[q], rec'[KeyOf(q)])
    <3>1. CASE q = r
      <4>1. st'[q] = s /\ rec'[KeyOf(q)] = n
        BY <1>3, <1>5, <1>7, <3>1
      <4> QED
        BY <1>3, <1>8, <1>9, <3>1, <4>1 DEF Held, n
    <3>2. CASE q # r
      <4>1. st'[q] = st[q] /\ Held(q, st[q], rec[KeyOf(q)])
        BY <1>7, <3>2 DEF Inv, Executions
      <4>2. Protected(q) => KeyOf(q) \in Keys
        BY <1>1, LoadType
      <4>3. CASE KeyOf(q) = k
        BY <4>1, <4>3 DEF Held
      <4>4. CASE KeyOf(q) # k
        BY <4>1, <4>2, <4>4, <1>5 DEF Held
      <4> QED
        BY <4>3, <4>4
    <3> QED
      BY <3>1, <3>2
  <2> QED
    BY <2>1 DEF Executions, Held, Last, Protected, KeyOf, TransportOf
<1> QED
  BY <1>5, <1>7, <1>11, <1>12, <1>13

LEMMA ExecutionInv ==
    ASSUME Inv, NEW r \in Requests, UNCHANGED load, IdempotencyExecution(r)
    PROVE  /\ rec' \in [Keys -> Record] /\ st' \in [Requests -> State']
           /\ Place' /\ Records' /\ Executions'
<1> DEFINE k == KeyOf(r)
<1>1. TypeOK /\ Fine(r, st[r]) /\ st[r] \in State /\ st[r].pos <= Last(r)
  BY DEF Inv, Place, Fine, TypeOK
<1>2. At(r, "idempotency") /\ k # NoKey
  BY DEF IdempotencyExecution
<1>3. /\ st[r].pos \in 1..Last(r) /\ ~st[r].persist
      /\ st[r].pos + 1 = Last(r) /\ st[r].pos > Gate(r)
  BY <1>1, <1>2, Positions
<1>4. st[r].cleared
  BY <1>1, <1>3 DEF Fine
<1>5. k \in Keys /\ rec[k] \in Record /\ Last(r) \in 4..10
  BY <1>1, <1>2, LoadType DEF TypeOK
<1>6. /\ rec[k].state = "none" <=> Begin(k, r) = "acquired"
      /\ Begin(k, r) \in {"completed", "failed"} =>
            rec[k].state = Begin(k, r) /\ rec[k].print = Fingerprint(r)
  <2>1. CASE rec[k].state = "none"
    BY <2>1 DEF Begin
  <2>2. CASE rec[k].state # "none" /\ rec[k].print # Fingerprint(r)
    BY <2>2 DEF Begin
  <2>3. CASE rec[k].state # "none" /\ rec[k].print = Fingerprint(r)
    <3>1. Begin(k, r) = rec[k].state
      BY <2>3 DEF Begin
    <3>2. rec[k].state \in {"none", "processing", "completed", "failed"}
      BY <1>5 DEF Record
    <3> QED
      BY <2>3, <3>1, <3>2
  <2> QED
    BY <2>1, <2>2, <2>3
<1>7. CASE Begin(k, r) = "acquired"
  BY <1>2, <1>6, <1>7, AcquireInv DEF IdempotencyExecution
<1>8. CASE Begin(k, r) \in {"conflict", "processing"}
  <2>1. \E answer \in {"conflict", "in_progress"} : Refuse(r, answer)
    BY <1>8 DEF IdempotencyExecution
  <2>2. UNCHANGED rec
    BY <1>8 DEF IdempotencyExecution
  <2>3. \A answer \in {"conflict", "in_progress"} : answer \in Answers
    BY DEF Answers
  <2> QED
    BY <1>1, <1>3, <1>4, <2>1, <2>2, <2>3, Refuses DEF TypeOK
<1>9. CASE Begin(k, r) \in {"completed", "failed"}
  <2> DEFINE a == IF Begin(k, r) = "completed" THEN "ok" ELSE "failed"
             s == [st[r] EXCEPT !.pos = 0, !.of = rec[k].of, !.answer = a]
  <2>1. st' = [st EXCEPT ![r] = s] /\ UNCHANGED rec
    BY <1>9 DEF IdempotencyExecution
  <2>2. a \in {"ok", "failed"} /\ a \in Answers
    BY DEF Answers
  <2>3. rec[k].of \in Requests /\ KeyOf(rec[k].of) = k /\ Fingerprint(rec[k].of) = Fingerprint(r)
    <3>1. Owned(k, rec[k]) /\ rec[k].state \in {"completed", "failed"}
      BY <1>5, <1>6, <1>9 DEF Inv, Records
    <3> QED
      BY <1>6, <1>9, <3>1 DEF Owned
  <2> HIDE DEF a
  <2>4. s \in State
    <3>1. 0 \in 0..Len(HTTPChain)
      BY DEF HTTPChain
    <3> QED
      BY <1>1, <2>2, <2>3, <3>1 DEF State
  <2>5. /\ s.pos = 0 /\ s.answer = a /\ s.of = rec[k].of
        /\ s.cleared = st[r].cleared /\ s.age = st[r].age /\ s.persist = st[r].persist
    BY <1>1 DEF State
  <2>6. Gate(r) \in {3, 7} /\ st[r].age = 0
    BY <1>1, <1>3, <1>5, LoadType DEF Fine, State
  <2>7. Fine(r, s)
    BY <1>3, <1>4, <1>5, <2>3, <2>5, <2>6 DEF Fine
  <2>8. Held(r, s, rec[KeyOf(r)])
    BY <1>5, <2>5 DEF Held
  <2> HIDE DEF s
  <2> QED
    BY <1>1, <2>1, <2>4, <2>7, <2>8, Moves DEF TypeOK
<1> QED
  BY <1>7, <1>8, <1>9 DEF IdempotencyExecution

LEMMA RespondInv ==
    ASSUME Inv, NEW r \in Requests, UNCHANGED load, NEW answer \in Answers,
           Respond(r, answer)
    PROVE  st' \in [Requests -> State'] /\ Place' /\ Records' /\ Executions'
<1> DEFINE s == [st[r] EXCEPT !.pos = 0, !.answer = answer, !.of = r, !.age = 0,
                              !.persist = Protected(r)]
<1>1. TypeOK /\ Fine(r, st[r]) /\ st[r] \in State /\ st[r].pos <= Last(r)
  BY DEF Inv, Place, Fine, TypeOK
<1>2. At(r, "handler") /\ answer \in {"ok", "failed"} /\ UNCHANGED rec
  BY DEF Respond, Running
<1>3. st[r].pos = Last(r)
  BY <1>1, <1>2, Positions
<1>4. Gate(r) \in {3, 7} /\ Last(r) \in 4..10 /\ Gate(r) < Last(r) /\ load.timeout \in Nat
  BY <1>1, LoadType
<1>5. st[r].cleared
  BY <1>1, <1>3, <1>4 DEF Fine
<1>6. st' = [st EXCEPT ![r] = s]
  BY DEF Respond
<1>7. s \in State
  <2>1. 0 \in 0..Len(HTTPChain)
    BY DEF HTTPChain
  <2>2. 0 \in 0..load.timeout
    BY <1>4
  <2>3. Protected(r) \in BOOLEAN
    BY DEF Protected
  <2> QED
    BY <1>1, <2>1, <2>2, <2>3 DEF State
<1>8. /\ s.pos = 0 /\ s.answer = answer /\ s.of = r
      /\ s.cleared = st[r].cleared /\ s.age = 0
  BY <1>1 DEF State
<1>9. s.persist = Protected(r)
  BY <1>1 DEF State
<1>10. Fine(r, s)
  BY <1>4, <1>5, <1>8, <1>9 DEF Fine
<1>11. Held(r, s, rec[KeyOf(r)])
  BY <1>4, <1>8 DEF Held
<1> HIDE DEF s
<1> QED
  BY <1>2, <1>6, <1>7, <1>10, <1>11, Moves

\* The request that was to store its answer no longer is.
LEMMA StoredState ==
    ASSUME Inv, NEW r \in Requests, UNCHANGED load, st[r].persist
    PROVE  LET s == [st[r] EXCEPT !.persist = FALSE]
           IN  /\ s \in State /\ Fine(r, s) /\ s.pos = 0
               /\ Protected(r) /\ KeyOf(r) \in Keys
<1> DEFINE s == [st[r] EXCEPT !.persist = FALSE]
<1>1. TypeOK /\ Fine(r, st[r]) /\ st[r] \in State
  BY DEF Inv, Place, TypeOK
<1>2. s \in State
  BY <1>1 DEF State
<1>3. /\ s.pos = st[r].pos /\ s.answer = st[r].answer /\ s.of = st[r].of
      /\ s.cleared = st[r].cleared /\ s.age = st[r].age
  BY <1>1 DEF State
<1>4. ~s.persist
  BY <1>1 DEF State
<1>5. Fine(r, s) /\ s.pos = 0 /\ Protected(r)
  BY <1>1, <1>3, <1>4 DEF Fine
<1> QED
  BY <1>1, <1>2, <1>5, LoadType

LEMMA PersistFailsInv ==
    ASSUME Inv, NEW r \in Requests, UNCHANGED load, PersistFails(r)
    PROVE  st' \in [Requests -> State'] /\ Place' /\ Records' /\ Executions'
<1> DEFINE s == [st[r] EXCEPT !.persist = FALSE]
<1>1. st[r].persist /\ UNCHANGED rec /\ st' = [st EXCEPT ![r] = s]
  BY DEF PersistFails
<1>2. s \in State /\ Fine(r, s) /\ s.pos = 0
  BY <1>1, StoredState
<1>3. Last(r) \in 4..10
  BY LoadType DEF Inv
<1>4. Held(r, s, rec[KeyOf(r)])
  BY <1>2, <1>3 DEF Held
<1> HIDE DEF s
<1> QED
  BY <1>1, <1>2, <1>4, Moves

\* Complete and Fail write only the record of the request that owns it, and
\* that one is no longer running.
LEMMA PersistInv ==
    ASSUME Inv, NEW r \in Requests, UNCHANGED load, Persist(r)
    PROVE  /\ rec' \in [Keys -> Record] /\ st' \in [Requests -> State']
           /\ Place' /\ Records' /\ Executions'
<1> DEFINE k == KeyOf(r)
           s == [st[r] EXCEPT !.persist = FALSE]
           outcome == IF st[r].answer = "ok" THEN "completed" ELSE "failed"
           n == [rec[k] EXCEPT !.ttl = ResultTTL, !.of = r, !.state = outcome]
<1>1. st[r].persist /\ st' = [st EXCEPT ![r] = s]
  BY DEF Persist
<1>2. s \in State /\ Fine(r, s) /\ s.pos = 0 /\ Protected(r) /\ k \in Keys
  BY <1>1, StoredState
<1>3. Last(r) \in 4..10 /\ rec[k] \in Record
  BY <1>2, LoadType DEF Inv, TypeOK
<1>4. Held(r, s, rec[KeyOf(r)])
  BY <1>2, <1>3 DEF Held
<1>5. CASE rec' = rec
  <2>1. rec' \in [Keys -> Record]
    BY <1>5 DEF Inv, TypeOK
  <2> HIDE DEF s
  <2> QED
    BY <1>1, <1>2, <1>4, <1>5, <2>1, Moves
<1>6. CASE rec[k].state = "processing" /\ rec[k].owner = r /\ rec' = [rec EXCEPT ![k] = n]
  <2>1. outcome \in {"completed", "failed"}
    OBVIOUS
  <2>2. n \in Record /\ n.owner = r /\ n.print = rec[k].print /\ n.of = r /\ n.state = outcome
    BY <1>3, <1>6, <2>1, PipelineAssumption DEF Record
  <2>3. rec' \in [Keys -> Record] /\ \A j \in Keys : rec'[j] = IF j = k THEN n ELSE rec[j]
    BY <1>2, <1>6, <2>2 DEF Inv, TypeOK
  <2>4. st' \in [Requests -> State'] /\ \A q \in Requests : st'[q] = IF q = r THEN s ELSE st[q]
    BY <1>1, <1>2 DEF Inv, TypeOK, State
  <2> HIDE DEF s, n, outcome
  <2>5. Place'
    <3>1. \A q \in Requests : Fine(q, st'[q])
      BY <1>2, <2>4 DEF Inv, Place
    <3> QED
      BY <3>1 DEF Place, Fine, Last, Gate, Protected, KeyOf, Fingerprint, TransportOf
  <2>6. Records'
    <3>1. Owned(k, rec[k])
      BY <1>2 DEF Inv, Records
    <3>2. Owned(k, n)
      BY <1>6, <2>1, <2>2, <3>1 DEF Owned
    <3>3. \A j \in Keys : Owned(j, rec'[j])
      BY <2>3, <3>2 DEF Inv, Records
    <3> QED
      BY <3>3 DEF Records, Owned, KeyOf, Fingerprint
  <2>7. Executions'
    <3>1. ASSUME NEW q \in Requests
          PROVE  Held(q, st'[q], rec'[KeyOf(q)])
      <4>1. Held(q, st[q], rec[KeyOf(q)]) /\ (Protected(q) => KeyOf(q) \in Keys)
        BY LoadType DEF Inv, Executions
      <4>2. CASE q = r
        BY <1>2, <1>3, <2>4, <4>2 DEF Held
      <4>3. CASE q # r /\ KeyOf(q) # k
        BY <2>3, <2>4, <4>1, <4>3 DEF Held
      <4>4. CASE q # r /\ KeyOf(q) = k
        BY <1>6, <2>4, <4>1, <4>4 DEF Held
      <4> QED
        BY <4>2, <4>3, <4>4
    <3> QED
      BY <3>1 DEF Executions, Held, Last, Protected, KeyOf, TransportOf
  <2> QED
    BY <2>3, <2>4, <2>5, <2>6, <2>7
<1> QED
  BY <1>5, <1>6 DEF Persist

LEMMA SendInv ==
    ASSUME Inv, NEW r \in Requests, UNCHANGED load, Send(r)
    PROVE  st' \in [Requests -> State'] /\ Place' /\ Records' /\ Executions'
<1> DEFINE s == [New EXCEPT !.pos = 1]
<1>1. Gate(r) \in {3, 7} /\ Last(r) \in 4..10 /\ load.timeout \in Nat
  BY LoadType DEF Inv
<1>2. s.pos = 1 /\ s.answer = "none" /\ s.of = NoRequest /\ s.age = 0 /\ ~s.persist
  BY DEF New
<1>3. s \in State
  <2>1. 1 \in 0..Len(HTTPChain) /\ 0 \in 0..Len(HTTPChain)
    BY DEF HTTPChain
  <2>2. 0 \in 0..load.timeout
    BY <1>1
  <2>3. "none" \in Answers
    BY DEF Answers
  <2>4. New \in State
    BY <2>1, <2>2, <2>3 DEF State, New
  <2> QED
    BY <2>1, <2>4 DEF State
<1>4. Fine(r, s)
  BY <1>1, <1>2 DEF Fine, Telling
<1>5. Held(r, s, rec[KeyOf(r)])
  BY <1>1, <1>2 DEF Held
<1>6. st' = [st EXCEPT ![r] = s] /\ UNCHANGED rec
  BY DEF Send
<1> HIDE DEF s
<1> QED
  BY <1>3, <1>4, <1>5, <1>6, Moves

-----------------------------------------------------------------------------
(* Time.                                                                   *)

\* A record loses a tick of its life, or expires.
LEMMA ElapsedRecord ==
    ASSUME Inv, NEW k \in Keys
    PROVE  /\ Elapsed(k) \in Record
           /\ Owned(k, Elapsed(k))
           /\ rec[k].ttl > 1 => /\ Elapsed(k).state = rec[k].state
                                /\ Elapsed(k).owner = rec[k].owner
                                /\ Elapsed(k).ttl = rec[k].ttl - 1
<1>1. rec[k] \in Record /\ Owned(k, rec[k])
  BY DEF Inv, TypeOK, Records
<1>2. CASE rec[k].ttl <= 1
  <2>1. NoRecord \in Record
    <3>1. (CHOOSE p \in Prints : TRUE) \in Prints
      BY PipelineAssumption
    <3> QED
      BY <3>1 DEF NoRecord, Record
  <2> QED
    BY <1>1, <1>2, <2>1 DEF Elapsed, Owned, NoRecord, Record
<1>3. CASE ~(rec[k].ttl <= 1)
  <2> DEFINE n == [rec[k] EXCEPT !.ttl = rec[k].ttl - 1]
  <2>1. rec[k].ttl \in Nat /\ rec[k].ttl > 1
    BY <1>1, <1>3 DEF Record
  <2>2. Elapsed(k) = n
    BY <1>3 DEF Elapsed
  <2>3. n \in Record /\ n.state = rec[k].state /\ n.owner = rec[k].owner
        /\ n.print = rec[k].print /\ n.of = rec[k].of /\ n.ttl = rec[k].ttl - 1
    BY <1>1, <2>1 DEF Record
  <2> QED
    BY <1>1, <2>2, <2>3 DEF Owned
<1> QED
  BY <1>2, <1>3

LEMMA TickInv ==
    ASSUME Inv, UNCHANGED load, Tick
    PROVE  /\ rec' \in [Keys -> Record] /\ st' \in [Requests -> State']
           /\ Place' /\ Records' /\ Executions'
<1> DEFINE Aged(r) == IF Running(r) THEN [st[r] EXCEPT !.age = st[r].age + 1] ELSE st[r]
<1>0. TypeOK /\ load.timeout \in Nat
  BY LoadType DEF Inv
<1>1. /\ \A r \in Requests : st'[r] = Aged(r)
      /\ \A k \in Keys : rec'[k] = Elapsed(k)
      /\ \A r \in Requests : Running(r) => st[r].age < load.timeout
      /\ st' = [r \in Requests |-> Aged(r)]
      /\ rec' = [k \in Keys |-> Elapsed(k)]
  BY DEF Tick
<1>2. rec' \in [Keys -> Record]
  BY <1>1, ElapsedRecord
<1>3. ASSUME NEW r \in Requests
      PROVE  /\ Aged(r) \in State
             /\ Fine(r, Aged(r))
             /\ Aged(r).pos = st[r].pos
             /\ st[r].pos = Last(r) => Aged(r).age = st[r].age + 1 /\ st[r].age < load.timeout
  <2>1. st[r] \in State /\ Fine(r, st[r]) /\ st[r].pos <= Last(r) /\ Last(r) \in 4..10
    BY <1>0, LoadType DEF Inv, Place, TypeOK, Fine
  <2>2. st[r].pos = Last(r) => Running(r)
    BY <1>0, <2>1, AtTheEnd DEF Fine
  <2>3. CASE Running(r)
    <3> DEFINE s == [st[r] EXCEPT !.age = st[r].age + 1]
    <3>1. st[r].age + 1 \in 0..load.timeout
      BY <1>0, <1>1, <2>1, <2>3 DEF State
    <3>2. s \in State
      BY <2>1, <3>1 DEF State
    <3>3. /\ s.pos = st[r].pos /\ s.answer = st[r].answer /\ s.of = st[r].of
          /\ s.cleared = st[r].cleared /\ s.age = st[r].age + 1 /\ s.persist = st[r].persist
      BY <2>1 DEF State
    <3>4. st[r].pos = Last(r)
      BY <1>0, <2>1, <2>3, Positions DEF Running
    <3>5. Fine(r, s)
      BY <2>1, <3>3, <3>4 DEF Fine
    <3>6. Aged(r) = s
      BY <2>3
    <3> HIDE DEF s
    <3> QED
      BY <1>1, <2>3, <3>2, <3>3, <3>5, <3>6
  <2>4. CASE ~Running(r)
    BY <2>1, <2>2, <2>4
  <2> QED
    BY <2>3, <2>4
<1> HIDE DEF Aged
<1>4. st' \in [Requests -> State']
  BY <1>1, <1>3 DEF State
<1>5. Place'
  <2>1. \A r \in Requests : Fine(r, st'[r])
    BY <1>1, <1>3
  <2> QED
    BY <2>1 DEF Place, Fine, Last, Gate, Protected, KeyOf, Fingerprint, TransportOf
<1>6. Records'
  <2>1. \A k \in Keys : Owned(k, rec'[k])
    BY <1>1, ElapsedRecord
  <2> QED
    BY <2>1 DEF Records, Owned, KeyOf, Fingerprint
<1>7. Executions'
  <2>1. ASSUME NEW r \in Requests, load.timeout < load.processingTTL, Protected(r),
               st[r].pos = Last(r)
        PROVE  /\ rec'[KeyOf(r)].state = "processing"
               /\ rec'[KeyOf(r)].owner = r
               /\ rec'[KeyOf(r)].ttl + st'[r].age >= load.processingTTL
    <3> DEFINE q == rec[KeyOf(r)]
    <3>1. q.state = "processing" /\ q.owner = r /\ q.ttl + st[r].age >= load.processingTTL
      BY <2>1 DEF Inv, Executions, Held
    <3>2. KeyOf(r) \in Keys /\ load.processingTTL \in Nat
      BY <1>0, <2>1, LoadType
    <3>3. q.ttl \in Nat /\ st[r].age \in Nat
      BY <1>0, <3>2 DEF TypeOK, Record, State
    <3>4. st'[r].age = st[r].age + 1 /\ st[r].age < load.timeout
      BY <1>1, <1>3, <2>1
    <3>5. q.ttl > 1
      BY <1>0, <2>1, <3>1, <3>2, <3>3, <3>4
    <3>6. /\ rec'[KeyOf(r)].state = q.state /\ rec'[KeyOf(r)].owner = q.owner
          /\ rec'[KeyOf(r)].ttl = q.ttl - 1
      BY <1>1, <3>2, <3>5, ElapsedRecord
    <3> HIDE DEF q
    <3> QED
      BY <3>1, <3>2, <3>3, <3>4, <3>6
  <2>2. \A r \in Requests : Held(r, st'[r], rec'[KeyOf(r)])
    BY <1>1, <1>3, <2>1 DEF Held
  <2> QED
    BY <2>2 DEF Executions, Held, Last, Protected, KeyOf, TransportOf
<1> QED
  BY <1>2, <1>4, <1>5, <1>6, <1>7

-----------------------------------------------------------------------------

LEMMA InitInv == Init => Inv
<1> SUFFICES ASSUME Init PROVE Inv
  OBVIOUS
<1>1. load \in [calls : [Requests -> Call], failOpen : BOOLEAN,
                processingTTL : Nat \ {0}, timeout : Nat]
  BY PipelineAssumption DEF Init
<1>2. New \in State
  <2>1. 0 \in 0..Len(HTTPChain)
    BY DEF HTTPChain
  <2>2. 0 \in 0..load.timeout
    BY <1>1
  <2>3. "none" \in Answers
    BY DEF Answers
  <2> QED
    BY <2>1, <2>2, <2>3 DEF State, New
<1>3. NoRecord \in Record
  <2>1. (CHOOSE p \in Prints : TRUE) \in Prints
    BY PipelineAssumption
  <2> QED
    BY <2>1 DEF NoRecord, Record
<1>4. TypeOK
  BY <1>2, <1>3, PipelineAssumption DEF Init, TypeOK
<1>5. \A r \in Requests : Gate(r) \in {3, 7} /\ Last(r) \in 4..10
  BY <1>4, LoadType
<1>6. New.pos = 0 /\ New.answer = "none" /\ New.of = NoRequest /\ New.age = 0 /\ ~New.persist
  BY DEF New
<1>7. \A r \in Requests : st[r] = New
  BY DEF Init
<1>8. Place
  <2>1. ASSUME NEW r \in Requests
        PROVE  Fine(r, New)
    <3>1. 0 <= Last(r) /\ ~(0 > Gate(r)) /\ ~(0 > 0)
      BY <1>5
    <3>2. "none" \notin Telling
      BY DEF Telling
    <3> QED
      BY <3>1, <3>2, Zenon DEF Fine, New
  <2> QED
    BY <1>7, <2>1 DEF Place
<1>9. Records
  BY DEF Init, Records, Owned, NoRecord
<1>10. Executions
  BY <1>5, <1>6, <1>7 DEF Executions, Held
<1> QED
  BY <1>4, <1>8, <1>9, <1>10 DEF Inv

\* The policy and the count of faults.
LEMMA Surroundings ==
    ASSUME TypeOK, Next
    PROVE  load' \in Loads /\ granted' \subseteq Subjects /\ faults' \in 0..MaxFaults
<1>1. load' \in Loads
  BY DEF Next, TypeOK
<1>2. granted' \subseteq Subjects
  <2>1. CASE granted' = granted
    BY <2>1 DEF TypeOK
  <2>2. CASE \E s \in Subjects : ChangePolicy(s)
    BY <2>2 DEF ChangePolicy, TypeOK
  <2>3. ASSUME NEW r \in Requests, Send(r) \/ Work(r) \/ Disturb(r)
        PROVE  granted' = granted
    BY <2>3 DEF Send, Work, Disturb, IdempotencyKey, CORS, RequireJSON, Authentication, idempotencyInterceptor, idempotencyStreamInterceptor,
       authInterceptor, authStreamInterceptor, Check, RateLimit, DatabaseAuthorization,
       databaseAuthorizationInterceptor, databaseAuthorizationStreamInterceptor,
       EvaluateRoute, Bypass, idempotencyFingerprintFails, IdempotencyUnavailable,
       IdempotencyExecution, Respond, Persist, PersistFails, Recovery, recoveryInterceptor,
       recoveryStreamInterceptor, Panic, Timeout, Crash
  <2> QED
    BY <2>1, <2>2, <2>3 DEF Next, Settled, vars, Tick
<1>3. faults' \in 0..MaxFaults
  <2>1. CASE faults' = faults
    BY <2>1 DEF TypeOK
  <2>2. CASE Fault
    BY <2>2, PipelineAssumption DEF Fault, TypeOK
  <2>3. ASSUME NEW r \in Requests, Send(r) \/ Work(r) \/ Disturb(r)
        PROVE  faults' = faults \/ Fault
    <3>1. CASE Send(r)
      BY <3>1 DEF Send
    <3>2. CASE Work(r)
      BY <3>2 DEF Work, IdempotencyKey, CORS, RequireJSON, Authentication, idempotencyInterceptor,
         idempotencyStreamInterceptor, authInterceptor, authStreamInterceptor, Check, RateLimit,
         DatabaseAuthorization, databaseAuthorizationInterceptor,
         databaseAuthorizationStreamInterceptor, EvaluateRoute, Bypass,
         idempotencyFingerprintFails, IdempotencyExecution, Respond, Persist
    <3>3. CASE Disturb(r)
      BY <3>3 DEF Disturb, IdempotencyUnavailable, PersistFails, Recovery, recoveryInterceptor,
         recoveryStreamInterceptor, Panic, Timeout, Crash
    <3> QED
      BY <2>3, <3>1, <3>2, <3>3
  <2>4. ASSUME NEW s \in Subjects, ChangePolicy(s)
        PROVE  Fault
    BY <2>4 DEF ChangePolicy
  <2> QED
    BY <2>1, <2>2, <2>3, <2>4 DEF Next, Settled, vars, Tick
<1> QED
  BY <1>1, <1>2, <1>3

\* The records stay what records are.
LEMMA RecordsTyped ==
    ASSUME Inv, Next
    PROVE  rec' \in [Keys -> Record]
<1>0. UNCHANGED load
  BY DEF Next
<1>1. CASE rec' = rec
  BY <1>1 DEF Inv, TypeOK
<1>2. CASE \E r \in Requests : IdempotencyExecution(r) \/ Persist(r)
  BY <1>0, <1>2, ExecutionInv, PersistInv
<1>3. CASE Tick
  BY <1>0, <1>3, TickInv
<1> QED
  BY <1>1, <1>2, <1>3 DEF Next, Settled, vars, ChangePolicy, Send, Work, Disturb,
     IdempotencyKey, CORS, RequireJSON, Authentication, idempotencyInterceptor,
     idempotencyStreamInterceptor, authInterceptor, authStreamInterceptor, Check, RateLimit,
     DatabaseAuthorization, databaseAuthorizationInterceptor,
     databaseAuthorizationStreamInterceptor, EvaluateRoute, Bypass,
     idempotencyFingerprintFails, IdempotencyUnavailable, Respond, PersistFails, Recovery,
     recoveryInterceptor, recoveryStreamInterceptor, Panic, Timeout, Crash

LEMMA NextInv == Inv /\ [Next]_vars => Inv'
<1> SUFFICES ASSUME Inv, [Next]_vars PROVE Inv'
  OBVIOUS
<1>1. ASSUME UNCHANGED <<load, rec, st>>
      PROVE  st' \in [Requests -> State'] /\ Place' /\ Records' /\ Executions'
  BY <1>1 DEF Inv, TypeOK, State, Place, Fine, Records, Owned, Executions, Held, Last, Gate,
              Protected, KeyOf, Fingerprint, TransportOf
<1>2. CASE UNCHANGED vars
  BY <1>1, <1>2 DEF vars, Inv, TypeOK
<1>3. CASE Next
  <2>0. UNCHANGED load
    BY <1>3 DEF Next
  <2>1. ASSUME NEW r \in Requests, Work(r)
        PROVE  st' \in [Requests -> State'] /\ Place' /\ Records' /\ Executions'
    <3>1. "authorize" \in AuthorizeStages /\ "unary_authorize" \in AuthorizeStages
          /\ "stream_authorize" \in AuthorizeStages
      BY DEF AuthorizeStages
    <3>2. CASE \/ DatabaseAuthorization(r) \/ databaseAuthorizationInterceptor(r)
               \/ databaseAuthorizationStreamInterceptor(r)
      BY <2>0, <3>1, <3>2, EvaluateInv DEF DatabaseAuthorization,
         databaseAuthorizationInterceptor, databaseAuthorizationStreamInterceptor
    <3> QED
      BY <2>0, <2>1, <3>2, ChecksInv, RateLimitInv, BypassInv, EndsInv, ExecutionInv,
         RespondInv, PersistInv DEF Work
  <2>2. ASSUME NEW r \in Requests, Disturb(r)
        PROVE  st' \in [Requests -> State'] /\ Place' /\ Records' /\ Executions'
    BY <2>0, <2>2, EndsInv, PersistFailsInv DEF Disturb
  <2>3. ASSUME (\E s \in Subjects : ChangePolicy(s)) \/ Settled
        PROVE  st' \in [Requests -> State'] /\ Place' /\ Records' /\ Executions'
    BY <1>1, <2>0, <2>3 DEF ChangePolicy, Settled, vars
  <2>4. st' \in [Requests -> State'] /\ Place' /\ Records' /\ Executions'
    BY <1>3, <2>0, <2>1, <2>2, <2>3, SendInv, TickInv DEF Next
  <2> QED
    BY <1>3, <2>4, Surroundings, RecordsTyped DEF Inv, TypeOK
<1> QED
  BY <1>2, <1>3

LEMMA AlwaysInv == Spec => []Inv
BY InitInv, NextInv, PTL DEF Spec

\* The chains of NewServer: nobody executes a handler, is given a recorded
\* answer or learns that a key is in use, unless the route policy let this
\* very request through.
THEOREM ClearedBeforeReplay == Spec => []AuthorizedBeforeReplay
<1>1. Inv => AuthorizedBeforeReplay
  <2> SUFFICES ASSUME Inv, NEW r \in Requests,
                      Running(r) \/ st[r].answer \in {"ok", "failed", "conflict", "in_progress"}
               PROVE  st[r].cleared
    BY DEF AuthorizedBeforeReplay
  <2>1. TypeOK /\ Fine(r, st[r]) /\ st[r].pos <= Last(r)
    BY DEF Inv, Place, Fine
  <2>2. CASE Running(r)
    <3>1. st[r].pos = Last(r)
      BY <2>1, <2>2, Positions DEF Running
    <3>2. Gate(r) < Last(r)
      BY <2>1, LoadType
    <3> QED
      BY <2>1, <3>1, <3>2 DEF Fine
  <2>3. CASE st[r].answer \in {"ok", "failed", "conflict", "in_progress"}
    BY <2>1, <2>3 DEF Fine, Telling
  <2> QED
    BY <2>2, <2>3
<1> QED
  BY <1>1, AlwaysInv, PTL

\* Manager.Complete, Fail and the replay: a record holds the answer of the
\* request that owns it, and whoever is answered from it sent the same
\* request under the same key.
THEOREM RecordsFaithful == Spec => []RecordInvariant
<1>1. Inv => RecordInvariant
  BY DEF Inv, RecordInvariant, OwnerWritesRecord, ReplayIsFaithful, Records, Owned, Place, Fine
<1> QED
  BY <1>1, AlwaysInv, PTL

\* idempotency.processing_ttl: as long as a processing record outlives the
\* handlers, two handlers never run under one key, for any number of
\* requests, retries and faults.
THEOREM OneExecution == Spec => []OneExecutionPerKey
<1>1. Inv => OneExecutionPerKey
  <2> SUFFICES ASSUME Inv, NEW q \in Requests, NEW r \in Requests,
                      load.timeout < load.processingTTL, q # r, Protected(q), Protected(r),
                      KeyOf(q) = KeyOf(r), Running(q), Running(r)
               PROVE  FALSE
    BY DEF OneExecutionPerKey
  <2>1. TypeOK /\ st[q].pos <= Last(q) /\ st[r].pos <= Last(r)
    BY DEF Inv, Place, Fine
  <2>2. st[q].pos = Last(q) /\ st[r].pos = Last(r)
    BY <2>1, Positions DEF Running
  <2> QED
    BY <2>2 DEF Inv, Executions, Held
<1> QED
  BY <1>1, AlwaysInv, PTL

-----------------------------------------------------------------------------
(* In which tenant a handler acts (module ManagementScope), for any set of  *)
(* tenants and callers.                                                     *)
(*                                                                          *)
(* The properties speak of the answer.  What makes them inductive is what   *)
(* the check left behind for the handler: its subject is one the caller may *)
(* be checked as, and the context is marked with the subject's tenant       *)
(* exactly if a scope was checked.                                          *)

Previews == {"catalog", "codes", "decision"}

\* A request that is being served has a caller and a route.
Addressed ==
    req.pc # "idle" => req.caller \in Principals /\ req.route \in Routes

\* What the check left behind.
Checked ==
    req.pc = "checked" \/ req.answer = "done" =>
        /\ req.subject \in CheckSubjects
        /\ req.authorized = IF CheckOfRoute = "scope" THEN req.subject.tenant ELSE None

\* What the service compared.
Compared ==
    req.answer = "done" =>
        /\ req.pc = "answered"
        /\ req.acted = Target
        /\ \/ CheckOfRoute \in Previews
           \/ EnforceInteractiveTenant(req.caller, req.authorized, Target)

ScopeInv ==
    /\ ScopeTypeOK
    /\ Addressed
    /\ Checked
    /\ Compared

\* Every route has one of the five checks, and a preview hands on the tenant
\* that was resolved.
LEMMA RouteShape ==
    ASSUME NEW route \in Routes
    PROVE  /\ route.check \in {"route", "scope", "catalog", "codes", "decision"}
           /\ route.check \in Previews => route.passes = "resolved"
BY DEF Routes, PermissionRoutes, MyPermissionRoutes, RoleRoutes,
       MyRoleRoutes, RolePermissionRoutes, MyRolePermissionRoutes,
       BindingRoutes, MyBindingRoutes, DecisionRoutes, Plain,
       Scoped, Preview, Previews

\* The three branches of Subjects.
LEMMA SubjectsOfRoute ==
    CheckOfRoute = "route" => CheckSubjects = LocalAuthorizationTarget(req.caller)
BY Zenon DEF CheckSubjects

LEMMA SubjectsOfScope ==
    CheckOfRoute \in {"scope", "catalog", "codes"}
      => CheckSubjects = ScopedSubject(req.caller, req.named, req.scope)
BY Zenon DEF CheckSubjects

LEMMA SubjectsOfDecision ==
    CheckOfRoute = "decision"
      => CheckSubjects = BindDecisionToCaller(req.caller, req.named, req.asked)
BY Zenon DEF CheckSubjects

\* Whom a check is about: for a user always the user, in a tenant of the
\* user's.
LEMMA SubjectFound ==
    ASSUME ScopeInv, req.pc # "idle", NEW s \in CheckSubjects
    PROVE  /\ s \in [tenant : Tenants, type : SubjectType, principal : Principals \cup {None}]
           /\ CheckOfRoute # "decision" \/ TypeOf[req.caller] = "user" => s.principal = req.caller
           /\ TypeOf[req.caller] = "user" =>
                \/ s.tenant = Platform
                \/ s.tenant = TenantOf[req.caller] /\ HasMembership[req.caller]
<1>1. /\ req.caller \in Principals /\ req.route \in Routes
      /\ req.named \in Tenants \cup {None}
      /\ req.asked[1] \in SubjectType /\ req.asked[2] \in Principals \cup {None}
  BY DEF ScopeInv, Addressed, ScopeTypeOK, Request
<1>2. /\ Platform \in Tenants /\ None \notin Tenants
      /\ TypeOf[req.caller] \in PrincipalType
      /\ TenantOf[req.caller] \in Tenants \cup {None}
  BY <1>1, ScopeAssumption
<1>3. CASE CheckOfRoute = "route"
  BY <1>1, <1>2, <1>3, SubjectsOfRoute
     DEF LocalAuthorizationTarget, Subject, SubjectType
<1>4. CASE CheckOfRoute \in {"scope", "catalog", "codes"}
  BY <1>1, <1>2, <1>4, SubjectsOfScope DEF ScopedSubject, Subject, SubjectType
<1>5. CASE CheckOfRoute = "decision"
  BY <1>1, <1>2, <1>5, SubjectsOfDecision
     DEF BindDecisionToCaller, Subject, SubjectType
<1> QED
  BY <1>1, <1>3, <1>4, <1>5, RouteShape DEF CheckOfRoute

\* The subjects depend on nothing but what the request said.
LEMMA SubjectsKept ==
    ASSUME ScopeInv, req.pc # "idle", req'.caller = req.caller, req'.route = req.route,
           req'.named = req.named, req'.scope = req.scope, req'.asked = req.asked
    PROVE  CheckOfRoute' = CheckOfRoute /\ CheckSubjects' = CheckSubjects
<1>1. CheckOfRoute' = CheckOfRoute
  BY DEF CheckOfRoute
<1>2. CheckOfRoute \in {"route", "scope", "catalog", "codes", "decision"}
  BY RouteShape DEF ScopeInv, Addressed, CheckOfRoute
<1>3. /\ CheckOfRoute' = "route" => CheckSubjects' = LocalAuthorizationTarget(req'.caller)
      /\ CheckOfRoute' \in {"scope", "catalog", "codes"}
           => CheckSubjects' = ScopedSubject(req'.caller, req'.named, req'.scope)
      /\ CheckOfRoute' = "decision"
           => CheckSubjects' = BindDecisionToCaller(req'.caller, req'.named, req'.asked)
  BY Zenon DEF CheckSubjects
<1> QED
  BY <1>1, <1>2, <1>3, SubjectsOfRoute, SubjectsOfScope, SubjectsOfDecision

LEMMA ScopeInitInv == ScopeInit => ScopeInv
BY DEF ScopeInit, ScopeInv, ScopeTypeOK, Request, Idle, NoRoute,
       Nobody, NoneAsked, PC, Answer, SubjectType, Addressed,
       Checked, Compared

LEMMA ReceiveKeeps ==
    ASSUME ScopeInv, NEW p \in Principals, NEW route \in Routes,
           NEW named \in Tenants \cup {None}, NEW scope \in {"tenant", "platform", "unknown"},
           NEW asked \in SubjectType \X (Principals \cup {None}),
           Receive(p, route, named, scope, asked)
    PROVE  ScopeInv'
<1>1. req' = [pc |-> "received", caller |-> p, route |-> route, named |-> named,
              scope |-> scope, asked |-> asked, subject |-> Nobody,
              authorized |-> None, acted |-> None, answer |-> "none"]
  BY DEF Receive, Idle
<1>2. ScopeTypeOK'
  BY <1>1 DEF ScopeTypeOK, Request, Nobody, PC, Answer, SubjectType
<1> QED
  BY <1>1, <1>2 DEF ScopeInv, Addressed, Checked, Compared

LEMMA AllowKeeps ==
    ASSUME ScopeInv, Allow
    PROVE  ScopeInv'
<1>1. PICK s \in CheckSubjects :
          req' = [req EXCEPT !.pc = "checked", !.subject = s,
                     !.authorized = IF CheckOfRoute = "scope" THEN s.tenant ELSE None]
  BY DEF Allow
<1>2. req.pc = "received" /\ req \in Request
  BY DEF Allow, ScopeInv, ScopeTypeOK
<1>3. s \in [tenant : Tenants, type : SubjectType, principal : Principals \cup {None}]
  BY <1>2, SubjectFound
<1>4. CheckOfRoute' = CheckOfRoute /\ CheckSubjects' = CheckSubjects
  BY <1>1, <1>2, SubjectsKept DEF Request
<1>5. req' \in Request
  BY <1>1, <1>2, <1>3 DEF Request, PC
<1>6. req.answer # "done"
  BY <1>2 DEF ScopeInv, Compared
<1> QED
  BY <1>1, <1>2, <1>4, <1>5, <1>6
     DEF ScopeInv, ScopeTypeOK, Addressed, Checked, Compared, Request

\* A check that is refused and an operation that fails leave the rest as it is.
LEMMA AnswerKeeps ==
    ASSUME ScopeInv, NEW a \in Answer \ {"done"}, req.pc \in {"received", "checked"},
           req' = [req EXCEPT !.pc = "answered", !.answer = a]
    PROVE  ScopeInv'
<1>1. req' \in Request
  BY DEF Request, PC, ScopeInv, ScopeTypeOK
<1> QED
  BY <1>1 DEF ScopeInv, ScopeTypeOK, Addressed, Checked, Compared, Request

LEMMA ServeKeeps ==
    ASSUME ScopeInv, Serve
    PROVE  ScopeInv'
<1>1. req.pc = "checked" /\ req \in Request
  BY DEF Serve, ScopeInv, ScopeTypeOK
<1>2. CASE req' = [req EXCEPT !.pc = "answered", !.answer = "elsewhere"]
  BY <1>1, <1>2, AnswerKeeps DEF Answer
<1>3. ASSUME req' = [req EXCEPT !.pc = "answered", !.answer = "done", !.acted = Target],
             \/ CheckOfRoute \in Previews
             \/ EnforceInteractiveTenant(req.caller, req.authorized, Target)
      PROVE  ScopeInv'
  <2>1. Target \in Tenants \cup {None}
    BY <1>1 DEF Target, Request
  <2>2. req' \in Request
    BY <1>1, <1>3, <2>1 DEF Request, PC, Answer
  <2>3. CheckOfRoute' = CheckOfRoute /\ CheckSubjects' = CheckSubjects
    BY <1>1, <1>3, SubjectsKept DEF Request
  <2>4. Target' = Target
    BY <1>1, <1>3 DEF Target, Request
  <2>5. Checked'
    BY <1>1, <1>3, <2>3 DEF Checked, ScopeInv, Request
  <2>6. Compared'
    BY <1>1, <1>3, <2>3, <2>4 DEF Compared, Request, EnforceInteractiveTenant
  <2> QED
    BY <1>1, <1>3, <2>2, <2>5, <2>6 DEF ScopeInv, ScopeTypeOK, Addressed, Request
<1> QED
  BY <1>2, <1>3 DEF Serve, Previews

LEMMA ScopeStep == ScopeInv /\ [ScopeNext]_req => ScopeInv'
<1> SUFFICES ASSUME ScopeInv, [ScopeNext]_req
             PROVE  ScopeInv'
  OBVIOUS
<1>1. ASSUME NEW p \in Principals, NEW route \in Routes, NEW named \in Tenants \cup {None},
             NEW scope \in {"tenant", "platform", "unknown"},
             Receive(p, route, named, scope, NoneAsked)
      PROVE  ScopeInv'
  <2>1. NoneAsked \in SubjectType \X (Principals \cup {None})
    BY DEF NoneAsked, SubjectType
  <2> QED
    BY <1>1, <2>1, ReceiveKeeps
<1>2. ASSUME NEW p \in Principals, NEW route \in Routes, NEW named \in Tenants \cup {None},
             NEW asked \in SubjectType \X Principals,
             Receive(p, route, named, "tenant", asked)
      PROVE  ScopeInv'
  <2>1. asked \in SubjectType \X (Principals \cup {None})
    OBVIOUS
  <2> QED
    BY <1>2, <2>1, ReceiveKeeps
<1>3. ASSUME NEW named \in Tenants \cup {None}, NEW asked \in SubjectType \X Principals,
             NextCheck(named, asked)
      PROVE  ScopeInv'
  <2>1. req \in Request /\ req.pc = "checked" /\ req.answer # "done"
    BY <1>3 DEF NextCheck, ScopeInv, ScopeTypeOK, Compared
  <2>2. asked \in SubjectType \X (Principals \cup {None})
    OBVIOUS
  <2>3. req' \in Request
    BY <1>3, <2>1, <2>2 DEF NextCheck, Request, PC
  <2> QED
    BY <1>3, <2>1, <2>3 DEF NextCheck, Request, ScopeInv, ScopeTypeOK, Addressed,
                            Checked, Compared
<1>4. CASE Deny
  BY <1>4, AnswerKeeps DEF Deny, Answer
<1>5. CASE Reject
  BY <1>5, AnswerKeeps DEF Reject, Answer
<1>6. CASE Return
  <2>1. ScopeInit'
    BY <1>6 DEF Return, ScopeInit
  <2> QED
    BY <2>1, ScopeInitInv, PTL
<1>7. CASE UNCHANGED req
  <2>1. CheckOfRoute' = CheckOfRoute /\ CheckSubjects' = CheckSubjects
    BY <1>7, SubjectsKept, Zenon DEF CheckOfRoute, CheckSubjects
  <2> QED
    BY <1>7, <2>1 DEF ScopeInv, ScopeTypeOK, Addressed, Checked, Compared, Target,
                      CheckOfRoute, EnforceInteractiveTenant
<1>8. CASE \E p \in Principals, route \in Routes, named \in Tenants \cup {None} :
              \/ route.check = "route" /\ Receive(p, route, named, "tenant", NoneAsked)
              \/ /\ route.check \in {"scope", "catalog", "codes"}
                 /\ \E scope \in {"tenant", "platform", "unknown"} :
                       Receive(p, route, named, scope, NoneAsked)
              \/ /\ route.check = "decision"
                 /\ \E asked \in SubjectType \X Principals :
                       Receive(p, route, named, "tenant", asked)
  BY <1>1, <1>2, <1>8
<1> QED
  BY <1>3, <1>4, <1>5, <1>6, <1>7, <1>8, AllowKeeps, ServeKeeps DEF ScopeNext

\* A management operation runs in the tenant in which the caller's own
\* permission was checked, whatever the request names.
THEOREM ActsInCheckedTenant == ScopeSpec => []ActsWhereChecked
<1>1. ScopeInv => ActsWhereChecked
  <2> SUFFICES ASSUME ScopeInv, req.answer = "done", CheckOfRoute \notin {"decision"}
               PROVE  /\ req.subject.principal = req.caller
                      /\ TypeOf[req.caller] = "user" => req.acted = req.subject.tenant
    BY DEF ActsWhereChecked
  <2>1. /\ req.pc = "answered" /\ req.caller \in Principals /\ req.route \in Routes
        /\ req.subject \in CheckSubjects /\ req.acted = Target
    BY DEF ScopeInv, Addressed, Checked, Compared
  <2>2. req.subject.principal = req.caller /\ req.subject.tenant \in Tenants
    BY <2>1, SubjectFound
  <2>3. ASSUME TypeOf[req.caller] = "user"
        PROVE  req.acted = req.subject.tenant
    <3>1. CASE CheckOfRoute \in Previews
      BY <2>1, <3>1, RouteShape DEF Target, CheckOfRoute
    <3>2. CASE CheckOfRoute = "scope"
      BY <2>1, <2>2, <3>2, ScopeAssumption
         DEF ScopeInv, Checked, Compared, Previews, EnforceInteractiveTenant
    <3>3. CASE CheckOfRoute = "route"
      <4>1. req.subject \in LocalAuthorizationTarget(req.caller)
        BY <2>1, <3>3, SubjectsOfRoute
      <4>2. req.authorized = None
        BY <3>3 DEF ScopeInv, Checked
      <4>3. EnforceInteractiveTenant(req.caller, None, req.acted)
        BY <2>1, <3>3, <4>2 DEF ScopeInv, Compared, Previews
      <4> QED
        BY <2>3, <4>1, <4>3 DEF EnforceInteractiveTenant, LocalAuthorizationTarget,
                                Subject
    <3> QED
      BY <2>1, <3>1, <3>2, <3>3, RouteShape DEF CheckOfRoute, Previews
  <2> QED
    BY <2>2, <2>3
<1> QED
  BY <1>1, ScopeInitInv, ScopeStep, PTL DEF ScopeSpec

\* Through a user account nobody reaches a tenant or a subject that is not the
\* user's.
THEOREM UsersKeepToThemselves == ScopeSpec => []ScopeInvariant
<1>1. ScopeInv => ScopeInvariant
  <2> SUFFICES ASSUME ScopeInv
               PROVE  UsersStayInTheirTenants /\ UsersPreviewThemselves
    BY DEF ScopeInv, ScopeInvariant
  <2>1. UsersPreviewThemselves
    BY SubjectFound DEF UsersPreviewThemselves, ScopeInv, Checked
  <2>2. ASSUME req.answer = "done", TypeOf[req.caller] = "user"
        PROVE  \/ req.acted = Platform
               \/ req.acted = TenantOf[req.caller] /\ HasMembership[req.caller]
    <3>1. /\ req.pc = "answered" /\ req.caller \in Principals /\ req.route \in Routes
          /\ req.subject \in CheckSubjects /\ req.acted = Target
      BY <2>2 DEF ScopeInv, Addressed, Checked, Compared
    <3>2. /\ req.subject.tenant \in Tenants
          /\ \/ req.subject.tenant = Platform
             \/ req.subject.tenant = TenantOf[req.caller] /\ HasMembership[req.caller]
      BY <2>2, <3>1, SubjectFound
    <3>3. CASE CheckOfRoute \in Previews
      BY <3>1, <3>2, <3>3, RouteShape DEF Target, CheckOfRoute
    <3>4. CASE CheckOfRoute = "scope"
      BY <2>2, <3>1, <3>2, <3>4, ScopeAssumption
         DEF ScopeInv, Checked, Compared, Previews, EnforceInteractiveTenant
    <3>5. CASE CheckOfRoute = "route"
      <4>1. req.authorized = None
        BY <2>2, <3>5 DEF ScopeInv, Checked
      <4> QED
        BY <2>2, <3>1, <3>5, <4>1 DEF ScopeInv, Compared, Previews, EnforceInteractiveTenant
    <3> QED
      BY <3>1, <3>3, <3>4, <3>5, RouteShape DEF CheckOfRoute, Previews
  <2> QED
    BY <2>1, <2>2 DEF UsersStayInTheirTenants
<1> QED
  BY <1>1, ScopeInitInv, ScopeStep, PTL DEF ScopeSpec

=============================================================================
