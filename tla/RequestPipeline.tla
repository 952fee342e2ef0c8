--------------------------- MODULE RequestPipeline ---------------------------
(***************************************************************************)
(* A request on its way to a handler: the middleware of                    *)
(* internal/transport/http/middleware.go in the order of NewServer, the    *)
(* interceptors of internal/transport/grpc/server.go in theirs, and the    *)
(* execution under an idempotency key between them and the handler.        *)
(*                                                                         *)
(* A chain is the sequence of the stages that can refuse a request.        *)
(* Clients send a request again when its answer leaves the outcome open;   *)
(* two requests with one key are a retry, and a retry may be sent while    *)
(* the first one is still running.                                         *)
(*                                                                         *)
(* Records of idempotency keys live in Redis; a record expires when its    *)
(* time to live, counted in ticks, has run out.                            *)
(***************************************************************************)
EXTENDS Naturals, Sequences

CONSTANTS
    Requests,
    NoRequest,
    Keys,           \* idempotency keys
    NoKey,
    Prints,         \* fingerprints: subject, method, path and body of a request
    Subjects,       \* who sends requests
    ResultTTL,      \* idempotency.result_ttl and failure_ttl
    Loads,          \* configurations, each with the requests sent to it
    MaxFaults       \* bound: outages, refusals by load and crashes in a behaviour

\* "body": larger than http.max_body_bytes, found out when it is read.
Flaws == {"none", "key", "origin", "content", "credentials", "body"}

\* transport: HTTP, or a "unary" or "stream" gRPC call.
Call == [key : Keys \cup {NoKey}, print : Prints, subject : Subjects,
         transport : {"http", "unary", "stream"}, flaw : Flaws]

\* failOpen: rate_limit.fail_open; processingTTL: idempotency.processing_ttl;
\* timeout: http.request_timeout, or the deadline of a gRPC client, the ticks
\* a handler runs at most.
ASSUME PipelineAssumption ==
    /\ NoRequest \notin Requests
    /\ NoKey \notin Keys
    /\ Prints # {}
    /\ Loads \subseteq [calls : [Requests -> Call], failOpen : BOOLEAN,
                        processingTTL : Nat \ {0}, timeout : Nat]
    /\ ResultTTL \in Nat \ {0}
    /\ MaxFaults \in Nat

VARIABLES
    load,       \* the configuration and the requests
    rec,        \* rec[k]: the record of key k in Redis
    st,         \* st[r]: where request r is
    granted,    \* subjects the route policy lets through
    faults      \* faults so far

vars == <<load, rec, st, granted, faults>>

KeyOf(r) == load.calls[r].key
Fingerprint(r) == load.calls[r].print
SubjectOf(r) == load.calls[r].subject
TransportOf(r) == load.calls[r].transport
FlawOf(r) == load.calls[r].flaw

\* Seeded fault: the execution under the key surrounds the authorization.
ReplayFirstChain ==
    <<"key", "origin", "content", "ip", "api", "authenticate", "idempotency",
      "authorize", "user", "handler">>

\* router.Use and the api group.
HTTPChain ==
    <<"key", "origin", "content", "ip", "api", "authenticate", "authorize",
      "user", "idempotency", "handler">>

\* ChainUnaryInterceptor.
UnaryChain ==
    <<"unary_key", "unary_authenticate", "unary_authorize", "idempotency", "handler">>

\* ChainStreamInterceptor: a stream is not executed under its key.
StreamChain == <<"stream_key", "stream_authenticate", "stream_authorize", "handler">>

Chain(r) ==
    CASE TransportOf(r) = "http" -> HTTPChain
      [] TransportOf(r) = "unary" -> UnaryChain
      [] TransportOf(r) = "stream" -> StreamChain

\* Requests executed under an idempotency key.
Protected(r) == KeyOf(r) # NoKey /\ TransportOf(r) # "stream"

Answers == {"none", "invalid", "unsupported", "unauthorized", "forbidden",
            "limited", "unavailable", "conflict", "in_progress", "internal",
            "timeout", "lost", "ok", "failed"}

\* Answers that leave open whether and how the request was executed.
Open == {"none", "limited", "unavailable", "in_progress", "timeout", "lost"}

\* pos: the stage the request has reached, 0 when its client holds it;
\* answer, of: the answer and the request whose execution it reports;
\* cleared: it passed the route policy; age: ticks since its handler started;
\* persist: the response still has to be stored.
State == [pos : 0..Len(HTTPChain), answer : Answers, of : Requests \cup {NoRequest},
          cleared : BOOLEAN, age : 0..load.timeout, persist : BOOLEAN]

New == [pos |-> 0, answer |-> "none", of |-> NoRequest, cleared |-> FALSE,
        age |-> 0, persist |-> FALSE]

Record == [state : {"none", "processing", "completed", "failed"},
           owner : Requests \cup {NoRequest}, print : Prints,
           ttl : Nat, of : Requests \cup {NoRequest}]

NoRecord == [state |-> "none", owner |-> NoRequest, ttl |-> 0, of |-> NoRequest,
             print |-> CHOOSE p \in Prints : TRUE]

At(r, stage) == st[r].pos > 0 /\ ~st[r].persist /\ Chain(r)[st[r].pos] = stage
Running(r) == At(r, "handler")
Fault == faults < MaxFaults /\ faults' = faults + 1

Pass(r) == st' = [st EXCEPT ![r].pos = @ + 1]
Refuse(r, answer) == st' = [st EXCEPT ![r].pos = 0, ![r].answer = answer, ![r].age = 0]

-----------------------------------------------------------------------------
(* The client.                                                             *)

Send(r) ==
    /\ st[r].pos = 0
    /\ ~st[r].persist
    /\ st[r].answer \in Open
    /\ st' = [st EXCEPT ![r] = [New EXCEPT !.pos = 1]]
    /\ UNCHANGED <<rec, granted, faults>>

-----------------------------------------------------------------------------
(* The stages before the handler.                                          *)

Check(r, stage, flaw, answer) ==
    /\ At(r, stage)
    /\ IF FlawOf(r) = flaw THEN Refuse(r, answer) ELSE Pass(r)
    /\ UNCHANGED <<rec, granted, faults>>

IdempotencyKey(r) == Check(r, "key", "key", "invalid")
CORS(r) == Check(r, "origin", "origin", "forbidden")
RequireJSON(r) == Check(r, "content", "content", "unsupported")
Authentication(r) == Check(r, "authenticate", "credentials", "unauthorized")

idempotencyInterceptor(r) == Check(r, "unary_key", "key", "invalid")
idempotencyStreamInterceptor(r) == Check(r, "stream_key", "key", "invalid")
authInterceptor(r) == Check(r, "unary_authenticate", "credentials", "unauthorized")
authStreamInterceptor(r) == Check(r, "stream_authenticate", "credentials", "unauthorized")

\* Three limits; the limiter lets the request through, finds the limit
\* reached, or does not answer.
RateLimit(r) ==
    /\ At(r, "ip") \/ At(r, "api") \/ At(r, "user")
    /\ \/ Pass(r) /\ UNCHANGED faults
       \/ Fault /\ Refuse(r, "limited")
       \/ Fault /\ IF load.failOpen THEN Pass(r) ELSE Refuse(r, "unavailable")
    /\ UNCHANGED <<rec, granted>>

\* The route policy decides for the caller as it is now, or no decision can
\* be had.
EvaluateRoute(r, stage) ==
    /\ At(r, stage)
    /\ \/ /\ SubjectOf(r) \in granted
          /\ st' = [st EXCEPT ![r].pos = @ + 1, ![r].cleared = TRUE]
          /\ UNCHANGED faults
       \/ /\ SubjectOf(r) \notin granted
          /\ Refuse(r, "forbidden")
          /\ UNCHANGED faults
       \/ /\ Fault
          /\ Refuse(r, "unavailable")
    /\ UNCHANGED <<rec, granted>>

DatabaseAuthorization(r) == EvaluateRoute(r, "authorize")
databaseAuthorizationInterceptor(r) == EvaluateRoute(r, "unary_authorize")
databaseAuthorizationStreamInterceptor(r) == EvaluateRoute(r, "stream_authorize")

-----------------------------------------------------------------------------
(* Execution under an idempotency key.                                     *)

\* Seeded fault: a key that is being processed is acquired again.
BeginAgain(k, r) ==
    CASE rec[k].state \in {"none", "processing"} -> "acquired"
      [] rec[k].print # Fingerprint(r) -> "conflict"
      [] OTHER -> rec[k].state

\* What Manager.Begin answers.
Begin(k, r) ==
    CASE rec[k].state = "none" -> "acquired"
      [] rec[k].state # "none" /\ rec[k].print # Fingerprint(r) -> "conflict"
      [] OTHER -> rec[k].state

\* No key, or a method or path outside idempotency.http_paths and
\* grpc_methods: the handler runs unprotected.
Bypass(r) ==
    /\ At(r, "idempotency")
    /\ KeyOf(r) = NoKey
    /\ Pass(r)
    /\ UNCHANGED <<rec, granted, faults>>

\* The body cannot be read for the fingerprint.
idempotencyFingerprintFails(r) ==
    /\ At(r, "idempotency")
    /\ KeyOf(r) # NoKey
    /\ FlawOf(r) = "body"
    /\ Refuse(r, "invalid")
    /\ UNCHANGED <<rec, granted, faults>>

IdempotencyUnavailable(r) ==
    /\ At(r, "idempotency")
    /\ KeyOf(r) # NoKey
    /\ FlawOf(r) # "body"
    /\ Fault
    /\ Refuse(r, "unavailable")
    /\ UNCHANGED <<rec, granted>>

IdempotencyExecution(r) ==
    LET k == KeyOf(r)
    IN  /\ At(r, "idempotency")
        /\ k # NoKey
        /\ FlawOf(r) # "body"
        /\ \/ /\ Begin(k, r) = "acquired"
              /\ rec' = [rec EXCEPT ![k] = [state |-> "processing", owner |-> r,
                            print |-> Fingerprint(r), ttl |-> load.processingTTL, of |-> NoRequest]]
              /\ Pass(r)
           \/ /\ Begin(k, r) = "conflict"
              /\ Refuse(r, "conflict")
              /\ UNCHANGED rec
           \/ /\ Begin(k, r) = "processing"
              /\ Refuse(r, "in_progress")
              /\ UNCHANGED rec
           \/ /\ Begin(k, r) \in {"completed", "failed"}
              /\ st' = [st EXCEPT ![r].pos = 0, ![r].of = rec[k].of,
                            ![r].answer = IF Begin(k, r) = "completed" THEN "ok" ELSE "failed"]
              /\ UNCHANGED rec
        /\ UNCHANGED <<granted, faults>>

\* The handler answers, well or with a status of 400 or more; the client has
\* the response before it is stored.
Respond(r, answer) ==
    /\ Running(r)
    /\ answer \in {"ok", "failed"}
    /\ st' = [st EXCEPT ![r].pos = 0, ![r].answer = answer, ![r].of = r, ![r].age = 0,
                        ![r].persist = Protected(r)]
    /\ UNCHANGED <<rec, granted, faults>>

\* The handler panics and the panic is recovered further out than the code
\* that stores the response, which does not run.
Panic(r, transport) ==
    /\ Running(r)
    /\ TransportOf(r) = transport
    /\ Fault
    /\ Refuse(r, "internal")
    /\ UNCHANGED <<rec, granted>>

Recovery(r) == Panic(r, "http")
recoveryInterceptor(r) == Panic(r, "unary")
recoveryStreamInterceptor(r) == Panic(r, "stream")

\* The deadline passes and the handler has written nothing: there is no
\* response to store, and Timeout answers.
Timeout(r) ==
    /\ Running(r)
    /\ TransportOf(r) = "http"
    /\ st[r].age = load.timeout
    /\ Fault
    /\ Refuse(r, "timeout")
    /\ UNCHANGED <<rec, granted>>

\* Seeded fault: Complete and Fail do not compare the owner.
PersistAnyway(r) ==
    LET k == KeyOf(r)
    IN  /\ st[r].persist
        /\ st' = [st EXCEPT ![r].persist = FALSE]
        /\ rec' = IF rec[k].state = "processing"
                  THEN [rec EXCEPT ![k].ttl = ResultTTL, ![k].of = r,
                          ![k].state = IF st[r].answer = "ok" THEN "completed" ELSE "failed"]
                  ELSE rec
        /\ UNCHANGED <<granted, faults>>

\* Complete or Fail, under a context of its own: the owner of the record
\* stores its answer; a worker whose record expired gets an error, which is
\* only logged.
Persist(r) ==
    LET k == KeyOf(r)
    IN  /\ st[r].persist
        /\ st' = [st EXCEPT ![r].persist = FALSE]
        /\ rec' = IF rec[k].state = "processing" /\ rec[k].owner = r
                  THEN [rec EXCEPT ![k].ttl = ResultTTL, ![k].of = r,
                          ![k].state = IF st[r].answer = "ok" THEN "completed" ELSE "failed"]
                  ELSE rec
        /\ UNCHANGED <<granted, faults>>

\* Redis does not store the answer, or the process ends before it does.
PersistFails(r) ==
    /\ st[r].persist
    /\ Fault
    /\ st' = [st EXCEPT ![r].persist = FALSE]
    /\ UNCHANGED <<rec, granted>>

-----------------------------------------------------------------------------
(* The surroundings.                                                       *)

\* The process dies with the request in it.
Crash(r) ==
    /\ st[r].pos > 0
    /\ Fault
    /\ Refuse(r, "lost")
    /\ UNCHANGED <<rec, granted>>

\* The policy of the route changes for a subject.
ChangePolicy(s) ==
    /\ Fault
    /\ granted' = IF s \in granted THEN granted \ {s} ELSE granted \cup {s}
    /\ UNCHANGED <<rec, st>>

\* Seeded fault: a record that is being processed never expires.
ElapsedForever(k) ==
    IF rec[k].state = "processing" THEN rec[k]
    ELSE IF rec[k].ttl <= 1 THEN NoRecord ELSE [rec[k] EXCEPT !.ttl = @ - 1]

\* Redis removes a record whose time to live is over.
Elapsed(k) == IF rec[k].ttl <= 1 THEN NoRecord ELSE [rec[k] EXCEPT !.ttl = @ - 1]

\* Time passes; a handler does not outlive the deadline of its context, and a
\* tick during which nothing counts is left out.
Tick ==
    /\ \A r \in Requests : Running(r) => st[r].age < load.timeout
    /\ \/ \E k \in Keys : rec[k].state # "none"
       \/ \E r \in Requests : Running(r)
    /\ rec' = [k \in Keys |-> Elapsed(k)]
    /\ st' = [r \in Requests |-> IF Running(r) THEN [st[r] EXCEPT !.age = @ + 1] ELSE st[r]]
    /\ UNCHANGED <<granted, faults>>

-----------------------------------------------------------------------------

Init ==
    /\ load \in Loads
    /\ rec = [k \in Keys |-> NoRecord]
    /\ st = [r \in Requests |-> New]
    /\ granted \in SUBSET Subjects
    /\ faults = 0

Work(r) ==
    \/ IdempotencyKey(r)
    \/ CORS(r)
    \/ RequireJSON(r)
    \/ RateLimit(r)
    \/ Authentication(r)
    \/ DatabaseAuthorization(r)
    \/ idempotencyInterceptor(r)
    \/ authInterceptor(r)
    \/ databaseAuthorizationInterceptor(r)
    \/ idempotencyStreamInterceptor(r)
    \/ authStreamInterceptor(r)
    \/ databaseAuthorizationStreamInterceptor(r)
    \/ Bypass(r)
    \/ idempotencyFingerprintFails(r)
    \/ IdempotencyExecution(r)
    \/ \E answer \in Answers : Respond(r, answer)
    \/ Persist(r)

Disturb(r) ==
    \/ IdempotencyUnavailable(r)
    \/ Recovery(r)
    \/ recoveryInterceptor(r)
    \/ recoveryStreamInterceptor(r)
    \/ Timeout(r)
    \/ PersistFails(r)
    \/ Crash(r)

\* Every request has its final answer and every record has expired.
Settled ==
    /\ \A r \in Requests : st[r].pos = 0 /\ ~st[r].persist /\ st[r].answer \notin Open
    /\ \A k \in Keys : rec[k] = NoRecord
    /\ UNCHANGED vars

Next ==
    /\ \/ \E r \in Requests : Send(r) \/ Work(r) \/ Disturb(r)
       \/ \E s \in Subjects : ChangePolicy(s)
       \/ Tick
       \/ Settled
    /\ UNCHANGED load

Spec == Init /\ [][Next]_vars

\* A request's goroutine runs until it returns, clients repeat what was left
\* open, and time passes.
Fairness ==
    /\ \A r \in Requests : WF_vars((Work(r) \/ Send(r)) /\ UNCHANGED load)
    /\ WF_vars(Tick /\ UNCHANGED load)

FairSpec == Spec /\ Fairness

-----------------------------------------------------------------------------
(* Properties.                                                             *)

\* Every variable has its type.
TypeOK ==
    /\ load \in Loads
    /\ rec \in [Keys -> Record]
    /\ st \in [Requests -> State]
    /\ granted \subseteq Subjects
    /\ faults \in 0..MaxFaults

\* The order of the chains: nobody executes a handler, is given the recorded
\* answer of an earlier execution, or learns that a key is in use, unless the
\* route policy let this very request through, whatever it allowed the first
\* request with the key.
AuthorizedBeforeReplay ==
    \A r \in Requests :
        Running(r) \/ st[r].answer \in {"ok", "failed", "conflict", "in_progress"}
            => st[r].cleared

\* IdempotencyExecution: an answer reports the execution of a request with
\* the same key and the same fingerprint (subject, path and body), its own or
\* an earlier one, never that of another request.
ReplayIsFaithful ==
    \A r \in Requests : st[r].of # NoRequest /\ st[r].of # r =>
        KeyOf(st[r].of) = KeyOf(r) /\ Fingerprint(st[r].of) = Fingerprint(r)

\* "An expired worker cannot overwrite a newer owner": what a record says is
\* the answer of the execution that owns the record.
OwnerWritesRecord ==
    \A k \in Keys : rec[k].state \in {"completed", "failed"} => rec[k].of = rec[k].owner

\* As long as a processing record outlives the handlers, two handlers never
\* run under one key at the same time, retries, crashes, panics and expired
\* records notwithstanding.
OneExecutionPerKey ==
    \A q, r \in Requests :
        /\ load.timeout < load.processingTTL
        /\ q # r
        /\ Protected(q) /\ Protected(r)
        /\ KeyOf(q) = KeyOf(r)
        => ~(Running(q) /\ Running(r))

\* A key is never blocked for good: a client that repeats its request while
\* the answer leaves the outcome open gets a final answer, although a crash
\* or a panic leaves the key "processing".
EveryRequestAnswered ==
    \A r \in Requests : <>(st[r].answer \notin Open)

\* IdempotencyExecution: a record holds the answer of its owner, and who is
\* answered from it sent the same request.
RecordInvariant ==
    /\ TypeOK
    /\ OwnerWritesRecord
    /\ ReplayIsFaithful

=============================================================================
