----------------------------- MODULE OutboundCall -----------------------------
(***************************************************************************)
(* A named outbound client: internal/outbound/http.go or                   *)
(* internal/grpcclient/client.go, one circuit breaker around one retry     *)
(* loop.  Several callers share the client, so their attempts, the         *)
(* breaker's generations, late arrivals at the upstream and the end of a   *)
(* caller's context interleave.  Both clients have the same control; what  *)
(* differs is which results the breaker leaves out and whether the         *)
(* idempotency key travels with the request.                               *)
(*                                                                         *)
(* The result of an attempt or of a call:                                  *)
(*   ok         an answer that is not retried (any other HTTP status, OK)  *)
(*   other      a gRPC status that is neither retried nor counted          *)
(*   busy       429/502/503/504, or Unavailable/ResourceExhausted          *)
(*   error      a transport error, or the client's timeout for one attempt *)
(*   deadline   the caller's context passed its deadline                   *)
(*   lapsed     the same, noticed by the back-off wait                     *)
(*   cancelled  the caller gave up                                         *)
(*   invalid    the path is not relative; nothing was sent                 *)
(*   rejected   the breaker refused the call; nothing was sent             *)
(***************************************************************************)
EXTENDS Naturals, FiniteSets

CONSTANTS Calls,             \* calls of Do, or of a generated gRPC method
          Mixes,             \* the kinds of the calls that share a client
          MaxAttempts, FailureThreshold

\* A call of a method that is not idempotent, of one that is (or is configured
\* as safe), one whose context holds an idempotency key, and one with an
\* absolute path.
Kinds == {"post", "get", "keyed", "absolute"}

\* validateClientPolicy refuses any other policy at startup.
validateClientPolicy == MaxAttempts \in 1..5 /\ FailureThreshold \in Nat \ {0}

ASSUME ClientAssumption ==
  /\ validateClientPolicy
  /\ Mixes \subseteq [Calls -> Kinds]

VARIABLES client,    \* "http" or "grpc"
          kind,      \* per call: its kind
          call,      \* per call: where it is, attempts sent, its result,
                     \*   and whether the breaker still waits for that result
          wire,      \* attempts on their way to the upstream
          seen,      \* attempts the upstream received
          applied,   \* how often the call took effect there
          breaker,   \* [state, failures]: gobreaker
          charged,   \* history: failed calls since the breaker closed
          healthy    \* the upstream is up and its callers are patient

clientVars == <<client, kind, call, wire, seen, applied, breaker, charged, healthy>>

Results == {"none", "ok", "other", "busy", "error", "deadline", "lapsed",
            "cancelled", "invalid", "rejected"}

-----------------------------------------------------------------------------
(* The two clients' tables.                                                *)

\* GET, HEAD, OPTIONS, PUT and DELETE, or a key in the context.
retryableMethod(c) == kind[c] \in {"get", "keyed"}
\* A configured method pattern, or a key in the context.
retryGRPCMethod(c) == kind[c] \in {"get", "keyed"}

maxAttempts(c) ==
  IF IF client = "http" THEN retryableMethod(c) ELSE retryGRPCMethod(c)
  THEN MaxAttempts ELSE 1

\* A transport error reaches the gRPC interceptor as Unavailable.
Retryable == {"busy", "error"}

\* Seeded fault: a successful probe is left out.
ExcludesSuccess == {"cancelled", "ok"}

\* NewHTTPClient's IsExcluded, and breakerInterceptor's: a context error of
\* the back-off wait has no gRPC status, so its code is Unknown.
HTTPExcluded == {"cancelled"}
GRPCExcluded == {"other", "cancelled", "lapsed"}
IsExcluded == IF client = "http" THEN HTTPExcluded ELSE GRPCExcluded

\* Whether the breaker skips a gRPC call that succeeded is the library's
\* choice: it may show IsExcluded the nil error, whose code is OK.
MaybeExcluded == IF client = "http" THEN {} ELSE {"ok"}

\* Seeded fault: the key stays behind.
DropsKey == FALSE

\* metadataInterceptor copies the key, once for all attempts; doWithRetry sets
\* Content-Type and Authorization only, and the callers of http_test.go pass
\* no header of their own.
HTTPForwardsKey == FALSE
GRPCForwardsKey == TRUE
CarriesKey(c) ==
  kind[c] = "keyed" /\ IF client = "http" THEN HTTPForwardsKey ELSE GRPCForwardsKey

-----------------------------------------------------------------------------
(* gobreaker.  A disabled breaker behaves as one that is never tripped.     *)

Pending(c) == call[c].pc \in {"send", "flight", "backoff"}

Admits ==
  \/ breaker.state = "closed"
  \/ breaker.state = "half" /\ ~ \E c \in Calls : call[c].current /\ Pending(c)

\* A new generation: results of calls of the old one are ignored.
NewGeneration(calls, state) ==
  /\ breaker' = [state |-> state, failures |-> 0]
  /\ call' = [c \in Calls |-> [calls[c] EXCEPT !.current = FALSE]]

ReadyToTrip(failures) == failures >= FailureThreshold

OnFailure(calls) ==
  IF breaker.state = "half" \/ ReadyToTrip(breaker.failures + 1)
  THEN NewGeneration(calls, "open")
  ELSE /\ breaker' = [breaker EXCEPT !.failures = @ + 1]
       /\ call' = calls

OnSuccess(calls) ==
  IF breaker.state = "half" THEN NewGeneration(calls, "closed")
  ELSE breaker' = [breaker EXCEPT !.failures = 0] /\ call' = calls

\* What the breaker may hold against the upstream: not a caller that gave
\* up, not a refusal of its own, and the attempts of one call only once.
UpstreamFailures == {"busy", "error", "deadline", "lapsed", "invalid"}

\* History: the calls that failed, since the breaker closed or was made.
Charge(c, r) ==
  charged' = IF breaker.state = "half" THEN 0
             ELSE IF /\ call[c].current /\ r \in UpstreamFailures
                     /\ charged < FailureThreshold
             THEN charged + 1 ELSE charged

\* afterRequest: c returns r to its caller and reports it to the breaker.
\* A retryable final status is reported as a failure (statusError), and the
\* response still goes to the caller.
execute(c, r) ==
  LET calls == [call EXCEPT ![c].pc = "returned", ![c].result = r]
  IN  /\ \/ /\ ~call[c].current \/ r \in IsExcluded \cup MaybeExcluded
            /\ call' = calls /\ UNCHANGED breaker
         \/ /\ call[c].current /\ r = "ok"
            /\ OnSuccess(calls)
         \/ /\ call[c].current /\ r \notin IsExcluded \cup {"ok"}
            /\ OnFailure(calls)
      /\ Charge(c, r)

-----------------------------------------------------------------------------
Idle == [pc |-> "idle", attempt |-> 0, result |-> "none", current |-> FALSE]

ClientInit ==
  /\ client \in {"http", "grpc"} /\ kind \in Mixes
  /\ client = "grpc" => \A c \in Calls : kind[c] # "absolute"
  /\ call = [c \in Calls |-> Idle]
  /\ wire = [c \in Calls |-> {}]
  /\ seen = [c \in Calls |-> {}]
  /\ applied = [c \in Calls |-> 0]
  /\ breaker = [state |-> "closed", failures |-> 0]
  /\ charged = 0 /\ healthy = FALSE

\* beforeRequest lets the call into its retry loop.
Enter(c) ==
  /\ call[c].pc = "idle" /\ Admits
  /\ call' = [call EXCEPT ![c].pc = "send", ![c].current = TRUE]
  /\ UNCHANGED <<wire, seen, applied, breaker, charged, healthy>>

\* ErrOpenState, or ErrTooManyRequests beside a probe.
Reject(c) ==
  /\ call[c].pc = "idle" /\ ~Admits
  /\ call' = [call EXCEPT ![c].pc = "returned", ![c].result = "rejected"]
  /\ UNCHANGED <<wire, seen, applied, breaker, charged, healthy>>

\* A path that is not relative is refused inside the breaker.
BadPath(c) ==
  /\ call[c].pc = "send" /\ kind[c] = "absolute"
  /\ execute(c, "invalid")
  /\ UNCHANGED <<wire, seen, applied, healthy>>

Send(c) ==
  /\ call[c].pc = "send" /\ kind[c] # "absolute"
  /\ call' = [call EXCEPT ![c].pc = "flight", ![c].attempt = @ + 1]
  /\ wire' = [wire EXCEPT ![c] = @ \cup {call[c].attempt + 1}]
  /\ UNCHANGED <<seen, applied, breaker, charged, healthy>>

\* The upstream receives an attempt, perhaps after the client gave it up,
\* and acts on it or turns it away.  It recognises a key it has seen.
Arrive(c, k) ==
  /\ k \in wire[c]
  /\ wire' = [wire EXCEPT ![c] = @ \ {k}]
  /\ seen' = [seen EXCEPT ![c] = @ \cup {k}]
  /\ \/ applied' = [applied EXCEPT ![c] =
                      IF CarriesKey(c) /\ @ > 0 THEN @ ELSE @ + 1]
     \/ ~healthy /\ UNCHANGED applied
  /\ UNCHANGED <<call, breaker, charged, healthy>>

\* Seeded fault: the breaker sees every attempt.
doWithRetryOutside(c, r) ==
  IF r \in Retryable /\ call[c].attempt < maxAttempts(c)
  THEN OnFailure([call EXCEPT ![c].pc = "backoff"]) /\ UNCHANGED charged
  ELSE execute(c, r)

\* The body of the loop: a retryable result with attempts left is followed
\* by a back-off, any other ends the call.
doWithRetry(c, r) ==
  IF r \in Retryable /\ call[c].attempt < maxAttempts(c)
  THEN /\ call' = [call EXCEPT ![c].pc = "backoff"]
       /\ UNCHANGED <<breaker, charged>>
  ELSE execute(c, r)

Answers ==
  IF healthy THEN {"ok"}
  ELSE {"ok", "busy"} \cup (IF client = "grpc" THEN {"other"} ELSE {})

\* A response to the attempt in flight.
Reply(c) ==
  /\ call[c].pc = "flight" /\ call[c].attempt \in seen[c]
  /\ \E r \in Answers : doWithRetry(c, r)
  /\ UNCHANGED <<wire, seen, applied, healthy>>

\* The attempt failed in transport, or the client's timeout for it passed.
TransportError(c) ==
  /\ call[c].pc = "flight" /\ ~healthy
  /\ doWithRetry(c, "error")
  /\ UNCHANGED <<wire, seen, applied, healthy>>

waitBackoff(c) ==
  /\ call[c].pc = "backoff"
  /\ call' = [call EXCEPT ![c].pc = "send"]
  /\ UNCHANGED <<wire, seen, applied, breaker, charged, healthy>>

\* The caller's context ends while an attempt is made or awaited; HTTP
\* notices it in the back-off that follows and returns the same error.
ContextDone(c) ==
  /\ call[c].pc \in {"send", "flight"} /\ ~healthy
  /\ \E r \in {"deadline", "cancelled"} : execute(c, r)
  /\ UNCHANGED <<wire, seen, applied, healthy>>

\* The context ends during the back-off: the wait returns ctx.Err().
waitRetry(c) ==
  /\ call[c].pc = "backoff" /\ ~healthy
  /\ \E r \in {"lapsed", "cancelled"} : execute(c, r)
  /\ UNCHANGED <<wire, seen, applied, healthy>>

\* OpenTimeout passes: the next call is a probe.
OpenTimeout ==
  /\ breaker.state = "open"
  /\ NewGeneration(call, "half")
  /\ UNCHANGED <<wire, seen, applied, charged, healthy>>

UpstreamRecovers ==
  /\ ~healthy /\ healthy' = TRUE
  /\ UNCHANGED <<call, wire, seen, applied, breaker, charged>>

\* The caller makes another call of the kind.
CallAgain(c) ==
  /\ call[c].pc = "returned"
  /\ call' = [call EXCEPT ![c] = Idle]
  /\ wire' = [wire EXCEPT ![c] = {}]
  /\ seen' = [seen EXCEPT ![c] = {}]
  /\ applied' = [applied EXCEPT ![c] = 0]
  /\ UNCHANGED <<breaker, charged, healthy>>

Step(c) ==
  \/ Enter(c) \/ Reject(c) \/ BadPath(c) \/ Send(c) \/ Reply(c)
  \/ TransportError(c) \/ waitBackoff(c) \/ ContextDone(c) \/ waitRetry(c)
  \/ \E k \in 1..MaxAttempts : Arrive(c, k)

Progress(c) == (Step(c) \/ CallAgain(c)) /\ UNCHANGED <<client, kind>>
Environment == (OpenTimeout \/ UpstreamRecovers) /\ UNCHANGED <<client, kind>>

ClientNext == (\E c \in Calls : Progress(c)) \/ Environment

ClientSpec == ClientInit /\ [][ClientNext]_clientVars

\* A sent attempt is answered or times out (http.Client.Timeout, and
\* timeoutInterceptor's deadline), a back-off ends, callers keep calling, the
\* breaker's OpenTimeout passes and the upstream recovers.
FairClientSpec ==
  /\ ClientSpec
  /\ \A c \in Calls : WF_clientVars(Progress(c))
  /\ WF_clientVars(Environment)

-----------------------------------------------------------------------------
\* Every variable keeps to its type; the breaker's count stays below the
\* threshold that trips it.
ClientTypeOK ==
  /\ client \in {"http", "grpc"} /\ kind \in Mixes
  /\ call \in [Calls -> [pc : {"idle", "send", "flight", "backoff", "returned"},
                         attempt : 0..MaxAttempts, result : Results,
                         current : BOOLEAN]]
  /\ wire \in [Calls -> SUBSET (1..MaxAttempts)]
  /\ seen \in [Calls -> SUBSET (1..MaxAttempts)]
  /\ applied \in [Calls -> 0..MaxAttempts]
  /\ breaker \in [state : {"closed", "open", "half"},
                  failures : 0..(FailureThreshold - 1)]
  /\ charged \in 0..FailureThreshold /\ healthy \in BOOLEAN

\* However retries, timeouts and late arrivals fall, a call of a method that
\* is not idempotent takes effect at most once: it is sent once, or the
\* upstream can tell the repetition by its key (retryableMethod,
\* retryGRPCMethod, metadataInterceptor).  Not so a keyed call of the HTTP
\* client, which is repeated and leaves its key behind.
EffectOnce ==
  \A c \in Calls :
    kind[c] # "get" /\ ~(client = "http" /\ kind[c] = "keyed") => applied[c] <= 1

\* A closed breaker opens only after as many failed calls as the threshold
\* says: attempts of one call, cancellations, its own refusals and results of
\* calls it admitted before it last opened never add up to a trip (IsExcluded,
\* Execute around doWithRetry).
TripIsEarned ==
  [][breaker.state = "closed" /\ breaker'.state = "open"
       => charged' >= FailureThreshold]_clientVars

\* Every call returns, whatever the upstream and the breaker do.
EveryCallReturns ==
  \A c \in Calls : [](call[c].pc # "idle" => <>(call[c].pc = "returned"))

\* Once the upstream is well again the breaker of an HTTP client closes,
\* whatever calls of earlier generations are still about.  A caller that goes
\* on to use an absolute path is excepted: its calls count as failures of the
\* upstream, and as probes they open the breaker again.  (The breaker of a
\* gRPC client would stay half open if the library showed IsExcluded the nil
\* error of a success: nothing but a success closes it.)
BreakerRecovers ==
  client = "http" /\ (\A c \in Calls : kind[c] # "absolute")
    => (healthy ~> breaker.state = "closed")

\* Retries and late arrivals: the breaker counts within its threshold, and what
\* must not be done twice is done once.
CallInvariant ==
  /\ ClientTypeOK
  /\ EffectOnce

\* Whatever the order of timeouts, refusals and probes, callers get their
\* answers and the breaker comes back.
CallLiveness ==
  /\ EveryCallReturns
  /\ BreakerRecovers

=============================================================================
