-------------------------- MODULE RequestHandler --------------------------
(***************************************************************************)
(* One request in the handler that Proxy.buildEndpoint returns             *)
(* (proxy/proxy.go): the retry loop around the middleware chain, the       *)
(* authentication middlewares (jwt, rbac) and the circuit breaker of that  *)
(* chain, client.RoundTrip at its end with the request's node filters      *)
(* (client/client.go, middleware/request.go), and the delivery of the      *)
(* answer. The global middlewares wrap those of the endpoint, so jwt and   *)
(* rbac run before the circuit breaker.                                    *)
(*                                                                         *)
(* The handler is sequential; around it the request's context expires and  *)
(* discovery, checks and other requests change which nodes are healthy.    *)
(* The two sre breakers are external: Allow may say either. A status       *)
(* stands for all the retry conditions read of a response.                 *)
(***************************************************************************)
EXTENDS Naturals, Sequences

CONSTANTS
    Node,        \* nodes of the endpoint's backends
    BackupNode,  \* nodes of the circuit breaker's backup service
    Attempts,    \* retryStrategy.attempts
    Statuses,    \* what an upstream may answer
    BreakStatus, \* what the breaker's static response data answers
    RetryOn      \* sets of statuses: the possible retry conditions

\* calcAttempts: an unset or zero retry.attempts counts as one.
ASSUME AttemptsAssumption == Attempts \in Nat \ {0}

ASSUME NodesAssumption == Node \cap BackupNode = {}

AllNodes == Node \cup BackupNode

VARIABLES
    conditions,  \* retryStrategy.conditions: a status is judged retryable
    onBreak,     \* the breaker's action: "response" or "backup"
    pc,          \* where the handler is
    i,           \* the retry loop's counter
    inner,       \* client.RoundTrip's own counter, attempt
    body,        \* what is left to read of req.Body: "full" or "drained"
    pool,        \* the nodes of the client RoundTrip is called on
    backends,    \* reqOpts.Backends
    sent,        \* for every backend, the body it was sent
    doneCalls,   \* for every backend, how often its selector's done ran
    lastErr,     \* RoundTrip's lastErr
    lastDone,    \* RoundTrip's lastDone: an index of backends, or 0
    doneFunc,    \* reqOpts.DoneFunc: an index of backends, or 0
    err,         \* the handler's err
    resp,        \* the handler's resp
    expired,     \* ctx.Err() # nil
    healthy,     \* the nodes the health filters let through
    ran,         \* history: attempts that ran the chain
    steady       \* history: nodes healthy all the time so far

confVars == <<conditions, onBreak>>
loopVars == <<i, ran>>
tripVars == <<inner, pool, lastErr, lastDone>>
callVars == <<backends, sent, doneCalls, doneFunc>>
envVars  == <<expired, healthy, steady>>
vars == <<conditions, onBreak, pc, i, inner, body, pool, backends, sent, doneCalls, lastErr,
          lastDone, doneFunc, err, resp, expired, healthy, ran, steady>>

----------------------------------------------------------------------------
(* Errors: a kratos error is its code and reason, and Is compares the two. *)

NoErr == [code |-> 0, reason |-> "none"]

CtxErr      == [code |-> 0, reason |-> "context"]     \* not kratos errors
DoErr       == [code |-> 0, reason |-> "transport"]
ReadErr     == [code |-> 0, reason |-> "body"]
NoAvailable == [code |-> 503, reason |-> "no_available_node"]

NotAuthN            == [code |-> 401, reason |-> "JWT_AUTHN_REQUIRED"]
ErrPermissionDenied == [code |-> 403, reason |-> "PERMISSION_DENIED"]

\* What jwt.Middleware and ParseJwt return.
JwtErrors ==
    [code : {401}, reason : {"MISSING_AUTH_TOKEN", "TOKEN_EXPIRED", "TOKEN_PARSE_FAILED",
                             "INVALID_TOKEN_CLAIMS"}]

\* What rbac.Middleware returns: no user id, a route the role may not use,
\* roles or policy that could not be read.
PermissionErrors == {ErrPermissionDenied, [code |-> 403, reason |-> "FORBIDDEN_ROUTE"]}
RbacErrors == PermissionErrors \cup {[code |-> 500, reason |-> "AUTH_CHECK_FAILED"]}

Errors ==
    {NoErr, CtxErr, DoErr, ReadErr, NoAvailable, NotAuthN} \cup JwtErrors \cup RbacErrors

Is(e, target) == e.code = target.code /\ e.reason = target.reason

\* A response remembers the attempt it answers and the upstream call it came
\* from; call 0 is a response the circuit breaker made up itself.
NoResp == [status |-> 0, try |-> 0, call |-> 0]

Response(status, call) == [status |-> status, try |-> ran, call |-> call]

----------------------------------------------------------------------------
Init ==
    /\ conditions \in RetryOn
    /\ onBreak \in {"response", "backup"}
    /\ pc = "read"
    /\ i = 0
    /\ inner = 0
    /\ body = "full"
    /\ pool = Node
    /\ backends = <<>>
    /\ sent = <<>>
    /\ doneCalls = <<>>
    /\ lastErr = NoErr
    /\ lastDone = 0
    /\ doneFunc = 0
    /\ err = NoErr
    /\ resp = NoResp
    /\ expired = FALSE
    /\ healthy \in SUBSET AllNodes
    /\ ran = 0
    /\ steady = healthy

\* io.ReadAll(req.Body): without the whole body there is no attempt.
ReadBody ==
    /\ pc = "read"
    /\ \/ pc' = "loop" /\ UNCHANGED err
       \/ pc' = "errored" /\ err' = ReadErr
    /\ UNCHANGED <<confVars, loopVars, body, tripVars, callVars, resp, envVars>>

----------------------------------------------------------------------------
(* The head of the retry loop *)

\* Bug: ctx.Err() is assigned to err before the retry is asked for.
StopRetryingCtxFirst ==
    /\ pc = "loop"
    /\ i > 0
    /\ err' = IF i < Attempts THEN NoErr ELSE err
    /\ pc' = "finish"
    /\ UNCHANGED <<confVars, loopVars, body, tripVars, callVars, resp, envVars>>

\* Out of attempts, or a retry is switched off (retryFeature) or denied
\* (retryBreaker): break with the last attempt's err and resp.
StopRetrying ==
    /\ pc = "loop"
    /\ i > 0
    /\ pc' = "finish"
    /\ UNCHANGED <<confVars, loopVars, body, tripVars, callVars, err, resp, envVars>>

CtxIsDone ==
    /\ pc = "loop"
    /\ i < Attempts
    /\ expired
    /\ err' = CtxErr
    /\ pc' = "finish"
    /\ UNCHANGED <<confVars, loopVars, body, tripVars, callVars, resp, envVars>>

\* Bug: attempts counts the retries, not the tries.
BeginAttemptOneMore ==
    /\ pc = "loop"
    /\ i <= Attempts
    /\ ~expired
    /\ err' = NoErr
    /\ body' = "full"
    /\ ran' = ran + 1
    /\ pc' = "auth"
    /\ UNCHANGED <<confVars, i, tripVars, callVars, resp, envVars>>

\* Bug: the buffered body is wrapped once, not once per attempt.
BeginAttemptOneReader ==
    /\ pc = "loop"
    /\ i < Attempts
    /\ ~expired
    /\ err' = NoErr
    /\ ran' = ran + 1
    /\ pc' = "auth"
    /\ UNCHANGED <<confVars, i, body, tripVars, callVars, resp, envVars>>

\* err = ctx.Err() is nil, a fresh reader over the buffered body, a clone of
\* the request, and into the middleware chain.
BeginAttempt ==
    /\ pc = "loop"
    /\ i < Attempts
    /\ ~expired
    /\ err' = NoErr
    /\ body' = "full"
    /\ ran' = ran + 1
    /\ pc' = "auth"
    /\ UNCHANGED <<confVars, i, tripVars, callVars, resp, envVars>>

----------------------------------------------------------------------------
(* The middleware chain; Returns* end tripper.RoundTrip. *)

ReturnsError(e) ==
    /\ err' = e
    /\ resp' = NoResp
    /\ pc' = "judge"

ReturnsResponse(r) ==
    /\ err' = NoErr
    /\ resp' = r
    /\ pc' = "judge"

\* jwt, then rbac. Tokens expire and policies are reloaded between attempts,
\* so every attempt may be judged differently.
AuthMiddlewares ==
    /\ pc = "auth"
    /\ \/ pc' = "breaker" /\ UNCHANGED <<err, resp>>
       \/ \E e \in JwtErrors \cup RbacErrors : ReturnsError(e)
    /\ UNCHANGED <<confVars, loopVars, body, tripVars, callVars, envVars>>

\* client.RoundTrip is entered on the client with the given nodes.
EnterRoundTrip(nodes) ==
    /\ pool' = nodes
    /\ inner' = 0
    /\ lastErr' = NoErr
    /\ lastDone' = 0
    /\ pc' = "trip"
    /\ UNCHANGED <<err, resp>>

\* breaker.Allow: on to the endpoint's client, or to the on-break handler.
CircuitBreaker ==
    /\ pc = "breaker"
    /\ \/ EnterRoundTrip(Node)
       \/ onBreak = "backup" /\ EnterRoundTrip(BackupNode)
       \/ onBreak = "response" /\ ReturnsResponse(Response(BreakStatus, 0)) /\ UNCHANGED tripVars
    /\ UNCHANGED <<confVars, loopVars, body, callVars, envVars>>

----------------------------------------------------------------------------
(* client.RoundTrip *)

\* Bug: "之前是 3".
DefaultMaxRetriesThree == 3

\* defaultMaxRetries: nothing calls WithMaxRetries.
DefaultMaxRetries == 1

Called == {backends[k] : k \in DOMAIN backends}

\* Bug: the retry filter is dropped.
CandidatesHealthy == healthy \cap pool

\* The health filter, then the request's retry filter: nodes not called yet,
\* unless that leaves none.
Candidates ==
    LET live == healthy \cap pool
    IN  IF live \ Called = {} THEN live ELSE live \ Called

\* selector.Select picks a candidate, and the request goes out to it.
SelectNode ==
    /\ pc = "trip"
    /\ inner < DefaultMaxRetries
    /\ \E n \in Candidates : backends' = Append(backends, n)
    /\ sent' = Append(sent, body)
    /\ body' = "drained"
    /\ doneCalls' = Append(doneCalls, 0)
    /\ lastDone' = Len(backends) + 1
    /\ pc' = "upstream"
    /\ UNCHANGED <<confVars, loopVars, inner, pool, lastErr, doneFunc, err, resp, envVars>>

SelectFails ==
    /\ pc = "trip"
    /\ inner < DefaultMaxRetries
    /\ Candidates = {}
    /\ lastErr' = NoAvailable
    /\ inner' = inner + 1
    /\ UNCHANGED <<confVars, pc, loopVars, body, pool, lastDone, callVars, err, resp, envVars>>

\* The call fails, by the upstream's doing or by a timeout: done, and
\* MarkUnhealthy, which may be the failure too many.
UpstreamFails ==
    /\ pc = "upstream"
    /\ doneCalls' = [doneCalls EXCEPT ![lastDone] = @ + 1]
    /\ healthy' \in {healthy, healthy \ {backends[lastDone]}}
    /\ steady' = steady \cap healthy'
    /\ lastErr' = DoErr
    /\ inner' = inner + 1
    /\ pc' = "trip"
    /\ UNCHANGED <<confVars, loopVars, body, pool, lastDone, backends, sent, doneFunc, err, resp,
                   expired>>

\* The call is answered; its done is left to the handler.
UpstreamAnswers ==
    /\ pc = "upstream"
    /\ ~expired
    /\ doneFunc' = lastDone
    /\ \E s \in Statuses : ReturnsResponse(Response(s, lastDone))
    /\ UNCHANGED <<confVars, loopVars, body, tripVars, backends, sent, doneCalls, envVars>>

\* Bug: the chain's results are shadowed in the loop, the handler's own err
\* and resp keep what they were.
RoundTripFailsShadowed ==
    /\ pc = "trip"
    /\ inner >= DefaultMaxRetries
    /\ pc' = "loop"
    /\ i' = i + 1
    /\ UNCHANGED <<confVars, ran, body, tripVars, callVars, err, resp, envVars>>

\* Every inner try failed: lastDone runs once more, lastErr is returned.
RoundTripFails ==
    /\ pc = "trip"
    /\ inner >= DefaultMaxRetries
    /\ doneCalls' = IF lastDone = 0 THEN doneCalls ELSE [doneCalls EXCEPT ![lastDone] = @ + 1]
    /\ ReturnsError(lastErr)
    /\ UNCHANGED <<confVars, loopVars, body, tripVars, backends, sent, doneFunc, envVars>>

----------------------------------------------------------------------------
(* After tripper.RoundTrip *)

\* judgeRetryRequired: with no conditions nothing is retried.
JudgeRetryRequired(r) == r.status \in conditions

\* Errors that end the request at once.
EndsTheRequest(e) == Is(e, NotAuthN) \/ Is(e, ErrPermissionDenied)

JudgeAttempt ==
    /\ pc = "judge"
    /\ \/ /\ err # NoErr /\ EndsTheRequest(err)
          /\ pc' = "finish" /\ UNCHANGED i
       \/ /\ err # NoErr /\ ~EndsTheRequest(err)
          /\ pc' = "loop" /\ i' = i + 1
       \/ /\ err = NoErr /\ ~JudgeRetryRequired(resp)
          /\ pc' = "finish" /\ UNCHANGED i
       \/ /\ err = NoErr /\ JudgeRetryRequired(resp)
          /\ pc' = "loop" /\ i' = i + 1
    /\ UNCHANGED <<confVars, ran, body, tripVars, callVars, err, resp, envVars>>

\* writeError, or the header of the response.
Finish ==
    /\ pc = "finish"
    /\ pc' = IF err # NoErr THEN "errored" ELSE "copy"
    /\ UNCHANGED <<confVars, loopVars, body, tripVars, callVars, err, resp, envVars>>

\* Bug: a failed copy returns without calling DoneFunc.
CopyBodyForgets ==
    /\ pc = "copy"
    /\ \E calls \in {0, 1} :
          doneCalls' = IF doneFunc = 0 THEN doneCalls
                       ELSE [doneCalls EXCEPT ![doneFunc] = @ + calls]
    /\ pc' = "done"
    /\ UNCHANGED <<confVars, loopVars, body, tripVars, backends, sent, doneFunc, err, resp, envVars>>

\* doCopyBody: DoneFunc runs whether or not the copy succeeds.
CopyBody ==
    /\ pc = "copy"
    /\ doneCalls' = IF doneFunc = 0 THEN doneCalls ELSE [doneCalls EXCEPT ![doneFunc] = @ + 1]
    /\ pc' = "done"
    /\ UNCHANGED <<confVars, loopVars, body, tripVars, backends, sent, doneFunc, err, resp, envVars>>

----------------------------------------------------------------------------
(* Around the handler *)

Handling == pc \notin {"errored", "done"}

\* The endpoint's timeout passes or the client goes away.
ContextExpires ==
    /\ Handling
    /\ ~expired
    /\ expired' = TRUE
    /\ UNCHANGED <<confVars, pc, loopVars, body, tripVars, callVars, err, resp, healthy, steady>>

\* HealthChecker.tla and ServiceWatcher.tla say which changes there are.
HealthChanges(latest) ==
    /\ Handling
    /\ healthy' = latest
    /\ steady' = steady \cap latest
    /\ UNCHANGED <<confVars, pc, loopVars, body, tripVars, callVars, err, resp, expired>>

\* The answer or the error is written.
Answered == ~Handling /\ UNCHANGED vars

Next ==
    \/ ReadBody
    \/ StopRetrying
    \/ CtxIsDone
    \/ BeginAttempt
    \/ AuthMiddlewares
    \/ CircuitBreaker
    \/ SelectNode
    \/ SelectFails
    \/ UpstreamFails
    \/ UpstreamAnswers
    \/ RoundTripFails
    \/ JudgeAttempt
    \/ Finish
    \/ CopyBody
    \/ ContextExpires
    \/ \E latest \in SUBSET AllNodes : HealthChanges(latest)
    \/ Answered

Spec == Init /\ [][Next]_vars

----------------------------------------------------------------------------
(* Properties *)

PlaceType ==
    /\ pc \in {"read", "loop", "auth", "breaker", "trip", "upstream", "judge", "finish", "copy",
               "done", "errored"}
    /\ i \in 0..Attempts
    /\ ran \in 0..Attempts
    /\ inner \in 0..DefaultMaxRetries
    /\ body \in {"full", "drained"}

CallsType ==
    /\ pool \in {Node, BackupNode}
    /\ backends \in Seq(AllNodes)
    /\ sent \in Seq({"full", "drained"})
    /\ doneCalls \in Seq(Nat)
    /\ Len(sent) = Len(backends)
    /\ Len(doneCalls) = Len(backends)
    /\ lastDone \in 0..Len(backends)
    /\ doneFunc \in 0..Len(backends)
    /\ pc = "upstream" => lastDone # 0

ResultType ==
    /\ lastErr \in Errors
    /\ err \in Errors
    /\ resp \in [status : Statuses \cup {0, BreakStatus}, try : 0..Attempts, call : Nat]
    /\ expired \in BOOLEAN
    /\ healthy \in SUBSET AllNodes
    /\ steady \in SUBSET AllNodes

\* The type of the state: the locals of the handler and of RoundTrip, and the
\* RequestOptions they share.
TypeOK == PlaceType /\ CallsType /\ ResultType

\* Whatever ends the loop, the response the handler goes on to dereference is
\* there: a denied or switched-off retry, an expired context and the last
\* attempt's failure all leave an err, or the response of an attempt.
AnswerHasResponse ==
    pc \in {"copy", "done"} => resp # NoResp

\* "浏览器一个 POST 最多打上游 6 次": one request reaches upstreams at most
\* retry.attempts times, since RoundTrip multiplies nothing.
UpstreamCallsBounded == Len(backends) <= Attempts

\* The body of a POST was buffered for this: every upstream call carries all
\* of it, the first as well as the retries.
EveryCallCarriesTheBody ==
    \A k \in DOMAIN sent : sent[k] = "full"

\* The client gets the outcome of the last attempt that ran; an answer that
\* was judged worth a retry is not delivered over the error of that retry.
AnswerIsTheLastAttempts ==
    pc \in {"copy", "done"} => resp.try = ran

PoolOf(n) == IF n \in Node THEN Node ELSE BackupNode

\* A node is called a second time only when there was no choice: all nodes of
\* its service that were healthy throughout the request had been called.
RepeatsOnlyWithoutChoice ==
    \A k \in DOMAIN backends :
        (\E j \in 1..(k - 1) : backends[j] = backends[k]) =>
            steady \cap PoolOf(backends[k]) \subseteq {backends[m] : m \in 1..(k - 1)}

\* The selector hears of the end of the call that is delivered exactly once,
\* whether or not the copy to the client succeeds: its load statistics count
\* calls in flight.
DeliveredCallReleasedOnce ==
    pc = "done" /\ resp.call # 0 => doneCalls[resp.call] = 1

\* "JWT 错误和权限错误不重试，直接返回": after an error of jwt, or rbac's
\* denial, no further attempt begins.
AuthErrorsEndTheRequest ==
    [][(err \in JwtErrors \cup PermissionErrors) => pc' # "auth"]_vars
=============================================================================
