--------------------------- MODULE MiddlewareChain ---------------------------
(***************************************************************************)
(* One request on its way through the gateway: the endpoint that the       *)
(* merged configuration gives it, the chain of middlewares built for that  *)
(* endpoint, every attempt's way in and out of the chain, and the answer.  *)
(* It composes PathMatcher, Rewrite, Cors, RetryPolicy, PriorityMerge and  *)
(* ErrorResponse.                                                          *)
(*                                                                         *)
(* Middlewares change the request in place, so one value of req is shared  *)
(* by the whole chain; stack[i] is what the i-th middleware was given.     *)
(* The selection of nodes, the retries inside the client and the circuit   *)
(* breaker are in RequestHandler; here the upstream answers as it likes.   *)
(***************************************************************************)
EXTENDS Rewrite, RetryPolicy, PriorityMerge, ErrorResponse

CONSTANTS
    Scenarios,   \* records: main, files, global, client
    Upstream     \* the outcomes client.RoundTrip may have

\* The shapes of what comes from outside: options are parsed messages, a
\* request is net/http's, and RoundTrip returns a response or an error.
IsMiddleware(m) ==
    /\ m.rules \in Seq(Rules)
    /\ m.rewrite.stripPrefix \in Seq(STRING) /\ m.rewrite.pathRewrite \in Seq(STRING)
    /\ DOMAIN m = {"name", "required", "badOptions", "rules", "cors", "rewrite"}
\* Registered as well, but without a model: no configuration here names them.
Unmodelled == {"tracing", "circuitbreaker"}
AreMiddlewares(ms) ==
    /\ ms \in Seq(Range(ms))
    /\ \A i \in DOMAIN ms : IsMiddleware(ms[i]) /\ ms[i].name \notin Unmodelled
AreEndpoints(es) ==
    es \in Seq(Range(es)) /\ \A i \in DOMAIN es : AreMiddlewares(es[i].middlewares)
IsRequest(r) ==
    /\ DOMAIN r = {"route", "method", "path", "hdr", "remote", "host", "frames"}
    /\ r.path \in Seq(STRING)
IsResponse(o) ==
    o.kind = "resp" /\ DOMAIN o = {"kind", "status", "hdr", "bare", "trailer", "data"}

ASSUME ScenariosAssumption ==
    \A s \in Scenarios :
       /\ IsRequest(s.client)
       /\ AreEndpoints(s.main) /\ AreMiddlewares(s.global)
       /\ s.files \in Seq(Range(s.files))
       /\ \A i \in DOMAIN s.files : AreEndpoints(s.files[i].endpoints)

\* The codes of kratos errors are those of HTTP errors; 0 is one not set.
IsError(e) == e.kind = "kratos" => e.code \in Int /\ (e.code <= 0 \/ e.code \in 400..599)

ASSUME UpstreamAssumption ==
    \A o \in Upstream : IsResponse(o) \/ (o.kind = "err" /\ IsError(o.err))

VARIABLES
    cfg,         \* the configuration: main endpoints, priority files, global middlewares
    client,      \* the request of the client, with the headers the handler added
    endpoints,   \* the endpoints after the priority merge
    endpoint,    \* the endpoint that serves the request
    chain,       \* its middlewares, the outermost first
    phase,       \* load, route, attempt, in, out, deliver, done
    attempt,     \* attempts that were judged
    req, pos, stack,  \* the request of this attempt, where it is, what each layer saw
    out,         \* what RoundTrip returned so far: an error or a response
    sent,        \* history: what the upstream was given
    permits,     \* bbr: requests counted as in flight
    panicked,    \* a middleware panicked
    answer       \* what was written to the client

vars == <<cfg, client, endpoints, endpoint, chain, phase, attempt, req, pos,
          stack, out, sent, permits, panicked, answer>>

route    == <<cfg, endpoints, endpoint, chain>>
progress == <<attempt, req, pos, stack, sent>>

Err(e) == [kind |-> "err", err |-> e]
Resp(status, hdr) ==
    [kind |-> "resp", status |-> status, hdr |-> hdr, bare |-> FALSE,
     trailer |-> NoHeader, data |-> "full"]
None == [kind |-> "none"]

AnyOrigin == <<"*">>

-----------------------------------------------------------------------------
(* The registry and the chain *)

Registered == {"cors", "jwt", "rbac", "ip", "bbr", "rewrite", "router_filter",
               "transcoder", "logging"}

\* The factories fail on options they cannot read and on rules that do not
\* compile.
CreateFails(m) == m.badOptions \/ \E i \in DOMAIN m.rules : ~Compiles(m.rules[i])

EmptyMiddleware(m) == [m EXCEPT !.name = "empty"]
Create(m) == IF CreateFails(m) THEN EmptyMiddleware(m) ELSE m

\* An unknown name is skipped; a required middleware that cannot be created
\* fails the endpoint, any other becomes the empty one.
ChainFails(ms) ==
    \E i \in DOMAIN ms : ms[i].name \in Registered /\ ms[i].required /\ CreateFails(ms[i])

Wrap(m, next) == IF m.name \in Registered THEN <<Create(m)>> \o next ELSE next

\* Bug: the chain is built from the first middleware to the last.
BuildMiddlewareReversed(ms, next) ==
    LET built[n \in 0..Len(ms)] == IF n = 0 THEN next ELSE Wrap(ms[n], built[n - 1])
    IN  built[Len(ms)]

\* From the last middleware to the first, each is wrapped around the rest.
BuildMiddleware(ms, next) ==
    LET built[n \in 0..Len(ms)] ==
            IF n = 0 THEN next ELSE Wrap(ms[Len(ms) + 1 - n], built[n - 1])
    IN  built[Len(ms)]

\* buildEndpoint: the middlewares of the endpoint lie inside the global ones.
Builds(e) == ~ChainFails(e.middlewares) /\ ~ChainFails(cfg.global) /\ ~StrategyFails(e)
ChainOf(e) == BuildMiddleware(cfg.global, BuildMiddleware(e.middlewares, <<>>))

-----------------------------------------------------------------------------
(* Loading and routing *)

Init ==
    /\ \E s \in Scenarios :
          /\ cfg = [main |-> s.main, files |-> s.files, global |-> s.global]
          /\ client = s.client
    /\ endpoints = <<>> /\ endpoint = None /\ chain = <<>>
    /\ phase = "load"
    /\ attempt = 0 /\ req = None /\ pos = 0 /\ stack = <<>> /\ sent = <<>>
    /\ out = None
    /\ permits = 0 /\ panicked = FALSE
    /\ answer = None

Load ==
    /\ phase = "load"
    /\ endpoints' = MergePriorityConfig(cfg.main, cfg.files)
    /\ phase' = "route"
    /\ UNCHANGED <<cfg, client, endpoint, chain, out, permits, panicked, answer, progress>>

\* Endpoints that cannot be built are left out of the router.  OPTIONS is
\* registered along with every other method.
Routes(i)  == Builds(endpoints[i]) /\ endpoints[i].key[2] = client.route
Accepts(i) == endpoints[i].key[1] \in {"", "*", client.method} \/ client.method = "OPTIONS"
Serves(i)  == Routes(i) /\ Accepts(i)

Finish(a) == answer' = a /\ phase' = "done"

\* notFoundHandler and methodNotAllowedHandler
Refuse ==
    /\ phase = "route"
    /\ \A i \in DOMAIN endpoints : ~Serves(i)
    /\ Finish(Write(client.hdr,
                    IF \E i \in DOMAIN endpoints : Routes(i) THEN ErrMethodNotAllowed
                    ELSE ErrRouteNotFound, FALSE))
    /\ UNCHANGED <<route, client, out, permits, panicked, progress>>

\* setXFFHeader: the address of the peer goes to the end of the list.
SetXFFHeader(c) ==
    [c EXCEPT !.hdr = SetKey(@, "X-Forwarded-For",
        (IF "X-Forwarded-For" \in DOMAIN c.hdr THEN c.hdr["X-Forwarded-For"][1] ELSE <<>>)
        \o <<c.remote>>)]

Serve ==
    /\ phase = "route"
    /\ \E i \in DOMAIN endpoints :
          /\ Serves(i) /\ \A j \in 1..(i - 1) : ~Serves(j)
          /\ endpoint' = endpoints[i]
    /\ chain' = ChainOf(endpoint')
    /\ client' = SetXFFHeader(client)
    /\ phase' = "attempt"
    /\ UNCHANGED <<cfg, endpoints, out, permits, panicked, answer, progress>>

-----------------------------------------------------------------------------
(* The attempts *)

strategy == PrepareRetryStrategy(endpoint)

\* Bug: every attempt works on the same request.
StartAttemptUncloned ==
    /\ phase = "attempt"
    /\ req' = IF attempt = 0 THEN client ELSE req
    /\ pos' = 1 /\ stack' = <<>>
    /\ phase' = "in"
    /\ UNCHANGED <<route, client, attempt, sent, out, permits, panicked, answer>>

\* Every attempt works on a clone of the request.
StartAttempt ==
    /\ phase = "attempt"
    /\ req' = client
    /\ pos' = 1 /\ stack' = <<>>
    /\ phase' = "in"
    /\ UNCHANGED <<route, client, attempt, sent, out, permits, panicked, answer>>

\* The retry feature is off or its breaker refuses: the last outcome stands.
StopRetrying ==
    /\ phase = "attempt" /\ attempt > 0
    /\ phase' = "deliver"
    /\ UNCHANGED <<route, client, out, permits, panicked, answer, progress>>

ContextDone ==
    /\ phase = "attempt"
    /\ \E why \in {"canceled", "deadline"} : out' = Err(PlainError(why))
    /\ phase' = "deliver"
    /\ UNCHANGED <<route, client, permits, panicked, answer, progress>>

\* jwt.NotAuthN and ErrPermissionDenied end the loop; jwt returns other errors.
EndsTheRequest(e) == e \in {ErrPermissionDenied, KratosError(401, "JWT_AUTHN_REQUIRED", TRUE)}

JudgeAttempt ==
    /\ phase = "out" /\ pos = 0
    /\ LET settled == IF out.kind = "err" THEN EndsTheRequest(out.err)
                      ELSE ~JudgeConditons(strategy.conditions, out, FALSE)
       IN  phase' = IF settled \/ attempt + 1 >= strategy.attempts
                    THEN "deliver" ELSE "attempt"
    /\ attempt' = attempt + 1
    /\ UNCHANGED <<route, client, req, pos, stack, sent, out, permits, panicked, answer>>

Deliver ==
    /\ phase = "deliver"
    /\ Finish(IF out.kind = "err"
              THEN Write(client.hdr, out.err, endpoint.protocol = "GRPC")
              ELSE out)
    /\ UNCHANGED <<route, client, out, permits, panicked, progress>>

-----------------------------------------------------------------------------
(* The way in.  A middleware passes the request on or answers it. *)

here == chain[pos]
At(name) == phase = "in" /\ pos <= Len(chain) /\ here.name = name

PassOn(r) ==
    /\ req' = r
    /\ stack' = Append(stack, req)
    /\ pos' = pos + 1
    /\ UNCHANGED <<route, client, phase, attempt, sent, out, panicked, answer>>

Return(o) ==
    /\ out' = o
    /\ phase' = "out"
    /\ pos' = pos - 1
    /\ UNCHANGED <<route, client, attempt, req, stack, sent, panicked, answer>>

Skips == MatchesAny(here.rules, req.method, req.path)

\* logging, and what an optional middleware that failed became
EnterPlain == (At("logging") \/ At("empty")) /\ PassOn(req) /\ UNCHANGED permits

\* getClientIP: X-Real-IP, else the first of X-Forwarded-For, else the peer.
GetClientIP(r) ==
    IF Get(r.hdr, "X-Real-IP") # "" THEN Get(r.hdr, "X-Real-IP")
    ELSE IF "X-Forwarded-For" \in DOMAIN r.hdr THEN r.hdr["X-Forwarded-For"][1][1]
    ELSE r.remote

EnterIp ==
    /\ At("ip")
    /\ PassOn([req EXCEPT !.hdr = SetKey(@, "X-Client-IP", GetClientIP(req))])
    /\ UNCHANGED permits

EnterCors ==
    /\ At("cors")
    /\ LET origin == OriginOf(req.hdr) IN
       \/ origin = <<>> /\ PassOn(req)
       \/ /\ origin # <<>> /\ ~IsOriginAllowed(origin, here.cors.allowOrigins)
          /\ Return(Resp(403, NoHeader))
       \/ /\ origin # <<>> /\ IsOriginAllowed(origin, here.cors.allowOrigins)
          /\ IF req.method = "OPTIONS" THEN Return(Resp(200, Preflight(here.cors, origin)))
             ELSE PassOn(req)
    /\ UNCHANGED permits

\* Every OPTIONS request is answered, with a response that has no body.
EnterRouterFilter ==
    /\ At("router_filter")
    /\ IF req.method = "OPTIONS"
       THEN Return([Resp(204, "Allow-Origin" :> <<AnyOrigin>>) EXCEPT !.data = "nil"])
       ELSE IF Skips THEN PassOn(req)
       ELSE Return(Resp(403, "Content-Type" :> <<"application/json">>))
    /\ UNCHANGED permits

\* ParseJwt, by what the token is
TokenErrors == "expired" :> "TOKEN_EXPIRED" @@ "garbled" :> "TOKEN_PARSE_FAILED"
               @@ "claims" :> "INVALID_TOKEN_CLAIMS"

EnterJwt ==
    /\ At("jwt")
    /\ LET token == Get(req.hdr, "Authorization") IN
       IF Skips THEN PassOn(req)
       ELSE IF token \in {"", "basic"}
       THEN Return(Err(KratosError(401, "MISSING_AUTH_TOKEN", TRUE)))
       ELSE IF token \in DOMAIN TokenErrors
       THEN Return(Err(KratosError(401, TokenErrors[token], TRUE)))
       ELSE PassOn([req EXCEPT !.hdr = SetKey(SetKey(@, "x-md-global-user-id", "user"),
                                              "x-md-global-name", "name")])
    /\ UNCHANGED permits

\* The roles of the user and the policy are the environment's.
EnterRbac ==
    /\ At("rbac")
    /\ \/ Skips /\ PassOn(req)
       \/ /\ ~Skips /\ Get(req.hdr, "x-md-global-user-id") = ""
          /\ Return(Err(ErrPermissionDenied))
       \/ /\ ~Skips /\ Get(req.hdr, "x-md-global-user-id") # ""
          /\ \/ \E e \in {ErrAuthCheckFailed, ErrForbiddenRoute} : Return(Err(e))
             \/ PassOn([req EXCEPT !.hdr = SetKey(SetKey(@, "x-md-global-role", "role"),
                                                  "x-md-global-owner", "owner")])
    /\ UNCHANGED permits

EnterBbr ==
    /\ At("bbr")
    /\ \/ PassOn(req) /\ permits' = permits + 1
       \/ Return([Resp(429, NoHeader) EXCEPT !.bare = TRUE]) /\ UNCHANGED permits

EnterRewrite ==
    /\ At("rewrite")
    /\ PassOn([req EXCEPT !.host = IF here.rewrite.host = "" THEN @ ELSE here.rewrite.host,
                          !.path = RewritePath(here.rewrite, @),
                          !.hdr  = RewriteHeaders(here.rewrite.request, @)])
    /\ UNCHANGED permits

\* strings.TrimLeft takes a set of letters, so it eats into some names.
GrpcContentType ==
       "application/json"  :> "application/grpc+json"
    @@ "application/proto" :> "application/grpc+roto"
    @@ "application/connect+proto" :> "application/grpc+ect+proto"
    @@ "" :> "application/grpc+"

\* A request that is not gRPC yet, on a gRPC endpoint, gets a gRPC frame.
Transcodes(r) ==
    /\ endpoint.protocol = "GRPC"
    /\ Get(r.hdr, "Content-Type") \in DOMAIN GrpcContentType

EnterTranscoder ==
    /\ At("transcoder")
    /\ IF Transcodes(req)
       THEN PassOn([req EXCEPT !.frames = @ + 1,
                               !.hdr = Del(SetKey(@, "Content-Type",
                                   GrpcContentType[Get(@, "Content-Type")]), "Content-Length")])
       ELSE PassOn(req)
    /\ UNCHANGED permits

RoundTrip ==
    /\ phase = "in" /\ pos = Len(chain) + 1
    /\ sent' = Append(sent, [req |-> req, seen |-> stack])
    /\ \E o \in Upstream : out' = o
    /\ phase' = "out" /\ pos' = Len(chain)
    /\ UNCHANGED <<route, client, attempt, req, stack, permits, panicked, answer>>

-----------------------------------------------------------------------------
(* The way out *)

Leaving(names) == phase = "out" /\ pos > 0 /\ here.name \in names

Hand(o) ==
    /\ out' = o
    /\ pos' = pos - 1
    /\ UNCHANGED <<route, client, phase, attempt, req, stack, sent, panicked, answer>>

\* The panic unwinds every layer; Proxy.ServeHTTP recovers it.
Panic ==
    /\ panicked' = TRUE
    /\ Finish(Write(client.hdr, ErrBadGateway, FALSE))
    /\ UNCHANGED <<route, client, out, permits, progress>>

LeavePlain ==
    /\ Leaving({"logging", "empty", "ip", "router_filter", "jwt", "rbac"})
    /\ Hand(out) /\ UNCHANGED permits

\* The origin is the one cors read on the way in.
LeaveCors ==
    /\ Leaving({"cors"})
    /\ LET origin == OriginOf(stack[pos].hdr)
       IN  Hand(IF out.kind = "err" \/ origin = <<>> THEN out
                ELSE [out EXCEPT !.hdr = WithCors(here.cors, origin, @), !.bare = FALSE])
    /\ UNCHANGED permits

\* Bug: an error leaves without the limiter being told.
LeaveBbrOnSuccess ==
    /\ Leaving({"bbr"})
    /\ Hand(out)
    /\ permits' = IF out.kind = "err" THEN permits ELSE permits - 1

\* done is called with the error or without one, but it is not deferred.
LeaveBbr ==
    /\ Leaving({"bbr"})
    /\ Hand(out)
    /\ permits' = permits - 1

\* Writing to the header map of a response that has none panics.
LeaveRewrite ==
    /\ Leaving({"rewrite"})
    /\ LET rw == here.rewrite.response IN
       IF out.kind = "err" THEN Hand(out) /\ UNCHANGED permits
       ELSE IF out.bare /\ (rw.set # NoHeader \/ rw.add # <<>>) THEN Panic
       ELSE Hand([out EXCEPT !.hdr = RewriteHeaders(rw, @)]) /\ UNCHANGED permits

\* The trailers become headers; an error status becomes a JSON answer of 200,
\* and so does an answer too short to hold a frame.
Transcoded(o, contentType) ==
    LET hdr    == SetKey(o.trailer @@ o.hdr, "Content-Type", contentType)
        status == Get(hdr, "Grpc-Status")
    IN  IF status = "garbled" THEN Err(PlainError("other"))
        ELSE IF status \notin {"", "0"} THEN Resp(200, hdr)
        ELSE IF o.data = "short"
        THEN Resp(200, SetKey(hdr, "Content-Type", "application/json"))
        ELSE [o EXCEPT !.hdr = Del(hdr, "Content-Length"), !.trailer = NoHeader]

LeaveTranscoder ==
    /\ Leaving({"transcoder"})
    /\ IF out.kind = "err" \/ ~Transcodes(stack[pos]) THEN Hand(out) /\ UNCHANGED permits
       ELSE IF out.data = "nil" \/ out.bare THEN Panic
       ELSE /\ \/ Hand(Transcoded(out, Get(stack[pos].hdr, "Content-Type")))
               \/ Hand(Err(PlainError("other")))    \* the body cannot be read
            /\ UNCHANGED permits

Terminated == phase = "done" /\ UNCHANGED vars

Enter == \/ EnterPlain \/ EnterIp \/ EnterCors \/ EnterRouterFilter \/ EnterJwt
         \/ EnterRbac \/ EnterBbr \/ EnterRewrite \/ EnterTranscoder
Leave == LeavePlain \/ LeaveCors \/ LeaveBbr \/ LeaveRewrite \/ LeaveTranscoder

Next == \/ Load \/ Refuse \/ Serve
        \/ StartAttempt \/ StopRetrying \/ ContextDone \/ JudgeAttempt \/ Deliver
        \/ Enter \/ RoundTrip \/ Leave
        \/ Terminated

Spec == Init /\ [][Next]_vars

-----------------------------------------------------------------------------
(* Properties *)

(***************************************************************************)
(* A retry sends what the first attempt sent.  Middlewares strip prefixes, *)
(* add headers and frame bodies in place (rewrite.go:47, ip.go:57,         *)
(* transcoder.go:63); it is the clone of proxy.go:301 that keeps one       *)
(* attempt's changes out of the next.                                      *)
(***************************************************************************)
AttemptsSendTheSameRequest ==
    \A i, j \in DOMAIN sent : sent[i].req = sent[j].req

(***************************************************************************)
(* The chain holds each middleware that the configuration names and the    *)
(* registry knows, the global ones outermost and all in the configured     *)
(* order: the place of one is the number of known ones up to it.  A        *)
(* required one stands there itself, whatever its options: an endpoint     *)
(* without it must not be served (registry.go:62-66).  Any other one that  *)
(* cannot be created is replaced by the empty one (proxy.go:172 builds the *)
(* chain from its end).                                                    *)
(***************************************************************************)
ChainIsConfigured ==
    LET all      == cfg.global \o endpoint.middlewares
        place(j) == Cardinality({k \in 1..j : all[k].name \in Registered})
    IN  /\ Len(chain) = place(Len(all))
        /\ \A j \in DOMAIN all :
              all[j].name \in Registered =>
                 chain[place(j)] = IF all[j].required THEN all[j] ELSE Create(all[j])

\* A rule covers the request as the README reads it, or the request is for
\* the bare path before its wildcard.
CoveredBy(rules, r) ==
    \E k \in DOMAIN rules :
       Covers(rules[k], r.method, r.path) \/ OnBarePath(rules[k], r.method, r.path)

\* The same of the rules of the i-th middleware for what it was given, and
\* what it passed on, for the n-th request sent.
Covered(n, i)  == CoveredBy(chain[i].rules, sent[n].seen[i])
PassedOn(n, i) == Append(sent[n].seen, sent[n].req)[i + 1]

(***************************************************************************)
(* No request reaches an upstream around a middleware: it went through     *)
(* every middleware of the configured chain; router_filter and jwt let it  *)
(* by only if one of their rules covers the path they saw, as README.md:   *)
(* 342-350 describes the rules, or, for jwt, if they gave it a user.  The  *)
(* one exception to the README is the path a wildcard is appended to: for  *)
(* "/a/*" and "/a/**" the code also lets "/a" by, which the README does    *)
(* not say.  And a rule is not missed either: where the reference covers,  *)
(* Match does.  The reference reads rules whose wildcard is at the end.    *)
(***************************************************************************)
EveryGuardWasPassed ==
    LET plain(m) == \A k \in DOMAIN m.rules : Plain(m.rules[k])
    IN  /\ phase = "in" /\ pos <= Len(chain) /\ plain(here) => Skips = CoveredBy(here.rules, req)
        /\ \A n \in DOMAIN sent :
              /\ ChainIsConfigured
              /\ Len(sent[n].seen) = Len(chain)
              /\ \A i \in DOMAIN chain : plain(chain[i]) =>
                    /\ chain[i].name = "router_filter" => Covered(n, i)
                    /\ chain[i].name = "jwt" =>
                          Covered(n, i) \/ Get(PassedOn(n, i).hdr, "x-md-global-user-id") = "user"

(***************************************************************************)
(* A browser can read what it is told.  An error echoes the origin, has an *)
(* error status, a known code, a message and an exposed reason, whichever  *)
(* step it came from (errors/cors.go says why it must).  An answer to an   *)
(* origin that cors allows carries that origin, whatever the middlewares   *)
(* inside did, unless one outside of cors answered or rewrote it.          *)
(***************************************************************************)
AnswersAreReadable ==
    LET origin == OriginOf(client.hdr)
        allowed(i) ==
            /\ chain[i].name = "cors"
            /\ IsOriginAllowed(origin, chain[i].cors.allowOrigins)
            /\ \A j \in 1..(i - 1) : chain[j].name \in {"ip", "logging", "empty", "jwt", "rbac"}
    IN  phase = "done" =>
        /\ origin # <<>> /\ (answer.kind = "error" \/ \E i \in DOMAIN chain : allowed(i))
              => "Allow-Origin" \in DOMAIN answer.hdr /\ answer.hdr["Allow-Origin"] = <<origin>>
        /\ answer.kind = "error" =>
              /\ answer.status \in 400..599
              /\ answer.body.code # "unknown"
              /\ answer.body.reason \notin {"", "UNKNOWN", "no_available_node"}
              /\ answer.body.message \in ReasonMessages \cup {"own"}
              /\ origin # <<>> => answer.hdr["Expose-Headers"] = <<"X-Error-Reason">>

(***************************************************************************)
(* The limiter's count of requests in flight goes back to zero: every      *)
(* request bbr lets in is taken out again, on errors too (bbr.go:33).  The *)
(* exception is a panic further in, since done is not deferred.            *)
(***************************************************************************)
PermitsAreReturned == phase = "done" /\ ~panicked => permits = 0

(***************************************************************************)
(* After the merge each method and path is served by the endpoint of the   *)
(* last priority file that names it, and otherwise as the main             *)
(* configuration says.  Excepted are directories where a new endpoint      *)
(* comes before one that replaces, for which the index of config.go:250    *)
(* has gone stale, and keys that a file names and the main configuration   *)
(* names twice, of which that index knows the later and the router serves  *)
(* the earlier.                                                            *)
(***************************************************************************)
PriorityEndpointsWin ==
    LET items == Items(cfg.files)
    IN  phase # "load" /\ ~Shifts(cfg.main, items) =>
           \A k \in Keys(cfg.main \o items) :
              ~ (k \in Keys(items) /\ Repeats(cfg.main, k)) =>
                 ServedBy(endpoints, k) = Effective(cfg.main, items, k)
=============================================================================
