---------------------------- MODULE ErrorResponse ----------------------------
(***************************************************************************)
(* How the gateway turns an error into an answer (package errors).         *)
(*                                                                         *)
(* An error is a record: kind tells a kratos error from a context error    *)
(* and the rest, code and reason are those of a kratos error, and text     *)
(* says whether it carries a message that is more than blanks.             *)
(***************************************************************************)
EXTENDS Integers, Sequences, Cors

KratosError(code, reason, text) ==
    [kind |-> "kratos", code |-> code, reason |-> reason, text |-> text]
PlainError(kind) == [kind |-> kind, code |-> 0, reason |-> "", text |-> TRUE]

\* The errors the gateway itself ends a request with.
ErrPermissionDenied == KratosError(403, "PERMISSION_DENIED", TRUE)
ErrForbiddenRoute   == KratosError(403, "FORBIDDEN_ROUTE", TRUE)
ErrAuthCheckFailed  == KratosError(500, "AUTH_CHECK_FAILED", TRUE)
ErrRouteNotFound    == KratosError(404, "NOT_FOUND", TRUE)
ErrMethodNotAllowed == KratosError(405, "METHOD_NOT_ALLOWED", TRUE)
ErrBadGateway       == KratosError(502, "BAD_GATEWAY", TRUE)

StatusClientClosedRequest == 499

\* httpToConnectCode, and what stands in for a status that it does not hold
ConnectCodeFromHTTP(status) ==
    CASE status \in {400, 422} -> "invalid_argument"
      [] status = 401 -> "unauthenticated"
      [] status = 403 -> "permission_denied"
      [] status = 404 -> "not_found"
      [] status \in {405, 501} -> "unimplemented"
      [] status = 409 -> "aborted"
      [] status = 412 -> "failed_precondition"
      [] status \in {413, 429} -> "resource_exhausted"
      [] status = StatusClientClosedRequest -> "canceled"
      [] status \in {502, 503} -> "unavailable"
      [] status = 504 -> "deadline_exceeded"
      [] OTHER -> IF status >= 500 THEN "internal"
                  ELSE IF status >= 400 THEN "invalid_argument" ELSE "unknown"

ReasonFromStatus(status) ==
    CASE status = 401 -> "UNAUTHENTICATED"
      [] status = 403 -> "PERMISSION_DENIED"
      [] status = 404 -> "NOT_FOUND"
      [] status = 405 -> "METHOD_NOT_ALLOWED"
      [] status \in {400, 422} -> "INVALID_REQUEST"
      [] status = StatusClientClosedRequest -> "CANCELED"
      [] status = 504 -> "DEADLINE_EXCEEDED"
      [] status = 502 -> "BAD_GATEWAY"
      [] status = 503 -> "SERVICE_UNAVAILABLE"
      [] status = 500 -> "INTERNAL_ERROR"
      [] OTHER -> "UNKNOWN_ERROR"

\* The letters of NormalizeReason: lower case becomes upper case and all that
\* is neither a letter nor a digit an underscore.  Other reasons in use are
\* in that form already.
UpperSnake(reason) ==
    CASE reason = "no_available_node" -> "NO_AVAILABLE_NODE"
      [] reason = "unknown"           -> "UNKNOWN"
      [] OTHER                        -> reason

NormalizeReason(reason, status) ==
    IF UpperSnake(reason) \in {"", "UNKNOWN"} THEN ReasonFromStatus(status)
    ELSE UpperSnake(reason)

\* The reasons that reasonMessages has a text for.
ReasonMessages ==
    {"NO_AVAILABLE_NODE", "NOT_FOUND", "METHOD_NOT_ALLOWED", "CANCELED",
     "DEADLINE_EXCEEDED", "BAD_GATEWAY", "UNKNOWN_ERROR", "INVALID_PARAM",
     "MISSING_PARAM", "INVALID_REQUEST", "UNAUTHENTICATED", "PERMISSION_DENIED",
     "TOKEN_EXPIRED", "INTERNAL_ERROR", "SERVICE_UNAVAILABLE", "TIMEOUT",
     "AUTH_CHECK_FAILED", "FORBIDDEN_ROUTE", "OPERATION_DENIED", "INVALID_FILE",
     "FILE_READ_ERROR", "DATA_EMPTY", "JWT_AUTHN_REQUIRED", "MISSING_AUTH_TOKEN",
     "TOKEN_PARSE_FAILED", "INVALID_TOKEN_CLAIMS", "INVALID_SIGNING_METHOD",
     "PEM_DECODE_FAILED", "CERT_PARSE_FAILED", "NOT_RSA_PUBLIC_KEY"}

\* The message is named by the reason whose text it is.
DefaultMessage(reason, status) ==
    IF reason \in ReasonMessages THEN reason
    ELSE IF ReasonFromStatus(status) \in ReasonMessages THEN ReasonFromStatus(status)
    ELSE "UNKNOWN_ERROR"

Normalize(status, reason, text) ==
    LET r == NormalizeReason(reason, status)
    IN  [status  |-> status, reason |-> r,
         message |-> IF text THEN "own" ELSE DefaultMessage(r, status)]

Classify(err) ==
    CASE err.kind = "kratos" ->
            Normalize(IF err.code <= 0 THEN 500 ELSE err.code, err.reason, err.text)
      [] err.kind \in {"canceled", "disconnected"} ->
            Normalize(StatusClientClosedRequest, "CANCELED", err.text)
      [] err.kind = "deadline" -> Normalize(504, "DEADLINE_EXCEEDED", err.text)
      [] OTHER -> Normalize(500, "UNKNOWN_ERROR", err.text)

Build(err) ==
    LET info == Classify(err)
    IN  [status |-> info.status, reason |-> info.reason, message |-> info.message,
         code |-> ConnectCodeFromHTTP(info.status)]

\* Bug: errors carry no headers for the browser.
WriteCORSHeadersNone(origin) == NoHeader

\* Without an Origin nothing is added; any other origin is echoed.
WriteCORSHeaders(origin) ==
    IF origin = <<>> THEN NoHeader
    ELSE [h \in {"Allow-Origin", "Allow-Methods", "Allow-Headers", "Allow-Credentials",
                 "Expose-Headers", "Max-Age"} |->
            CASE h = "Allow-Origin" -> <<origin>>
              [] h \in {"Allow-Methods", "Allow-Headers"} -> <<"any">>
              [] h = "Allow-Credentials" -> <<"true">>
              [] h = "Expose-Headers" -> <<"X-Error-Reason">>
              [] h = "Max-Age" -> <<"600">>]

\* Only the streams of Connect get their own content type.
ErrorContentType(request) ==
    IF Get(request, "Content-Type") = "application/connect+proto"
    THEN "application/connect+json" ELSE "application/json"

\* kratos' status.ToGRPCCode, the number of the gRPC code.
ToGRPCCode(status) ==
    LET codes == 200 :> 0 @@ 400 :> 3 @@ 401 :> 16 @@ 403 :> 7 @@ 404 :> 5 @@ 409 :> 10
                 @@ 429 :> 8 @@ 499 :> 1 @@ 500 :> 13 @@ 501 :> 12 @@ 503 :> 14 @@ 504 :> 4
    IN  IF status \in DOMAIN codes THEN codes[status] ELSE 2

\* Write: the answer for an error to a request with these headers, with the gRPC headers on a gRPC route.
Write(request, err, grpc) ==
    LET body == Build(err)
        own  == "X-Error-Reason" :> <<body.reason>>
                @@ "Content-Type" :> <<ErrorContentType(request)>>
                @@ "X-Content-Type-Options" :> <<"nosniff">>
                @@ (IF grpc THEN "Grpc-Status" :> <<ToGRPCCode(body.status)>>
                                 @@ "Grpc-Message" :> <<body.message>>
                    ELSE NoHeader)
    IN  [kind |-> "error", status |-> body.status, body |-> body,
         hdr |-> Over(WriteCORSHeaders(OriginOf(request)), own)]
=============================================================================
