----------------------------- MODULE RetryPolicy -----------------------------
(***************************************************************************)
(* The retry strategy of an endpoint (proxy/retry.go) and the conditions   *)
(* that judge an answer (proxy/condition).  A duration is a number of      *)
(* milliseconds, Unset one that the configuration does not give.           *)
(***************************************************************************)
EXTENDS Integers, Sequences, Cors

Unset  == -1
Second == 1000

OrSecond(d) == IF d <= 0 THEN Second ELSE d

CalcTimeout(e)  == OrSecond(e.timeout)
CalcAttempts(e) == IF e.retry.attempts = 0 THEN 1 ELSE e.retry.attempts
CalcPerTryTimeout(e) ==
    OrSecond(IF e.retry.perTryTimeout # Unset THEN e.retry.perTryTimeout ELSE e.timeout)

(***************************************************************************)
(* A condition by status names one code or the two ends of a range; one by *)
(* header names the values that count.  Text that is no code, more than    *)
(* two codes and a value list that is no JSON make Prepare fail.           *)
(***************************************************************************)
ByStatusCode(codes)   == [t |-> "status", codes |-> codes, name |-> "", values |-> {}]
ByHeader(name, vs)    == [t |-> "header", codes |-> <<>>, name |-> name, values |-> vs]
Malformed             == [t |-> "malformed", codes |-> <<>>, name |-> "", values |-> {}]

Prepares(c) == \/ c.t = "status" /\ Len(c.codes) \in 1..2
               \/ c.t = "header"

Judge(c, resp) ==
    \/ c.t = "status" /\ resp.status >= c.codes[1] /\ resp.status <= Last(c.codes)
    \/ c.t = "header" /\ Get(resp.hdr, c.name) # "" /\ Get(resp.hdr, c.name) \in c.values

JudgeConditons(conditions, resp, onEmpty) ==
    IF conditions = <<>> THEN onEmpty
    ELSE \E i \in DOMAIN conditions : Judge(conditions[i], resp)

\* prepareRetryStrategy: an endpoint whose conditions do not parse is not built.
StrategyFails(e) == \E i \in DOMAIN e.retry.conditions : ~Prepares(e.retry.conditions[i])

PrepareRetryStrategy(e) ==
    [attempts      |-> CalcAttempts(e),
     timeout       |-> CalcTimeout(e),
     perTryTimeout |-> CalcPerTryTimeout(e),
     conditions    |-> e.retry.conditions]
=============================================================================
