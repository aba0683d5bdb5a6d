--------------------------- MODULE HealthChecker ---------------------------
(***************************************************************************)
(* The active health checker of one endpoint's client                      *)
(* (client/health_checker.go): the three maps guarded by hc.mu, the check  *)
(* loop with its ticker, one goroutine per node and round, and the callers *)
(* from other goroutines: service discovery (updateNodes), the proxy's     *)
(* requests (MarkUnhealthy) and the client's owner (Start, Stop).          *)
(*                                                                         *)
(* hc.nodes maps an address to a node; weights and metadata of the node    *)
(* play no part here, so nodes is the set of keys.                         *)
(***************************************************************************)
EXTENDS Naturals

CONSTANTS
    Addr,         \* the addresses discovery may announce
    MaxFailures,  \* hc.maxFailures
    CountCap      \* failureCount saturates here: it is read only in
                  \* comparisons with MaxFailures, so larger counts look alike

ASSUME CountsAssumption ==
    /\ MaxFailures \in Nat \ {0}
    /\ CountCap \in Nat
    /\ MaxFailures <= CountCap

VARIABLES
    nodes,         \* keys of hc.nodes
    healthyNodes,  \* hc.healthyNodes, a function on a subset of Addr
    failureCount,  \* hc.failureCount, a function on a subset of Addr
    ticker,        \* hc.ticker # nil
    cancelled,     \* hc.ctx is done
    stopping,      \* Stop is between "hc.ticker = nil" and "hc.cancel()"
    loop,          \* where runCheckLoop is
    check,         \* what the goroutine checking an address is doing
    up             \* environment: the backend answers /healthz below 500

mapVars  == <<nodes, healthyNodes, failureCount>>
loopVars == <<ticker, cancelled, stopping, loop>>
vars     == <<nodes, healthyNodes, failureCount, ticker, cancelled, stopping, loop, check, up>>

\* "top": about to evaluate the select's channels; "select": blocked in it.
LoopStates == {"none", "top", "select", "checking", "exited", "panicked"}

\* "sent": request on its way; "ok", "fail": outcome known, not yet recorded.
CheckStates == {"none", "sent", "ok", "fail"}

Init ==
    /\ nodes = {}
    /\ healthyNodes = [a \in {} |-> TRUE]
    /\ failureCount = [a \in {} |-> 0]
    /\ ticker = FALSE
    /\ cancelled = FALSE
    /\ stopping = FALSE
    /\ loop = "none"
    /\ check = [a \in Addr |-> "none"]
    /\ up \in [Addr -> BOOLEAN]

----------------------------------------------------------------------------
\* A panic in the loop's goroutine is recovered nowhere: the process is gone.
Alive == loop # "panicked"

\* Map assignment m[a] = v of Go, which adds a missing key.
Put(m, a, v) == [x \in DOMAIN m \cup {a} |-> IF x = a THEN v ELSE m[x]]

IsHealthy(a) == a \in DOMAIN healthyNodes /\ healthyNodes[a]

Incremented(n) == IF n < CountCap THEN n + 1 ELSE CountCap

\* Bug: an unknown address gets a count, but no health entry.
MarkNodeFailureUnknown(a) ==
    /\ failureCount' = Put(failureCount, a,
                           IF a \in DOMAIN failureCount
                           THEN Incremented(failureCount[a]) ELSE 1)
    /\ healthyNodes' = IF failureCount'[a] >= MaxFailures
                       THEN Put(healthyNodes, a, FALSE) ELSE healthyNodes

\* Both markNodeFailure and MarkUnhealthy: an unknown address is ignored.
MarkNodeFailure(a) ==
    IF a \in DOMAIN failureCount
    THEN LET n == Incremented(failureCount[a])
         IN  /\ failureCount' = [failureCount EXCEPT ![a] = n]
             /\ healthyNodes' = IF n >= MaxFailures
                                THEN Put(healthyNodes, a, FALSE) ELSE healthyNodes
    ELSE UNCHANGED <<failureCount, healthyNodes>>

----------------------------------------------------------------------------
(* Calls from other goroutines, each one critical section of hc.mu. *)

\* Bug: the list is replaced, every health record starts afresh.
UpdateNodesReset(latest) ==
    /\ Alive
    /\ nodes' = latest
    /\ healthyNodes' = [a \in latest |-> TRUE]
    /\ failureCount' = [a \in latest |-> 0]
    /\ UNCHANGED <<loopVars, check, up>>

\* A map keyed by address after a push: entries of vanished nodes are deleted,
\* entries of new nodes get the initial value, the others stay.
Realigned(m, latest, initial) ==
    [a \in (DOMAIN m \ (nodes \ latest)) \cup (latest \ nodes) |->
        IF a \in latest \ nodes THEN initial ELSE m[a]]

\* updateNodes: "增量语义(diff)".
UpdateNodes(latest) ==
    /\ Alive
    /\ nodes' = latest
    /\ healthyNodes' = Realigned(healthyNodes, latest, TRUE)
    /\ failureCount' = Realigned(failureCount, latest, 0)
    /\ UNCHANGED <<loopVars, check, up>>

\* MarkUnhealthy: an upstream call to a failed in client.RoundTrip, for
\* whatever reason, the caller's own cancellation or timeout included.
MarkUnhealthy(a) ==
    /\ Alive
    /\ MarkNodeFailure(a)
    /\ UNCHANGED <<nodes, loopVars, check, up>>

Start ==
    /\ ~ticker
    /\ loop = "none"
    /\ ticker' = TRUE
    /\ loop' = "top"
    /\ UNCHANGED <<mapVars, cancelled, stopping, check, up>>

\* Stop, first half: the ticker is stopped and dropped, without hc.mu.
StopTicker ==
    /\ ticker
    /\ ticker' = FALSE
    /\ stopping' = TRUE
    /\ UNCHANGED <<mapVars, cancelled, loop, check, up>>

\* Stop, second half: hc.cancel().
StopCancel ==
    /\ Alive
    /\ stopping
    /\ stopping' = FALSE
    /\ cancelled' = TRUE
    /\ UNCHANGED <<mapVars, ticker, loop, check, up>>

----------------------------------------------------------------------------
(* runCheckLoop and the goroutines of checkAllNodes. *)

\* Entering the select evaluates hc.ctx.Done() and hc.ticker.C: a nil ticker
\* is dereferenced, whether or not the context is done.
EnterSelect ==
    /\ loop = "top"
    /\ loop' = IF ticker THEN "select" ELSE "panicked"
    /\ UNCHANGED <<mapVars, ticker, cancelled, stopping, check, up>>

SelectDone ==
    /\ loop = "select"
    /\ cancelled
    /\ loop' = "exited"
    /\ UNCHANGED <<mapVars, ticker, cancelled, stopping, check, up>>

\* Bug: a round only looks at the nodes that are healthy.
SelectTickHealthyOnly ==
    /\ loop = "select"
    /\ ticker
    /\ loop' = "checking"
    /\ check' = [a \in Addr |-> IF a \in nodes /\ IsHealthy(a) THEN "sent" ELSE "none"]
    /\ UNCHANGED <<mapVars, ticker, cancelled, stopping, up>>

\* A tick: checkAllNodes snapshots hc.nodes and starts a goroutine per node.
\* A stopped ticker delivers nothing more.
SelectTick ==
    /\ loop = "select"
    /\ ticker
    /\ loop' = "checking"
    /\ check' = [a \in Addr |-> IF a \in nodes THEN "sent" ELSE "none"]
    /\ UNCHANGED <<mapVars, ticker, cancelled, stopping, up>>

\* The check of a ends: with the backend's answer, or, once hc.ctx is done,
\* possibly with the context's error.
CheckAnswer(a) ==
    /\ check[a] = "sent"
    /\ \E outcome \in {"ok", "fail"} :
        /\ outcome = "ok" => up[a]
        /\ outcome = "fail" => ~up[a] \/ cancelled
        /\ check' = [check EXCEPT ![a] = outcome]
    /\ UNCHANGED <<mapVars, loopVars, up>>

\* Bug: a passed check takes back one failure, even where none is counted.
CheckNodePassedDecrements(a) ==
    /\ check[a] = "ok"
    /\ failureCount' = Put(failureCount, a, IF a \in DOMAIN failureCount
                                            THEN failureCount[a] - 1 ELSE 0)
    /\ healthyNodes' = Put(healthyNodes, a, TRUE)
    /\ check' = [check EXCEPT ![a] = "none"]
    /\ UNCHANGED <<nodes, loopVars, up>>

\* checkNode's last critical section: written whether or not a is still known.
CheckNodePassed(a) ==
    /\ check[a] = "ok"
    /\ failureCount' = Put(failureCount, a, 0)
    /\ healthyNodes' = Put(healthyNodes, a, TRUE)
    /\ check' = [check EXCEPT ![a] = "none"]
    /\ UNCHANGED <<nodes, loopVars, up>>

CheckNodeFailed(a) ==
    /\ check[a] = "fail"
    /\ MarkNodeFailure(a)
    /\ check' = [check EXCEPT ![a] = "none"]
    /\ UNCHANGED <<nodes, loopVars, up>>

\* Bug: the round does not wait for its goroutines.
RoundDoneEarly ==
    /\ loop = "checking"
    /\ loop' = "top"
    /\ UNCHANGED <<mapVars, ticker, cancelled, stopping, check, up>>

\* wg.Wait() returns and the loop starts over.
RoundDone ==
    /\ loop = "checking"
    /\ \A a \in Addr : check[a] = "none"
    /\ loop' = "top"
    /\ UNCHANGED <<mapVars, ticker, cancelled, stopping, check, up>>

\* Environment: a backend comes up or goes down.
BackendFlips(a) ==
    /\ up' = [up EXCEPT ![a] = ~up[a]]
    /\ UNCHANGED <<mapVars, loopVars, check>>

----------------------------------------------------------------------------
CheckLoop ==
    \/ EnterSelect
    \/ SelectDone
    \/ SelectTick
    \/ RoundDone

CheckGoroutine(a) ==
    \/ CheckAnswer(a)
    \/ CheckNodePassed(a)
    \/ CheckNodeFailed(a)

\* nodeApplier.Callback may also pass on an empty list: instances whose
\* endpoints do not parse are dropped from it.
Next ==
    \/ Start
    \/ StopTicker
    \/ StopCancel
    \/ CheckLoop
    \/ \E a \in Addr : CheckGoroutine(a)
    \/ \E a \in Addr : MarkUnhealthy(a)
    \/ \E a \in Addr : BackendFlips(a)
    \/ \E latest \in SUBSET Addr : UpdateNodes(latest)

Spec == Init /\ [][Next]_vars

\* Goroutines are scheduled, the ticker ticks, and every check ends within the
\* HTTP client's timeout. Discovery, traffic, Stop and the backends are free.
FairSpec ==
    /\ Spec
    /\ WF_vars(CheckLoop)
    /\ \A a \in Addr : WF_vars(CheckGoroutine(a))

----------------------------------------------------------------------------
(* Properties *)

\* The type of the state: the maps of healthChecker hold booleans and counts
\* for announced addresses, the loop and its checks are in a known place.
TypeOK ==
    /\ nodes \subseteq Addr
    /\ DOMAIN healthyNodes \subseteq Addr
    /\ healthyNodes \in [DOMAIN healthyNodes -> BOOLEAN]
    /\ DOMAIN failureCount \subseteq Addr
    /\ failureCount \in [DOMAIN failureCount -> 0..CountCap]
    /\ ticker \in BOOLEAN
    /\ cancelled \in BOOLEAN
    /\ stopping \in BOOLEAN
    /\ loop \in LoopStates
    /\ check \in [Addr -> CheckStates]
    /\ up \in [Addr -> BOOLEAN]

\* The two records of an address never drift apart, however discovery, checks
\* and failing requests interleave: every node discovery announced has both,
\* and it is filtered out exactly when MaxFailures failures are counted.
HealthMatchesCount ==
    /\ nodes \subseteq DOMAIN failureCount
    /\ DOMAIN healthyNodes = DOMAIN failureCount
    /\ \A a \in DOMAIN failureCount : healthyNodes[a] <=> failureCount[a] < MaxFailures

\* checkAllNodes waits for its goroutines: no check outlives its round, so a
\* result of an earlier round is never recorded over that of a later one, and
\* an exited loop leaves nobody behind who still writes the maps.
NoCheckOutlivesRound ==
    loop # "checking" => \A a \in Addr : check[a] = "none"

\* "增量语义(diff)" of updateNodes: while an address stays announced, the
\* failures counted against it are forgiven by a passed check and by nothing
\* else; a push from discovery is no amnesty.
OnlyAPassedCheckForgives ==
    [][\A a \in nodes \cap nodes' :
          failureCount'[a] < failureCount[a] => check[a] = "ok" /\ check'[a] = "none"]_vars

Running == loop \in {"top", "select", "checking"} /\ ticker

\* A backend that stays down while it stays announced ends up filtered out for
\* good, even if discovery keeps pushing lists the whole time.
DeadNodeFilteredOut ==
    \A a \in Addr :
        <>[](Running /\ a \in nodes /\ ~up[a]) => <>[]~IsHealthy(a)

\* A backend that stays up and announced is let in again, again and again,
\* whatever failures the traffic reports meanwhile: the loop also checks the
\* nodes that no request can reach.
LiveNodeComesBack ==
    \A a \in Addr :
        <>[](Running /\ a \in nodes /\ up[a]) => []<>IsHealthy(a)

\* Stopping a checker does not take the gateway down: the loop never
\* dereferences the ticker Stop has dropped.
LoopNeverPanics == loop # "panicked"
=============================================================================
