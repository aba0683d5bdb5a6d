----------------------------- MODULE RouterSwap -----------------------------
(***************************************************************************)
(* Proxy.Update (proxy/proxy.go) builds a router with a client for each    *)
(* endpoint, swaps it in and leaves the old one to a goroutine that waits  *)
(* for its requests and closes its clients (router/mux/mux.go), while      *)
(* requests load the router, enter it and leave it. Routers are numbered   *)
(* by the Update that builds them; 0 is the empty router of New. Updates   *)
(* are serialised by the loader's applyLock.                               *)
(*                                                                         *)
(* A client is "open" while its nodeApplier is subscribed and not          *)
(* cancelled. Which step of building an endpoint fails, and whether it     *)
(* comes before or after a subscription, depends on the configuration and  *)
(* is left open. The clients of circuit breakers' backup services belong   *)
(* to no router and are never closed; they are not in the model.           *)
(***************************************************************************)
EXTENDS Naturals

CONSTANTS
    MaxGen,      \* bound on the Updates
    MaxEndpoint, \* bound on the endpoints of a configuration
    Sizes,       \* the numbers of endpoints each Update may be given
    Request      \* the requests that may be under way at once

ASSUME SwapAssumption ==
    /\ MaxGen \in Nat /\ MaxEndpoint \in Nat
    /\ Sizes \in [1..MaxGen -> SUBSET (0..MaxEndpoint)]

Gen      == 0..MaxGen
Endpoint == 1..MaxEndpoint

VARIABLES
    router,   \* p.router
    newest,   \* the last Update begun
    left,     \* endpoints the running Update has still to build; none: idle
    closers,  \* allCloser of a router: its endpoints with a registered route
    client,   \* how the building of an endpoint went, then its client
    closing,  \* where the tryCloseRouter goroutine of a router is
    waiter,   \* where its waitTimeout goroutine is, in wg.Wait
    forced,   \* SyncClose of the router stopped waiting at its time limit
    pc,       \* where a request is
    at,       \* the router it loaded
    late,     \* history: it entered when wg.Wait had already been released
    crashed   \* a panic nobody recovers ended the process

updateVars  == <<newest, left, closers>>
closeVars   == <<closing, waiter, forced>>
requestVars == <<pc, at, late>>
vars == <<router, newest, left, closers, client, closing, waiter, forced,
          pc, at, late, crashed>>

Idle == MaxEndpoint + 1   \* left, when no Update runs

Init ==
    /\ router = 0
    /\ newest = 0
    /\ left = Idle
    /\ closers = [g \in Gen |-> {}]
    /\ client = [g \in Gen |-> [e \in Endpoint |-> "none"]]
    /\ closing = [g \in Gen |-> "no"]
    /\ waiter = [g \in Gen |-> "none"]
    /\ forced = [g \in Gen |-> FALSE]
    /\ pc = [q \in Request |-> "new"]
    /\ at = [q \in Request |-> 0]
    /\ late = [q \in Request |-> FALSE]
    /\ crashed = FALSE

\* The counter of the router's wait group is zero.
Unused(g) == \A q \in Request : ~(pc[q] = "inside" /\ at[q] = g)

----------------------------------------------------------------------------
(* Update *)

UpdateBegins ==
    /\ left = Idle
    /\ newest < MaxGen
    /\ newest' = newest + 1
    /\ left' \in Sizes[newest']
    /\ UNCHANGED <<router, closers, client, closeVars, requestVars>>

\* The endpoint at hand is done with, and this became of its client.
Built(result) ==
    /\ left \in Endpoint
    /\ left' = left - 1
    /\ client' = [client EXCEPT ![newest][left] = result]
    /\ UNCHANGED <<router, newest, closeVars, requestVars>>

\* The client factory fails; the subscription of an earlier backend stays.
NewClientFails ==
    /\ Built("orphan") \/ Built("closed")
    /\ UNCHANGED closers

\* Bug: the client is not closed when the endpoint cannot be built.
MiddlewareFailsOpen ==
    /\ Built("open")
    /\ UNCHANGED closers

\* A required middleware or the retry strategy fails: closeOnError.
MiddlewareFails ==
    /\ Built("closed")
    /\ UNCHANGED closers

\* The route cannot be registered; the client waits for the end of Update.
HandleFails ==
    /\ Built("refused")
    /\ UNCHANGED closers

Handle ==
    /\ Built("open")
    /\ closers' = [closers EXCEPT ![newest] = @ \cup {left}]

CloseOnError(c) == IF c = "refused" THEN "closed" ELSE c

Empty == \A e \in Endpoint : client[newest][e] = "none"

\* Endpoints were given and none has a route: the deferred closeOnError of
\* every endpoint that was built.
UpdateFails ==
    /\ left = 0
    /\ closers[newest] = {} /\ ~Empty
    /\ left' = Idle
    /\ client' = [client EXCEPT ![newest] = [e \in Endpoint |-> CloseOnError(@[e])]]
    /\ UNCHANGED <<router, newest, closers, closeVars, requestVars>>

Swap ==
    /\ left = 0
    /\ closers[newest] # {} \/ Empty
    /\ left' = Idle
    /\ router' = newest
    /\ closing' = [closing EXCEPT ![router] = "wait"]
    /\ UNCHANGED <<newest, closers, client, waiter, forced, requestVars>>

----------------------------------------------------------------------------
(* SyncClose of a router that was swapped out *)

\* Bug: Wait does not look at the counter.
WaitReturnsAtOnce(g) ==
    /\ closing[g] = "wait" /\ waiter[g] = "none"
    /\ waiter' = [waiter EXCEPT ![g] = "returned"]
    /\ UNCHANGED <<router, updateVars, client, closing, forced, requestVars>>

\* wg.Wait returns at once when the counter is zero.
Wait(g) ==
    /\ closing[g] = "wait" /\ waiter[g] = "none"
    /\ waiter' = [waiter EXCEPT ![g] = IF Unused(g) THEN "returned" ELSE "blocked"]
    /\ UNCHANGED <<router, updateVars, client, closing, forced, requestVars>>

\* The released waiter finds the counter at zero, or in use again: a panic.
WaitResumes(g) ==
    /\ waiter[g] = "released"
    /\ IF Unused(g)
       THEN waiter' = [waiter EXCEPT ![g] = "returned"] /\ UNCHANGED crashed
       ELSE crashed' = TRUE /\ UNCHANGED waiter
    /\ UNCHANGED <<router, updateVars, client, closing, forced, requestVars>>

WaitCompletes(g) ==
    /\ closing[g] = "wait" /\ waiter[g] = "returned"
    /\ closing' = [closing EXCEPT ![g] = "close"]
    /\ UNCHANGED <<router, updateVars, client, waiter, forced, requestVars>>

\* Bug: the time limit is not heeded.
WaitNeverTimesOut(g) ==
    /\ FALSE
    /\ UNCHANGED vars

\* 120 s have passed.
WaitTimesOut(g) ==
    /\ closing[g] = "wait"
    /\ closing' = [closing EXCEPT ![g] = "close"]
    /\ forced' = [forced EXCEPT ![g] = TRUE]
    /\ UNCHANGED <<router, updateVars, client, waiter, requestVars>>

CloseOne(g) ==
    /\ closing[g] = "close"
    /\ \E e \in closers[g] :
        /\ client[g][e] = "open"
        /\ client' = [client EXCEPT ![g][e] = "closed"]
    /\ UNCHANGED <<router, updateVars, closeVars, requestVars>>

SyncCloseReturns(g) ==
    /\ closing[g] = "close"
    /\ \A e \in closers[g] : client[g][e] # "open"
    /\ closing' = [closing EXCEPT ![g] = "closed"]
    /\ UNCHANGED <<router, updateVars, client, waiter, forced, requestVars>>

SyncClose(g) ==
    \/ (Wait(g) \/ WaitCompletes(g) \/ WaitTimesOut(g)) /\ UNCHANGED crashed
    \/ WaitResumes(g)
    \/ (CloseOne(g) \/ SyncCloseReturns(g)) /\ UNCHANGED crashed

----------------------------------------------------------------------------
(* Requests *)

\* Proxy.ServeHTTP: p.router.Load().
LoadRouter(q) ==
    /\ pc[q] = "new"
    /\ pc' = [pc EXCEPT ![q] = "loaded"]
    /\ at' = [at EXCEPT ![q] = router]
    /\ UNCHANGED <<router, updateVars, client, closeVars, late>>

\* muxRouter.ServeHTTP: r.wg.Add(1).
Enter(q) ==
    /\ pc[q] = "loaded"
    /\ pc' = [pc EXCEPT ![q] = "inside"]
    /\ late' = [late EXCEPT ![q] = waiter[at[q]] \in {"released", "returned"}]
    /\ UNCHANGED <<router, updateVars, client, closeVars, at>>

\* The handler has returned or its panic passes by: the deferred r.wg.Done().
Done(q) ==
    /\ pc[q] = "inside"
    /\ pc' = [pc EXCEPT ![q] = "new"]
    /\ at' = [at EXCEPT ![q] = 0]
    /\ late' = [late EXCEPT ![q] = FALSE]
    /\ LET g == at[q]
           last == \A r \in Request \ {q} : ~(pc[r] = "inside" /\ at[r] = g)
       IN  waiter' = [waiter EXCEPT ![g] = IF last /\ @ = "blocked" THEN "released" ELSE @]
    /\ UNCHANGED <<router, updateVars, client, closing, forced>>

Update ==
    \/ UpdateBegins
    \/ NewClientFails \/ MiddlewareFails \/ HandleFails \/ Handle
    \/ UpdateFails \/ Swap

Serve(q) == LoadRouter(q) \/ Enter(q) \/ Done(q)

Next ==
    /\ ~crashed
    /\ \/ Update /\ UNCHANGED crashed
       \/ \E g \in Gen : SyncClose(g)
       \/ \E q \in Request : Serve(q) /\ UNCHANGED crashed

Spec == Init /\ [][Next]_vars

\* The goroutine of tryCloseRouter and its timer run; requests may hang.
Fairness == \A g \in Gen : WF_vars(~crashed /\ SyncClose(g))

FairSpec == Spec /\ Fairness

----------------------------------------------------------------------------
(* Properties *)

\* Routers, clients, closing goroutines and requests keep their types, and
\* allCloser of a router holds only endpoints whose route was registered.
TypeOK ==
    /\ router \in Gen /\ newest \in Gen /\ left \in 0..Idle
    /\ closers \in [Gen -> SUBSET Endpoint]
    /\ client \in [Gen -> [Endpoint -> {"none", "orphan", "refused", "open", "closed"}]]
    /\ closing \in [Gen -> {"no", "wait", "close", "closed"}]
    /\ waiter \in [Gen -> {"none", "blocked", "released", "returned"}]
    /\ forced \in [Gen -> BOOLEAN]
    /\ pc \in [Request -> {"new", "loaded", "inside"}]
    /\ at \in [Request -> Gen]
    /\ late \in [Request -> BOOLEAN]
    /\ crashed \in BOOLEAN
    /\ \A g \in Gen : \A e \in closers[g] : client[g][e] \in {"open", "closed"}

\* A request that entered its router before SyncClose was done waiting
\* (mux.go:86,128) finds every client of that router open until it leaves,
\* whatever Updates swap and close meanwhile, unless it outlasts the limit
\* of tryCloseRouter (proxy.go:453).
RequestsKeepTheirClients ==
    \A q \in Request : pc[q] = "inside" /\ ~late[q] /\ ~forced[at[q]] =>
        \A e \in closers[at[q]] : client[at[q]][e] = "open"

\* Once an Update has failed or its router was swapped out and closed, no
\* client of it is left behind but those the code gives to nobody: the
\* subscription of a factory that failed (factory.go:97-101), and a client
\* whose route was refused in an Update that succeeded (proxy.go:415-421).
Retired(g) == closing[g] = "closed" \/ (closing[g] = "no" /\ g # router /\ g <= newest
                                        /\ ~(g = newest /\ left # Idle))

NothingElseLeaks ==
    \A g \in Gen : Retired(g) =>
        \A e \in Endpoint :
            \/ client[g][e] \in {"none", "closed", "orphan"}
            \/ client[g][e] = "refused" /\ closers[g] # {}

\* A router that was swapped out has its clients closed in the end, also when
\* a request in it never returns (proxy.go:444-456, mux.go:127-152).
OldClientsClose ==
    \A g \in Gen : closing[g] = "wait" ~> closing[g] = "closed" \/ crashed
=============================================================================
