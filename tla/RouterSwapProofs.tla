-------------------------- MODULE RouterSwapProofs --------------------------
(***************************************************************************)
(* Proofs about RouterSwap, for any number of Updates, endpoints and       *)
(* requests: type correctness, that requests keep their clients, and that  *)
(* nothing leaks but what the code gives to nobody.                        *)
(***************************************************************************)
EXTENDS RouterSwap, TLAPS

\* Routers are built and swapped in the order of their numbers.
OrderInv ==
    /\ router <= newest
    /\ left # Idle => router < newest
    /\ \A g \in Gen : closing[g] # "no" => g < router
    /\ \A g \in Gen : g > newest => closers[g] = {} /\ \A e \in Endpoint : client[g][e] = "none"
    /\ left # Idle => \A e \in closers[newest] : e > left

\* The clients of a router are open until SyncClose gets to them, and only
\* clients with a route are open.
OpenInv ==
    /\ \A g \in Gen : closing[g] \in {"no", "wait"} => \A e \in closers[g] : client[g][e] = "open"
    /\ \A g \in Gen : \A e \in Endpoint : client[g][e] = "open" => e \in closers[g]
    /\ \A g \in Gen : closing[g] = "closed" => \A e \in closers[g] : client[g][e] # "open"

\* SyncClose goes on when the limit is over or wg.Wait returned, and whoever
\* is inside a router whose wait group was found at zero came later.
WaitInv ==
    /\ \A g \in Gen : closing[g] \in {"close", "closed"} /\ ~forced[g] => waiter[g] = "returned"
    /\ \A q \in Request : pc[q] = "inside" /\ waiter[at[q]] \in {"released", "returned"} => late[q]

\* A router that was swapped in has a route, or no endpoints at all; a failed
\* Update leaves no refused client.
RetiredInv ==
    /\ \A g \in Gen : closing[g] # "no" \/ g = router =>
          closers[g] # {} \/ \A e \in Endpoint : client[g][e] = "none"
    /\ \A g \in Gen : closing[g] = "no" /\ g < newest + (IF left = Idle THEN 1 ELSE 0) /\ g # router =>
          closers[g] = {} /\ \A e \in Endpoint : client[g][e] # "refused"

IInv == TypeOK /\ OrderInv /\ OpenInv /\ WaitInv /\ RetiredInv

-----------------------------------------------------------------------------

\* The empty router of New satisfies the invariant.
LEMMA InitInv == Init => IInv
<1> SUFFICES ASSUME Init PROVE IInv
    OBVIOUS
<1>0. MaxGen \in Nat /\ MaxEndpoint \in Nat
    BY SwapAssumption
<1>1. TypeOK
  <2>1. router \in Gen /\ newest \in Gen /\ left \in 0..Idle
    BY <1>0 DEF Init, Gen, Idle
  <2>2. /\ closers \in [Gen -> SUBSET Endpoint]
        /\ \A g \in Gen : closers[g] = {}
    BY DEF Init
  <2>3. client \in [Gen -> [Endpoint -> {"none", "orphan", "refused", "open", "closed"}]]
    BY DEF Init
  <2>4. /\ closing \in [Gen -> {"no", "wait", "close", "closed"}]
        /\ waiter \in [Gen -> {"none", "blocked", "released", "returned"}]
        /\ pc \in [Request -> {"new", "loaded", "inside"}]
    BY DEF Init
  <2>5. at \in [Request -> Gen]
    BY <1>0 DEF Init, Gen
  <2>6. forced \in [Gen -> BOOLEAN] /\ late \in [Request -> BOOLEAN] /\ crashed \in BOOLEAN
    BY DEF Init
  <2> QED
    BY <2>1, <2>2, <2>3, <2>4, <2>5, <2>6 DEF TypeOK
<1>2. OrderInv /\ OpenInv /\ WaitInv /\ RetiredInv
    BY <1>0 DEF Init, OrderInv, OpenInv, WaitInv, RetiredInv, Gen, Endpoint, Idle
<1> QED
    BY <1>1, <1>2 DEF IInv

\* A new Update takes the next number.
LEMMA UpdateBeginsInv ==
    ASSUME IInv, UpdateBegins, UNCHANGED crashed
    PROVE  IInv'
<1>0. MaxGen \in Nat /\ MaxEndpoint \in Nat
    BY SwapAssumption
<1>1. newest' \in Gen /\ left' \in 0..MaxEndpoint /\ left' # Idle
    BY <1>0, SwapAssumption DEF UpdateBegins, IInv, TypeOK, Gen, Idle
<1>2. UNCHANGED <<router, closers, client, closing, waiter, forced, pc, at, late>>
    BY DEF UpdateBegins, closeVars, requestVars
<1>3. TypeOK'
    BY <1>0, <1>1, <1>2 DEF IInv, TypeOK, Idle
<1>4. newest' = newest + 1 /\ left = Idle /\ newest \in Nat /\ router \in Nat
    BY <1>0 DEF UpdateBegins, IInv, TypeOK, Gen
<1>5. OrderInv'
    BY <1>0, <1>1, <1>2, <1>4 DEF IInv, OrderInv, Gen
<1>6. OpenInv' /\ WaitInv'
    BY <1>2 DEF IInv, OpenInv, WaitInv
<1>7. RetiredInv'
    BY <1>0, <1>1, <1>2, <1>4 DEF IInv, RetiredInv, Gen
<1> QED
    BY <1>3, <1>5, <1>6, <1>7 DEF IInv

\* An endpoint is done with, whatever became of it.
LEMMA BuildInv ==
    ASSUME IInv, NewClientFails \/ MiddlewareFails \/ HandleFails \/ Handle, UNCHANGED crashed
    PROVE  IInv'
<1>0. MaxGen \in Nat /\ MaxEndpoint \in Nat /\ Idle = MaxEndpoint + 1
    BY SwapAssumption DEF Idle
<1>1. UNCHANGED <<router, newest, closing, waiter, forced, pc, at, late>>
    BY DEF NewClientFails, MiddlewareFails, HandleFails, Handle, Built, closeVars, requestVars
<1>2. left \in Endpoint /\ left' = left - 1 /\ left # Idle /\ left' # Idle /\ left' \in 0..Idle
    BY <1>0 DEF NewClientFails, MiddlewareFails, HandleFails, Handle, Built, Endpoint
<1>3. newest \in Gen /\ router \in Gen /\ router < newest /\ closing[newest] = "no"
    BY <1>0, <1>2 DEF IInv, TypeOK, OrderInv, Gen
<1>4. PICK r \in {"orphan", "refused", "open", "closed"} :
         /\ client' = [client EXCEPT ![newest][left] = r]
         /\ \/ r # "open" /\ closers' = closers
            \/ r = "open" /\ closers' = [closers EXCEPT ![newest] = @ \cup {left}]
    BY DEF NewClientFails, MiddlewareFails, HandleFails, Handle, Built
<1>5. left \notin closers[newest]
    BY <1>0, <1>2 DEF IInv, OrderInv, Endpoint
<1> DEFINE States == {"none", "orphan", "refused", "open", "closed"}
<1>a. /\ client \in [Gen -> [Endpoint -> States]]
      /\ client[newest] \in [Endpoint -> States]
    BY <1>3 DEF IInv, TypeOK
<1>b. /\ client' \in [Gen -> [Endpoint -> States]]
      /\ client'[newest] = [client[newest] EXCEPT ![left] = r]
      /\ \A g \in Gen : g # newest => client'[g] = client[g]
    BY <1>2, <1>3, <1>4, <1>a
<1>6. /\ \A g \in Gen, e \in Endpoint :
            client'[g][e] = IF g = newest /\ e = left THEN r ELSE client[g][e]
      /\ \A g \in Gen : g # newest => closers'[g] = closers[g]
      /\ closers'[newest] = IF r = "open" THEN closers[newest] \cup {left} ELSE closers[newest]
  <2>1. \A g \in Gen, e \in Endpoint :
            client'[g][e] = IF g = newest /\ e = left THEN r ELSE client[g][e]
    BY <1>a, <1>b
  <2>2. /\ \A g \in Gen : g # newest => closers'[g] = closers[g]
        /\ closers'[newest] = IF r = "open" THEN closers[newest] \cup {left} ELSE closers[newest]
    <3>1. closers \in [Gen -> SUBSET Endpoint]
      BY DEF IInv, TypeOK
    <3>2. CASE r = "open"
      BY <1>3, <1>4, <3>1, <3>2
    <3>3. CASE r # "open"
      BY <1>3, <1>4, <3>1, <3>3
    <3> QED
      BY <3>2, <3>3
  <2> QED
    BY <2>1, <2>2
<1>7. TypeOK'
  <2>1. closers' \in [Gen -> SUBSET Endpoint]
    <3>1. closers \in [Gen -> SUBSET Endpoint]
      BY DEF IInv, TypeOK
    <3>2. closers[newest] \cup {left} \in SUBSET Endpoint
      BY <1>2, <1>3, <3>1
    <3> QED
      BY <1>3, <1>4, <3>1, <3>2
  <2>2. client' \in [Gen -> [Endpoint -> {"none", "orphan", "refused", "open", "closed"}]]
    BY <1>b
  <2>3. \A g \in Gen : \A e \in closers'[g] : client'[g][e] \in {"open", "closed"}
    BY <1>2, <1>3, <1>5, <1>6, <2>1 DEF IInv, TypeOK
  <2> QED
    BY <1>1, <1>2, <2>1, <2>2, <2>3 DEF IInv, TypeOK
<1>8. OrderInv'
    BY <1>0, <1>1, <1>2, <1>3, <1>6, <1>7 DEF IInv, TypeOK, OrderInv, Gen, Endpoint
<1>9. OpenInv'
  <2>1. \A g \in Gen : closing'[g] \in {"no", "wait"} => \A e \in closers'[g] : client'[g][e] = "open"
    <3> SUFFICES ASSUME NEW g \in Gen, closing[g] \in {"no", "wait"}, NEW e \in closers'[g]
                 PROVE  client'[g][e] = "open"
      BY <1>1
    <3>1. e \in Endpoint
      BY <1>7 DEF TypeOK
    <3>2. CASE g = newest /\ e = left
      BY <1>5, <1>6, <3>1, <3>2
    <3>3. CASE ~(g = newest /\ e = left)
      <4>1. e \in closers[g]
        BY <1>6, <3>3
      <4> QED
        BY <1>6, <3>1, <3>3, <4>1 DEF IInv, OpenInv
    <3> QED
      BY <3>2, <3>3
  <2>2. \A g \in Gen : \A e \in Endpoint : client'[g][e] = "open" => e \in closers'[g]
    BY <1>6 DEF IInv, OpenInv
  <2>3. \A g \in Gen : closing'[g] = "closed" => \A e \in closers'[g] : client'[g][e] # "open"
    <3> SUFFICES ASSUME NEW g \in Gen, closing[g] = "closed", NEW e \in closers[g]
                 PROVE  client'[g][e] # "open"
      BY <1>1, <1>3, <1>6
    <3>1. g # newest
      BY <1>3
    <3> QED
      BY <1>b, <3>1 DEF IInv, OpenInv
  <2> QED
    BY <2>1, <2>2, <2>3 DEF OpenInv
<1>10. WaitInv'
    BY <1>1 DEF IInv, WaitInv
<1>11. RetiredInv'
    BY <1>0, <1>1, <1>2, <1>3, <1>6 DEF IInv, RetiredInv, Gen
<1> QED
    BY <1>7, <1>8, <1>9, <1>10, <1>11 DEF IInv

\* The deferred closeOnError of an Update without a route.
LEMMA UpdateFailsInv ==
    ASSUME IInv, UpdateFails, UNCHANGED crashed
    PROVE  IInv'
<1>0. MaxGen \in Nat /\ MaxEndpoint \in Nat /\ Idle = MaxEndpoint + 1
    BY SwapAssumption DEF Idle
<1>1. UNCHANGED <<router, newest, closers, closing, waiter, forced, pc, at, late>>
    BY DEF UpdateFails, closeVars, requestVars
<1>2. left = 0 /\ left' = Idle /\ left # Idle /\ left' \in 0..Idle /\ closers[newest] = {}
    BY <1>0 DEF UpdateFails
<1>3. newest \in Gen /\ router \in Gen /\ router < newest
    BY <1>0, <1>2 DEF IInv, TypeOK, OrderInv, Gen
<1> DEFINE States == {"none", "orphan", "refused", "open", "closed"}
<1>4. client \in [Gen -> [Endpoint -> States]]
    BY DEF IInv, TypeOK
<1>5. /\ client'[newest] = [e \in Endpoint |-> CloseOnError(client[newest][e])]
      /\ \A g \in Gen : g # newest => client'[g] = client[g]
      /\ client' = [client EXCEPT ![newest] = [e \in Endpoint |-> CloseOnError(client[newest][e])]]
    BY <1>3, <1>4 DEF UpdateFails
<1>6. \A e \in Endpoint :
         /\ client'[newest][e] = IF client[newest][e] = "refused" THEN "closed" ELSE client[newest][e]
         /\ client'[newest][e] \in States
         /\ client'[newest][e] # "refused"
    BY <1>3, <1>4, <1>5 DEF CloseOnError
<1>7. client' \in [Gen -> [Endpoint -> States]]
  <2>1. [e \in Endpoint |-> CloseOnError(client[newest][e])] \in [Endpoint -> States]
    BY <1>5, <1>6
  <2> QED
    BY <1>3, <1>4, <1>5, <2>1
<1>8. TypeOK'
  <2>1. \A g \in Gen : \A e \in closers'[g] : client'[g][e] \in {"open", "closed"}
    BY <1>1, <1>2, <1>5 DEF IInv, TypeOK
  <2> QED
    BY <1>1, <1>2, <1>7, <2>1 DEF IInv, TypeOK
<1>9. OrderInv'
    BY <1>0, <1>1, <1>2, <1>3, <1>5 DEF IInv, OrderInv, Gen
<1>10. OpenInv'
  <2>1. \A g \in Gen : closing'[g] \in {"no", "wait"} => \A e \in closers'[g] : client'[g][e] = "open"
    BY <1>1, <1>2, <1>5 DEF IInv, OpenInv
  <2>2. \A g \in Gen : \A e \in Endpoint : client'[g][e] = "open" => e \in closers'[g]
    BY <1>1, <1>3, <1>5, <1>6 DEF IInv, OpenInv
  <2>3. \A g \in Gen : closing'[g] = "closed" => \A e \in closers'[g] : client'[g][e] # "open"
    BY <1>1, <1>2, <1>5 DEF IInv, OpenInv
  <2> QED
    BY <2>1, <2>2, <2>3 DEF OpenInv
<1>11. WaitInv'
    BY <1>1 DEF IInv, WaitInv
<1>12. RetiredInv'
  <2>1. \A g \in Gen : closing'[g] # "no" \/ g = router' =>
          closers'[g] # {} \/ \A e \in Endpoint : client'[g][e] = "none"
    <3>1. closing[newest] = "no" /\ newest # router
      BY <1>0, <1>3 DEF IInv, TypeOK, OrderInv, Gen
    <3> QED
      BY <1>1, <1>5, <3>1 DEF IInv, RetiredInv
  <2>2. \A g \in Gen : closing'[g] = "no" /\ g < newest' + (IF left' = Idle THEN 1 ELSE 0) /\ g # router' =>
          closers'[g] = {} /\ \A e \in Endpoint : client'[g][e] # "refused"
    <3> SUFFICES ASSUME NEW g \in Gen, closing[g] = "no", g < newest + 1, g # router
                 PROVE  closers[g] = {} /\ \A e \in Endpoint : client'[g][e] # "refused"
      BY <1>1, <1>2
    <3>1. CASE g = newest
      BY <1>2, <1>6, <3>1
    <3>2. CASE g # newest
      <4>1. g < newest + (IF left = Idle THEN 1 ELSE 0)
        BY <1>0, <1>2, <1>3, <3>2 DEF Gen
      <4> QED
        BY <1>5, <3>2, <4>1 DEF IInv, RetiredInv
    <3> QED
      BY <3>1, <3>2
  <2> QED
    BY <2>1, <2>2 DEF RetiredInv
<1> QED
    BY <1>8, <1>9, <1>10, <1>11, <1>12 DEF IInv

\* The new router takes over and the old one is left to SyncClose.
LEMMA SwapInv ==
    ASSUME IInv, Swap, UNCHANGED crashed
    PROVE  IInv'
<1>0. MaxGen \in Nat /\ MaxEndpoint \in Nat /\ Idle = MaxEndpoint + 1
    BY SwapAssumption DEF Idle
<1>1. UNCHANGED <<newest, closers, client, waiter, forced, pc, at, late>>
    BY DEF Swap, requestVars
<1>2. /\ left = 0 /\ left' = Idle /\ left # Idle /\ left' \in 0..Idle
      /\ router' = newest
      /\ closing' = [closing EXCEPT ![router] = "wait"]
    BY <1>0 DEF Swap
<1>3. newest \in Gen /\ router \in Gen /\ router < newest
    BY <1>0, <1>2 DEF IInv, TypeOK, OrderInv, Gen
<1>4. /\ closing' \in [Gen -> {"no", "wait", "close", "closed"}]
      /\ closing'[router] = "wait"
      /\ \A g \in Gen : g # router => closing'[g] = closing[g]
    BY <1>2, <1>3 DEF IInv, TypeOK
<1>5. closing[router] = "no"
    BY <1>0, <1>3 DEF IInv, TypeOK, OrderInv, Gen
<1>6. TypeOK'
    BY <1>1, <1>2, <1>3, <1>4 DEF IInv, TypeOK
<1>7. OrderInv'
  <2>1. router' <= newest'
    BY <1>0, <1>1, <1>2, <1>3 DEF Gen
  <2>2. \A g \in Gen : closing'[g] # "no" => g < router'
    BY <1>0, <1>2, <1>3, <1>4 DEF IInv, OrderInv, Gen
  <2>3. \A g \in Gen : g > newest' => closers'[g] = {} /\ \A e \in Endpoint : client'[g][e] = "none"
    BY <1>1 DEF IInv, OrderInv
  <2> QED
    BY <1>2, <2>1, <2>2, <2>3 DEF OrderInv
<1>8. OpenInv'
    BY <1>1, <1>4, <1>5 DEF IInv, OpenInv
<1>9. WaitInv'
    BY <1>1, <1>4 DEF IInv, WaitInv
<1>10. RetiredInv'
  <2>1. \A g \in Gen : closing'[g] # "no" \/ g = router' =>
          closers'[g] # {} \/ \A e \in Endpoint : client'[g][e] = "none"
    <3>1. closers[newest] # {} \/ \A e \in Endpoint : client[newest][e] = "none"
      BY DEF Swap, Empty
    <3> QED
      BY <1>1, <1>2, <1>4, <3>1 DEF IInv, RetiredInv
  <2>2. \A g \in Gen : closing'[g] = "no" /\ g < newest' + (IF left' = Idle THEN 1 ELSE 0) /\ g # router' =>
          closers'[g] = {} /\ \A e \in Endpoint : client'[g][e] # "refused"
    <3> SUFFICES ASSUME NEW g \in Gen, closing'[g] = "no", g < newest + 1, g # newest
                 PROVE  closers[g] = {} /\ \A e \in Endpoint : client[g][e] # "refused"
      BY <1>1, <1>2
    <3>1. g # router /\ closing[g] = "no"
      BY <1>4
    <3>2. g < newest + (IF left = Idle THEN 1 ELSE 0)
      BY <1>0, <1>2, <1>3 DEF Gen
    <3> QED
      BY <3>1, <3>2 DEF IInv, RetiredInv
  <2> QED
    BY <2>1, <2>2 DEF RetiredInv
<1> QED
    BY <1>6, <1>7, <1>8, <1>9, <1>10 DEF IInv

\* wg.Wait is entered, resumed or done, and the time limit passes.
LEMMA WaitingInv ==
    ASSUME IInv, NEW g \in Gen,
           \/ (Wait(g) \/ WaitCompletes(g) \/ WaitTimesOut(g)) /\ UNCHANGED crashed
           \/ WaitResumes(g)
    PROVE  IInv'
<1>1. UNCHANGED <<router, newest, left, closers, client, pc, at, late>>
    BY DEF Wait, WaitCompletes, WaitTimesOut, WaitResumes, updateVars, requestVars
<1>2. /\ closing \in [Gen -> {"no", "wait", "close", "closed"}]
      /\ waiter \in [Gen -> {"none", "blocked", "released", "returned"}]
      /\ at \in [Request -> Gen]
    BY DEF IInv, TypeOK
<1>3. forced \in [Gen -> BOOLEAN] /\ crashed \in BOOLEAN
    BY DEF IInv, TypeOK
<1>4. /\ closing' \in [Gen -> {"no", "wait", "close", "closed"}]
      /\ waiter' \in [Gen -> {"none", "blocked", "released", "returned"}]
      /\ \A h \in Gen : closing'[h] # closing[h] => closing[h] = "wait" /\ closing'[h] = "close"
    BY <1>2 DEF Wait, WaitCompletes, WaitTimesOut, WaitResumes
<1>5. forced' \in [Gen -> BOOLEAN] /\ crashed' \in BOOLEAN
    BY <1>3, Zenon DEF Wait, WaitCompletes, WaitTimesOut, WaitResumes
<1>6. TypeOK'
    BY <1>1, <1>4, <1>5 DEF IInv, TypeOK
<1>7. OrderInv'
  <2>1. \A h \in Gen : closing'[h] # "no" => h < router'
    BY <1>1, <1>4 DEF IInv, OrderInv
  <2> QED
    BY <1>1, <2>1 DEF IInv, OrderInv
<1>8. OpenInv'
    BY <1>1, <1>4 DEF IInv, OpenInv
<1>9. WaitInv'
  <2>1. \A h \in Gen : closing'[h] \in {"close", "closed"} /\ ~forced'[h] => waiter'[h] = "returned"
    <3>1. CASE Wait(g)
      BY <1>2, <3>1 DEF IInv, WaitInv, Wait
    <3>2. CASE WaitCompletes(g)
      BY <1>2, <3>2 DEF IInv, WaitInv, WaitCompletes
    <3>3. CASE WaitTimesOut(g)
      <4>1. forced'[g] /\ \A h \in Gen : h # g => forced'[h] = forced[h]
        BY <1>3, <3>3, Zenon DEF WaitTimesOut
      <4>2. waiter' = waiter /\ \A h \in Gen : h # g => closing'[h] = closing[h]
        BY <1>2, <3>3 DEF WaitTimesOut
      <4> QED
        BY <4>1, <4>2 DEF IInv, WaitInv
    <3>4. CASE WaitResumes(g)
      BY <1>2, <3>4 DEF IInv, WaitInv, WaitResumes
    <3> QED
      BY <3>1, <3>2, <3>3, <3>4
  <2>2. \A q \in Request : pc'[q] = "inside" /\ waiter'[at'[q]] \in {"released", "returned"} => late'[q]
    <3> SUFFICES ASSUME NEW q \in Request, pc[q] = "inside", waiter'[at[q]] \in {"released", "returned"}
                 PROVE  waiter[at[q]] \in {"released", "returned"}
      BY <1>1 DEF IInv, WaitInv
    <3>1. at[q] \in Gen
      BY <1>2
    <3>2. CASE Wait(g)
      BY <1>2, <3>1, <3>2 DEF Wait, Unused
    <3>3. CASE WaitCompletes(g)
      BY <3>3 DEF WaitCompletes
    <3>4. CASE WaitTimesOut(g)
      BY <3>4 DEF WaitTimesOut
    <3>5. CASE WaitResumes(g)
      BY <1>2, <3>1, <3>5 DEF WaitResumes
    <3> QED
      BY <3>2, <3>3, <3>4, <3>5
  <2> QED
    BY <2>1, <2>2 DEF WaitInv
<1>10. RetiredInv'
  <2>1. \A h \in Gen : (closing'[h] # "no" <=> closing[h] # "no") /\ (closing'[h] = "no" <=> closing[h] = "no")
    BY <1>4
  <2> QED
    BY <1>1, <2>1 DEF IInv, RetiredInv
<1> QED
    BY <1>6, <1>7, <1>8, <1>9, <1>10 DEF IInv

\* SyncClose closes a client, or has closed them all.
LEMMA ClosingInv ==
    ASSUME IInv, NEW g \in Gen, CloseOne(g) \/ SyncCloseReturns(g), UNCHANGED crashed
    PROVE  IInv'
<1> DEFINE States == {"none", "orphan", "refused", "open", "closed"}
<1>1. UNCHANGED <<router, newest, left, closers, waiter, forced, pc, at, late>>
    BY DEF CloseOne, SyncCloseReturns, updateVars, closeVars, requestVars
<1>2. /\ closing \in [Gen -> {"no", "wait", "close", "closed"}]
      /\ closers \in [Gen -> SUBSET Endpoint]
      /\ client \in [Gen -> [Endpoint -> States]]
      /\ closing[g] = "close"
    BY DEF IInv, TypeOK, CloseOne, SyncCloseReturns
<1>3. WaitInv' /\ TypeOK' /\ OrderInv' /\ OpenInv' /\ RetiredInv'
  <2>1. CASE CloseOne(g)
    <3>1. PICK e \in closers[g] : client' = [client EXCEPT ![g][e] = "closed"]
      BY <2>1 DEF CloseOne
    <3>2. closing' = closing /\ e \in Endpoint
      BY <1>2, <2>1 DEF CloseOne, closeVars
    <3>3. client[g] \in [Endpoint -> States]
      BY <1>2
    <3>4. /\ client'[g] = [client[g] EXCEPT ![e] = "closed"]
          /\ \A h \in Gen : h # g => client'[h] = client[h]
          /\ client' \in [Gen -> [Endpoint -> States]]
      BY <1>2, <3>1, <3>2, <3>3
    <3>5. \A h \in Gen, d \in Endpoint :
             client'[h][d] = IF h = g /\ d = e THEN "closed" ELSE client[h][d]
      BY <3>2, <3>3, <3>4
    <3>6. \A h \in Gen : \A d \in closers[h] : d \in Endpoint
      BY <1>2
    <3>7. TypeOK'
      <4>1. \A h \in Gen : \A d \in closers'[h] : client'[h][d] \in {"open", "closed"}
        BY <1>1, <3>5, <3>6 DEF IInv, TypeOK
      <4> QED
        BY <1>1, <3>2, <3>4, <4>1 DEF IInv, TypeOK
    <3>8. OrderInv'
      <4>1. ~(g > newest)
        BY DEF IInv, OrderInv, TypeOK
      <4> QED
        BY <1>1, <3>2, <3>4, <4>1 DEF IInv, OrderInv
    <3>9. OpenInv'
      BY <1>1, <1>2, <3>2, <3>5, <3>6 DEF IInv, OpenInv
    <3>10. RetiredInv'
      <4>1. closers[g] # {} /\ closing[g] # "no"
        BY <1>2, <3>1
      <4>2. \A h \in Gen : closing'[h] # "no" \/ h = router' =>
              closers'[h] # {} \/ \A d \in Endpoint : client'[h][d] = "none"
        BY <1>1, <3>2, <3>4, <4>1 DEF IInv, RetiredInv
      <4>3. \A h \in Gen : closing'[h] = "no" /\ h < newest' + (IF left' = Idle THEN 1 ELSE 0) /\ h # router' =>
              closers'[h] = {} /\ \A d \in Endpoint : client'[h][d] # "refused"
        BY <1>1, <3>2, <3>4, <4>1 DEF IInv, RetiredInv
      <4> QED
        BY <4>2, <4>3 DEF RetiredInv
    <3> QED
      BY <1>1, <3>2, <3>7, <3>8, <3>9, <3>10 DEF IInv, WaitInv
  <2>2. CASE SyncCloseReturns(g)
    <3>1. /\ client' = client /\ closing' \in [Gen -> {"no", "wait", "close", "closed"}]
          /\ \A h \in Gen : closing'[h] = IF h = g THEN "closed" ELSE closing[h]
          /\ \A e \in closers[g] : client[g][e] # "open"
      BY <1>2, <2>2 DEF SyncCloseReturns
    <3>2. TypeOK'
      BY <1>1, <3>1 DEF IInv, TypeOK
    <3>3. OrderInv'
      <4>1. \A h \in Gen : closing'[h] # "no" => h < router'
        BY <1>1, <1>2, <3>1 DEF IInv, OrderInv
      <4> QED
        BY <1>1, <3>1, <4>1 DEF IInv, OrderInv
    <3>4. OpenInv' /\ WaitInv'
      <4>1. OpenInv'
        BY <1>1, <1>2, <3>1 DEF IInv, OpenInv
      <4>2. \A h \in Gen : closing'[h] \in {"close", "closed"} => closing[h] \in {"close", "closed"}
        BY <1>2, <3>1
      <4>3. WaitInv'
        BY <1>1, <4>2 DEF IInv, WaitInv
      <4> QED
        BY <4>1, <4>3
    <3>5. RetiredInv'
      <4>1. \A h \in Gen : (closing'[h] # "no" <=> closing[h] # "no") /\ (closing'[h] = "no" <=> closing[h] = "no")
        BY <1>2, <3>1
      <4> QED
        BY <1>1, <3>1, <4>1 DEF IInv, RetiredInv
    <3> QED
      BY <3>2, <3>3, <3>4, <3>5
  <2> QED
    BY <2>1, <2>2
<1> QED
    BY <1>3 DEF IInv

\* A request loads the router, enters it or leaves it.
LEMMA ServeInv ==
    ASSUME IInv, NEW q \in Request, Serve(q), UNCHANGED crashed
    PROVE  IInv'
<1>0. MaxGen \in Nat
    BY SwapAssumption
<1>1. UNCHANGED <<router, newest, left, closers, client, closing, forced>>
    BY DEF Serve, LoadRouter, Enter, Done, updateVars, closeVars
<1>2. /\ waiter \in [Gen -> {"none", "blocked", "released", "returned"}]
      /\ pc \in [Request -> {"new", "loaded", "inside"}]
      /\ at \in [Request -> Gen] /\ router \in Gen
    BY DEF IInv, TypeOK
<1>3. late \in [Request -> BOOLEAN]
    BY DEF IInv, TypeOK
<1>4. /\ waiter' \in [Gen -> {"none", "blocked", "released", "returned"}]
      /\ pc' \in [Request -> {"new", "loaded", "inside"}]
      /\ at' \in [Request -> Gen]
  <2>1. CASE LoadRouter(q)
    BY <1>2, <2>1 DEF LoadRouter, closeVars
  <2>2. CASE Enter(q)
    BY <1>2, <2>2 DEF Enter, closeVars
  <2>3. CASE Done(q)
    <3>1. 0 \in Gen
      BY <1>0 DEF Gen
    <3> QED
      BY <1>2, <2>3, <3>1 DEF Done
  <2> QED
    BY <2>1, <2>2, <2>3 DEF Serve
<1>5. late' \in [Request -> BOOLEAN]
  <2>1. CASE LoadRouter(q)
    BY <1>3, <2>1, Zenon DEF LoadRouter
  <2>2. CASE Enter(q)
    <3> DEFINE B == waiter[at[q]] \in {"released", "returned"}
    <3>1. B \in BOOLEAN
      OBVIOUS
    <3>2. late' = [late EXCEPT ![q] = B]
      BY <2>2, Zenon DEF Enter
    <3> HIDE DEF B
    <3> QED
      BY <1>3, <3>1, <3>2
  <2>3. CASE Done(q)
    BY <1>3, <2>3, Zenon DEF Done
  <2> QED
    BY <2>1, <2>2, <2>3 DEF Serve
<1>6. TypeOK'
    BY <1>1, <1>4, <1>5 DEF IInv, TypeOK
<1>7. OrderInv' /\ OpenInv' /\ RetiredInv'
    BY <1>1 DEF IInv, OrderInv, OpenInv, RetiredInv
<1>8. \A h \in Gen : waiter[h] = "returned" => waiter'[h] = "returned"
    BY <1>2 DEF Serve, LoadRouter, Enter, Done, closeVars
<1>9. \A r \in Request : pc'[r] = "inside" /\ waiter'[at'[r]] \in {"released", "returned"} => late'[r]
  <2> SUFFICES ASSUME NEW r \in Request, pc'[r] = "inside", waiter'[at'[r]] \in {"released", "returned"}
               PROVE  late'[r]
    OBVIOUS
  <2>1. CASE LoadRouter(q)
    <3>1. r # q /\ pc[r] = "inside" /\ at'[r] = at[r] /\ waiter' = waiter /\ late' = late
      BY <1>2, <2>1 DEF LoadRouter, closeVars
    <3> QED
      BY <3>1 DEF IInv, WaitInv
  <2>2. CASE Enter(q)
    <3>1. at' = at /\ waiter' = waiter
      BY <2>2 DEF Enter, closeVars
    <3>2. CASE r = q
      BY <1>3, <2>2, <3>1, <3>2, Zenon DEF Enter
    <3>3. CASE r # q
      <4>1. pc[r] = "inside"
        BY <1>2, <2>2, <3>3 DEF Enter
      <4>2. late'[r] = late[r]
        BY <1>3, <2>2, <3>3, Zenon DEF Enter
      <4> QED
        BY <3>1, <4>1, <4>2 DEF IInv, WaitInv
    <3> QED
      BY <3>2, <3>3
  <2>3. CASE Done(q)
    <3>1. r # q /\ pc[r] = "inside" /\ at'[r] = at[r]
      BY <1>2, <2>3 DEF Done
    <3>2. late'[r] = late[r]
      BY <1>3, <2>3, <3>1, Zenon DEF Done
    <3>3. waiter'[at[r]] = waiter[at[r]]
      BY <1>2, <2>3, <3>1 DEF Done
    <3> QED
      BY <3>1, <3>2, <3>3 DEF IInv, WaitInv
  <2> QED
    BY <2>1, <2>2, <2>3 DEF Serve
<1>10. WaitInv'
    BY <1>1, <1>8, <1>9 DEF IInv, WaitInv
<1> QED
    BY <1>6, <1>7, <1>10 DEF IInv

\* Every step keeps the invariant.
LEMMA NextInv == IInv /\ [Next]_vars => IInv'
<1> SUFFICES ASSUME IInv, [Next]_vars PROVE IInv'
    OBVIOUS
<1>1. CASE Update /\ UNCHANGED crashed
    BY <1>1, UpdateBeginsInv, BuildInv, UpdateFailsInv, SwapInv DEF Update
<1>2. ASSUME NEW g \in Gen, SyncClose(g) PROVE IInv'
    BY <1>2, WaitingInv, ClosingInv DEF SyncClose
<1>3. ASSUME NEW q \in Request, Serve(q), UNCHANGED crashed PROVE IInv'
    BY <1>3, ServeInv
<1>4. CASE UNCHANGED vars
  <2>1. TypeOK'
    BY <1>4 DEF vars, IInv, TypeOK
  <2>2. OrderInv' /\ OpenInv'
    BY <1>4 DEF vars, IInv, OrderInv, OpenInv
  <2>3. WaitInv' /\ RetiredInv'
    BY <1>4 DEF vars, IInv, WaitInv, RetiredInv
  <2> QED
    BY <2>1, <2>2, <2>3 DEF IInv
<1> QED
    BY <1>1, <1>2, <1>3, <1>4 DEF Next

\* The inductive invariant holds throughout.
THEOREM Invariance == Spec => []IInv
    BY InitInv, NextInv, PTL DEF Spec

\* The state of Updates, routers and requests keeps its type.
THEOREM TypeCorrect == Spec => []TypeOK
<1>1. IInv => TypeOK
    BY DEF IInv
<1> QED
    BY <1>1, Invariance, PTL

\* A request that entered before SyncClose was done waiting, and does not
\* outlast the limit, finds all the clients of its router open.
THEOREM ClientsStayOpen == Spec => []RequestsKeepTheirClients
<1>1. IInv => RequestsKeepTheirClients
  <2> SUFFICES ASSUME IInv, NEW q \in Request, pc[q] = "inside", ~late[q], ~forced[at[q]],
                      NEW e \in closers[at[q]]
               PROVE  client[at[q]][e] = "open"
    BY DEF RequestsKeepTheirClients
  <2>1. at[q] \in Gen
    BY DEF IInv, TypeOK
  <2>2. waiter[at[q]] # "returned"
    BY DEF IInv, WaitInv
  <2>3. closing[at[q]] \in {"no", "wait"}
    BY <2>1, <2>2 DEF IInv, TypeOK, WaitInv
  <2> QED
    BY <2>1, <2>3 DEF IInv, OpenInv
<1> QED
    BY <1>1, Invariance, PTL

\* A failed Update, and a router that was closed, leave no client behind but
\* the orphans and the refused ones.
THEOREM NoOtherLeak == Spec => []NothingElseLeaks
<1>1. IInv => NothingElseLeaks
  <2> SUFFICES ASSUME IInv, NEW g \in Gen, Retired(g), NEW e \in Endpoint
               PROVE  \/ client[g][e] \in {"none", "closed", "orphan"}
                      \/ client[g][e] = "refused" /\ closers[g] # {}
    BY DEF NothingElseLeaks
  <2>0. client[g][e] \in {"none", "orphan", "refused", "open", "closed"}
    BY DEF IInv, TypeOK
  <2>1. CASE closing[g] = "closed"
    BY <2>0, <2>1 DEF IInv, OpenInv, RetiredInv
  <2>2. CASE closing[g] = "no" /\ g # router /\ g <= newest /\ ~(g = newest /\ left # Idle)
    <3>1. g < newest + (IF left = Idle THEN 1 ELSE 0)
      BY <2>2, SwapAssumption DEF IInv, TypeOK, Gen
    <3>2. closers[g] = {} /\ client[g][e] # "refused"
      BY <2>2, <3>1 DEF IInv, RetiredInv
    <3> QED
      BY <2>0, <3>2 DEF IInv, OpenInv
  <2> QED
    BY <2>1, <2>2 DEF Retired
<1> QED
    BY <1>1, Invariance, PTL
=============================================================================
