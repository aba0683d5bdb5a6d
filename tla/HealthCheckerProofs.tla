------------------------ MODULE HealthCheckerProofs ------------------------
(***************************************************************************)
(* Proofs about HealthChecker for every set of addresses and every         *)
(* threshold. The induction needs nothing beyond the conjunction of the    *)
(* three invariants: a failure recorded against a node keeps its two       *)
(* records in step only because both have the same domain, and a late      *)
(* success adds a key to both.                                             *)
(***************************************************************************)
EXTENDS HealthChecker, TLAPS

\* Counting a failure never leaves 0..CountCap.
LEMMA IncrementedType ==
    ASSUME NEW n \in 0..CountCap
    PROVE  /\ Incremented(n) \in 0..CountCap
           /\ n <= Incremented(n)
  BY CountsAssumption DEF Incremented

\* markNodeFailure and MarkUnhealthy keep the types of both maps and the
\* agreement of the two records of every address.
LEMMA MarkNodeFailureKeeps ==
    ASSUME TypeOK, HealthMatchesCount, NEW a \in Addr, MarkNodeFailure(a)
    PROVE  /\ DOMAIN failureCount' = DOMAIN failureCount
           /\ failureCount' \in [DOMAIN failureCount -> 0..CountCap]
           /\ DOMAIN healthyNodes' = DOMAIN healthyNodes
           /\ healthyNodes' \in [DOMAIN healthyNodes -> BOOLEAN]
           /\ \A b \in DOMAIN failureCount : failureCount[b] <= failureCount'[b]
           /\ \A b \in DOMAIN failureCount :
                 healthyNodes'[b] <=> failureCount'[b] < MaxFailures
  <1>1. CASE a \notin DOMAIN failureCount
    BY <1>1 DEF MarkNodeFailure, TypeOK, HealthMatchesCount
  <1>2. CASE a \in DOMAIN failureCount
    <2> DEFINE n == Incremented(failureCount[a])
    <2>1. failureCount' = [failureCount EXCEPT ![a] = n]
      BY <1>2 DEF MarkNodeFailure
    <2>2. healthyNodes' = IF n >= MaxFailures THEN Put(healthyNodes, a, FALSE)
                                              ELSE healthyNodes
      BY <1>2 DEF MarkNodeFailure
    <2>3. n \in 0..CountCap /\ failureCount[a] <= n
      BY <1>2, IncrementedType DEF TypeOK
    <2> HIDE DEF n
    <2>4. a \in DOMAIN healthyNodes
      BY <1>2 DEF HealthMatchesCount
    <2>5. CASE n >= MaxFailures
      <3>1. /\ DOMAIN healthyNodes' = DOMAIN healthyNodes
            /\ healthyNodes' \in [DOMAIN healthyNodes -> BOOLEAN]
            /\ healthyNodes'[a] = FALSE
            /\ \A x \in DOMAIN healthyNodes \ {a} : healthyNodes'[x] = healthyNodes[x]
        BY <2>2, <2>4, <2>5 DEF Put, TypeOK
      <3>2. QED
        BY <1>2, <2>1, <2>3, <2>5, <3>1, CountsAssumption DEF TypeOK, HealthMatchesCount
    <2>6. CASE n < MaxFailures
      <3> ~(n >= MaxFailures)
        BY <2>3, <2>6, CountsAssumption
      <3>1. healthyNodes' = healthyNodes
        BY <2>2
      <3>2. healthyNodes[a] = TRUE
        BY <1>2, <2>3, <2>4, <2>6, CountsAssumption DEF TypeOK, HealthMatchesCount
      <3>3. QED
        BY <1>2, <2>1, <2>3, <2>6, <3>1, <3>2, CountsAssumption DEF TypeOK, HealthMatchesCount
    <2>7. QED
      BY <2>3, <2>5, <2>6, CountsAssumption
  <1>3. QED
    BY <1>1, <1>2

----------------------------------------------------------------------------
IInv == TypeOK /\ HealthMatchesCount /\ NoCheckOutlivesRound

LEMMA InitIInv == Init => IInv
  BY CountsAssumption
  DEF Init, IInv, TypeOK, HealthMatchesCount, NoCheckOutlivesRound, LoopStates, CheckStates

\* A step that leaves the three maps alone keeps what is said of them.
LEMMA MapsUnchanged ==
    ASSUME HealthMatchesCount, UNCHANGED mapVars
    PROVE  HealthMatchesCount'
  BY DEF HealthMatchesCount, mapVars

LEMMA UpdateNodesIInv ==
    ASSUME IInv, NEW latest \in SUBSET Addr, UpdateNodes(latest)
    PROVE  IInv'
  <1> USE DEF IInv, loopVars
  <1>0. nodes \subseteq DOMAIN failureCount /\ nodes \subseteq DOMAIN healthyNodes
    BY DEF HealthMatchesCount
  <1>1. /\ DOMAIN failureCount' = (DOMAIN failureCount \ nodes) \cup latest
        /\ DOMAIN failureCount' \subseteq Addr
        /\ failureCount' \in [DOMAIN failureCount' -> 0..CountCap]
        /\ \A a \in latest \ nodes : failureCount'[a] = 0
        /\ \A a \in DOMAIN failureCount' \ (latest \ nodes) :
              a \in DOMAIN failureCount /\ failureCount'[a] = failureCount[a]
    <2>1. 0 \in 0..CountCap
      BY CountsAssumption
    <2>2. DOMAIN failureCount' = (DOMAIN failureCount \ (nodes \ latest)) \cup (latest \ nodes)
      BY DEF UpdateNodes, Realigned
    <2>3. \A a \in DOMAIN failureCount' :
             failureCount'[a] = IF a \in latest \ nodes THEN 0 ELSE failureCount[a]
      BY DEF UpdateNodes, Realigned
    <2>4. failureCount' = [a \in DOMAIN failureCount' |-> failureCount'[a]]
      BY DEF UpdateNodes, Realigned
    <2>5. QED
      BY <1>0, <2>1, <2>2, <2>3, <2>4 DEF TypeOK
  <1>2. /\ DOMAIN healthyNodes' = (DOMAIN healthyNodes \ nodes) \cup latest
        /\ DOMAIN healthyNodes' \subseteq Addr
        /\ healthyNodes' \in [DOMAIN healthyNodes' -> BOOLEAN]
        /\ \A a \in latest \ nodes : healthyNodes'[a] = TRUE
        /\ \A a \in DOMAIN healthyNodes' \ (latest \ nodes) :
              a \in DOMAIN healthyNodes /\ healthyNodes'[a] = healthyNodes[a]
    <2>1. DOMAIN healthyNodes' = (DOMAIN healthyNodes \ (nodes \ latest)) \cup (latest \ nodes)
      BY DEF UpdateNodes, Realigned
    <2>2. \A a \in DOMAIN healthyNodes' :
             healthyNodes'[a] = IF a \in latest \ nodes THEN TRUE ELSE healthyNodes[a]
      BY DEF UpdateNodes, Realigned
    <2>3. healthyNodes' = [a \in DOMAIN healthyNodes' |-> healthyNodes'[a]]
      BY DEF UpdateNodes, Realigned
    <2>4. QED
      BY <1>0, <2>1, <2>2, <2>3 DEF TypeOK
  <1>3. TypeOK'
    BY <1>1, <1>2 DEF TypeOK, UpdateNodes
  <1>4. HealthMatchesCount'
    <2>1. nodes' \subseteq DOMAIN failureCount' /\ DOMAIN healthyNodes' = DOMAIN failureCount'
      BY <1>1, <1>2 DEF HealthMatchesCount, UpdateNodes
    <2>2. ASSUME NEW a \in DOMAIN failureCount'
          PROVE  healthyNodes'[a] <=> failureCount'[a] < MaxFailures
      <3>1. CASE a \in latest \ nodes
        BY <1>1, <1>2, <3>1, CountsAssumption
      <3>2. CASE a \notin latest \ nodes
        BY <1>1, <1>2, <2>1, <3>2 DEF HealthMatchesCount
      <3>3. QED
        BY <3>1, <3>2
    <2>3. QED
      BY <2>1, <2>2 DEF HealthMatchesCount
  <1>5. NoCheckOutlivesRound'
    BY DEF NoCheckOutlivesRound, UpdateNodes
  <1>6. QED
    BY <1>3, <1>4, <1>5

LEMMA MarkUnhealthyIInv ==
    ASSUME IInv, NEW a \in Addr, MarkUnhealthy(a)
    PROVE  IInv'
  <1> USE DEF IInv, MarkUnhealthy, loopVars
  <1>1. /\ DOMAIN failureCount' = DOMAIN failureCount
        /\ failureCount' \in [DOMAIN failureCount -> 0..CountCap]
        /\ DOMAIN healthyNodes' = DOMAIN healthyNodes
        /\ healthyNodes' \in [DOMAIN healthyNodes -> BOOLEAN]
        /\ \A b \in DOMAIN failureCount :
              healthyNodes'[b] <=> failureCount'[b] < MaxFailures
    BY MarkNodeFailureKeeps
  <1>2. TypeOK'
    BY <1>1 DEF TypeOK
  <1>3. HealthMatchesCount'
    BY <1>1 DEF HealthMatchesCount
  <1>4. NoCheckOutlivesRound'
    BY DEF NoCheckOutlivesRound
  <1>5. QED
    BY <1>2, <1>3, <1>4

LEMMA CheckGoroutineIInv ==
    ASSUME IInv, NEW a \in Addr, CheckGoroutine(a)
    PROVE  IInv'
  <1> USE DEF IInv, loopVars
  <1>1. CASE CheckAnswer(a)
    <2>1. TypeOK'
      BY <1>1 DEF CheckAnswer, TypeOK, mapVars, CheckStates
    <2>2. HealthMatchesCount'
      BY <1>1, MapsUnchanged DEF CheckAnswer
    <2>3. NoCheckOutlivesRound'
      BY <1>1 DEF CheckAnswer, NoCheckOutlivesRound, TypeOK
    <2>4. QED
      BY <2>1, <2>2, <2>3
  <1>2. CASE CheckNodePassed(a)
    <2>1. /\ DOMAIN failureCount' = DOMAIN failureCount \cup {a}
          /\ failureCount' \in [DOMAIN failureCount' -> 0..CountCap]
          /\ failureCount'[a] = 0
          /\ \A x \in DOMAIN failureCount \ {a} : failureCount'[x] = failureCount[x]
      BY <1>2, CountsAssumption DEF CheckNodePassed, Put, TypeOK
    <2>2. /\ DOMAIN healthyNodes' = DOMAIN healthyNodes \cup {a}
          /\ healthyNodes' \in [DOMAIN healthyNodes' -> BOOLEAN]
          /\ healthyNodes'[a] = TRUE
          /\ \A x \in DOMAIN healthyNodes \ {a} : healthyNodes'[x] = healthyNodes[x]
      BY <1>2 DEF CheckNodePassed, Put, TypeOK
    <2>3. TypeOK'
      BY <1>2, <2>1, <2>2 DEF CheckNodePassed, TypeOK, CheckStates
    <2>4. HealthMatchesCount'
      <3>1. nodes' \subseteq DOMAIN failureCount' /\ DOMAIN healthyNodes' = DOMAIN failureCount'
        BY <1>2, <2>1, <2>2 DEF CheckNodePassed, HealthMatchesCount
      <3>2. ASSUME NEW x \in DOMAIN failureCount'
            PROVE  healthyNodes'[x] <=> failureCount'[x] < MaxFailures
        <4>1. CASE x = a
          BY <2>1, <2>2, <4>1, CountsAssumption
        <4>2. CASE x # a
          BY <2>1, <2>2, <4>2 DEF HealthMatchesCount
        <4>3. QED
          BY <4>1, <4>2
      <3>3. QED
        BY <3>1, <3>2 DEF HealthMatchesCount
    <2>5. NoCheckOutlivesRound'
      BY <1>2 DEF CheckNodePassed, NoCheckOutlivesRound, TypeOK
    <2>6. QED
      BY <2>3, <2>4, <2>5
  <1>3. CASE CheckNodeFailed(a)
    <2>1. /\ DOMAIN failureCount' = DOMAIN failureCount
          /\ failureCount' \in [DOMAIN failureCount -> 0..CountCap]
          /\ DOMAIN healthyNodes' = DOMAIN healthyNodes
          /\ healthyNodes' \in [DOMAIN healthyNodes -> BOOLEAN]
          /\ \A b \in DOMAIN failureCount :
                healthyNodes'[b] <=> failureCount'[b] < MaxFailures
      BY <1>3, MarkNodeFailureKeeps DEF CheckNodeFailed
    <2>2. TypeOK'
      BY <1>3, <2>1 DEF CheckNodeFailed, TypeOK, CheckStates
    <2>3. HealthMatchesCount'
      BY <1>3, <2>1 DEF CheckNodeFailed, HealthMatchesCount
    <2>4. NoCheckOutlivesRound'
      BY <1>3 DEF CheckNodeFailed, NoCheckOutlivesRound, TypeOK
    <2>5. QED
      BY <2>2, <2>3, <2>4
  <1>4. QED
    BY <1>1, <1>2, <1>3 DEF CheckGoroutine

\* The steps that touch neither the maps nor, but for a new round, the checks.
LEMMA ControlIInv ==
    ASSUME IInv, Start \/ StopTicker \/ StopCancel \/ CheckLoop
    PROVE  IInv'
  <1> USE DEF IInv, CheckLoop, Start, StopTicker, StopCancel, EnterSelect, SelectDone,
              SelectTick, RoundDone
  <1>1. TypeOK'
    BY DEF TypeOK, LoopStates, CheckStates, mapVars
  <1>2. HealthMatchesCount'
    BY MapsUnchanged
  <1>3. NoCheckOutlivesRound'
    BY DEF NoCheckOutlivesRound
  <1>4. QED
    BY <1>1, <1>2, <1>3

LEMMA BackendFlipsIInv ==
    ASSUME IInv, NEW a \in Addr, BackendFlips(a)
    PROVE  IInv'
  <1> USE DEF IInv, BackendFlips, loopVars
  <1>1. TypeOK'
    BY DEF TypeOK, mapVars
  <1>2. HealthMatchesCount' /\ NoCheckOutlivesRound'
    BY MapsUnchanged DEF NoCheckOutlivesRound
  <1>3. QED
    BY <1>1, <1>2

LEMMA StutterIInv ==
    ASSUME IInv, UNCHANGED vars
    PROVE  IInv'
  BY DEF IInv, TypeOK, HealthMatchesCount, NoCheckOutlivesRound, vars

LEMMA NextIInv == IInv /\ [Next]_vars => IInv'
  BY UpdateNodesIInv, MarkUnhealthyIInv, CheckGoroutineIInv, ControlIInv,
     BackendFlipsIInv, StutterIInv
  DEF Next

LEMMA InvariantHolds == Spec => []IInv
  BY InitIInv, NextIInv, PTL DEF Spec

\* The maps, the loop and its checks keep their types.
THEOREM TypeCorrect == Spec => []TypeOK
  <1>1. IInv => TypeOK
    BY DEF IInv
  <1>2. QED
    BY <1>1, InvariantHolds, PTL

\* However updateNodes, MarkUnhealthy and the checks interleave, the filter's
\* verdict on an address is the one its failure count calls for.
THEOREM HealthIsTheCount == Spec => []HealthMatchesCount
  <1>1. IInv => HealthMatchesCount
    BY DEF IInv
  <1>2. QED
    BY <1>1, InvariantHolds, PTL

\* No goroutine of checkAllNodes outlives the round that started it.
THEOREM RoundsDoNotOverlap == Spec => []NoCheckOutlivesRound
  <1>1. IInv => NoCheckOutlivesRound
    BY DEF IInv
  <1>2. QED
    BY <1>1, InvariantHolds, PTL

----------------------------------------------------------------------------
\* One step forgives a count only by recording a passed check.
Forgives == \A a \in nodes \cap nodes' :
    failureCount'[a] < failureCount[a] => check[a] = "ok" /\ check'[a] = "none"

LEMMA NextForgives == IInv /\ [Next]_vars => [Forgives]_vars
  <1> SUFFICES ASSUME IInv, [Next]_vars,
                      NEW a \in nodes \cap nodes', failureCount'[a] < failureCount[a]
               PROVE  check[a] = "ok" /\ check'[a] = "none"
    BY DEF Forgives
  <1> USE DEF IInv
  <1>0. a \in DOMAIN failureCount /\ failureCount[a] \in 0..CountCap /\ a \in Addr
    BY DEF HealthMatchesCount, TypeOK
  <1>1. ASSUME NEW b \in Addr, MarkNodeFailure(b) PROVE FALSE
    <2>1. /\ failureCount[a] <= failureCount'[a]
          /\ failureCount'[a] \in 0..CountCap
      BY <1>0, <1>1, MarkNodeFailureKeeps
    <2>2. QED
      BY <1>0, <2>1, CountsAssumption
  <1>2. ASSUME failureCount' = failureCount PROVE FALSE
    BY <1>0, <1>2, CountsAssumption
  <1>3. ASSUME NEW latest \in SUBSET Addr, UpdateNodes(latest) PROVE FALSE
    <2>1. failureCount'[a] = failureCount[a]
      BY <1>0, <1>3 DEF UpdateNodes, Realigned
    <2>2. QED
      BY <1>0, <2>1, CountsAssumption
  <1>4. ASSUME NEW b \in Addr, CheckNodePassed(b)
        PROVE  check[a] = "ok" /\ check'[a] = "none"
    <2>1. CASE b = a
      BY <1>4, <2>1 DEF CheckNodePassed, TypeOK
    <2>2. CASE b # a
      <3>1. failureCount'[a] = failureCount[a]
        BY <1>0, <1>4, <2>2 DEF CheckNodePassed, Put
      <3>2. QED
        BY <1>0, <3>1, CountsAssumption
    <2>3. QED
      BY <2>1, <2>2
  <1>5. QED
    BY <1>1, <1>2, <1>3, <1>4
    DEF Next, CheckLoop, CheckGoroutine, Start, StopTicker, StopCancel, EnterSelect,
        SelectDone, SelectTick, RoundDone, CheckAnswer, CheckNodeFailed, MarkUnhealthy,
        BackendFlips, mapVars, vars

\* updateNodes is no amnesty: while an address stays announced, only a passed
\* check lowers its failure count.
THEOREM ForgivenOnlyByACheck == Spec => OnlyAPassedCheckForgives
  <1>1. Spec => [][Forgives]_vars
    BY InvariantHolds, NextForgives, PTL DEF Spec
  <1>2. QED
    BY <1>1 DEF OnlyAPassedCheckForgives, Forgives
=============================================================================
