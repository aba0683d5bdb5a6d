------------------------ MODULE RequestHandlerProofs ------------------------
(***************************************************************************)
(* Proofs about RequestHandler for any nodes, attempts, statuses and retry *)
(* conditions.                                                             *)
(***************************************************************************)
EXTENDS RequestHandler, SequenceTheorems, TLAPS

InChain == {"auth", "breaker", "trip", "upstream", "judge"}

\* The counters: every pass through the loop runs the chain once, and the
\* upstream calls lag behind by the one the current attempt has still to make.
CountInv ==
    /\ pc = "read" => i = 0 /\ ran = 0 /\ backends = <<>>
    /\ pc = "loop" => i = ran
    /\ pc \in InChain => i < Attempts /\ ran = i + 1
    /\ pc \in {"auth", "breaker"} => Len(backends) < ran
    /\ pc = "trip" => Len(backends) < ran + inner
    /\ pc = "upstream" => inner = 0
    /\ Len(backends) <= ran

\* An error, or the response of the last attempt.
Settled == err # NoErr \/ (ran > 0 /\ resp.try = ran)

\* What the loop leaves behind for the code after it.
ResultInv ==
    /\ pc = "read" => resp = NoResp
    /\ pc = "trip" /\ inner > 0 => lastErr # NoErr
    /\ pc \in {"judge", "finish"} => Settled
    /\ pc = "loop" /\ i > 0 => Settled
    /\ pc \in {"copy", "done"} => err = NoErr /\ ran > 0 /\ resp.try = ran

\* A fresh reader per attempt, drained by the one call the attempt makes.
BodyInv ==
    /\ pc \in {"auth", "breaker"} => body = "full"
    /\ pc = "trip" /\ inner = 0 => body = "full"
    /\ EveryCallCarriesTheBody

\* The call a response came from is released by CopyBody alone.
DoneInv ==
    /\ pc = "upstream" => lastDone = Len(backends) /\ doneCalls[lastDone] = 0
    /\ pc \in {"judge", "loop", "finish", "copy"} /\ err = NoErr /\ resp.call # 0 =>
        resp.call <= Len(backends) /\ doneFunc = resp.call /\ doneCalls[resp.call] = 0
    /\ DeliveredCallReleasedOnce

\* A node that was healthy throughout is healthy now.
FilterInv == steady \subseteq healthy /\ RepeatsOnlyWithoutChoice

IInv == TypeOK /\ CountInv /\ ResultInv /\ BodyInv /\ DoneInv /\ FilterInv

LEMMA ErrorsAreErrors ==
    /\ NoErr \in Errors /\ CtxErr \in Errors /\ DoErr \in Errors /\ ReadErr \in Errors
    /\ NoAvailable \in Errors
    /\ JwtErrors \cup RbacErrors \subseteq Errors
    /\ CtxErr # NoErr /\ DoErr # NoErr /\ NoAvailable # NoErr
    /\ NoErr \notin JwtErrors \cup RbacErrors
  BY DEF Errors, NoErr, CtxErr, DoErr, ReadErr, NoAvailable, JwtErrors, RbacErrors,
     PermissionErrors, ErrPermissionDenied

LEMMA NoRespIsAResponse ==
    NoResp \in [status : Statuses \cup {0, BreakStatus}, try : 0..Attempts, call : Nat]
  BY AttemptsAssumption DEF NoResp

\* Counting one more call of done for index k.
LEMMA CountedDone ==
    ASSUME NEW s \in Seq(Nat), NEW k \in 1..Len(s)
    PROVE  /\ [s EXCEPT ![k] = @ + 1] \in Seq(Nat)
           /\ Len([s EXCEPT ![k] = @ + 1]) = Len(s)
           /\ [s EXCEPT ![k] = @ + 1][k] = s[k] + 1
  <1>1. s[k] + 1 \in Nat
    OBVIOUS
  <1>2. QED
    BY <1>1, ExceptSeq

LEMMA InitIInv == Init => IInv
  <1> SUFFICES ASSUME Init PROVE IInv
    OBVIOUS
  <1>1. PlaceType
    BY AttemptsAssumption DEF Init, PlaceType, DefaultMaxRetries
  <1>2. CallsType
    BY EmptySeq DEF Init, CallsType
  <1>3. ResultType
    BY ErrorsAreErrors, NoRespIsAResponse DEF Init, ResultType
  <1>4. CountInv /\ ResultInv
    BY AttemptsAssumption DEF Init, CountInv, ResultInv, InChain
  <1>5. BodyInv /\ DoneInv /\ FilterInv
    BY DEF Init, BodyInv, EveryCallCarriesTheBody, DoneInv, DeliveredCallReleasedOnce,
       FilterInv, RepeatsOnlyWithoutChoice, NoResp
  <1>6. QED
    BY <1>1, <1>2, <1>3, <1>4, <1>5 DEF IInv, TypeOK

\* The counters and places stay in range.
LEMMA NextPlace == IInv /\ [Next]_vars => PlaceType'
  <1> SUFFICES ASSUME IInv, [Next]_vars PROVE PlaceType'
    OBVIOUS
  <1> USE AttemptsAssumption DEF IInv, confVars, loopVars, tripVars, callVars, envVars, TypeOK, PlaceType, CountInv, InChain, DefaultMaxRetries
  <1>1. ASSUME ReadBody PROVE PlaceType'
    BY <1>1 DEF ReadBody
  <1>2. ASSUME StopRetrying PROVE PlaceType'
    BY <1>2 DEF StopRetrying
  <1>3. ASSUME CtxIsDone PROVE PlaceType'
    BY <1>3 DEF CtxIsDone
  <1>4. ASSUME BeginAttempt PROVE PlaceType'
    BY <1>4 DEF BeginAttempt
  <1>5. ASSUME AuthMiddlewares PROVE PlaceType'
    BY <1>5 DEF AuthMiddlewares, ReturnsError
  <1>6. ASSUME CircuitBreaker PROVE PlaceType'
    BY <1>6 DEF CircuitBreaker, EnterRoundTrip, ReturnsResponse, Response
  <1>7. ASSUME SelectNode PROVE PlaceType'
    BY <1>7 DEF SelectNode
  <1>8. ASSUME SelectFails PROVE PlaceType'
    BY <1>8 DEF SelectFails
  <1>9. ASSUME UpstreamFails PROVE PlaceType'
    BY <1>9 DEF UpstreamFails
  <1>10. ASSUME UpstreamAnswers PROVE PlaceType'
    BY <1>10 DEF UpstreamAnswers, ReturnsResponse, Response
  <1>11. ASSUME RoundTripFails PROVE PlaceType'
    BY <1>11 DEF RoundTripFails, ReturnsError
  <1>12. ASSUME JudgeAttempt PROVE PlaceType'
    BY <1>12 DEF JudgeAttempt
  <1>13. ASSUME Finish PROVE PlaceType'
    BY <1>13 DEF Finish
  <1>14. ASSUME CopyBody PROVE PlaceType'
    BY <1>14 DEF CopyBody
  <1>15. ASSUME ContextExpires PROVE PlaceType'
    BY <1>15 DEF ContextExpires
  <1>16. ASSUME NEW latest \in SUBSET AllNodes, HealthChanges(latest) PROVE PlaceType'
    BY <1>16 DEF HealthChanges
  <1>17. ASSUME UNCHANGED vars PROVE PlaceType'
    BY <1>17 DEF vars
  <1>18. QED
    BY <1>1, <1>2, <1>3, <1>4, <1>5, <1>6, <1>7, <1>8, <1>9, <1>10, <1>11, <1>12, <1>13, <1>14, <1>15, <1>16, <1>17 DEF Next, Answered

\* The records of the calls stay parallel.
LEMMA NextCalls == IInv /\ [Next]_vars => CallsType'
  <1> SUFFICES ASSUME IInv, [Next]_vars PROVE CallsType'
    OBVIOUS
  <1> USE AttemptsAssumption DEF IInv, confVars, loopVars, tripVars, callVars, envVars, TypeOK, CallsType
  <1>1. ASSUME ReadBody PROVE CallsType'
    BY <1>1 DEF ReadBody
  <1>2. ASSUME StopRetrying PROVE CallsType'
    BY <1>2 DEF StopRetrying
  <1>3. ASSUME CtxIsDone PROVE CallsType'
    BY <1>3 DEF CtxIsDone
  <1>4. ASSUME BeginAttempt PROVE CallsType'
    BY <1>4 DEF BeginAttempt
  <1>5. ASSUME AuthMiddlewares PROVE CallsType'
    BY <1>5 DEF AuthMiddlewares, ReturnsError
  <1>6. ASSUME CircuitBreaker PROVE CallsType'
    BY <1>6 DEF CircuitBreaker, EnterRoundTrip, ReturnsResponse, Response
  <1>7. ASSUME SelectNode PROVE CallsType'
    <2>1. PICK n \in Candidates : backends' = Append(backends, n)
      BY <1>7 DEF SelectNode
    <2>2. n \in AllNodes
      BY DEF Candidates, AllNodes
    <2>3. backends' \in Seq(AllNodes) /\ Len(backends') = Len(backends) + 1
      BY <2>1, <2>2, AppendProperties
    <2>4. sent' \in Seq({"full", "drained"}) /\ Len(sent') = Len(sent) + 1
      BY <1>7, AppendProperties DEF SelectNode, PlaceType
    <2>5. doneCalls' \in Seq(Nat) /\ Len(doneCalls') = Len(doneCalls) + 1
      BY <1>7, AppendProperties DEF SelectNode
    <2>6. QED
      BY <1>7, <2>3, <2>4, <2>5 DEF SelectNode
  <1>8. ASSUME SelectFails PROVE CallsType'
    BY <1>8 DEF SelectFails
  <1>9. ASSUME UpstreamFails PROVE CallsType'
    <2>1. lastDone \in 1..Len(doneCalls)
      BY <1>9 DEF UpstreamFails
    <2>2. doneCalls' \in Seq(Nat) /\ Len(doneCalls') = Len(doneCalls)
      BY <1>9, <2>1, CountedDone DEF UpstreamFails
    <2>3. QED
      BY <1>9, <2>2 DEF UpstreamFails
  <1>10. ASSUME UpstreamAnswers PROVE CallsType'
    BY <1>10 DEF UpstreamAnswers, ReturnsResponse, Response
  <1>11. ASSUME RoundTripFails PROVE CallsType'
    <2>1. doneCalls' \in Seq(Nat) /\ Len(doneCalls') = Len(doneCalls)
      BY <1>11, CountedDone DEF RoundTripFails
    <2>2. QED
      BY <1>11, <2>1 DEF RoundTripFails, ReturnsError
  <1>12. ASSUME JudgeAttempt PROVE CallsType'
    BY <1>12 DEF JudgeAttempt
  <1>13. ASSUME Finish PROVE CallsType'
    BY <1>13 DEF Finish
  <1>14. ASSUME CopyBody PROVE CallsType'
    <2>1. doneCalls' \in Seq(Nat) /\ Len(doneCalls') = Len(doneCalls)
      BY <1>14, CountedDone DEF CopyBody
    <2>2. QED
      BY <1>14, <2>1 DEF CopyBody
  <1>15. ASSUME ContextExpires PROVE CallsType'
    BY <1>15 DEF ContextExpires
  <1>16. ASSUME NEW latest \in SUBSET AllNodes, HealthChanges(latest) PROVE CallsType'
    BY <1>16 DEF HealthChanges
  <1>17. ASSUME UNCHANGED vars PROVE CallsType'
    BY <1>17 DEF vars
  <1>18. QED
    BY <1>1, <1>2, <1>3, <1>4, <1>5, <1>6, <1>7, <1>8, <1>9, <1>10, <1>11, <1>12, <1>13, <1>14, <1>15, <1>16, <1>17 DEF Next, Answered

\* Errors and responses stay what they are declared to be.
LEMMA NextResultType == IInv /\ [Next]_vars => ResultType'
  <1> SUFFICES ASSUME IInv, [Next]_vars PROVE ResultType'
    OBVIOUS
  <1> USE ErrorsAreErrors DEF IInv, confVars, loopVars, tripVars, callVars, envVars, TypeOK, ResultType, PlaceType, CallsType
  <1>1. ASSUME ReadBody PROVE ResultType'
    BY <1>1 DEF ReadBody
  <1>2. ASSUME StopRetrying PROVE ResultType'
    BY <1>2 DEF StopRetrying
  <1>3. ASSUME CtxIsDone PROVE ResultType'
    BY <1>3 DEF CtxIsDone
  <1>4. ASSUME BeginAttempt PROVE ResultType'
    BY <1>4 DEF BeginAttempt
  <1>5. ASSUME AuthMiddlewares PROVE ResultType'
    BY <1>5, NoRespIsAResponse DEF AuthMiddlewares, ReturnsError
  <1>6. ASSUME CircuitBreaker PROVE ResultType'
    BY <1>6 DEF CircuitBreaker, EnterRoundTrip, ReturnsResponse, Response
  <1>7. ASSUME SelectNode PROVE ResultType'
    BY <1>7 DEF SelectNode
  <1>8. ASSUME SelectFails PROVE ResultType'
    BY <1>8 DEF SelectFails
  <1>9. ASSUME UpstreamFails PROVE ResultType'
    BY <1>9 DEF UpstreamFails
  <1>10. ASSUME UpstreamAnswers PROVE ResultType'
    BY <1>10 DEF UpstreamAnswers, ReturnsResponse, Response
  <1>11. ASSUME RoundTripFails PROVE ResultType'
    BY <1>11, NoRespIsAResponse DEF RoundTripFails, ReturnsError
  <1>12. ASSUME JudgeAttempt PROVE ResultType'
    BY <1>12 DEF JudgeAttempt
  <1>13. ASSUME Finish PROVE ResultType'
    BY <1>13 DEF Finish
  <1>14. ASSUME CopyBody PROVE ResultType'
    BY <1>14 DEF CopyBody
  <1>15. ASSUME ContextExpires PROVE ResultType'
    BY <1>15 DEF ContextExpires
  <1>16. ASSUME NEW latest \in SUBSET AllNodes, HealthChanges(latest) PROVE ResultType'
    BY <1>16 DEF HealthChanges
  <1>17. ASSUME UNCHANGED vars PROVE ResultType'
    BY <1>17 DEF vars
  <1>18. QED
    BY <1>1, <1>2, <1>3, <1>4, <1>5, <1>6, <1>7, <1>8, <1>9, <1>10, <1>11, <1>12, <1>13, <1>14, <1>15, <1>16, <1>17 DEF Next, Answered

\* A pass through the loop makes at most one upstream call.
LEMMA NextCount == IInv /\ [Next]_vars => CountInv'
  <1> SUFFICES ASSUME IInv, [Next]_vars PROVE CountInv'
    OBVIOUS
  <1> USE AttemptsAssumption DEF IInv, confVars, loopVars, tripVars, callVars, envVars, TypeOK, PlaceType, CountInv, InChain, DefaultMaxRetries
  <1>0. Len(backends) \in Nat
    BY DEF CallsType
  <1> USE <1>0
  <1>1. ASSUME ReadBody PROVE CountInv'
    BY <1>1 DEF ReadBody
  <1>2. ASSUME StopRetrying PROVE CountInv'
    BY <1>2 DEF StopRetrying
  <1>3. ASSUME CtxIsDone PROVE CountInv'
    BY <1>3 DEF CtxIsDone
  <1>4. ASSUME BeginAttempt PROVE CountInv'
    BY <1>4 DEF BeginAttempt
  <1>5. ASSUME AuthMiddlewares PROVE CountInv'
    BY <1>5 DEF AuthMiddlewares, ReturnsError
  <1>6. ASSUME CircuitBreaker PROVE CountInv'
    BY <1>6 DEF CircuitBreaker, EnterRoundTrip, ReturnsResponse, Response
  <1>7. ASSUME SelectNode PROVE CountInv'
    <2>1. Len(backends') = Len(backends) + 1
      BY <1>7, AppendProperties DEF SelectNode, CallsType, Candidates, AllNodes
    <2>2. inner = 0 /\ Len(backends) \in Nat
      BY <1>7 DEF SelectNode, CallsType
    <2>3. QED
      BY <1>7, <2>1, <2>2 DEF SelectNode
  <1>8. ASSUME SelectFails PROVE CountInv'
    BY <1>8 DEF SelectFails
  <1>9. ASSUME UpstreamFails PROVE CountInv'
    BY <1>9 DEF UpstreamFails
  <1>10. ASSUME UpstreamAnswers PROVE CountInv'
    BY <1>10 DEF UpstreamAnswers, ReturnsResponse, Response
  <1>11. ASSUME RoundTripFails PROVE CountInv'
    BY <1>11 DEF RoundTripFails, ReturnsError
  <1>12. ASSUME JudgeAttempt PROVE CountInv'
    BY <1>12 DEF JudgeAttempt
  <1>13. ASSUME Finish PROVE CountInv'
    BY <1>13 DEF Finish
  <1>14. ASSUME CopyBody PROVE CountInv'
    BY <1>14 DEF CopyBody
  <1>15. ASSUME ContextExpires PROVE CountInv'
    BY <1>15 DEF ContextExpires
  <1>16. ASSUME NEW latest \in SUBSET AllNodes, HealthChanges(latest) PROVE CountInv'
    BY <1>16 DEF HealthChanges
  <1>17. ASSUME UNCHANGED vars PROVE CountInv'
    BY <1>17 DEF vars
  <1>18. QED
    BY <1>1, <1>2, <1>3, <1>4, <1>5, <1>6, <1>7, <1>8, <1>9, <1>10, <1>11, <1>12, <1>13, <1>14, <1>15, <1>16, <1>17 DEF Next, Answered

\* An error or the last attempt's response survives the loop.
LEMMA NextResult == IInv /\ [Next]_vars => ResultInv'
  <1> SUFFICES ASSUME IInv, [Next]_vars PROVE ResultInv'
    OBVIOUS
  <1> USE AttemptsAssumption, ErrorsAreErrors DEF IInv, confVars, loopVars, tripVars, callVars, envVars, TypeOK, PlaceType, CountInv, InChain, ResultInv, Settled, DefaultMaxRetries
  <1>1. ASSUME ReadBody PROVE ResultInv'
    BY <1>1 DEF ReadBody
  <1>2. ASSUME StopRetrying PROVE ResultInv'
    BY <1>2 DEF StopRetrying
  <1>3. ASSUME CtxIsDone PROVE ResultInv'
    BY <1>3 DEF CtxIsDone
  <1>4. ASSUME BeginAttempt PROVE ResultInv'
    BY <1>4 DEF BeginAttempt
  <1>5. ASSUME AuthMiddlewares PROVE ResultInv'
    BY <1>5 DEF AuthMiddlewares, ReturnsError
  <1>6. ASSUME CircuitBreaker PROVE ResultInv'
    BY <1>6 DEF CircuitBreaker, EnterRoundTrip, ReturnsResponse, Response
  <1>7. ASSUME SelectNode PROVE ResultInv'
    BY <1>7 DEF SelectNode
  <1>8. ASSUME SelectFails PROVE ResultInv'
    BY <1>8 DEF SelectFails
  <1>9. ASSUME UpstreamFails PROVE ResultInv'
    BY <1>9 DEF UpstreamFails
  <1>10. ASSUME UpstreamAnswers PROVE ResultInv'
    BY <1>10 DEF UpstreamAnswers, ReturnsResponse, Response
  <1>11. ASSUME RoundTripFails PROVE ResultInv'
    BY <1>11 DEF RoundTripFails, ReturnsError
  <1>12. ASSUME JudgeAttempt PROVE ResultInv'
    BY <1>12 DEF JudgeAttempt
  <1>13. ASSUME Finish PROVE ResultInv'
    BY <1>13 DEF Finish
  <1>14. ASSUME CopyBody PROVE ResultInv'
    BY <1>14 DEF CopyBody
  <1>15. ASSUME ContextExpires PROVE ResultInv'
    BY <1>15 DEF ContextExpires
  <1>16. ASSUME NEW latest \in SUBSET AllNodes, HealthChanges(latest) PROVE ResultInv'
    BY <1>16 DEF HealthChanges
  <1>17. ASSUME UNCHANGED vars PROVE ResultInv'
    BY <1>17 DEF vars
  <1>18. QED
    BY <1>1, <1>2, <1>3, <1>4, <1>5, <1>6, <1>7, <1>8, <1>9, <1>10, <1>11, <1>12, <1>13, <1>14, <1>15, <1>16, <1>17 DEF Next, Answered

\* The reader is fresh when the call goes out.
LEMMA NextBody == IInv /\ [Next]_vars => BodyInv'
  <1> SUFFICES ASSUME IInv, [Next]_vars PROVE BodyInv'
    OBVIOUS
  <1> USE DEF IInv, confVars, loopVars, tripVars, callVars, envVars, BodyInv, EveryCallCarriesTheBody
  <1>1. ASSUME ReadBody PROVE BodyInv'
    BY <1>1 DEF ReadBody
  <1>2. ASSUME StopRetrying PROVE BodyInv'
    BY <1>2 DEF StopRetrying
  <1>3. ASSUME CtxIsDone PROVE BodyInv'
    BY <1>3 DEF CtxIsDone
  <1>4. ASSUME BeginAttempt PROVE BodyInv'
    BY <1>4 DEF BeginAttempt
  <1>5. ASSUME AuthMiddlewares PROVE BodyInv'
    BY <1>5 DEF AuthMiddlewares, ReturnsError
  <1>6. ASSUME CircuitBreaker PROVE BodyInv'
    BY <1>6 DEF CircuitBreaker, EnterRoundTrip, ReturnsResponse, Response
  <1>7. ASSUME SelectNode PROVE BodyInv'
    <2>1. body = "full" /\ sent' = Append(sent, "full")
      BY <1>7 DEF SelectNode, TypeOK, PlaceType, DefaultMaxRetries
    <2>2. sent \in Seq({"full", "drained"})
      BY DEF TypeOK, CallsType
    <2>3. Len(sent') = Len(sent) + 1 /\ DOMAIN sent' = 1..(Len(sent) + 1)
      BY <2>1, <2>2, AppendProperties
    <2>4. \A k \in DOMAIN sent' : sent'[k] = "full"
      BY <2>1, <2>2, <2>3, AppendProperties
    <2>5. QED
      BY <1>7, <2>4 DEF SelectNode
  <1>8. ASSUME SelectFails PROVE BodyInv'
    BY <1>8 DEF SelectFails, TypeOK, PlaceType
  <1>9. ASSUME UpstreamFails PROVE BodyInv'
    BY <1>9 DEF UpstreamFails, CountInv
  <1>10. ASSUME UpstreamAnswers PROVE BodyInv'
    BY <1>10 DEF UpstreamAnswers, ReturnsResponse, Response
  <1>11. ASSUME RoundTripFails PROVE BodyInv'
    BY <1>11 DEF RoundTripFails, ReturnsError
  <1>12. ASSUME JudgeAttempt PROVE BodyInv'
    BY <1>12 DEF JudgeAttempt
  <1>13. ASSUME Finish PROVE BodyInv'
    BY <1>13 DEF Finish
  <1>14. ASSUME CopyBody PROVE BodyInv'
    BY <1>14 DEF CopyBody
  <1>15. ASSUME ContextExpires PROVE BodyInv'
    BY <1>15 DEF ContextExpires
  <1>16. ASSUME NEW latest \in SUBSET AllNodes, HealthChanges(latest) PROVE BodyInv'
    BY <1>16 DEF HealthChanges
  <1>17. ASSUME UNCHANGED vars PROVE BodyInv'
    BY <1>17 DEF vars
  <1>18. QED
    BY <1>1, <1>2, <1>3, <1>4, <1>5, <1>6, <1>7, <1>8, <1>9, <1>10, <1>11, <1>12, <1>13, <1>14, <1>15, <1>16, <1>17 DEF Next, Answered

\* The delivered call's done runs in CopyBody only.
LEMMA NextDone == IInv /\ [Next]_vars => DoneInv'
  <1> SUFFICES ASSUME IInv, [Next]_vars PROVE DoneInv'
    OBVIOUS
  <1> USE ErrorsAreErrors DEF IInv, confVars, loopVars, tripVars, callVars, envVars, TypeOK, CallsType, ResultType, DoneInv, DeliveredCallReleasedOnce, NoResp
  <1>1. ASSUME ReadBody PROVE DoneInv'
    BY <1>1 DEF ReadBody, ResultInv
  <1>2. ASSUME StopRetrying PROVE DoneInv'
    BY <1>2 DEF StopRetrying
  <1>3. ASSUME CtxIsDone PROVE DoneInv'
    BY <1>3 DEF CtxIsDone
  <1>4. ASSUME BeginAttempt PROVE DoneInv'
    BY <1>4 DEF BeginAttempt
  <1>5. ASSUME AuthMiddlewares PROVE DoneInv'
    BY <1>5 DEF AuthMiddlewares, ReturnsError
  <1>6. ASSUME CircuitBreaker PROVE DoneInv'
    BY <1>6 DEF CircuitBreaker, EnterRoundTrip, ReturnsResponse, Response
  <1>7. ASSUME SelectNode PROVE DoneInv'
    BY <1>7 DEF SelectNode
  <1>8. ASSUME SelectFails PROVE DoneInv'
    BY <1>8 DEF SelectFails
  <1>9. ASSUME UpstreamFails PROVE DoneInv'
    BY <1>9 DEF UpstreamFails
  <1>10. ASSUME UpstreamAnswers PROVE DoneInv'
    BY <1>10 DEF UpstreamAnswers, ReturnsResponse, Response
  <1>11. ASSUME RoundTripFails PROVE DoneInv'
    BY <1>11 DEF RoundTripFails, ReturnsError
  <1>12. ASSUME JudgeAttempt PROVE DoneInv'
    BY <1>12 DEF JudgeAttempt
  <1>13. ASSUME Finish PROVE DoneInv'
    BY <1>13 DEF Finish
  <1>14. ASSUME CopyBody PROVE DoneInv'
    <2>1. CASE resp.call = 0
      BY <1>14, <2>1 DEF CopyBody
    <2>2. CASE resp.call # 0
      <3>1. doneFunc = resp.call /\ doneCalls[resp.call] = 0 /\ resp.call \in 1..Len(doneCalls)
        BY <1>14, <2>2 DEF CopyBody, ResultInv
      <3>2. doneCalls'[resp.call] = 1
        BY <1>14, <3>1, CountedDone DEF CopyBody
      <3>3. QED
        BY <1>14, <3>2 DEF CopyBody
    <2>3. QED
      BY <2>1, <2>2
  <1>15. ASSUME ContextExpires PROVE DoneInv'
    BY <1>15 DEF ContextExpires
  <1>16. ASSUME NEW latest \in SUBSET AllNodes, HealthChanges(latest) PROVE DoneInv'
    BY <1>16 DEF HealthChanges
  <1>17. ASSUME UNCHANGED vars PROVE DoneInv'
    BY <1>17 DEF vars
  <1>18. QED
    BY <1>1, <1>2, <1>3, <1>4, <1>5, <1>6, <1>7, <1>8, <1>9, <1>10, <1>11, <1>12, <1>13, <1>14, <1>15, <1>16, <1>17 DEF Next, Answered

\* The retry filter repeats a node only without a choice.
LEMMA NextFilter == IInv /\ [Next]_vars => FilterInv'
  <1> SUFFICES ASSUME IInv, [Next]_vars PROVE FilterInv'
    OBVIOUS
  <1> USE DEF IInv, confVars, loopVars, tripVars, callVars, envVars, FilterInv, RepeatsOnlyWithoutChoice
  <1>1. ASSUME ReadBody PROVE FilterInv'
    BY <1>1 DEF ReadBody
  <1>2. ASSUME StopRetrying PROVE FilterInv'
    BY <1>2 DEF StopRetrying
  <1>3. ASSUME CtxIsDone PROVE FilterInv'
    BY <1>3 DEF CtxIsDone
  <1>4. ASSUME BeginAttempt PROVE FilterInv'
    BY <1>4 DEF BeginAttempt
  <1>5. ASSUME AuthMiddlewares PROVE FilterInv'
    BY <1>5 DEF AuthMiddlewares, ReturnsError
  <1>6. ASSUME CircuitBreaker PROVE FilterInv'
    BY <1>6 DEF CircuitBreaker, EnterRoundTrip, ReturnsResponse, Response
  <1>7. ASSUME SelectNode PROVE FilterInv'
    <2>1. PICK n \in Candidates : backends' = Append(backends, n)
      BY <1>7 DEF SelectNode
    <2>2. n \in AllNodes /\ n \in healthy \cap pool
      BY DEF Candidates, AllNodes, TypeOK, ResultType
    <2>3. backends \in Seq(AllNodes)
      BY DEF TypeOK, CallsType
    <2>4. /\ Len(backends') = Len(backends) + 1
          /\ DOMAIN backends' = 1..(Len(backends) + 1)
          /\ \A k \in 1..Len(backends) : backends'[k] = backends[k]
          /\ backends'[Len(backends) + 1] = n
          /\ Len(backends) \in Nat
      BY <2>1, <2>2, <2>3, AppendProperties
    <2>5. UNCHANGED <<steady, healthy>>
      BY <1>7 DEF SelectNode
    <2>6. PoolOf(n) = pool
      BY <2>2, NodesAssumption DEF PoolOf, TypeOK, CallsType
    <2>7. n \in Called => healthy \cap pool \subseteq Called
      BY DEF Candidates
    <2>8. Called = {backends[m] : m \in 1..Len(backends)}
      BY <2>3 DEF Called
    <2> SUFFICES ASSUME NEW k \in DOMAIN backends',
                        NEW j \in 1..(k - 1), backends'[j] = backends'[k]
                 PROVE  steady \cap PoolOf(backends'[k]) \subseteq {backends'[m] : m \in 1..(k - 1)}
      BY <2>5
    <2>9. {backends'[m] : m \in 1..(k - 1)} = {backends[m] : m \in 1..(k - 1)}
      BY <2>4
    <2>10. CASE k = Len(backends) + 1
      <3>1. n \in Called
        BY <2>4, <2>8, <2>10
      <3>2. steady \cap PoolOf(n) \subseteq Called
        BY <3>1, <2>6, <2>7
      <3>3. QED
        BY <3>2, <2>4, <2>8, <2>9, <2>10
    <2>11. CASE k \in 1..Len(backends)
      <3>1. backends[j] = backends[k] /\ k \in DOMAIN backends
        BY <2>3, <2>4, <2>11
      <3>2. QED
        BY <3>1, <2>4, <2>9, <2>11
    <2>12. QED
      BY <2>4, <2>10, <2>11
  <1>8. ASSUME SelectFails PROVE FilterInv'
    BY <1>8 DEF SelectFails
  <1>9. ASSUME UpstreamFails PROVE FilterInv'
    BY <1>9 DEF UpstreamFails
  <1>10. ASSUME UpstreamAnswers PROVE FilterInv'
    BY <1>10 DEF UpstreamAnswers, ReturnsResponse, Response
  <1>11. ASSUME RoundTripFails PROVE FilterInv'
    BY <1>11 DEF RoundTripFails, ReturnsError
  <1>12. ASSUME JudgeAttempt PROVE FilterInv'
    BY <1>12 DEF JudgeAttempt
  <1>13. ASSUME Finish PROVE FilterInv'
    BY <1>13 DEF Finish
  <1>14. ASSUME CopyBody PROVE FilterInv'
    BY <1>14 DEF CopyBody
  <1>15. ASSUME ContextExpires PROVE FilterInv'
    BY <1>15 DEF ContextExpires
  <1>16. ASSUME NEW latest \in SUBSET AllNodes, HealthChanges(latest) PROVE FilterInv'
    BY <1>16 DEF HealthChanges
  <1>17. ASSUME UNCHANGED vars PROVE FilterInv'
    BY <1>17 DEF vars
  <1>18. QED
    BY <1>1, <1>2, <1>3, <1>4, <1>5, <1>6, <1>7, <1>8, <1>9, <1>10, <1>11, <1>12, <1>13, <1>14, <1>15, <1>16, <1>17 DEF Next, Answered

LEMMA NextIInv == IInv /\ [Next]_vars => IInv'
  BY NextPlace, NextCalls, NextResultType, NextCount, NextResult, NextBody, NextDone, NextFilter
  DEF IInv, TypeOK

LEMMA Inductive == Spec => []IInv
  BY InitIInv, NextIInv, PTL DEF Spec

\* The locals of the handler and of RoundTrip keep their types, whatever
\* ends the loop.
THEOREM TypeCorrect == Spec => []TypeOK
  BY Inductive, PTL DEF IInv

\* The handler never dereferences a nil response.
THEOREM NoNilResponse == Spec => []AnswerHasResponse
  <1>1. IInv => AnswerHasResponse
    BY DEF IInv, ResultInv, AnswerHasResponse, NoResp, TypeOK, PlaceType
  <1>2. QED
    BY Inductive, <1>1, PTL

\* One request makes at most Attempts upstream calls.
THEOREM RetriesDoNotMultiply == Spec => []UpstreamCallsBounded
  <1>1. IInv => UpstreamCallsBounded
    BY AttemptsAssumption
    DEF IInv, CountInv, UpstreamCallsBounded, TypeOK, PlaceType, CallsType
  <1>2. QED
    BY Inductive, <1>1, PTL

\* Every upstream call carries the whole body.
THEOREM RetriesCarryTheBody == Spec => []EveryCallCarriesTheBody
  BY Inductive, PTL DEF IInv, BodyInv

\* The client gets the outcome of the last attempt.
THEOREM LastAttemptAnswers == Spec => []AnswerIsTheLastAttempts
  <1>1. IInv => AnswerIsTheLastAttempts
    BY DEF IInv, ResultInv, AnswerIsTheLastAttempts
  <1>2. QED
    BY Inductive, <1>1, PTL

\* Retries go to nodes that were not called while there are any.
THEOREM RetriesMoveOn == Spec => []RepeatsOnlyWithoutChoice
  BY Inductive, PTL DEF IInv, FilterInv

\* The selector hears once of the end of the call that is delivered.
THEOREM DeliveredIsReleased == Spec => []DeliveredCallReleasedOnce
  BY Inductive, PTL DEF IInv, DoneInv
=============================================================================
