------------------------ MODULE ServiceWatcherProofs ------------------------
(***************************************************************************)
(* Proofs about ServiceWatcher for any number of appliers, statuses and    *)
(* registry versions.                                                      *)
(***************************************************************************)
EXTENDS ServiceWatcher, TLAPS

\* Why a subscribed applier keeps its watcher: a status is cancelled only
\* after it was taken out of the map with no applier left, every later status
\* is a new one, and a loop ends only if its status is out of the map.
WatchInv ==
    /\ appliers # {} => current # 0
    /\ current # 0 =>
        /\ current <= created
        /\ ~ctxDone[current]
        /\ loop[current] \notin {"none", "exited"}
    /\ \A g \in Status : g > created => loop[g] = "none" /\ ~ctxDone[g] /\ selected[g] = 0
    /\ cleanup = "cancel" => victim # current /\ victim <= created

\* Applier p has the list of status g, or somebody is still going to give it.
ToldOrDue(p, g) ==
    \/ told[p] >= selected[g]
    \/ loop[g] = "cached"
    \/ loop[g] = "callback" /\ p \in todo[g]
    \/ add[p] = "unlocked" /\ cached[p] >= selected[g]

\* Why no push is lost: the list is cached before the appliers are called, so
\* whoever subscribes too late for the callback finds it in the cache.
PushInv == \A g \in Status : loop[g] \in {"cached", "callback"} => pushing[g] = selected[g]

DueInv == current # 0 => \A p \in Applier : Receives(p) => ToldOrDue(p, current)

IInv == TypeOK /\ WatchInv /\ PushInv /\ DueInv

LEMMA InitIInv == Init => IInv
  BY WatcherAssumption
  DEF Init, IInv, TypeOK, StatusType, LoopType, ApplierType, CleanupType, WatchInv, PushInv, DueInv, Receives, Status, Versions, LoopStates

\* Every step of the watcher keeps the types.
LEMMA NextType == TypeOK /\ [Next]_vars => TypeOK'
  <1> SUFFICES ASSUME TypeOK, [Next]_vars
               PROVE  TypeOK'
    OBVIOUS
  <1> USE WatcherAssumption DEF TypeOK, statusVars, loopVars, cleanupVars, nodeVars, addVars
  <1>1. ASSUME NEW p \in Applier, Add(p) PROVE TypeOK'
    <2>1. StatusType'
      BY <1>1 DEF Add, StatusType, Status, Versions
    <2>2. LoopType'
      BY <1>1 DEF Add, LoopType, StatusType, LoopStates, Status, ApplierType
    <2>3. ApplierType'
      <3>1. appliers' \in SUBSET Applier /\ UNCHANGED <<canceled, picker, health, told>>
        BY <1>1 DEF Add, ApplierType
      <3>2. add' \in [Applier -> {"new", "unlocked", "picked", "done"}]
        BY <1>1 DEF Add, ApplierType
      <3>3. cached' \in [Applier -> Versions]
        BY <1>1 DEF Add, ApplierType, StatusType, Status
      <3>4. QED
        BY <3>1, <3>2, <3>3 DEF ApplierType
    <2>4. CleanupType'
      BY <1>1 DEF Add, CleanupType, StatusType, ApplierType
    <2>5. QED
      BY <2>1, <2>2, <2>3, <2>4
  <1>2. ASSUME NEW p \in Applier, AddPickerApply(p) PROVE TypeOK'
    BY <1>2 DEF AddPickerApply, PickerApply, Newest, StatusType, LoopType, ApplierType, CleanupType, Status, Versions, LoopStates
  <1>3. ASSUME NEW p \in Applier, AddHealthApply(p) PROVE TypeOK'
    BY <1>3 DEF AddHealthApply, HealthApply, StatusType, LoopType, ApplierType, CleanupType, Status, Versions, LoopStates
  <1>4. ASSUME NEW p \in Applier, Cancel(p) PROVE TypeOK'
    BY <1>4 DEF Cancel, StatusType, LoopType, ApplierType, CleanupType, Status, Versions, LoopStates
  <1>5. ASSUME NEW g \in Status, WatchLoopTop(g) PROVE TypeOK'
    <2>1. StatusType'
      BY <1>5 DEF WatchLoopTop, RemoveWatcher, StatusType, Status, Versions
    <2>2. LoopType'
      <3>1. 0 \in Versions
        BY DEF Versions
      <3>2. seen' \in [Status -> Versions] /\ UNCHANGED <<pushing, todo, mid>>
        BY <1>5, <3>1 DEF WatchLoopTop, LoopType
      <3>3. loop' \in [Status -> LoopStates]
        BY <1>5 DEF WatchLoopTop, RemoveWatcher, LoopType, LoopStates
      <3>4. QED
        BY <3>2, <3>3 DEF LoopType
    <2>3. ApplierType'
      BY <1>5 DEF WatchLoopTop, RemoveWatcher, ApplierType, StatusType, LoopType, Status
    <2>4. CleanupType'
      BY <1>5 DEF WatchLoopTop, RemoveWatcher, CleanupType, StatusType, ApplierType
    <2>5. QED
      BY <2>1, <2>2, <2>3, <2>4
  <1>6. ASSUME NEW g \in Status, NextServices(g) PROVE TypeOK'
    <2>1. StatusType'
      BY <1>6 DEF NextServices, StatusType, Status, Versions
    <2>2. LoopType'
      BY <1>6 DEF NextServices, LoopType, StatusType, LoopStates, Status, ApplierType
    <2>3. ApplierType'
      BY <1>6 DEF NextServices, ApplierType, StatusType, LoopType, Status
    <2>4. CleanupType'
      BY <1>6 DEF NextServices, CleanupType, StatusType, ApplierType
    <2>5. QED
      BY <2>1, <2>2, <2>3, <2>4
  <1>7. ASSUME NEW g \in Status, DoCallback(g) PROVE TypeOK'
    BY <1>7 DEF DoCallback, StatusType, LoopType, ApplierType, CleanupType, Status, Versions, LoopStates
  <1>8. ASSUME NEW g \in Status, NEW p \in Applier, CallApplier(g, p) PROVE TypeOK'
    <2>1. StatusType'
      BY <1>8 DEF CallApplier, PickerApply, Newest, StatusType, Status, Versions
    <2>2. LoopType'
      BY <1>8 DEF CallApplier, PickerApply, Newest, LoopType, StatusType, LoopStates, Status, ApplierType
    <2>3. ApplierType'
      <3>1. pushing[g] \in Versions /\ told[p] \in Versions
        BY DEF LoopType, ApplierType
      <3>2. Newest(told[p], pushing[g]) \in Versions
        BY <3>1 DEF Newest
      <3>3. QED
        BY <1>8, <3>1, <3>2 DEF CallApplier, PickerApply, ApplierType
    <2>4. CleanupType'
      BY <1>8 DEF CallApplier, PickerApply, Newest, CleanupType, StatusType, ApplierType
    <2>5. QED
      BY <2>1, <2>2, <2>3, <2>4
  <1>9. ASSUME NEW g \in Status, CallApplierHealth(g) PROVE TypeOK'
    BY <1>9 DEF CallApplierHealth, HealthApply, StatusType, LoopType, ApplierType, CleanupType, Status, Versions, LoopStates
  <1>10. ASSUME NEW g \in Status, DoCallbackReturns(g) PROVE TypeOK'
    BY <1>10 DEF DoCallbackReturns, StatusType, LoopType, ApplierType, CleanupType, Status, Versions, LoopStates
  <1>11. ASSUME NEW g \in Status, NextFails(g) PROVE TypeOK'
    <2>1. StatusType'
      BY <1>11 DEF NextFails, RemoveWatcher, StatusType, Status, Versions
    <2>2. LoopType'
      BY <1>11 DEF NextFails, RemoveWatcher, LoopType, StatusType, LoopStates, Status, ApplierType
    <2>3. ApplierType'
      BY <1>11 DEF NextFails, RemoveWatcher, ApplierType, StatusType, LoopType, Status
    <2>4. CleanupType'
      BY <1>11 DEF NextFails, RemoveWatcher, CleanupType, StatusType, ApplierType
    <2>5. QED
      BY <2>1, <2>2, <2>3, <2>4
  <1>12. ASSUME NEW g \in Status, WaitForRetry(g) PROVE TypeOK'
    <2>1. StatusType'
      BY <1>12 DEF WaitForRetry, RemoveWatcher, StatusType, Status, Versions
    <2>2. LoopType'
      BY <1>12 DEF WaitForRetry, RemoveWatcher, LoopType, StatusType, LoopStates, Status, ApplierType
    <2>3. ApplierType'
      BY <1>12 DEF WaitForRetry, RemoveWatcher, ApplierType, StatusType, LoopType, Status
    <2>4. CleanupType'
      BY <1>12 DEF WaitForRetry, RemoveWatcher, CleanupType, StatusType, ApplierType
    <2>5. QED
      BY <2>1, <2>2, <2>3, <2>4
  <1>13. CASE FindCanceled
    BY <1>13 DEF FindCanceled, StatusType, LoopType, ApplierType, CleanupType, Status, Versions, LoopStates
  <1>14. CASE DeleteCanceled
    BY <1>14 DEF DeleteCanceled, StatusType, LoopType, ApplierType, CleanupType, Status, Versions, LoopStates
  <1>15. CASE StopWatcherIfUnused
    <2>1. StatusType'
      BY <1>15 DEF StopWatcherIfUnused, StatusType, Status, Versions
    <2>2. LoopType'
      BY <1>15 DEF StopWatcherIfUnused, LoopType, StatusType, LoopStates, Status, ApplierType
    <2>3. ApplierType'
      BY <1>15 DEF StopWatcherIfUnused, ApplierType, StatusType, LoopType, Status
    <2>4. CleanupType'
      BY <1>15 DEF StopWatcherIfUnused, CleanupType, StatusType, ApplierType
    <2>5. QED
      BY <2>1, <2>2, <2>3, <2>4
  <1>16. CASE CancelStatus
    <2>1. StatusType'
      BY <1>16 DEF CancelStatus, StatusType, Status, Versions
    <2>2. LoopType'
      BY <1>16 DEF CancelStatus, LoopType, StatusType, LoopStates, Status, ApplierType
    <2>3. ApplierType'
      BY <1>16 DEF CancelStatus, ApplierType, StatusType, LoopType, Status
    <2>4. CleanupType'
      BY <1>16 DEF CancelStatus, CleanupType, StatusType, ApplierType
    <2>5. QED
      BY <2>1, <2>2, <2>3, <2>4
  <1>17. CASE RegistryChanges
    <2>1. StatusType'
      BY <1>17 DEF RegistryChanges, StatusType, Status, Versions
    <2>2. LoopType'
      BY <1>17 DEF RegistryChanges, LoopType, StatusType, LoopStates, Status, ApplierType
    <2>3. ApplierType'
      BY <1>17 DEF RegistryChanges, ApplierType, StatusType, LoopType, Status
    <2>4. CleanupType'
      BY <1>17 DEF RegistryChanges, CleanupType, StatusType, ApplierType
    <2>5. QED
      BY <2>1, <2>2, <2>3, <2>4
  <1>18. CASE UNCHANGED vars
    BY <1>18 DEF vars, StatusType, LoopType, ApplierType, CleanupType
  <1>19. QED
    BY <1>1, <1>2, <1>3, <1>4, <1>5, <1>6, <1>7, <1>8, <1>9, <1>10, <1>11, <1>12, <1>13, <1>14, <1>15, <1>16, <1>17, <1>18
    DEF Next, AddSteps, WatchLoop, ProcCleanup

\* Every step keeps the service's status alive while it is used.
LEMMA NextWatch == TypeOK /\ WatchInv /\ [Next]_vars => WatchInv'
  <1> SUFFICES ASSUME TypeOK /\ WatchInv, [Next]_vars
               PROVE  WatchInv'
    OBVIOUS
  <1> USE WatcherAssumption DEF TypeOK, StatusType, LoopType, ApplierType, CleanupType, WatchInv, Status, LoopStates, NoReaders, statusVars, loopVars, cleanupVars, nodeVars, addVars
  <1>1. ASSUME NEW p \in Applier, Add(p) PROVE WatchInv'
    BY <1>1 DEF Add
  <1>2. ASSUME NEW p \in Applier, AddPickerApply(p) PROVE WatchInv'
    BY <1>2 DEF AddPickerApply, PickerApply
  <1>3. ASSUME NEW p \in Applier, AddHealthApply(p) PROVE WatchInv'
    BY <1>3 DEF AddHealthApply, HealthApply
  <1>4. ASSUME NEW p \in Applier, Cancel(p) PROVE WatchInv'
    BY <1>4 DEF Cancel
  <1>5. ASSUME NEW g \in Status, WatchLoopTop(g) PROVE WatchInv'
    BY <1>5 DEF WatchLoopTop, RemoveWatcher
  <1>6. ASSUME NEW g \in Status, NextServices(g) PROVE WatchInv'
    BY <1>6 DEF NextServices
  <1>7. ASSUME NEW g \in Status, DoCallback(g) PROVE WatchInv'
    BY <1>7 DEF DoCallback
  <1>8. ASSUME NEW g \in Status, NEW p \in Applier, CallApplier(g, p) PROVE WatchInv'
    BY <1>8 DEF CallApplier, PickerApply
  <1>9. ASSUME NEW g \in Status, CallApplierHealth(g) PROVE WatchInv'
    BY <1>9 DEF CallApplierHealth, HealthApply
  <1>10. ASSUME NEW g \in Status, DoCallbackReturns(g) PROVE WatchInv'
    BY <1>10 DEF DoCallbackReturns
  <1>11. ASSUME NEW g \in Status, NextFails(g) PROVE WatchInv'
    BY <1>11 DEF NextFails, RemoveWatcher
  <1>12. ASSUME NEW g \in Status, WaitForRetry(g) PROVE WatchInv'
    BY <1>12 DEF WaitForRetry, RemoveWatcher
  <1>13. CASE FindCanceled
    BY <1>13 DEF FindCanceled
  <1>14. CASE DeleteCanceled
    BY <1>14 DEF DeleteCanceled
  <1>15. CASE StopWatcherIfUnused
    BY <1>15 DEF StopWatcherIfUnused
  <1>16. CASE CancelStatus
    BY <1>16 DEF CancelStatus
  <1>17. CASE RegistryChanges
    BY <1>17 DEF RegistryChanges
  <1>18. CASE UNCHANGED vars
    BY <1>18 DEF vars
  <1>19. QED
    BY <1>1, <1>2, <1>3, <1>4, <1>5, <1>6, <1>7, <1>8, <1>9, <1>10, <1>11, <1>12, <1>13, <1>14, <1>15, <1>16, <1>17, <1>18
    DEF Next, AddSteps, WatchLoop, ProcCleanup

\* A list is pushed as it was cached.
LEMMA NextPush == TypeOK /\ PushInv /\ [Next]_vars => PushInv'
  <1> SUFFICES ASSUME TypeOK /\ PushInv, [Next]_vars
               PROVE  PushInv'
    OBVIOUS
  <1> USE WatcherAssumption DEF TypeOK, StatusType, LoopType, PushInv, statusVars, loopVars, cleanupVars, nodeVars, addVars
  <1>1. ASSUME NEW p \in Applier, Add(p) PROVE PushInv'
    BY <1>1 DEF Add
  <1>2. ASSUME NEW p \in Applier, AddPickerApply(p) PROVE PushInv'
    BY <1>2 DEF AddPickerApply, PickerApply
  <1>3. ASSUME NEW p \in Applier, AddHealthApply(p) PROVE PushInv'
    BY <1>3 DEF AddHealthApply, HealthApply
  <1>4. ASSUME NEW p \in Applier, Cancel(p) PROVE PushInv'
    BY <1>4 DEF Cancel
  <1>5. ASSUME NEW g \in Status, WatchLoopTop(g) PROVE PushInv'
    BY <1>5 DEF WatchLoopTop, RemoveWatcher
  <1>6. ASSUME NEW g \in Status, NextServices(g) PROVE PushInv'
    BY <1>6 DEF NextServices
  <1>7. ASSUME NEW g \in Status, DoCallback(g) PROVE PushInv'
    BY <1>7 DEF DoCallback
  <1>8. ASSUME NEW g \in Status, NEW p \in Applier, CallApplier(g, p) PROVE PushInv'
    BY <1>8 DEF CallApplier, PickerApply
  <1>9. ASSUME NEW g \in Status, CallApplierHealth(g) PROVE PushInv'
    BY <1>9 DEF CallApplierHealth, HealthApply
  <1>10. ASSUME NEW g \in Status, DoCallbackReturns(g) PROVE PushInv'
    BY <1>10 DEF DoCallbackReturns
  <1>11. ASSUME NEW g \in Status, NextFails(g) PROVE PushInv'
    BY <1>11 DEF NextFails, RemoveWatcher
  <1>12. ASSUME NEW g \in Status, WaitForRetry(g) PROVE PushInv'
    BY <1>12 DEF WaitForRetry, RemoveWatcher
  <1>13. CASE FindCanceled
    BY <1>13 DEF FindCanceled
  <1>14. CASE DeleteCanceled
    BY <1>14 DEF DeleteCanceled
  <1>15. CASE StopWatcherIfUnused
    BY <1>15 DEF StopWatcherIfUnused
  <1>16. CASE CancelStatus
    BY <1>16 DEF CancelStatus
  <1>17. CASE RegistryChanges
    BY <1>17 DEF RegistryChanges
  <1>18. CASE UNCHANGED vars
    BY <1>18 DEF vars
  <1>19. QED
    BY <1>1, <1>2, <1>3, <1>4, <1>5, <1>6, <1>7, <1>8, <1>9, <1>10, <1>11, <1>12, <1>13, <1>14, <1>15, <1>16, <1>17, <1>18
    DEF Next, AddSteps, WatchLoop, ProcCleanup

\* A loop that gives up finds its status already out of the map.
LEMMA RemoveWatcherKeeps ==
    ASSUME TypeOK, WatchInv, NEW g \in Status, ctxDone[g], RemoveWatcher(g)
    PROVE  UNCHANGED statusVars
  <1>1. current # g
    BY DEF WatchInv, Status
  <1>2. QED
    BY <1>1 DEF RemoveWatcher, statusVars

\* The numbers the argument compares.
LEMMA ListsAreNumbers ==
    ASSUME TypeOK, NEW p \in Applier, NEW g \in Status
    PROVE  told[p] \in Nat /\ cached[p] \in Nat /\ selected[g] \in Nat /\ pushing[g] \in Nat
  BY WatcherAssumption DEF TypeOK, StatusType, LoopType, ApplierType, Versions

LEMMA CurrentIsAStatus ==
    ASSUME TypeOK, current # 0
    PROVE  current \in Status
  BY WatcherAssumption DEF TypeOK, StatusType, Status

LEMMA NewestIsNotOlder ==
    ASSUME NEW v \in Nat, NEW w \in Nat
    PROVE  Newest(v, w) \in Nat /\ Newest(v, w) >= v /\ Newest(v, w) >= w
  BY DEF Newest

\* A step that hands over nothing and adds nobody leaves what is due.
LEMMA NothingMovesDue ==
    ASSUME DueInv, UNCHANGED <<current, selected, loop, todo, told, add, cached>>,
           \A q \in Applier : Receives(q)' => Receives(q)
    PROVE  DueInv'
  BY DEF DueInv, ToldOrDue

\* Moving a loop that is not pushing anything takes no list from anybody.
LEMMA IdleLoopDue ==
    ASSUME TypeOK, DueInv, NEW g \in Status, loop[g] \notin {"cached", "callback"}, NEW x,
           loop' = [loop EXCEPT ![g] = x], UNCHANGED <<statusVars, todo>>,
           UNCHANGED <<appliers, canceled, told, add, cached>>
    PROVE  DueInv'
  <1> SUFFICES ASSUME current # 0, NEW q \in Applier, Receives(q)
               PROVE  ToldOrDue(q, current)'
    BY DEF DueInv, Receives, statusVars
  <1>1. current \in Status
    BY CurrentIsAStatus
  <1>2. ToldOrDue(q, current)
    BY DEF DueInv
  <1>3. QED
    BY <1>1, <1>2 DEF ToldOrDue, statusVars, TypeOK, LoopType

\* A new subscriber finds the list in the cache, or there is none.
LEMMA AddDue ==
    ASSUME TypeOK, WatchInv, DueInv, NEW p \in Applier, Add(p)
    PROVE  DueInv'
  <1> SUFFICES ASSUME current' # 0, NEW q \in Applier, Receives(q)'
               PROVE  ToldOrDue(q, current)'
    BY DEF DueInv
  <1>1. UNCHANGED <<selected, told, todo, canceled>>
    BY DEF Add, statusVars, nodeVars
  <1>2. CASE current # 0
    <2>1. UNCHANGED <<current, loop>>
      BY <1>2 DEF Add, statusVars
    <2>2. current \in Status
      BY <1>2, CurrentIsAStatus
    <2>3. told[p] \in Nat /\ selected[current] \in Nat
      BY <2>2, ListsAreNumbers
    <2>4. CASE q # p
      <3>1. Receives(q) /\ add'[q] = add[q] /\ cached'[q] = cached[q]
        BY <1>1, <1>2, <2>4 DEF Add, Receives, TypeOK, ApplierType
      <3>2. ToldOrDue(q, current)
        BY <1>2, <3>1 DEF DueInv
      <3>3. QED
        BY <1>1, <2>1, <3>1, <3>2 DEF ToldOrDue
    <2>5. CASE q = p /\ selected[current] # 0
      <3>1. add'[p] = "unlocked" /\ cached'[p] = selected[current]
        BY <1>2, <2>5 DEF Add, TypeOK, ApplierType
      <3>2. QED
        BY <1>1, <2>1, <2>3, <2>5, <3>1 DEF ToldOrDue
    <2>6. CASE q = p /\ selected[current] = 0
      BY <1>1, <2>1, <2>3, <2>6 DEF ToldOrDue
    <2>7. QED
      BY <2>4, <2>5, <2>6
  <1>3. CASE current = 0
    <2>1. current' = created + 1 /\ created < MaxStatus
      BY <1>3 DEF Add
    <2>2. created + 1 \in Status /\ created + 1 > created
      BY <2>1, WatcherAssumption DEF TypeOK, StatusType, Status
    <2>3. selected[created + 1] = 0
      BY <2>2 DEF WatchInv
    <2>4. told[q] \in Nat
      BY <2>2, ListsAreNumbers
    <2>5. QED
      BY <1>1, <2>1, <2>3, <2>4 DEF ToldOrDue
  <1>4. QED
    BY <1>2, <1>3

\* The cached list handed over by Add is as new as Add promised.
LEMMA AddPickerApplyDue ==
    ASSUME TypeOK, DueInv, NEW p \in Applier, AddPickerApply(p)
    PROVE  DueInv'
  <1> SUFFICES ASSUME current' # 0, NEW q \in Applier, Receives(q)'
               PROVE  ToldOrDue(q, current)'
    BY DEF DueInv
  <1>1. UNCHANGED <<current, loop, selected, todo, cached>> /\ Receives(q)
    BY DEF AddPickerApply, statusVars, loopVars, Receives
  <1>2. current \in Status
    BY <1>1, CurrentIsAStatus
  <1>3. ToldOrDue(q, current)
    BY <1>1 DEF DueInv
  <1>4. CASE q # p
    <2>1. told'[q] = told[q] /\ add'[q] = add[q]
      BY <1>4 DEF AddPickerApply, PickerApply, TypeOK, ApplierType
    <2>2. QED
      BY <1>1, <1>3, <2>1 DEF ToldOrDue
  <1>5. CASE q = p
    <2>1. told'[p] = Newest(told[p], cached[p])
      BY DEF AddPickerApply, PickerApply, TypeOK, ApplierType
    <2>2. told[p] \in Nat /\ cached[p] \in Nat /\ selected[current] \in Nat
      BY <1>2, ListsAreNumbers
    <2>3. told'[p] \in Nat /\ told'[p] >= told[p] /\ told'[p] >= cached[p]
      BY <2>1, <2>2, NewestIsNotOlder
    <2>4. QED
      BY <1>1, <1>3, <1>5, <2>2, <2>3 DEF ToldOrDue
  <1>6. QED
    BY <1>4, <1>5

\* A list that was just cached is due to everybody.
LEMMA NextServicesDue ==
    ASSUME TypeOK, DueInv, NEW g \in Status, NextServices(g)
    PROVE  DueInv'
  <1> SUFFICES ASSUME current' # 0, NEW q \in Applier, Receives(q)'
               PROVE  ToldOrDue(q, current)'
    BY DEF DueInv
  <1>1. UNCHANGED <<current, told, todo, add, cached>> /\ Receives(q)
    BY DEF NextServices, nodeVars, addVars, Receives
  <1>2. CASE current = g
    <2>1. loop'[g] = "cached"
      BY <1>2 DEF NextServices, TypeOK, LoopType
    <2>2. QED
      BY <1>1, <1>2, <2>1 DEF ToldOrDue
  <1>3. CASE current # g
    <2>1. UNCHANGED <<selected, loop>>
      BY <1>3 DEF NextServices
    <2>2. ToldOrDue(q, current)
      BY <1>1 DEF DueInv
    <2>3. QED
      BY <1>1, <2>1, <2>2 DEF ToldOrDue
  <1>4. QED
    BY <1>2, <1>3

\* The callback starts with all appliers to call.
LEMMA DoCallbackDue ==
    ASSUME TypeOK, DueInv, NEW g \in Status, DoCallback(g)
    PROVE  DueInv'
  <1> SUFFICES ASSUME current' # 0, NEW q \in Applier, Receives(q)'
               PROVE  ToldOrDue(q, current)'
    BY DEF DueInv
  <1>1. UNCHANGED <<current, selected, told, add, cached>> /\ Receives(q)
    BY DEF DoCallback, statusVars, nodeVars, addVars, Receives
  <1>2. current \in Status /\ ToldOrDue(q, current)
    BY <1>1, CurrentIsAStatus DEF DueInv
  <1>3. CASE current = g
    <2>1. loop'[g] = "callback" /\ q \in todo'[g]
      BY <1>1 DEF DoCallback, TypeOK, LoopType, Receives
    <2>2. QED
      BY <1>1, <1>3, <2>1 DEF ToldOrDue
  <1>4. CASE current # g
    <2>1. loop'[current] = loop[current] /\ todo'[current] = todo[current]
      BY <1>2, <1>4 DEF DoCallback, TypeOK, LoopType
    <2>2. QED
      BY <1>1, <1>2, <2>1 DEF ToldOrDue
  <1>5. QED
    BY <1>3, <1>4

\* The applier that is called has the pushed list from then on.
LEMMA CallApplierDue ==
    ASSUME TypeOK, PushInv, DueInv, NEW g \in Status, NEW p \in Applier, CallApplier(g, p)
    PROVE  DueInv'
  <1> SUFFICES ASSUME current' # 0, NEW q \in Applier, Receives(q)'
               PROVE  ToldOrDue(q, current)'
    BY DEF DueInv
  <1>1. UNCHANGED <<current, loop, selected, add, cached>> /\ Receives(q)
    BY DEF CallApplier, statusVars, addVars, Receives
  <1>2. current \in Status /\ ToldOrDue(q, current)
    BY <1>1, CurrentIsAStatus DEF DueInv
  <1>3. CASE q # p
    <2>1. told'[q] = told[q]
      BY <1>3 DEF CallApplier, PickerApply, nodeVars, TypeOK, ApplierType
    <2>2. q \in todo[current] => q \in todo'[current]
      BY <1>2, <1>3 DEF CallApplier, TypeOK, LoopType
    <2>3. QED
      BY <1>1, <1>2, <2>1, <2>2 DEF ToldOrDue
  <1>4. CASE q = p
    <2>1. told'[p] = Newest(told[p], pushing[g])
      BY <1>1, <1>4 DEF CallApplier, PickerApply, Receives, TypeOK, ApplierType
    <2>2. told[p] \in Nat /\ selected[current] \in Nat
      BY <1>2, ListsAreNumbers
    <2>3. pushing[g] \in Nat
      BY ListsAreNumbers
    <2>4. told'[p] \in Nat /\ told'[p] >= told[p] /\ told'[p] >= pushing[g]
      BY <2>1, <2>2, <2>3, NewestIsNotOlder
    <2>5. CASE current = g
      <3>1. pushing[g] = selected[current]
        BY <2>5 DEF CallApplier, PushInv
      <3>2. QED
        BY <1>1, <1>4, <2>4, <3>1 DEF ToldOrDue
    <2>6. CASE current # g
      <3>1. todo'[current] = todo[current]
        BY <1>2, <2>6 DEF CallApplier, TypeOK, LoopType
      <3>2. QED
        BY <1>1, <1>2, <1>4, <2>2, <2>4, <3>1 DEF ToldOrDue
    <2>7. QED
      BY <2>5, <2>6
  <1>5. QED
    BY <1>3, <1>4

\* When the callback returns nobody is left to call.
LEMMA DoCallbackReturnsDue ==
    ASSUME TypeOK, DueInv, NEW g \in Status, DoCallbackReturns(g)
    PROVE  DueInv'
  <1> SUFFICES ASSUME current' # 0, NEW q \in Applier, Receives(q)'
               PROVE  ToldOrDue(q, current)'
    BY DEF DueInv
  <1>1. UNCHANGED <<current, selected, told, todo, add, cached>> /\ Receives(q)
    BY DEF DoCallbackReturns, statusVars, nodeVars, addVars, Receives
  <1>2. current \in Status /\ ToldOrDue(q, current)
    BY <1>1, CurrentIsAStatus DEF DueInv
  <1>3. current # g => loop'[current] = loop[current]
    BY <1>2 DEF DoCallbackReturns, TypeOK, LoopType
  <1>4. current = g => loop[current] = "callback" /\ q \notin todo[current]
    BY DEF DoCallbackReturns
  <1>5. QED
    BY <1>1, <1>2, <1>3, <1>4 DEF ToldOrDue

\* Who has not been given the current list is still going to be.
LEMMA NextDue == TypeOK /\ WatchInv /\ PushInv /\ DueInv /\ [Next]_vars => DueInv'
  <1> SUFFICES ASSUME TypeOK, WatchInv, PushInv, DueInv, [Next]_vars
               PROVE  DueInv'
    OBVIOUS
  <1> USE DEF statusVars, loopVars, cleanupVars, nodeVars, addVars
  <1>1. ASSUME NEW p \in Applier, Add(p) PROVE DueInv'
    BY <1>1, AddDue
  <1>2. ASSUME NEW p \in Applier, AddPickerApply(p) PROVE DueInv'
    BY <1>2, AddPickerApplyDue
  <1>3. ASSUME NEW p \in Applier, AddHealthApply(p) PROVE DueInv'
    <2>1. UNCHANGED <<current, selected, loop, todo, told, cached, appliers, canceled>>
      BY <1>3 DEF AddHealthApply, HealthApply
    <2> SUFFICES ASSUME current' # 0, NEW q \in Applier, Receives(q)'
                 PROVE  ToldOrDue(q, current)'
      BY DEF DueInv
    <2>2. ToldOrDue(q, current)
      BY <2>1 DEF DueInv, Receives
    <2>3. add[q] = "unlocked" => add'[q] = "unlocked"
      BY <1>3 DEF AddHealthApply, TypeOK, ApplierType
    <2>4. QED
      BY <2>1, <2>2, <2>3 DEF ToldOrDue
  <1>4. ASSUME NEW p \in Applier, Cancel(p) PROVE DueInv'
    <2>1. \A q \in Applier : Receives(q)' => Receives(q)
      BY <1>4 DEF Cancel, Receives, TypeOK, ApplierType
    <2>2. QED
      BY <1>4, <2>1, NothingMovesDue DEF Cancel
  <1>5. ASSUME NEW g \in Status, WatchLoopTop(g) PROVE DueInv'
    <2>1. UNCHANGED statusVars
      BY <1>5, RemoveWatcherKeeps DEF WatchLoopTop
    <2>2. \E x : loop' = [loop EXCEPT ![g] = x]
      BY <1>5 DEF WatchLoopTop, RemoveWatcher
    <2>3. loop[g] \notin {"cached", "callback"} /\ UNCHANGED <<todo, appliers, canceled, told, add, cached>>
      BY <1>5 DEF WatchLoopTop
    <2>4. QED
      BY <2>1, <2>2, <2>3, IdleLoopDue
  <1>6. ASSUME NEW g \in Status, NextServices(g) PROVE DueInv'
    BY <1>6, NextServicesDue
  <1>7. ASSUME NEW g \in Status, DoCallback(g) PROVE DueInv'
    BY <1>7, DoCallbackDue
  <1>8. ASSUME NEW g \in Status, NEW p \in Applier, CallApplier(g, p) PROVE DueInv'
    BY <1>8, CallApplierDue
  <1>9. ASSUME NEW g \in Status, CallApplierHealth(g) PROVE DueInv'
    BY <1>9, NothingMovesDue DEF CallApplierHealth, HealthApply, Receives
  <1>10. ASSUME NEW g \in Status, DoCallbackReturns(g) PROVE DueInv'
    BY <1>10, DoCallbackReturnsDue
  <1>11. ASSUME NEW g \in Status, NextFails(g) PROVE DueInv'
    <2>1. UNCHANGED statusVars
      BY <1>11, RemoveWatcherKeeps DEF NextFails
    <2>2. \E x : loop' = [loop EXCEPT ![g] = x]
      BY <1>11 DEF NextFails, RemoveWatcher
    <2>3. loop[g] \notin {"cached", "callback"} /\ UNCHANGED <<todo, appliers, canceled, told, add, cached>>
      BY <1>11 DEF NextFails
    <2>4. QED
      BY <2>1, <2>2, <2>3, IdleLoopDue
  <1>12. ASSUME NEW g \in Status, WaitForRetry(g) PROVE DueInv'
    <2>1. UNCHANGED statusVars
      BY <1>12, RemoveWatcherKeeps DEF WaitForRetry
    <2>2. \E x : loop' = [loop EXCEPT ![g] = x]
      BY <1>12 DEF WaitForRetry, RemoveWatcher
    <2>3. loop[g] \notin {"cached", "callback"} /\ UNCHANGED <<todo, appliers, canceled, told, add, cached>>
      BY <1>12 DEF WaitForRetry
    <2>4. QED
      BY <2>1, <2>2, <2>3, IdleLoopDue
  <1>13. CASE FindCanceled
    BY <1>13, NothingMovesDue DEF FindCanceled, Receives
  <1>14. CASE DeleteCanceled
    BY <1>14, NothingMovesDue DEF DeleteCanceled, Receives
  <1>15. CASE StopWatcherIfUnused
    <2>1. CASE current' = 0
      BY <2>1 DEF DueInv
    <2>2. CASE current' # 0
      BY <1>15, <2>2, NothingMovesDue DEF StopWatcherIfUnused, Receives
    <2>3. QED
      BY <2>1, <2>2
  <1>16. CASE CancelStatus
    BY <1>16, NothingMovesDue DEF CancelStatus, Receives
  <1>17. CASE RegistryChanges
    BY <1>17, NothingMovesDue DEF RegistryChanges, Receives
  <1>18. CASE UNCHANGED vars
    BY <1>18, NothingMovesDue DEF vars, Receives
  <1>19. QED
    BY <1>1, <1>2, <1>3, <1>4, <1>5, <1>6, <1>7, <1>8, <1>9, <1>10, <1>11, <1>12, <1>13, <1>14, <1>15, <1>16, <1>17, <1>18
    DEF Next, AddSteps, WatchLoop, ProcCleanup

LEMMA InvariantHolds == Spec => []IInv
  <1>1. IInv /\ [Next]_vars => IInv'
    BY NextType, NextWatch, NextPush, NextDue DEF IInv
  <1>2. QED
    BY <1>1, InitIInv, PTL DEF Spec

\* The watcher's maps and goroutines keep their types.
THEOREM TypeCorrect == Spec => []TypeOK
  <1>1. IInv => TypeOK
    BY DEF IInv
  <1>2. QED
    BY <1>1, InvariantHolds, PTL

\* However Add, the cleanup and the loops of earlier statuses interleave, a
\* subscribed applier has a status that is not cancelled and whose loop runs.
THEOREM SubscribersAreWatched == Spec => []AppliersAreWatched
  <1>1. IInv => AppliersAreWatched
    BY DEF IInv, WatchInv, AppliersAreWatched
  <1>2. QED
    BY <1>1, InvariantHolds, PTL

\* No live applier misses the list its service's status holds.
THEOREM NoPushIsLost == Spec => []EveryoneWasTold
  <1>1. IInv => EveryoneWasTold
    <2> SUFFICES ASSUME IInv, AtRest, current # 0, NEW p \in Applier, Receives(p)
                 PROVE  told[p] >= selected[current]
      BY DEF EveryoneWasTold
    <2>1. current \in Status
      BY WatcherAssumption DEF IInv, TypeOK, StatusType, Status
    <2>2. ToldOrDue(p, current)
      BY DEF IInv, DueInv
    <2>3. QED
      BY <2>1, <2>2 DEF ToldOrDue, AtRest
  <1>2. QED
    BY <1>1, InvariantHolds, PTL
=============================================================================
