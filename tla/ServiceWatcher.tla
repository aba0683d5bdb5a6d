-------------------------- MODULE ServiceWatcher --------------------------
(***************************************************************************)
(* The gateway-wide service watcher (client/servicewatch.go) for one       *)
(* service name, with the nodeAppliers (client/factory.go) of the clients  *)
(* that subscribe to it: Add from configuration updates, one watchLoop     *)
(* goroutine per watcherStatus, the cleanup goroutine, and Cancel from     *)
(* clients that are closed.                                                *)
(*                                                                         *)
(* An instance list is the registry version it was read at; 0 is no list.  *)
(* An empty list changes nothing (applyServices returns), so a watcher     *)
(* that delivers one takes no step here. Names are those of the source.    *)
(***************************************************************************)
EXTENDS Naturals

CONSTANTS
    Applier,     \* the nodeAppliers that subscribe, one Add each
    MaxStatus,   \* bound on watcherStatus values ever created
    MaxVersion,  \* bound on the registry's changes
    NoApplier    \* not an applier

ASSUME WatcherAssumption ==
    /\ MaxStatus \in Nat
    /\ MaxVersion \in Nat
    /\ NoApplier \notin Applier

Status   == 1..MaxStatus
Versions == 0..MaxVersion

VARIABLES
    registry,  \* external: the version of the service's instance list
    current,   \* s.watcherStatus[endpoint]; 0 is absent
    created,   \* number of watcherStatus values created so far
    selected,  \* status.selectedInstances
    ctxDone,   \* status.ctx is cancelled
    loop,      \* where the watchLoop of a status is
    seen,      \* the version its registry watcher delivered last
    pushing,   \* services, the list doCallback is called with
    todo,      \* appliers doCallback has still to call
    mid,       \* the applier whose Callback it is in the middle of
    appliers,  \* s.appliers[endpoint]
    canceled,  \* nodeApplier.canceled
    add,       \* where the Add of an applier is
    cached,    \* cachedInstances, read by that Add under the lock
    cleanup,   \* where proccleanup is
    garbage,   \* the canceled appliers it found
    victim,    \* the status it is going to cancel
    picker,    \* the list last given to the applier's picker
    health,    \* the list last given to the applier's health checker
    told       \* history: the newest list ever given to its picker

statusVars  == <<current, created, selected, ctxDone>>
loopVars    == <<loop, seen, pushing, todo, mid>>
cleanupVars == <<cleanup, garbage, victim>>
nodeVars    == <<picker, health, told>>
addVars     == <<add, cached>>
vars == <<registry, current, created, selected, ctxDone, loop, seen, pushing, todo, mid,
          appliers, canceled, add, cached, cleanup, garbage, victim, picker, health, told>>

Init ==
    /\ registry = 0
    /\ current = 0
    /\ created = 0
    /\ selected = [g \in Status |-> 0]
    /\ ctxDone = [g \in Status |-> FALSE]
    /\ loop = [g \in Status |-> "none"]
    /\ seen = [g \in Status |-> 0]
    /\ pushing = [g \in Status |-> 0]
    /\ todo = [g \in Status |-> {}]
    /\ mid = [g \in Status |-> NoApplier]
    /\ appliers = {}
    /\ canceled = [p \in Applier |-> FALSE]
    /\ add = [p \in Applier |-> "new"]
    /\ cached = [p \in Applier |-> 0]
    /\ cleanup = "sleep"
    /\ garbage = {}
    /\ victim = 0
    /\ picker = [p \in Applier |-> 0]
    /\ health = [p \in Applier |-> 0]
    /\ told = [p \in Applier |-> 0]

----------------------------------------------------------------------------
\* doCallback holds s.lock for reading while it calls the appliers; every
\* other critical section is one step. A writer needs all readers gone.
NoReaders == \A g \in Status : loop[g] # "callback"

Newest(v, w) == IF v < w THEN w ELSE v

\* nodeApplier.Callback, first half: na.picker.Apply(nodes).
PickerApply(p, v) ==
    /\ picker' = [picker EXCEPT ![p] = v]
    /\ told' = [told EXCEPT ![p] = Newest(told[p], v)]
    /\ UNCHANGED health

\* nodeApplier.Callback, second half: na.healthChecker.updateNodes(nodes).
HealthApply(p, v) ==
    /\ health' = [health EXCEPT ![p] = v]
    /\ UNCHANGED <<picker, told>>

----------------------------------------------------------------------------
(* Add, called by nodeApplier.apply *)

\* Bug: an existing watcher's list is left to the next push.
AddNoCache(p) ==
    /\ add[p] = "new"
    /\ NoReaders
    /\ appliers' = appliers \cup {p}
    /\ add' = [add EXCEPT ![p] = "done"]
    /\ IF current # 0
       THEN UNCHANGED <<statusVars, loop>>
       ELSE /\ created < MaxStatus
            /\ created' = created + 1
            /\ current' = created + 1
            /\ loop' = [loop EXCEPT ![created + 1] = "top"]
            /\ UNCHANGED <<selected, ctxDone>>
    /\ UNCHANGED <<registry, seen, pushing, todo, mid, canceled, cached, cleanupVars, nodeVars>>

\* Add's critical section: find or create the status, register the applier,
\* read the cached list. A new status gets its watchLoop goroutine.
Add(p) ==
    /\ add[p] = "new"
    /\ NoReaders
    /\ appliers' = appliers \cup {p}
    /\ \/ /\ current # 0
          /\ cached' = [cached EXCEPT ![p] = selected[current]]
          /\ add' = [add EXCEPT ![p] = IF selected[current] # 0 THEN "unlocked" ELSE "done"]
          /\ UNCHANGED <<statusVars, loop>>
       \/ /\ current = 0
          /\ created < MaxStatus
          /\ created' = created + 1
          /\ current' = created + 1
          /\ loop' = [loop EXCEPT ![created + 1] = "top"]
          /\ add' = [add EXCEPT ![p] = "done"]
          /\ UNCHANGED <<selected, ctxDone, cached>>
    /\ UNCHANGED <<registry, seen, pushing, todo, mid, canceled, cleanupVars, nodeVars>>

\* After the unlock: applier.Callback(cachedInstances). The applier cannot be
\* cancelled yet: its client is returned only after Add.
AddPickerApply(p) ==
    /\ add[p] = "unlocked"
    /\ PickerApply(p, cached[p])
    /\ add' = [add EXCEPT ![p] = "picked"]
    /\ UNCHANGED <<registry, statusVars, loopVars, appliers, canceled, cached, cleanupVars>>

AddHealthApply(p) ==
    /\ add[p] = "picked"
    /\ HealthApply(p, cached[p])
    /\ add' = [add EXCEPT ![p] = "done"]
    /\ UNCHANGED <<registry, statusVars, loopVars, appliers, canceled, cached, cleanupVars>>

\* nodeApplier.Cancel, from client.Close.
Cancel(p) ==
    /\ add[p] = "done"
    /\ ~canceled[p]
    /\ canceled' = [canceled EXCEPT ![p] = TRUE]
    /\ UNCHANGED <<registry, statusVars, loopVars, appliers, addVars, cleanupVars, nodeVars>>

----------------------------------------------------------------------------
(* watchLoop of status g *)

\* Bug: whatever status the service has by now is removed.
RemoveWatcherAny(g) ==
    /\ NoReaders
    /\ current' = 0
    /\ loop' = [loop EXCEPT ![g] = "exited"]
    /\ UNCHANGED <<created, selected, ctxDone>>

\* removeWatcher and return: only the loop's own status is removed.
RemoveWatcher(g) ==
    /\ NoReaders
    /\ current' = IF current = g THEN 0 ELSE current
    /\ loop' = [loop EXCEPT ![g] = "exited"]
    /\ UNCHANGED <<created, selected, ctxDone>>

\* The loop's head: a done context ends it; discovery.Watch may fail; a new
\* registry watcher is kept only if the status is still the service's own.
WatchLoopTop(g) ==
    /\ loop[g] = "top"
    /\ \/ ctxDone[g] /\ RemoveWatcher(g) /\ UNCHANGED seen
       \/ /\ ~ctxDone[g]
          /\ NoReaders
          /\ loop' = [loop EXCEPT ![g] = IF current = g THEN "watching" ELSE "exited"]
          /\ seen' = [seen EXCEPT ![g] = 0]
          /\ UNCHANGED statusVars
       \/ /\ ~ctxDone[g]
          /\ loop' = [loop EXCEPT ![g] = "retry"]
          /\ UNCHANGED <<statusVars, seen>>
    /\ UNCHANGED <<registry, pushing, todo, mid, appliers, canceled, addVars, cleanupVars, nodeVars>>

\* watcher.Next returns a list: applyServices caches it, unless the status has
\* been replaced meanwhile.
NextServices(g) ==
    /\ loop[g] = "watching"
    /\ seen[g] < registry
    /\ NoReaders
    /\ seen' = [seen EXCEPT ![g] = registry]
    /\ IF current = g
       THEN /\ selected' = [selected EXCEPT ![g] = registry]
            /\ pushing' = [pushing EXCEPT ![g] = registry]
            /\ loop' = [loop EXCEPT ![g] = "cached"]
       ELSE UNCHANGED <<selected, pushing, loop>>
    /\ UNCHANGED <<registry, current, created, ctxDone, todo, mid, appliers, canceled, addVars,
                   cleanupVars, nodeVars>>

\* doCallback takes the read lock.
DoCallback(g) ==
    /\ loop[g] = "cached"
    /\ loop' = [loop EXCEPT ![g] = "callback"]
    /\ todo' = [todo EXCEPT ![g] = appliers]
    /\ UNCHANGED <<registry, statusVars, seen, pushing, mid, appliers, canceled, addVars,
                   cleanupVars, nodeVars>>

\* applier.Callback(services): ErrCancelWatch from a canceled applier is only
\* counted; any other gets its picker written, then its health checker.
CallApplier(g, p) ==
    /\ loop[g] = "callback"
    /\ mid[g] = NoApplier
    /\ p \in todo[g]
    /\ todo' = [todo EXCEPT ![g] = todo[g] \ {p}]
    /\ \/ canceled[p] /\ UNCHANGED <<mid, nodeVars>>
       \/ ~canceled[p] /\ PickerApply(p, pushing[g]) /\ mid' = [mid EXCEPT ![g] = p]
    /\ UNCHANGED <<registry, statusVars, loop, seen, pushing, appliers, canceled, addVars,
                   cleanupVars>>

CallApplierHealth(g) ==
    /\ mid[g] # NoApplier
    /\ HealthApply(mid[g], pushing[g])
    /\ mid' = [mid EXCEPT ![g] = NoApplier]
    /\ UNCHANGED <<registry, statusVars, loop, seen, pushing, todo, appliers, canceled, addVars,
                   cleanupVars>>

DoCallbackReturns(g) ==
    /\ loop[g] = "callback"
    /\ mid[g] = NoApplier
    /\ todo[g] = {}
    /\ loop' = [loop EXCEPT ![g] = "watching"]
    /\ UNCHANGED <<registry, statusVars, seen, pushing, todo, mid, appliers, canceled, addVars,
                   cleanupVars, nodeVars>>

\* Bug: the loop does not end when its context does.
NextFailsNoExit(g) ==
    /\ loop[g] = "watching"
    /\ loop' = [loop EXCEPT ![g] = "top"]
    /\ ~ctxDone[g]
    /\ UNCHANGED <<registry, statusVars, seen, pushing, todo, mid, appliers, canceled, addVars,
                   cleanupVars, nodeVars>>

\* watcher.Next fails: for good once the status was cancelled, else the
\* registry was unreachable and the watcher is recreated after a delay.
NextFails(g) ==
    /\ loop[g] = "watching"
    /\ \/ ctxDone[g] /\ RemoveWatcher(g)
       \/ ~ctxDone[g] /\ loop' = [loop EXCEPT ![g] = "retry"] /\ UNCHANGED statusVars
    /\ UNCHANGED <<registry, seen, pushing, todo, mid, appliers, canceled, addVars, cleanupVars,
                   nodeVars>>

\* waitForRetry
WaitForRetry(g) ==
    /\ loop[g] = "retry"
    /\ \/ ctxDone[g] /\ RemoveWatcher(g)
       \/ ~ctxDone[g] /\ loop' = [loop EXCEPT ![g] = "top"] /\ UNCHANGED statusVars
    /\ UNCHANGED <<registry, seen, pushing, todo, mid, appliers, canceled, addVars, cleanupVars,
                   nodeVars>>

----------------------------------------------------------------------------
(* proccleanup, every DiscoveryCleanupInterval *)

FindCanceled ==
    /\ cleanup = "sleep"
    /\ garbage' = {p \in appliers : canceled[p]}
    /\ garbage' # {}
    /\ cleanup' = "delete"
    /\ UNCHANGED <<registry, statusVars, loopVars, appliers, canceled, addVars, victim, nodeVars>>

\* Bug: the entry is only deleted when nobody is left.
DeleteCanceledLast ==
    /\ cleanup = "delete"
    /\ NoReaders
    /\ appliers' = IF garbage = appliers THEN {} ELSE appliers
    /\ garbage' = {}
    /\ cleanup' = "stop"
    /\ UNCHANGED <<registry, statusVars, loopVars, canceled, addVars, victim, nodeVars>>

DeleteCanceled ==
    /\ cleanup = "delete"
    /\ NoReaders
    /\ appliers' = appliers \ garbage
    /\ garbage' = {}
    /\ cleanup' = "stop"
    /\ UNCHANGED <<registry, statusVars, loopVars, canceled, addVars, victim, nodeVars>>

\* Bug: the status is looked up after it was deleted from the map.
StopWatcherForgets ==
    /\ cleanup = "stop"
    /\ NoReaders
    /\ IF appliers # {} \/ current = 0
       THEN cleanup' = "sleep" /\ UNCHANGED <<current, victim>>
       ELSE cleanup' = "cancel" /\ victim' = 0 /\ current' = 0
    /\ UNCHANGED <<registry, created, selected, ctxDone, loopVars, appliers, canceled, addVars,
                   garbage, nodeVars>>

\* stopWatcherIfUnused, its critical section: appliers may have been added
\* since the canceled ones were deleted.
StopWatcherIfUnused ==
    /\ cleanup = "stop"
    /\ NoReaders
    /\ IF appliers # {} \/ current = 0
       THEN cleanup' = "sleep" /\ UNCHANGED <<current, victim>>
       ELSE cleanup' = "cancel" /\ victim' = current /\ current' = 0
    /\ UNCHANGED <<registry, created, selected, ctxDone, loopVars, appliers, canceled, addVars,
                   garbage, nodeVars>>

\* After the unlock: status.cancel() and watcher.Stop().
CancelStatus ==
    /\ cleanup = "cancel"
    /\ ctxDone' = [ctxDone EXCEPT ![victim] = TRUE]
    /\ cleanup' = "sleep"
    /\ victim' = 0
    /\ UNCHANGED <<registry, current, created, selected, loopVars, appliers, canceled, addVars,
                   garbage, nodeVars>>

\* External: instances of the service come or go.
RegistryChanges ==
    /\ registry < MaxVersion
    /\ registry' = registry + 1
    /\ UNCHANGED <<statusVars, loopVars, appliers, canceled, addVars, cleanupVars, nodeVars>>

----------------------------------------------------------------------------
AddSteps(p) == Add(p) \/ AddPickerApply(p) \/ AddHealthApply(p)

WatchLoop(g) ==
    \/ WatchLoopTop(g)
    \/ NextServices(g)
    \/ DoCallback(g)
    \/ \E p \in Applier : CallApplier(g, p)
    \/ CallApplierHealth(g)
    \/ DoCallbackReturns(g)
    \/ NextFails(g)
    \/ WaitForRetry(g)

ProcCleanup == FindCanceled \/ DeleteCanceled \/ StopWatcherIfUnused \/ CancelStatus

Next ==
    \/ \E p \in Applier : AddSteps(p)
    \/ \E p \in Applier : Cancel(p)
    \/ \E g \in Status : WatchLoop(g)
    \/ ProcCleanup
    \/ RegistryChanges

Spec == Init /\ [][Next]_vars

\* Goroutines run. Strong fairness where a step needs the write lock: Go's
\* RWMutex lets no new reader in before a waiting writer. A step outside a
\* cancelled context (a new subscription, a failing registry) is never owed.
FairSpec ==
    /\ Spec
    /\ SF_vars(ProcCleanup)
    /\ \A p \in Applier : WF_vars(AddPickerApply(p) \/ AddHealthApply(p))
    /\ \A g \in Status : SF_vars(WatchLoop(g))

----------------------------------------------------------------------------
(* Properties *)

LoopStates == {"none", "top", "watching", "cached", "callback", "retry", "exited"}

StatusType ==
    /\ registry \in Versions
    /\ current \in 0..MaxStatus
    /\ created \in 0..MaxStatus
    /\ selected \in [Status -> Versions]
    /\ ctxDone \in [Status -> BOOLEAN]

LoopType ==
    /\ loop \in [Status -> LoopStates]
    /\ seen \in [Status -> Versions]
    /\ pushing \in [Status -> Versions]
    /\ todo \in [Status -> SUBSET Applier]
    /\ mid \in [Status -> Applier \cup {NoApplier}]

ApplierType ==
    /\ appliers \in SUBSET Applier
    /\ canceled \in [Applier -> BOOLEAN]
    /\ add \in [Applier -> {"new", "unlocked", "picked", "done"}]
    /\ cached \in [Applier -> Versions]
    /\ picker \in [Applier -> Versions]
    /\ health \in [Applier -> Versions]
    /\ told \in [Applier -> Versions]

CleanupType ==
    /\ cleanup \in {"sleep", "delete", "stop", "cancel"}
    /\ garbage \in SUBSET Applier
    /\ victim \in 0..MaxStatus
    /\ cleanup = "cancel" => victim # 0

\* The type of the state: the maps of serviceWatcher, the fields of its
\* watcherStatus values, and where each goroutine is.
TypeOK == StatusType /\ LoopType /\ ApplierType /\ CleanupType

\* A subscribed applier is never left without a running watcher: no cleanup,
\* no exiting loop of an earlier status and no order of Add against them takes
\* the service's status away, cancels it or ends its loop.
AppliersAreWatched ==
    appliers # {} =>
        /\ current # 0
        /\ ~ctxDone[current]
        /\ loop[current] \notin {"none", "exited"}

\* Nobody is in the middle of handing a list to an applier.
AtRest ==
    /\ \A g \in Status : loop[g] \notin {"cached", "callback"}
    /\ \A p \in Applier : add[p] \in {"new", "done"}

Receives(p) == p \in appliers /\ ~canceled[p]

\* No push is lost: once the callbacks have run, every live applier has been
\* given the list the service's status holds or a newer one, whenever it
\* subscribed: before the push, during it or after it.
EveryoneWasTold ==
    AtRest /\ current # 0 => \A p \in Applier : Receives(p) => told[p] >= selected[current]

\* A list handed over is the list in use: once the callbacks have run, the
\* picker and the health checker of a live applier hold the service's list.
NodesAreTheLatest ==
    AtRest /\ current # 0 =>
        \A p \in Applier : Receives(p) /\ selected[current] # 0 =>
            picker[p] = selected[current] /\ health[p] = selected[current]

\* A watcher nobody uses is shut down: once its status is replaced or
\* removed, its goroutine ends.
UnusedWatchersEnd ==
    \A g \in Status : (loop[g] # "none" /\ current # g) ~> loop[g] = "exited"

\* The applier of a closed client is dropped in the end.
CanceledAreDropped ==
    \A p \in Applier : canceled[p] ~> p \notin appliers
=============================================================================
