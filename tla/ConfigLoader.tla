---------------------------- MODULE ConfigLoader ----------------------------
(***************************************************************************)
(* The configuration loader (config/config.go) with the start of the       *)
(* process that uses it (cmd/gateway/main.go) and one change handler, the  *)
(* reloader of main.go. In "file" mode watchLocal polls the main file and  *)
(* the priority directory; in "centre" mode watchSource is called by the   *)
(* configuration centre's stream while watchPriority polls the directory.  *)
(*                                                                         *)
(* Contents are numbered in the order in which they were written; every    *)
(* edit is new content, so an edit back to earlier bytes is not in the     *)
(* model. A hash of contents is their number. Whether the proxy refuses a  *)
(* configuration depends on its contents (Rejected).                       *)
(***************************************************************************)
EXTENDS Naturals

CONSTANTS
    Mode,         \* the kinds of source to start with
    MaxMain,      \* bound on the edits of the main configuration
    MaxPrio,      \* bound on the edits of the priority directory
    Undecodable,  \* main contents decodeConfig refuses
    BadEnv,       \* main contents one of whose variables cannot be set
    Rejected,     \* main contents Proxy.Update refuses
    Key,          \* names of environment variables
    EnvKeys(_)    \* the settable variables of some main contents

ASSUME LoaderAssumption ==
    /\ Mode \subseteq {"file", "centre"}
    /\ MaxMain \in Nat \ {0}
    /\ MaxPrio \in Nat \ {0}

Main    == 1..MaxMain
Prio    == 1..MaxPrio
Overlay == 0..MaxPrio   \* 0: the merge of the priority directory failed
Good    == Main \ (Undecodable \cup BadEnv \cup Rejected)
Thread  == {"main", "prio"}

VARIABLES
    mode,        \* f.source.Name()
    mainSrc,     \* external: contents of the main configuration
    prio,        \* external: contents of the priority directory
    boot,        \* where main() is
    configData,  \* f.configData and f.confSHA256; 0 before initialize
    prioHash,    \* f.priorityConfigHash
    closed,      \* f.closed
    ctxDone,     \* the context of the watchers is cancelled
    holder,      \* the watcher that holds f.applyLock, or "none"
    pc,          \* where each watcher is
    data,        \* its configData
    hash,        \* its priorityHash
    overlay,     \* the priority contents merged into its decoded config
    previous,    \* the environment applyEnvs saved
    env,         \* environment variables: the contents that set them last
    served,      \* the configuration the proxy's router was built from
    delivered    \* external: what the centre's stream delivered last

vars == <<mode, mainSrc, prio, boot, configData, prioHash, closed, ctxDone, holder, pc,
          data, hash, overlay, previous, env, served, delivered>>
world     == <<mode, mainSrc, prio>>
snapshot  == <<configData, prioHash>>
life      == <<boot, closed, ctxDone>>
proxyVars == <<env, served>>

Nothing == [main |-> 0, prio |-> 0]

Init ==
    /\ mode \in Mode
    /\ mainSrc = 1
    /\ prio = 1
    /\ boot = "read"
    /\ configData = 0
    /\ prioHash = 0
    /\ closed = FALSE
    /\ ctxDone = FALSE
    /\ holder = "none"
    /\ pc = [t \in Thread |-> "off"]
    /\ data = [t \in Thread |-> 0]
    /\ hash = [t \in Thread |-> 0]
    /\ overlay = [t \in Thread |-> 0]
    /\ previous = [k \in Key |-> 0]
    /\ env = [k \in Key |-> 0]
    /\ served = Nothing
    /\ delivered = 0

----------------------------------------------------------------------------
(* The operators and the program write, too *)

EditMain ==
    /\ mainSrc < MaxMain
    /\ mainSrc' = mainSrc + 1
    /\ UNCHANGED <<mode, prio, life, snapshot, holder, pc, data, hash, overlay, previous,
                   proxyVars, delivered>>

EditPriority ==
    /\ prio < MaxPrio
    /\ prio' = prio + 1
    /\ UNCHANGED <<mode, mainSrc, life, snapshot, holder, pc, data, hash, overlay, previous,
                   proxyVars, delivered>>

\* The stream ends; Watch opens a new one, which starts with the current value.
StreamEnds ==
    /\ mode = "centre" /\ pc["main"] = "wait"
    /\ delivered # 0
    /\ delivered' = 0
    /\ UNCHANGED <<world, life, snapshot, holder, pc, data, hash, overlay, previous, proxyVars>>

----------------------------------------------------------------------------
(* Start of the process *)

\* mergePriorityConfig failing is only logged: the config goes on without it.
Merged == {prio, 0}

Overridden(e, v) == [k \in Key |-> IF k \in EnvKeys(v) THEN v ELSE e[k]]

\* Bug: a failing read of the source does not end the start.
InitializeUnchecked ==
    /\ boot = "read"
    /\ boot' = "hash"
    /\ configData' \in {0, mainSrc}
    /\ UNCHANGED <<world, prioHash, closed, ctxDone, holder, pc, data, hash, overlay, previous,
                   proxyVars, delivered>>

Initialize ==
    /\ boot = "read"
    /\ IF mainSrc \in Undecodable
       THEN boot' = "dead" /\ UNCHANGED configData
       ELSE boot' = "hash" /\ configData' = mainSrc
    /\ UNCHANGED <<world, prioHash, closed, ctxDone, holder, pc, data, hash, overlay, previous,
                   proxyVars, delivered>>

InitializeHash ==
    /\ boot = "hash"
    /\ boot' = "serve"
    /\ prioHash' = prio
    /\ UNCHANGED <<world, configData, closed, ctxDone, holder, pc, data, hash, overlay, previous,
                   proxyVars, delivered>>

\* main loads, sets the variables (one that cannot be set is only logged)
\* and gives the configuration to the proxy.
FirstUpdate ==
    /\ boot = "serve"
    /\ IF configData \in Rejected
       THEN boot' = "dead" /\ UNCHANGED proxyVars
       ELSE /\ boot' = "served"
            /\ env' = Overridden(env, configData)
            /\ \E p \in Merged : served' = [main |-> configData, prio |-> p]
    /\ UNCHANGED <<world, snapshot, closed, ctxDone, holder, pc, data, hash, overlay, previous,
                   delivered>>

Watch ==
    /\ boot = "served"
    /\ boot' = "running"
    /\ pc' = [t \in Thread |-> IF t = "main" \/ mode = "centre" THEN "wait" ELSE "off"]
    /\ UNCHANGED <<world, snapshot, closed, ctxDone, holder, data, hash, overlay, previous,
                   proxyVars, delivered>>

\* Bug: the loader is closed but its watchers' context is not cancelled.
CloseNoCancel ==
    /\ boot = "running" /\ ~closed
    /\ closed' = TRUE
    /\ UNCHANGED <<world, boot, ctxDone, snapshot, holder, pc, data, hash, overlay, previous,
                   proxyVars, delivered>>

Close ==
    /\ boot = "running" /\ ~closed
    /\ closed' = TRUE
    /\ ctxDone' = TRUE
    /\ UNCHANGED <<world, boot, snapshot, holder, pc, data, hash, overlay, previous, proxyVars,
                   delivered>>

----------------------------------------------------------------------------
(* The watchers up to executeLoader *)

Goto(t, place) == pc' = [pc EXCEPT ![t] = place]

\* Locals end with the pass of the loop they belong to.
Forget(t) ==
    /\ data' = [data EXCEPT ![t] = 0]
    /\ hash' = [hash EXCEPT ![t] = 0]

watcherRest == <<world, life, snapshot, holder, overlay, previous, proxyVars>>

\* A select with the context cancelled; one with a tick ready too may take it.
WatcherEnds(t) ==
    /\ pc[t] = "wait" /\ ctxDone
    /\ Goto(t, "done")
    /\ UNCHANGED <<watcherRest, data, hash, delivered>>

\* watchLocal: a tick and a successful read. (A failing one changes nothing.)
LoadLocal ==
    /\ mode = "file" /\ pc["main"] = "wait"
    /\ Goto("main", "loaded")
    /\ data' = [data EXCEPT !["main"] = mainSrc]
    /\ UNCHANGED <<watcherRest, hash, delivered>>

\* watchSource: the stream delivers a value. (Errors and deletions are logged.)
SourceEvent ==
    /\ mode = "centre" /\ pc["main"] = "wait"
    /\ delivered # mainSrc
    /\ delivered' = mainSrc
    /\ Goto("main", "loaded")
    /\ data' = [data EXCEPT !["main"] = mainSrc]
    /\ UNCHANGED <<watcherRest, hash>>

BeforeHash(t) == IF t = "main" THEN "loaded" ELSE "wait"

PriorityConfigSHA256(t) ==
    /\ pc[t] = BeforeHash(t)
    /\ Goto(t, "hashed")
    /\ hash' = [hash EXCEPT ![t] = prio]
    /\ UNCHANGED <<watcherRest, data, delivered>>

\* The tick, or the event, is given up; watchPriority just goes on waiting.
HashFails ==
    /\ pc["main"] = "loaded"
    /\ Goto("main", "wait")
    /\ Forget("main")
    /\ UNCHANGED <<watcherRest, delivered>>

\* Bug: only the priority files are compared.
ChangedPriorityOnly(v, h) == h # prioHash

Changed(v, h) == v # configData \/ h # prioHash

CheckMain ==
    /\ pc["main"] = "hashed"
    /\ \/ /\ Changed(data["main"], hash["main"])
          /\ Goto("main", "locking")
          /\ UNCHANGED <<data, hash>>
       \/ /\ ~Changed(data["main"], hash["main"])
          /\ Goto("main", "wait")
          /\ Forget("main")
    /\ UNCHANGED <<watcherRest, delivered>>

\* watchPriority takes its copy of configData here, before applyLock.
CheckPriority ==
    /\ pc["prio"] = "hashed"
    /\ \/ /\ hash["prio"] # prioHash
          /\ Goto("prio", "locking")
          /\ data' = [data EXCEPT !["prio"] = configData]
          /\ UNCHANGED hash
       \/ /\ hash["prio"] = prioHash
          /\ Goto("prio", "wait")
          /\ Forget("prio")
    /\ UNCHANGED <<watcherRest, delivered>>

Check(t) == IF t = "main" THEN CheckMain ELSE CheckPriority

----------------------------------------------------------------------------
(* executeLoader *)

executeRest == <<world, life, delivered>>
locals      == <<data, hash, overlay, previous>>

Lock(t) ==
    /\ pc[t] = "locking" /\ holder = "none"
    /\ holder' = t
    /\ Goto(t, "decode")
    /\ UNCHANGED <<executeRest, snapshot, locals, proxyVars>>

Return(t) ==
    /\ Goto(t, "wait")
    /\ holder' = "none"
    /\ Forget(t)
    /\ overlay' = [overlay EXCEPT ![t] = 0]
    /\ previous' = [k \in Key |-> 0]

DecodeConfig(t) ==
    /\ pc[t] = "decode"
    /\ \/ /\ data[t] \in Undecodable
          /\ Return(t)
       \/ /\ data[t] \notin Undecodable
          /\ Goto(t, "decoded")
          /\ \E p \in Merged : overlay' = [overlay EXCEPT ![t] = p]
          /\ UNCHANGED <<holder, data, hash, previous>>
    /\ UNCHANGED <<executeRest, snapshot, proxyVars>>

\* One step: a variable that cannot be set undoes those set before it.
ApplyEnvs(t) ==
    /\ pc[t] = "decoded"
    /\ \/ /\ data[t] \in BadEnv
          /\ Return(t)
          /\ UNCHANGED env
       \/ /\ data[t] \notin BadEnv
          /\ Goto(t, "handlers")
          /\ previous' = env
          /\ env' = Overridden(env, data[t])
          /\ UNCHANGED <<holder, data, hash, overlay>>
    /\ UNCHANGED <<executeRest, snapshot, served>>

Handlers(t) ==
    /\ pc[t] = "handlers"
    /\ \/ /\ data[t] \in Rejected
          /\ Goto(t, "rollback")
          /\ UNCHANGED served
       \/ /\ data[t] \notin Rejected
          /\ Goto(t, "commit")
          /\ served' = [main |-> data[t], prio |-> overlay[t]]
    /\ UNCHANGED <<executeRest, snapshot, holder, locals, env>>

\* Bug: the environment of a refused configuration stays.
RollbackForgets(t) ==
    /\ pc[t] = "rollback"
    /\ Return(t)
    /\ UNCHANGED <<executeRest, snapshot, proxyVars>>

RollbackEnvs(t) ==
    /\ pc[t] = "rollback"
    /\ env' = [k \in Key |-> IF k \in EnvKeys(data[t]) THEN previous[k] ELSE env[k]]
    /\ Return(t)
    /\ UNCHANGED <<executeRest, snapshot, served>>

\* Bug: the directory is hashed again when the configuration is stored.
CommitRehashes(t) ==
    /\ pc[t] = "commit"
    /\ configData' = data[t]
    /\ prioHash' = prio
    /\ Return(t)
    /\ UNCHANGED <<executeRest, proxyVars>>

\* Bug: only the hash of the directory is stored.
CommitHashOnly(t) ==
    /\ pc[t] = "commit"
    /\ prioHash' = hash[t]
    /\ Return(t)
    /\ UNCHANGED <<executeRest, configData, proxyVars>>

Commit(t) ==
    /\ pc[t] = "commit"
    /\ configData' = data[t]
    /\ prioHash' = hash[t]
    /\ Return(t)
    /\ UNCHANGED <<executeRest, proxyVars>>

Execute(t) ==
    Lock(t) \/ DecodeConfig(t) \/ ApplyEnvs(t) \/ Handlers(t) \/ RollbackEnvs(t) \/ Commit(t)

Start == Initialize \/ InitializeHash \/ FirstUpdate \/ Watch

Next ==
    \/ EditMain \/ EditPriority \/ StreamEnds
    \/ Start \/ Close
    \/ LoadLocal \/ SourceEvent \/ HashFails
    \/ \E t \in Thread : WatcherEnds(t) \/ PriorityConfigSHA256(t) \/ Check(t) \/ Execute(t)

Spec == Init /\ [][Next]_vars

\* Goroutines run on; reads fail from time to time but not for ever; a select
\* with two ready cases does not always pick the same one.
Fairness ==
    /\ WF_vars(LoadLocal)
    /\ SF_vars(PriorityConfigSHA256("main"))
    /\ \A t \in Thread : SF_vars(WatcherEnds(t)) /\ SF_vars(Check(t) \/ Execute(t))

FairSpec == Spec /\ Fairness

----------------------------------------------------------------------------
(* Properties *)

\* Every field of the loader, its watchers and the proxy keeps its type.
\* Once initialize has returned, the loader has a configuration.
TypeOK ==
    /\ mode \in Mode /\ mainSrc \in Main /\ prio \in Prio
    /\ boot \in {"read", "hash", "serve", "served", "running", "dead"}
    /\ configData \in Main \cup {0} /\ prioHash \in Overlay
    /\ boot \in {"hash", "serve", "served", "running"} => configData # 0
    /\ closed \in BOOLEAN /\ ctxDone \in BOOLEAN
    /\ holder \in Thread \cup {"none"}
    /\ pc \in [Thread -> {"off", "wait", "loaded", "hashed", "locking", "decode", "decoded",
                          "handlers", "rollback", "commit", "done"}]
    /\ data \in [Thread -> Main \cup {0}]
    /\ hash \in [Thread -> Overlay]
    /\ overlay \in [Thread -> Overlay]
    /\ previous \in [Key -> Main \cup {0}]
    /\ env \in [Key -> Main \cup {0}]
    /\ served \in [main : Main \cup {0}, prio : Overlay]
    /\ delivered \in Main \cup {0}

\* The recorded hash of the priority directory is never newer than the
\* priority contents in the routes, however edits fall between the hashing
\* (config.go:347,373,400) and the reading of the files (config.go:198-228):
\* an edit may be loaded twice but is never taken for loaded. The exception
\* is a merge that failed and was logged (config.go:151-153).
HashNeverAhead ==
    boot = "running" => served.prio = 0 \/ prioHash <= served.prio

\* Unless a reload is under way, the snapshot that Load and watchPriority
\* use (config.go:324-328) is the configuration the proxy serves.
SnapshotIsServed ==
    boot = "running" /\ holder = "none" => configData = served.main

\* executeLoader is atomic to the outside: seen as AtomicReload, with the
\* saved environment in place of the real one until the handlers accepted
\* (config.go:311-322), routes and variables change together or not at all.
Undecided == \E t \in Thread : pc[t] \in {"handlers", "rollback"}

Abstract == INSTANCE AtomicReload WITH
    Bootable <- Main \ (Undecodable \cup Rejected),
    Usable   <- Good,
    env      <- IF Undecided THEN previous ELSE env

ReloadsAreAtomic == Abstract!Spec

\* In file mode a configuration that can be used is served in the end, unless
\* it is edited again or the loader is closed (config.go:333-361): a refused
\* predecessor or failing reads do not make the watcher forget it.
LocalCatchesUp ==
    \A v \in Good :
        boot = "running" /\ mode = "file" /\ mainSrc = v
            ~> served.main = v \/ mainSrc # v \/ closed

\* After Close every watcher goroutine ends (config.go:432-441), from
\* wherever it was, also when it waits for applyLock.
CloseEndsWatchers ==
    closed ~> \A t \in Thread : pc[t] \in {"off", "done"}

\* A reload of the priority directory never takes back a newer main
\* configuration that is already served: README.md:251 says that the
\* directory only overrides endpoints of routes.
UpdatesAreNotUndone ==
    [][served.main # 0 => served'.main >= served.main]_vars
=============================================================================
