------------------------- MODULE ConfigLoaderProofs -------------------------
(***************************************************************************)
(* Proofs about ConfigLoader, for any number of edits and any contents:    *)
(* type correctness, the two invariants on snapshot and hash, and that the *)
(* loader implements AtomicReload.                                         *)
(***************************************************************************)
EXTENDS ConfigLoader, TLAPS

Applying == {"decode", "decoded", "handlers", "rollback", "commit"}

\* Whoever is inside executeLoader holds applyLock, and nobody else does.
LockInv ==
    /\ \A t \in Thread : pc[t] \in Applying <=> holder = t
    /\ boot # "running" => \A t \in Thread : pc[t] = "off"

\* What a watcher is about to apply is contents that passed the earlier steps.
DataInv ==
    /\ boot \in {"hash", "serve", "served", "running"} => configData \notin Undecodable
    /\ \A t \in Thread :
          /\ pc[t] \in {"loaded", "locking"} \cup Applying => data[t] # 0
          /\ pc["main"] = "hashed" => data["main"] # 0
          /\ pc[t] \in Applying \ {"decode"} => data[t] \notin Undecodable
          /\ pc[t] \in Applying \ {"decode", "decoded"} => data[t] \notin BadEnv

\* What is served, before the first update, after it and between the
\* acceptance of a configuration and its commit.
ServedInv ==
    /\ boot \in {"read", "hash", "serve", "dead"} => served = Nothing
    /\ boot = "served" => configData = served.main
    /\ boot = "running" =>
          \/ configData = served.main /\ \A t \in Thread : pc[t] # "commit"
          \/ \E t \in Thread : pc[t] = "commit"
    /\ \A t \in Thread : pc[t] = "commit" => served.main = data[t] /\ served.prio = overlay[t]

\* Hashes are taken before the files are read.
HashInv ==
    /\ prioHash <= prio
    /\ boot \in {"served", "running"} => served.prio = 0 \/ prioHash <= served.prio
    /\ \A t \in Thread :
          /\ hash[t] <= prio
          /\ pc[t] \in Applying \ {"decode"} =>
                overlay[t] = 0 \/ (hash[t] <= overlay[t] /\ prioHash <= overlay[t])

\* Until the handlers accepted, the real environment is the saved one with
\* the variables of the candidate on top.
EnvInv ==
    \A t \in Thread : pc[t] \in {"handlers", "rollback"} => env = Overridden(previous, data[t])

IInv == TypeOK /\ LockInv /\ DataInv /\ ServedInv /\ HashInv /\ EnvInv

-----------------------------------------------------------------------------

\* The initial state of the process satisfies the invariant.
LEMMA InitInv == Init => IInv
<1> SUFFICES ASSUME Init PROVE IInv
    OBVIOUS
<1>1. TypeOK
  <2>1. 1 \in Main /\ 1 \in Prio /\ 0 \in Overlay
    BY LoaderAssumption DEF Main, Prio, Overlay
  <2>2. served \in [main : Main \cup {0}, prio : Overlay]
    BY <2>1 DEF Init, Nothing
  <2>3. /\ pc \in [Thread -> {"off", "wait", "loaded", "hashed", "locking", "decode", "decoded",
                              "handlers", "rollback", "commit", "done"}]
        /\ data \in [Thread -> Main \cup {0}]
        /\ hash \in [Thread -> Overlay]
        /\ overlay \in [Thread -> Overlay]
        /\ previous \in [Key -> Main \cup {0}]
        /\ env \in [Key -> Main \cup {0}]
    BY <2>1 DEF Init
  <2>4. mode \in Mode /\ mainSrc \in Main /\ prio \in Prio /\ prioHash \in Overlay
    BY <2>1 DEF Init
  <2> QED
    BY <2>2, <2>3, <2>4 DEF Init, TypeOK
<1>2. LockInv
    BY DEF Init, LockInv, Thread, Applying
<1>3. DataInv
    BY DEF Init, DataInv, Thread, Applying
<1>4. ServedInv
    BY DEF Init, ServedInv, Thread
<1>5. HashInv
    BY DEF Init, HashInv, Thread, Applying
<1>6. EnvInv
    BY DEF Init, EnvInv, Thread
<1> QED
    BY <1>1, <1>2, <1>3, <1>4, <1>5, <1>6 DEF IInv

\* Edits from outside and the end of a stream touch only what is external.
LEMMA WorldInv ==
    ASSUME IInv, EditMain \/ EditPriority \/ StreamEnds
    PROVE  IInv'
<1> USE LoaderAssumption DEF IInv
<1>1. TypeOK'
    BY DEF EditMain, EditPriority, StreamEnds, TypeOK, Main, Prio, Overlay,
           world, life, snapshot, proxyVars
<1>2. LockInv' /\ DataInv' /\ ServedInv' /\ EnvInv'
    BY DEF EditMain, EditPriority, StreamEnds, LockInv, DataInv, ServedInv, EnvInv,
           Overridden, world, life, snapshot, proxyVars
<1>3. HashInv'
    BY DEF EditMain, EditPriority, StreamEnds, HashInv, TypeOK, Prio, Overlay,
           world, life, snapshot, proxyVars
<1> QED
    BY <1>1, <1>2, <1>3

\* The start of the process: main has no watchers yet.
LEMMA StartInv ==
    ASSUME IInv, Start
    PROVE  IInv'
<1> USE LoaderAssumption DEF IInv
<1>0. \A e \in [Key -> Main \cup {0}], v \in Main : Overridden(e, v) \in [Key -> Main \cup {0}]
    BY DEF Overridden
<1>1. CASE Initialize
  <2>1. TypeOK'
    BY <1>1 DEF Initialize, TypeOK, Main, Prio, Overlay, world, proxyVars
  <2>2. LockInv' /\ DataInv' /\ ServedInv' /\ EnvInv' /\ HashInv'
    BY <1>1 DEF Initialize, TypeOK, LockInv, DataInv, ServedInv, EnvInv, HashInv,
                Applying, Thread, Overridden, world, proxyVars
  <2> QED
    BY <2>1, <2>2
<1>2. CASE InitializeHash
  <2>1. TypeOK'
    BY <1>2 DEF InitializeHash, TypeOK, Main, Prio, Overlay, world, proxyVars
  <2>2. LockInv' /\ DataInv' /\ ServedInv' /\ EnvInv' /\ HashInv'
    BY <1>2 DEF InitializeHash, TypeOK, LockInv, DataInv, ServedInv, EnvInv, HashInv, Prio,
                Applying, Thread, Overridden, world, proxyVars
  <2> QED
    BY <2>1, <2>2
<1>3. CASE FirstUpdate
  <2>0. configData \in Main
    BY <1>3 DEF FirstUpdate, TypeOK
  <2>1. TypeOK'
    <3>1. env' \in [Key -> Main \cup {0}]
      BY <1>0, <1>3, <2>0 DEF FirstUpdate, TypeOK, proxyVars
    <3>2. served' \in [main : Main \cup {0}, prio : Overlay]
      BY <1>3, <2>0 DEF FirstUpdate, TypeOK, proxyVars, Merged, Prio, Overlay
    <3>3. UNCHANGED <<mode, mainSrc, prio, configData, prioHash, closed, ctxDone, holder, pc,
                      data, hash, overlay, previous, delivered>>
      BY <1>3 DEF FirstUpdate, world, snapshot
    <3>4. boot = "serve" /\ boot' \in {"dead", "served"}
      BY <1>3 DEF FirstUpdate
    <3> QED
      BY <3>1, <3>2, <3>3, <3>4 DEF TypeOK
  <2>2. LockInv' /\ DataInv' /\ EnvInv'
    BY <1>3 DEF FirstUpdate, LockInv, DataInv, EnvInv, Applying, Thread, world, snapshot
  <2>3. ServedInv' /\ HashInv'
    BY <1>3 DEF FirstUpdate, TypeOK, LockInv, ServedInv, HashInv, Merged, Prio, Overlay,
                Applying, Thread, world, snapshot, proxyVars, Nothing
  <2> QED
    BY <2>1, <2>2, <2>3
<1>4. CASE Watch
  <2>1. TypeOK'
    BY <1>4 DEF Watch, TypeOK, world, snapshot, proxyVars
  <2>2. LockInv' /\ DataInv' /\ ServedInv' /\ EnvInv' /\ HashInv'
    BY <1>4 DEF Watch, TypeOK, LockInv, DataInv, ServedInv, EnvInv, HashInv,
                Applying, Thread, Overridden, world, snapshot, proxyVars
  <2> QED
    BY <2>1, <2>2
<1> QED
    BY <1>1, <1>2, <1>3, <1>4 DEF Start

\* Close only tells the watchers.
LEMMA CloseInv ==
    ASSUME IInv, Close
    PROVE  IInv'
<1>1. TypeOK'
    BY DEF IInv, Close, TypeOK, world, snapshot, proxyVars
<1>2. LockInv' /\ DataInv' /\ ServedInv' /\ EnvInv' /\ HashInv'
    BY DEF IInv, Close, LockInv, DataInv, ServedInv, EnvInv, HashInv, Overridden, world, snapshot,
           proxyVars
<1> QED
    BY <1>1, <1>2 DEF IInv

\* A watcher on its way to executeLoader changes its own locals only.
LEMMA WatcherInv ==
    ASSUME IInv, NEW t \in Thread,
           \/ WatcherEnds(t) \/ PriorityConfigSHA256(t) \/ Check(t)
           \/ LoadLocal \/ SourceEvent \/ HashFails
    PROVE  IInv'
<1> USE LoaderAssumption DEF IInv, Goto, Forget, watcherRest, BeforeHash
<1>1. CASE WatcherEnds(t)
  <2>1. TypeOK'
    BY <1>1 DEF WatcherEnds, TypeOK, world, life, snapshot, proxyVars
  <2>2. LockInv' /\ DataInv' /\ ServedInv' /\ EnvInv' /\ HashInv'
    BY <1>1 DEF WatcherEnds, TypeOK, LockInv, DataInv, ServedInv, EnvInv, HashInv, Overridden,
                Applying, Thread, world, life, snapshot, proxyVars
  <2> QED
    BY <2>1, <2>2
<1>2. CASE PriorityConfigSHA256(t)
  <2>1. TypeOK'
    BY <1>2 DEF PriorityConfigSHA256, TypeOK, Prio, Overlay, world, life, snapshot, proxyVars
  <2>2. LockInv' /\ DataInv' /\ ServedInv' /\ EnvInv' /\ HashInv'
    BY <1>2 DEF PriorityConfigSHA256, TypeOK, LockInv, DataInv, ServedInv, EnvInv, HashInv,
                Overridden, Prio, Applying, Thread, world, life, snapshot, proxyVars
  <2> QED
    BY <2>1, <2>2
<1>3. CASE t = "main" /\ CheckMain
  <2>1. TypeOK'
    BY <1>3 DEF CheckMain, TypeOK, Overlay, Thread, world, life, snapshot, proxyVars
  <2>2. LockInv' /\ DataInv' /\ ServedInv' /\ EnvInv' /\ HashInv'
    BY <1>3 DEF CheckMain, TypeOK, LockInv, DataInv, ServedInv, EnvInv, HashInv, Prio,
                Overridden, Applying, Thread, world, life, snapshot, proxyVars
  <2> QED
    BY <2>1, <2>2
<1>4. CASE t = "prio" /\ CheckPriority
  <2>0. boot = "running"
    BY <1>4 DEF CheckPriority, LockInv, Thread
  <2>1. TypeOK'
    BY <1>4 DEF CheckPriority, TypeOK, Overlay, Thread, world, life, snapshot, proxyVars
  <2>2. LockInv' /\ DataInv' /\ ServedInv' /\ EnvInv' /\ HashInv'
    BY <1>4, <2>0 DEF CheckPriority, TypeOK, LockInv, DataInv, ServedInv, EnvInv, HashInv, Prio,
                Overridden, Applying, Thread, world, life, snapshot, proxyVars
  <2> QED
    BY <2>1, <2>2
<1>5. CASE LoadLocal \/ SourceEvent
  <2>1. TypeOK'
    BY <1>5 DEF LoadLocal, SourceEvent, TypeOK, Thread, world, life, snapshot, proxyVars
  <2>2. LockInv' /\ DataInv' /\ ServedInv' /\ EnvInv' /\ HashInv'
    BY <1>5 DEF LoadLocal, SourceEvent, TypeOK, LockInv, DataInv, ServedInv, EnvInv, HashInv,
                Overridden, Main, Applying, Thread, world, life, snapshot, proxyVars
  <2> QED
    BY <2>1, <2>2
<1>6. CASE HashFails
  <2>1. TypeOK'
    BY <1>6 DEF HashFails, TypeOK, Overlay, Thread, world, life, snapshot, proxyVars
  <2>2. LockInv' /\ DataInv' /\ ServedInv' /\ EnvInv' /\ HashInv'
    BY <1>6 DEF HashFails, TypeOK, LockInv, DataInv, ServedInv, EnvInv, HashInv, Prio,
                Overridden, Applying, Thread, world, life, snapshot, proxyVars
  <2> QED
    BY <2>1, <2>2
<1> QED
    BY <1>1, <1>2, <1>3, <1>4, <1>5, <1>6 DEF Check, Thread

\* The watcher inside executeLoader is alone there.
LEMMA ExecuteInv ==
    ASSUME IInv, NEW t \in Thread, Execute(t)
    PROVE  IInv'
<1> USE LoaderAssumption DEF IInv, Goto, Forget, Return, executeRest, locals
<1>0. /\ \A e \in [Key -> Main \cup {0}], v \in Main : Overridden(e, v) \in [Key -> Main \cup {0}]
      /\ pc[t] \in Applying => data[t] \in Main /\ boot = "running"
    BY DEF Overridden, DataInv, LockInv, TypeOK, Applying
<1>1. CASE Lock(t)
  <2>1. TypeOK'
    BY <1>1 DEF Lock, TypeOK, world, life, snapshot, proxyVars
  <2>2. LockInv' /\ DataInv' /\ ServedInv' /\ EnvInv' /\ HashInv'
    BY <1>1 DEF Lock, TypeOK, LockInv, DataInv, ServedInv, EnvInv, HashInv, Overridden,
                Applying, Thread, world, life, snapshot, proxyVars
  <2> QED
    BY <2>1, <2>2
<1>2. CASE DecodeConfig(t)
  <2>1. TypeOK'
    BY <1>2 DEF DecodeConfig, TypeOK, Merged, Prio, Overlay, world, life, snapshot, proxyVars
  <2>2. LockInv' /\ DataInv' /\ ServedInv' /\ EnvInv'
    BY <1>2 DEF DecodeConfig, TypeOK, LockInv, DataInv, ServedInv, EnvInv, Overridden,
                Applying, Thread, world, life, snapshot, proxyVars
  <2>3. HashInv'
    BY <1>2 DEF DecodeConfig, TypeOK, HashInv, Merged, Prio, Overlay,
                Applying, Thread, world, life, snapshot, proxyVars
  <2> QED
    BY <2>1, <2>2, <2>3
<1>3. CASE ApplyEnvs(t)
  <2>1. TypeOK'
    <3>1. pc[t] \in Applying
      BY <1>3 DEF ApplyEnvs, Applying
    <3>2. env' \in [Key -> Main \cup {0}]
      BY <1>0, <1>3, <3>1 DEF ApplyEnvs, TypeOK
    <3> QED
      BY <1>3, <3>2 DEF ApplyEnvs, TypeOK, Overlay, world, life, snapshot, proxyVars
  <2>2. LockInv' /\ DataInv' /\ ServedInv' /\ HashInv'
    BY <1>3 DEF ApplyEnvs, TypeOK, LockInv, DataInv, ServedInv, HashInv, Prio, Overlay,
                Applying, Thread, world, life, snapshot, proxyVars
  <2>3. EnvInv'
    BY <1>3 DEF ApplyEnvs, TypeOK, LockInv, EnvInv, Applying, Thread, Overridden
  <2> QED
    BY <2>1, <2>2, <2>3
<1>4. CASE Handlers(t)
  <2>1. TypeOK'
    BY <1>4 DEF Handlers, TypeOK, world, life, snapshot, proxyVars
  <2>2. LockInv' /\ DataInv' /\ ServedInv' /\ EnvInv' /\ HashInv'
    BY <1>0, <1>4 DEF Handlers, TypeOK, LockInv, DataInv, ServedInv, EnvInv, HashInv, Overridden,
                Applying, Thread, world, life, snapshot, proxyVars
  <2> QED
    BY <2>1, <2>2
<1>5. CASE RollbackEnvs(t)
  <2>1. TypeOK'
    <3>1. env' \in [Key -> Main \cup {0}]
      BY <1>5 DEF RollbackEnvs, TypeOK
    <3> QED
      BY <1>5, <3>1 DEF RollbackEnvs, TypeOK, Overlay, world, life, snapshot, proxyVars
  <2>2. LockInv' /\ DataInv' /\ ServedInv' /\ EnvInv' /\ HashInv'
    BY <1>5 DEF RollbackEnvs, TypeOK, LockInv, DataInv, ServedInv, EnvInv, HashInv, Prio, Overlay,
                Applying, Thread, world, life, snapshot, proxyVars
  <2> QED
    BY <2>1, <2>2
<1>6. CASE Commit(t)
  <2>1. TypeOK'
    BY <1>0, <1>6 DEF Commit, TypeOK, Main, Overlay, Applying, world, life, snapshot, proxyVars
  <2>2. LockInv' /\ DataInv' /\ ServedInv' /\ EnvInv' /\ HashInv'
    BY <1>0, <1>6 DEF Commit, TypeOK, LockInv, DataInv, ServedInv, EnvInv, HashInv, Prio, Overlay,
                Applying, Thread, world, life, snapshot, proxyVars
  <2> QED
    BY <2>1, <2>2
<1> QED
    BY <1>1, <1>2, <1>3, <1>4, <1>5, <1>6 DEF Execute

\* The invariant is inductive.
LEMMA NextInv == IInv /\ [Next]_vars => IInv'
<1> SUFFICES ASSUME IInv, [Next]_vars PROVE IInv'
    OBVIOUS
<1>1. CASE UNCHANGED vars
    BY <1>1 DEF vars, IInv, TypeOK, LockInv, DataInv, ServedInv, HashInv, EnvInv, Overridden
<1>2. CASE Next
    BY <1>2, WorldInv, StartInv, CloseInv, WatcherInv, ExecuteInv DEF Next, Thread
<1> QED
    BY <1>1, <1>2

\* The inductive invariant holds throughout.
THEOREM Invariance == Spec => []IInv
    BY InitInv, NextInv, PTL DEF Spec

(***************************************************************************)
(* Every field of the loader, its watchers and the proxy keeps its type.   *)
(***************************************************************************)
THEOREM TypeCorrect == Spec => []TypeOK
    BY Invariance, PTL DEF IInv

(***************************************************************************)
(* The hash recorded for the priority directory is never newer than the    *)
(* priority contents in the routes (config.go:347, 198-228).               *)
(***************************************************************************)
THEOREM HashIsNeverAhead == Spec => []HashNeverAhead
<1>1. IInv => HashNeverAhead
    BY DEF IInv, HashInv, HashNeverAhead
<1> QED
    BY <1>1, Invariance, PTL

(***************************************************************************)
(* Unless a reload is under way the loader's snapshot is what the proxy    *)
(* serves (config.go:324-328).                                             *)
(***************************************************************************)
THEOREM SnapshotServed == Spec => []SnapshotIsServed
<1>1. IInv => SnapshotIsServed
    BY DEF IInv, LockInv, ServedInv, SnapshotIsServed, Thread, Applying
<1> QED
    BY <1>1, Invariance, PTL

-----------------------------------------------------------------------------
(* Refinement of AtomicReload *)

seenEnv == IF Undecided THEN previous ELSE env

\* Steps outside of executeLoader, but for the first update, are stutters:
\* no watcher gets to or from the two undecided places.
LEMMA QuietSteps ==
    ASSUME IInv, NEW t \in Thread,
           \/ EditMain \/ EditPriority \/ StreamEnds \/ Close
           \/ Initialize \/ InitializeHash \/ Watch
           \/ WatcherEnds(t) \/ PriorityConfigSHA256(t) \/ Check(t)
           \/ LoadLocal \/ SourceEvent \/ HashFails
    PROVE  UNCHANGED <<served, seenEnv>>
<1>1. UNCHANGED <<served, env, previous>>
    BY DEF EditMain, EditPriority, StreamEnds, Close, Initialize, InitializeHash, Watch,
           WatcherEnds, PriorityConfigSHA256, Check, CheckMain, CheckPriority, LoadLocal,
           SourceEvent, HashFails, watcherRest, proxyVars
<1>2. Undecided' <=> Undecided
    BY DEF EditMain, EditPriority, StreamEnds, Close, Initialize, InitializeHash, Watch,
           WatcherEnds, PriorityConfigSHA256, Check, CheckMain, CheckPriority, LoadLocal,
           SourceEvent, HashFails, Goto, BeforeHash, Undecided, IInv, TypeOK, LockInv, Thread
<1> QED
    BY <1>1, <1>2 DEF seenEnv

\* The first update is the abstract boot.
LEMMA BootStep ==
    ASSUME IInv, FirstUpdate
    PROVE  [Abstract!Next]_<<served, seenEnv>>
<1>1. ~Undecided /\ ~Undecided'
    BY DEF FirstUpdate, IInv, TypeOK, LockInv, Undecided, Thread
<1>2. CASE configData \in Rejected
    BY <1>1, <1>2 DEF FirstUpdate, proxyVars, seenEnv
<1>3. CASE configData \notin Rejected
  <2>1. configData \in Main \ (Undecodable \cup Rejected)
    BY <1>3 DEF FirstUpdate, IInv, TypeOK, DataInv
  <2>2. served = Abstract!Nothing
    BY DEF FirstUpdate, IInv, ServedInv, Nothing, Abstract!Nothing
  <2>3. seenEnv = env /\ seenEnv' = env'
    BY <1>1 DEF seenEnv
  <2>4. env' = Abstract!Overridden(env, configData)
    BY <1>3 DEF FirstUpdate, Overridden, Abstract!Overridden
  <2>5. \E p \in Overlay : served' = [main |-> configData, prio |-> p]
    BY <1>3, LoaderAssumption DEF FirstUpdate, Merged, Overlay, IInv, TypeOK, Prio
  <2> QED
    BY <2>1, <2>2, <2>3, <2>4, <2>5 DEF Abstract!Next, Abstract!Boot, Abstract!Serve, seenEnv
<1> QED
    BY <1>2, <1>3

\* The handlers' acceptance is the abstract reload; the other steps of
\* executeLoader are stutters.
LEMMA ExecuteStep ==
    ASSUME IInv, NEW t \in Thread, Execute(t)
    PROVE  [Abstract!Next]_<<served, seenEnv>>
<1> USE DEF Goto, Return, executeRest, locals, proxyVars
<1>0. \A s \in Thread : pc[t] \in Applying /\ s # t => pc[s] \notin Applying
    BY DEF IInv, LockInv
<1>1. CASE Lock(t)
  <2>1. Undecided' <=> Undecided
    BY <1>1 DEF Lock, Undecided, IInv, TypeOK
  <2> QED
    BY <1>1, <2>1 DEF Lock, seenEnv
<1>2. CASE DecodeConfig(t)
  <2>1. ~Undecided /\ ~Undecided'
    BY <1>0, <1>2 DEF DecodeConfig, Undecided, IInv, TypeOK, Applying
  <2> QED
    BY <1>2, <2>1 DEF DecodeConfig, seenEnv
<1>3. CASE ApplyEnvs(t)
  <2>1. ~Undecided
    BY <1>0, <1>3 DEF ApplyEnvs, Undecided, Applying
  <2>2. CASE data[t] \in BadEnv
    <3>1. ~Undecided'
      BY <1>0, <1>3, <2>2 DEF ApplyEnvs, Undecided, IInv, TypeOK, Applying
    <3> QED
      BY <1>3, <2>1, <2>2, <3>1 DEF ApplyEnvs, seenEnv
  <2>3. CASE data[t] \notin BadEnv
    <3>1. Undecided'
      BY <1>3, <2>3 DEF ApplyEnvs, Undecided, IInv, TypeOK
    <3> QED
      BY <1>3, <2>1, <2>3, <3>1 DEF ApplyEnvs, seenEnv
  <2> QED
    BY <2>2, <2>3
<1>4. CASE Handlers(t)
  <2>1. Undecided
    BY <1>4 DEF Handlers, Undecided
  <2>2. CASE data[t] \in Rejected
    <3>1. Undecided'
      BY <1>4, <2>2 DEF Handlers, Undecided, IInv, TypeOK
    <3> QED
      BY <1>4, <2>1, <2>2, <3>1 DEF Handlers, seenEnv
  <2>3. CASE data[t] \notin Rejected
    <3>1. ~Undecided'
      BY <1>0, <1>4, <2>3 DEF Handlers, Undecided, IInv, TypeOK, Applying
    <3>2. data[t] \in Good /\ overlay[t] \in Overlay
      BY <1>4, <2>3 DEF Handlers, Good, IInv, TypeOK, DataInv, Applying
    <3>3. served # Abstract!Nothing
      <4>1. boot = "running"
        BY <1>4 DEF Handlers, IInv, LockInv
      <4>2. served.main = configData /\ configData # 0
        BY <1>0, <1>4, <4>1 DEF Handlers, IInv, ServedInv, TypeOK, Applying
      <4> QED
        BY <4>2 DEF Abstract!Nothing
    <3>4. seenEnv = previous /\ seenEnv' = env
      BY <1>4, <2>1, <3>1 DEF Handlers, seenEnv
    <3>5. env = Abstract!Overridden(previous, data[t])
      BY <1>4 DEF Handlers, IInv, EnvInv, Overridden, Abstract!Overridden
    <3>6. served' = [main |-> data[t], prio |-> overlay[t]]
      BY <1>4, <2>3 DEF Handlers
    <3> QED
      BY <3>2, <3>3, <3>4, <3>5, <3>6
         DEF Abstract!Next, Abstract!Reload, Abstract!Serve, seenEnv
  <2> QED
    BY <2>2, <2>3
<1>5. CASE RollbackEnvs(t)
  <2>1. Undecided /\ ~Undecided'
    BY <1>0, <1>5 DEF RollbackEnvs, Undecided, IInv, TypeOK, Applying
  <2>2. env' = previous
    BY <1>5 DEF RollbackEnvs, IInv, EnvInv, Overridden, TypeOK
  <2> QED
    BY <1>5, <2>1, <2>2 DEF RollbackEnvs, seenEnv
<1>6. CASE Commit(t)
  <2>1. ~Undecided /\ ~Undecided'
    BY <1>0, <1>6 DEF Commit, Undecided, IInv, TypeOK, Applying
  <2> QED
    BY <1>6, <2>1 DEF Commit, seenEnv
<1> QED
    BY <1>1, <1>2, <1>3, <1>4, <1>5, <1>6 DEF Execute

(***************************************************************************)
(* The loader implements AtomicReload: whatever the interleaving of edits, *)
(* watchers and failures, routes and environment change together and only  *)
(* to configurations that every step accepted (config.go:296-331).         *)
(***************************************************************************)
THEOREM LoaderIsAtomic == Spec => ReloadsAreAtomic
<1>1. Init => Abstract!Init
    BY DEF Init, Undecided, Thread, Abstract!Init, Abstract!Nothing, Nothing
<1>2. IInv /\ [Next]_vars => [Abstract!Next]_<<served, seenEnv>>
  <2> SUFFICES ASSUME IInv, [Next]_vars PROVE [Abstract!Next]_<<served, seenEnv>>
    OBVIOUS
  <2>1. CASE UNCHANGED vars
    BY <2>1 DEF vars, seenEnv, Undecided
  <2>2. CASE Next
    BY <2>2, QuietSteps, BootStep, ExecuteStep DEF Next, Start, Thread
  <2> QED
    BY <2>1, <2>2
<1> QED
    BY <1>1, <1>2, Invariance, PTL DEF Spec, ReloadsAreAtomic, Abstract!Spec, seenEnv
=============================================================================
