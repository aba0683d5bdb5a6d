---------------------------- MODULE ControlPlane ----------------------------
(***************************************************************************)
(* The control-plane loader (config/config-loader/ctrl-loader.go): a loop  *)
(* that asks one of several control services for the current release,      *)
(* writes its main and priority files, and turns to the next service after *)
(* a failure. cmd/gateway refuses to start with it today; the package is   *)
(* modelled as it stands.                                                  *)
(*                                                                         *)
(* Releases are numbered; the version of everything in a release is its    *)
(* number, 0 is none. The services are external: one that is up answers    *)
(* "not modified" only to a caller that names the current release.         *)
(***************************************************************************)
EXTENDS Naturals

CONSTANTS
    MaxRelease,  \* bound on the releases
    N,           \* number of control services
    Key,         \* keys of priority configs
    KeysOf(_)    \* the keys a release has priority configs for

Service == 0..(N - 1)
Release == 0..MaxRelease

ASSUME ControlAssumption ==
    /\ MaxRelease \in Nat \ {0} /\ N \in Nat \ {0}
    /\ \A r \in Release : KeysOf(r) \subseteq Key

VARIABLES
    release,          \* external: the current release
    up,               \* external: the services that answer
    ctxDone,          \* the context of Run is cancelled
    pc,               \* where Run is
    ctrlServiceIdx,   \* c.ctrlServiceIdx
    nextCtrlService,  \* c.nextCtrlService
    lastVersion,      \* c.lastVersion
    lastPriority,     \* *c.lastPriorityVersion; 0 is no entry
    resp,             \* the release in resp
    unwritten,        \* its priority configs that are not written yet
    mainFile,         \* the release in dstPath
    prioFile,         \* the release in each file of dstPriorityConfigDir
    feature           \* gw:PriorityConfig is enabled

world  == <<release, up, ctxDone>>
chosen == <<ctrlServiceIdx, nextCtrlService>>
files  == <<mainFile, prioFile>>
vars == <<release, up, ctxDone, pc, ctrlServiceIdx, nextCtrlService, lastVersion, lastPriority,
          resp, unwritten, mainFile, prioFile, feature>>

\* New: the services were shuffled, so any of them is the first.
Init ==
    /\ release = 1
    /\ up \in SUBSET Service
    /\ ctxDone = FALSE
    /\ pc = "load"
    /\ ctrlServiceIdx = 0
    /\ nextCtrlService = FALSE
    /\ lastVersion = 0
    /\ lastPriority = [k \in Key |-> 0]
    /\ resp = 0
    /\ unwritten = {}
    /\ mainFile = 0
    /\ prioFile = [k \in Key |-> 0]
    /\ feature = FALSE

----------------------------------------------------------------------------
(* The world *)

Publish ==
    /\ release < MaxRelease
    /\ release' = release + 1
    /\ UNCHANGED <<up, ctxDone, pc, chosen, lastVersion, lastPriority, resp, unwritten, files,
                   feature>>

ServiceFlips(s) ==
    /\ up' = IF s \in up THEN up \ {s} ELSE up \cup {s}
    /\ UNCHANGED <<release, ctxDone, pc, chosen, lastVersion, lastPriority, resp, unwritten,
                   files, feature>>

Cancel ==
    /\ ~ctxDone
    /\ ctxDone' = TRUE
    /\ UNCHANGED <<release, up, pc, chosen, lastVersion, lastPriority, resp, unwritten, files,
                   feature>>

\* The process restarts: the files stay, everything else is new.
Restart ==
    /\ ctxDone' = FALSE
    /\ pc' = "load"
    /\ ctrlServiceIdx' \in Service
    /\ nextCtrlService' = FALSE
    /\ lastVersion' = 0
    /\ lastPriority' = [k \in Key |-> 0]
    /\ resp' = 0
    /\ unwritten' = {}
    /\ feature' = FALSE
    /\ UNCHANGED <<release, up, files>>

----------------------------------------------------------------------------
(* Load *)

\* Bug: after a failure the same service is asked again.
ChoseCtrlServiceSame == ctrlServiceIdx

\* Bug: the index runs past the end of the list.
ChoseCtrlServiceNoWrap ==
    IF nextCtrlService THEN ctrlServiceIdx + 1 ELSE ctrlServiceIdx

ChoseCtrlService ==
    IF nextCtrlService THEN (ctrlServiceIdx + 1) % N ELSE ctrlServiceIdx

Asked ==
    /\ ctrlServiceIdx' = ChoseCtrlService
    /\ nextCtrlService' = FALSE

\* What encodeLastPriorityVersion may report: one entry of the map, whichever
\* the iteration leaves in the parameter.
Reported == IF feature THEN {<<k, lastPriority[k]>> : k \in {j \in Key : lastPriority[j] # 0}}
            ELSE {}

\* No answer, no 200, or not JSON: the next pass begins at once.
LoadFails ==
    /\ pc = "load"
    /\ ChoseCtrlService \notin up \/ ctxDone
    /\ ctrlServiceIdx' = ChoseCtrlService
    /\ nextCtrlService' = TRUE
    /\ UNCHANGED <<world, pc, lastVersion, lastPriority, resp, unwritten, files, feature>>

NotModified ==
    /\ pc = "load" /\ ~ctxDone
    /\ ChoseCtrlService \in up
    /\ lastVersion = release
    /\ Asked
    /\ pc' = "features"
    /\ UNCHANGED <<world, lastVersion, lastPriority, resp, unwritten, files, feature>>

Answered ==
    /\ pc = "load" /\ ~ctxDone
    /\ ChoseCtrlService \in up
    /\ Asked
    /\ resp' = release
    /\ pc' = "main"
    /\ UNCHANGED <<world, lastVersion, lastPriority, unwritten, files, feature>>

WriteMain ==
    /\ pc = "main"
    /\ mainFile' = resp
    /\ lastVersion' = resp
    /\ unwritten' = KeysOf(resp)
    /\ pc' = "priority"
    /\ UNCHANGED <<world, chosen, lastPriority, resp, prioFile, feature>>

WriteMainFails ==
    /\ pc = "main"
    /\ nextCtrlService' = TRUE
    /\ resp' = 0
    /\ pc' = "load"
    /\ UNCHANGED <<world, ctrlServiceIdx, lastVersion, lastPriority, unwritten, files, feature>>

\* writePriorityConfigs: one item after the other.
WritePriority(k) ==
    /\ pc = "priority" /\ k \in unwritten
    /\ prioFile' = [prioFile EXCEPT ![k] = resp]
    /\ unwritten' = unwritten \ {k}
    /\ UNCHANGED <<world, pc, chosen, lastVersion, lastPriority, resp, mainFile, feature>>

Versions == [k \in Key |-> IF k \in KeysOf(resp) THEN resp ELSE 0]

\* Bug: the versions are recorded although not all files were written.
WritePriorityFailsRecorded ==
    /\ pc = "priority" /\ unwritten # {}
    /\ lastPriority' = Versions
    /\ unwritten' = {}
    /\ resp' = 0
    /\ pc' = "features"
    /\ UNCHANGED <<world, chosen, lastVersion, files, feature>>

\* Load only logs it: the rest of the items is given up, nothing is removed
\* and no versions are recorded, but lastVersion already is the release.
WritePriorityFails ==
    /\ pc = "priority" /\ unwritten # {}
    /\ unwritten' = {}
    /\ resp' = 0
    /\ pc' = "features"
    /\ UNCHANGED <<world, chosen, lastVersion, lastPriority, files, feature>>

\* Files of other keys are removed; a removal may fail and is only logged.
CleanUpPriorityConfigs ==
    /\ pc = "priority" /\ unwritten = {}
    /\ \E stuck \in SUBSET (Key \ KeysOf(resp)) :
        prioFile' = [k \in Key |-> IF k \in KeysOf(resp) \cup stuck THEN prioFile[k] ELSE 0]
    /\ lastPriority' = Versions
    /\ resp' = 0
    /\ pc' = "features"
    /\ UNCHANGED <<world, chosen, lastVersion, unwritten, mainFile, feature>>

LoadFeatures ==
    /\ pc = "features" /\ ~ctxDone
    /\ ChoseCtrlService \in up
    /\ Asked
    /\ feature' \in BOOLEAN
    /\ pc' = "sleep"
    /\ UNCHANGED <<world, lastVersion, lastPriority, resp, unwritten, files>>

\* Only logged; the loader does not turn to another service.
LoadFeaturesFails ==
    /\ pc = "features"
    /\ ChoseCtrlService \notin up \/ ctxDone
    /\ Asked
    /\ pc' = "sleep"
    /\ UNCHANGED <<world, lastVersion, lastPriority, resp, unwritten, files, feature>>

Sleep ==
    /\ pc = "sleep"
    /\ pc' \in IF ctxDone THEN {"load", "stopped"} ELSE {"load"}
    /\ UNCHANGED <<world, chosen, lastVersion, lastPriority, resp, unwritten, files, feature>>

Load ==
    \/ LoadFails \/ NotModified \/ Answered
    \/ WriteMain \/ WriteMainFails
    \/ WritePriorityFails \/ CleanUpPriorityConfigs
    \/ \E k \in Key : WritePriority(k)

Run == Load \/ LoadFeatures \/ LoadFeaturesFails \/ Sleep

Next ==
    \/ Run
    \/ Publish \/ Cancel \/ Restart
    \/ \E s \in Service : ServiceFlips(s)

Spec == Init /\ [][Next]_vars

\* The loop runs on, and a disk does not fail for ever.
Fairness == WF_vars(Run) /\ SF_vars(WriteMain)

FairSpec == Spec /\ Fairness

----------------------------------------------------------------------------
(* Properties *)

\* The loader's fields and files keep their types, and the service asked is
\* one of the list (ctrl-loader.go:94-101).
TypeOK ==
    /\ release \in Release /\ up \subseteq Service /\ ctxDone \in BOOLEAN
    /\ pc \in {"load", "main", "priority", "features", "sleep", "stopped"}
    /\ ctrlServiceIdx \in Service /\ nextCtrlService \in BOOLEAN
    /\ lastVersion \in Release /\ lastPriority \in [Key -> Release]
    /\ resp \in Release /\ unwritten \subseteq Key
    /\ mainFile \in Release /\ prioFile \in [Key -> Release]
    /\ feature \in BOOLEAN

\* The loader never tells the control plane of a main or priority version
\* that is not in its files, or has been overwritten by a later release
\* (ctrl-loader.go:143-151, 179-217): writes that fail half way, files that
\* cannot be removed and restarts do not make it claim more than it has.
NeverOverstates ==
    /\ mainFile >= lastVersion
    /\ \A item \in Reported : prioFile[item[1]] >= item[2]

\* If one control service stays up and the loader is neither restarted nor
\* stopped any more, the last release gets into the main file, whichever
\* services fail meanwhile (ctrl-loader.go:94-101, 113-118).
ReleaseArrives ==
    \A s \in Service :
        <>[](s \in up /\ ~ctxDone) /\ <>[][~Restart]_vars => <>[](mainFile = release)
=============================================================================
