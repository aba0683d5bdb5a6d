------------------------- MODULE ControlPlaneProofs -------------------------
(***************************************************************************)
(* Proofs about ControlPlane, for any number of releases, services and     *)
(* keys: type correctness, and that the loader never claims a version it   *)
(* does not have.                                                          *)
(***************************************************************************)
EXTENDS ControlPlane, TLAPS

\* Nothing in the files is newer than the current release, and what is about
\* to be written is at least as new as what it replaces.
AgeInv ==
    /\ mainFile <= release /\ \A k \in Key : prioFile[k] <= release
    /\ resp <= release
    /\ pc \in {"main", "priority"} => resp >= mainFile /\ \A k \in Key : resp >= prioFile[k]

\* The items that are not among the unwritten ones have been written.
WrittenInv == pc = "priority" => \A k \in KeysOf(resp) \ unwritten : prioFile[k] = resp

\* The recorded versions are in the files.
RecordInv ==
    /\ mainFile >= lastVersion
    /\ \A k \in Key : prioFile[k] >= lastPriority[k]

IInv == TypeOK /\ AgeInv /\ WrittenInv /\ RecordInv

-----------------------------------------------------------------------------

\* A loader with empty files satisfies the invariant.
LEMMA InitInv == Init => IInv
<1> SUFFICES ASSUME Init PROVE IInv
    OBVIOUS
<1>0. 0 \in Release /\ 1 \in Release /\ 0 \in Service
    BY ControlAssumption DEF Release, Service
<1>1. TypeOK
    BY <1>0 DEF Init, TypeOK
<1>2. AgeInv /\ WrittenInv /\ RecordInv
    BY DEF Init, AgeInv, WrittenInv, RecordInv
<1> QED
    BY <1>1, <1>2 DEF IInv

\* The service chosen next is one of the list.
LEMMA ChosenIsAService == TypeOK => ChoseCtrlService \in Service
    BY ControlAssumption DEF TypeOK, ChoseCtrlService, Service

\* A new release, services that come and go, and a cancelled context.
LEMMA WorldInv ==
    ASSUME IInv, Publish \/ Cancel \/ \E s \in Service : ServiceFlips(s)
    PROVE  IInv'
<1>0. MaxRelease \in Nat /\ release \in Nat /\ mainFile \in Nat /\ resp \in Nat
    BY ControlAssumption DEF IInv, TypeOK, Release
<1>1. UNCHANGED <<pc, ctrlServiceIdx, nextCtrlService, lastVersion, lastPriority, resp,
                  unwritten, mainFile, prioFile, feature>>
    BY DEF Publish, Cancel, ServiceFlips, chosen, files
<1>2. release' \in Release /\ up' \subseteq Service /\ release <= release'
    BY <1>0 DEF IInv, TypeOK, Publish, Cancel, ServiceFlips, Release
<1>3. ctxDone' \in BOOLEAN
    BY DEF IInv, TypeOK, Publish, Cancel, ServiceFlips
<1>4. TypeOK'
    BY <1>1, <1>2, <1>3 DEF IInv, TypeOK
<1>5. \A k \in Key : prioFile[k] \in Nat
    BY DEF IInv, TypeOK, Release
<1>6. AgeInv'
    BY <1>0, <1>1, <1>2, <1>5 DEF IInv, TypeOK, AgeInv, Release
<1>7. WrittenInv' /\ RecordInv'
    BY <1>1 DEF IInv, WrittenInv, RecordInv
<1> QED
    BY <1>4, <1>6, <1>7 DEF IInv

\* Memory is lost and the files stay.
LEMMA RestartInv == IInv /\ Restart => IInv'
<1> SUFFICES ASSUME IInv, Restart PROVE IInv'
    OBVIOUS
<1>0. MaxRelease \in Nat /\ 0 \in Release
    BY ControlAssumption DEF Release
<1>1. TypeOK'
    BY <1>0 DEF IInv, TypeOK, Restart, files
<1>2. AgeInv' /\ WrittenInv' /\ RecordInv'
    BY <1>0 DEF IInv, TypeOK, AgeInv, WrittenInv, RecordInv, Restart, files, Release
<1> QED
    BY <1>1, <1>2 DEF IInv

\* Steps that touch neither files nor recorded versions.
LEMMA AskInv ==
    ASSUME IInv,
           \/ LoadFails \/ NotModified \/ Answered \/ WriteMainFails \/ WritePriorityFails
           \/ LoadFeatures \/ LoadFeaturesFails \/ Sleep
    PROVE  IInv'
<1>0. MaxRelease \in Nat /\ 0 \in Release
    BY ControlAssumption DEF Release
<1>1. ChoseCtrlService \in Service
    BY ChosenIsAService DEF IInv
<1>2. UNCHANGED <<release, up, ctxDone, lastVersion, lastPriority, mainFile, prioFile>>
    BY DEF LoadFails, NotModified, Answered, WriteMainFails, WritePriorityFails, LoadFeatures,
           LoadFeaturesFails, Sleep, world, files
<1>3. /\ ctrlServiceIdx' \in Service
      /\ pc' \in {"load", "main", "priority", "features", "sleep", "stopped"}
      /\ resp' \in Release /\ unwritten' \subseteq Key
    BY <1>0, <1>1 DEF IInv, TypeOK, LoadFails, NotModified, Answered, WriteMainFails,
           WritePriorityFails, LoadFeatures, LoadFeaturesFails, Sleep, Asked, chosen
<1>4. nextCtrlService' \in BOOLEAN /\ feature' \in BOOLEAN
    BY DEF IInv, TypeOK, LoadFails, NotModified, Answered, WriteMainFails,
           WritePriorityFails, LoadFeatures, LoadFeaturesFails, Sleep, Asked, chosen
<1>5. TypeOK'
    BY <1>2, <1>3, <1>4 DEF IInv, TypeOK
<1>6. /\ pc' # "priority"
      /\ resp' <= release
      /\ pc' = "main" => resp' = release
    BY <1>0 DEF IInv, TypeOK, AgeInv, LoadFails, NotModified, Answered, WriteMainFails,
           WritePriorityFails, LoadFeatures, LoadFeaturesFails, Sleep, Release
<1>7. AgeInv'
    BY <1>2, <1>3, <1>6 DEF IInv, TypeOK, AgeInv, Release
<1>8. WrittenInv' /\ RecordInv'
    BY <1>2, <1>6 DEF IInv, WrittenInv, RecordInv
<1> QED
    BY <1>5, <1>7, <1>8 DEF IInv

\* The main file of a release is written.
LEMMA WriteMainInv == IInv /\ WriteMain => IInv'
<1> SUFFICES ASSUME IInv, WriteMain PROVE IInv'
    OBVIOUS
<1>1. TypeOK'
    BY ControlAssumption DEF IInv, TypeOK, WriteMain, world, chosen
<1>2. AgeInv' /\ WrittenInv' /\ RecordInv'
    BY DEF IInv, TypeOK, AgeInv, WrittenInv, RecordInv, WriteMain, world, chosen, Release
<1> QED
    BY <1>1, <1>2 DEF IInv

\* A priority file is written.
LEMMA WritePriorityInv ==
    ASSUME IInv, NEW k \in Key, WritePriority(k)
    PROVE  IInv'
<1>1. UNCHANGED <<release, up, ctxDone, pc, ctrlServiceIdx, nextCtrlService, lastVersion,
                  lastPriority, resp, mainFile, feature>>
    BY DEF WritePriority, world, chosen
<1>2. /\ pc = "priority" /\ k \in unwritten /\ unwritten' = unwritten \ {k}
      /\ prioFile' \in [Key -> Release]
      /\ prioFile'[k] = resp
      /\ \A j \in Key : j # k => prioFile'[j] = prioFile[j]
    BY DEF IInv, TypeOK, WritePriority
<1>3. TypeOK'
    BY <1>1, <1>2 DEF IInv, TypeOK
<1>4. /\ resp \in Nat /\ release \in Nat
      /\ \A j \in Key : prioFile[j] \in Nat /\ lastPriority[j] \in Nat
      /\ KeysOf(resp) \subseteq Key
    BY ControlAssumption DEF IInv, TypeOK, Release
<1>5. AgeInv'
    BY <1>1, <1>2, <1>4 DEF IInv, AgeInv
<1>6. WrittenInv'
    BY <1>1, <1>2, <1>4 DEF IInv, WrittenInv
<1>7. RecordInv'
    BY <1>1, <1>2, <1>4 DEF IInv, AgeInv, RecordInv
<1> QED
    BY <1>3, <1>5, <1>6, <1>7 DEF IInv

\* All items are written: other files are removed and the versions recorded.
LEMMA CleanUpInv == IInv /\ CleanUpPriorityConfigs => IInv'
<1> SUFFICES ASSUME IInv, CleanUpPriorityConfigs PROVE IInv'
    OBVIOUS
<1>0. MaxRelease \in Nat /\ 0 \in Release /\ KeysOf(resp) \subseteq Key
    BY ControlAssumption DEF IInv, TypeOK, Release
<1>1. /\ UNCHANGED <<release, up, ctxDone, ctrlServiceIdx, nextCtrlService, lastVersion,
                     unwritten, mainFile, feature>>
      /\ pc = "priority" /\ unwritten = {} /\ resp' = 0 /\ pc' = "features"
      /\ lastPriority' = [k \in Key |-> IF k \in KeysOf(resp) THEN resp ELSE 0]
    BY DEF CleanUpPriorityConfigs, Versions, world, chosen
<1>2. PICK stuck \in SUBSET (Key \ KeysOf(resp)) :
         prioFile' = [k \in Key |-> IF k \in KeysOf(resp) \cup stuck THEN prioFile[k] ELSE 0]
    BY DEF CleanUpPriorityConfigs
<1>3. /\ resp \in Release /\ release \in Nat
      /\ prioFile \in [Key -> Release] /\ \A k \in Key : prioFile[k] \in Nat
    BY DEF IInv, TypeOK, Release
<1>4. prioFile' \in [Key -> Release] /\ lastPriority' \in [Key -> Release]
    BY <1>0, <1>1, <1>2, <1>3
<1>5. TypeOK'
    BY <1>0, <1>1, <1>4 DEF IInv, TypeOK
<1>6. AgeInv'
    BY <1>1, <1>2, <1>3 DEF IInv, AgeInv
<1>7. RecordInv'
  <2>1. \A k \in KeysOf(resp) : prioFile[k] = resp
    BY <1>1 DEF IInv, WrittenInv
  <2>2. \A k \in Key : prioFile'[k] >= lastPriority'[k]
    BY <1>1, <1>2, <1>3, <2>1 DEF Release
  <2> QED
    BY <1>1, <2>2 DEF IInv, RecordInv
<1>8. WrittenInv'
    BY <1>1 DEF WrittenInv
<1> QED
    BY <1>5, <1>6, <1>7, <1>8 DEF IInv

\* Every step keeps the invariant.
LEMMA NextInv == IInv /\ [Next]_vars => IInv'
<1> SUFFICES ASSUME IInv, [Next]_vars PROVE IInv'
    OBVIOUS
<1>1. CASE Run
    BY <1>1, AskInv, WriteMainInv, WritePriorityInv, CleanUpInv DEF Run, Load
<1>2. CASE Publish \/ Cancel \/ \E s \in Service : ServiceFlips(s)
    BY <1>2, WorldInv
<1>3. CASE Restart
    BY <1>3, RestartInv
<1>4. CASE UNCHANGED vars
    BY <1>4 DEF vars, IInv, TypeOK, AgeInv, WrittenInv, RecordInv
<1> QED
    BY <1>1, <1>2, <1>3, <1>4 DEF Next

\* The inductive invariant holds throughout.
THEOREM Invariance == Spec => []IInv
    BY InitInv, NextInv, PTL DEF Spec

\* The loader's fields keep their types, and the service asked is one of the
\* list, whichever fail (ctrl-loader.go:94-101).
THEOREM TypeCorrect == Spec => []TypeOK
<1>1. IInv => TypeOK
    BY DEF IInv
<1> QED
    BY <1>1, Invariance, PTL

\* Neither lastVersion nor a priority version that may be reported names more
\* than the files hold (ctrl-loader.go:143-151, 179-217).
THEOREM ReportsAreTrue == Spec => []NeverOverstates
<1>1. IInv => NeverOverstates
  <2> SUFFICES ASSUME IInv PROVE NeverOverstates
    OBVIOUS
  <2>1. \A item \in Reported : prioFile[item[1]] >= item[2]
    BY DEF IInv, RecordInv, Reported
  <2> QED
    BY <2>1 DEF IInv, RecordInv, NeverOverstates
<1> QED
    BY <1>1, Invariance, PTL
=============================================================================
