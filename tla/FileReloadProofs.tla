-------------------------- MODULE FileReloadProofs --------------------------
(***************************************************************************)
(* Proofs about FileReload, for any contents, any judgement of them and    *)
(* any number of requests: type correctness, that files and memory agree   *)
(* as long as reloads do not overlap and again after the next one that ran *)
(* alone, and that the enforcer that allowed a request stays in force      *)
(* until the request returns.                                              *)
(***************************************************************************)
EXTENDS FileReload, TLAPS

\* What may be restored has passed validate before.
GoodInv == \A f \in Files(user) : previous[f] # 0 => ~Malformed(f, previous[f])

\* Files of the other middleware play no part.
OwnInv ==
    \A f \in File \ Files(user) :
        /\ watcher[f] = "idle"
        /\ published[f] = 0 /\ disk[f] = 0 /\ inForce[f] = 0
        /\ \A h \in File : candidate[h][f] = 0

\* A process that is down does nothing; an idle watcher has read nothing, and
\* one that calls for the lock has read everything.
PlaceInv ==
    /\ ~alive => readers = {} /\ asking = {} /\ \A f \in File : watcher[f] = "idle"
    /\ \A f \in File : watcher[f] = "idle" => ~retried[f] /\ \A g \in File : candidate[f][g] = 0
    /\ \A f \in File : watcher[f] = "lock" => \A g \in Files(user) : candidate[f][g] # 0

\* With one reload at a time, the idle files are in force, and the one being
\* reloaded can go back to the contents in force.
AgreeInv ==
    alive /\ ~overlapped =>
        /\ \A f, g \in File : watcher[f] # "idle" /\ watcher[g] # "idle" => f = g
        /\ \A f \in File : watcher[f] = "idle" => inForce[f] = disk[f]
        /\ \A f \in File : watcher[f] # "idle" => previous[f] = inForce[f]
        /\ \A f \in File : retried[f] => disk[f] = previous[f]
        /\ \A f, g \in File : candidate[f][g] \in {0, disk[g]}

\* While a reload runs alone, nothing else does, and what it has read is what
\* the files hold.
SoloInv ==
    \A f \in File : solo = f /\ watcher[f] # "idle" =>
        /\ \A g \in File : watcher[g] # "idle" => g = f
        /\ \A g \in File : candidate[f][g] \in {0, disk[g]}

IInv ==
    TypeOK /\ GoodInv /\ OwnInv /\ PlaceInv /\ AgreeInv /\ SoloInv /\ JudgedByTheEnforcerInForce

-----------------------------------------------------------------------------

\* A user's files are files.
LEMMA FilesAreFiles ==
    ASSUME user \in Users
    PROVE  /\ Files(user) \subseteq File
           /\ \A i \in 1..Len(Order(user)) : Order(user)[i] \in Files(user)
           /\ \A f \in Files(user) : \E i \in 1..Len(Order(user)) : f = Order(user)[i]
<1>1. user = "rbac" \/ user = "jwt"
    BY ReloadAssumption
<1>2. \A i \in 1..Len(Order(user)) : Order(user)[i] \in File
  <2>1. CASE user = "rbac"
    <3>1. Order(user) = <<"model", "policy">>
      BY <2>1 DEF Order
    <3> QED
      BY <3>1 DEF File
  <2>2. CASE user = "jwt"
    <3>1. Order(user) = <<"key">>
      BY <2>2 DEF Order
    <3> QED
      BY <3>1 DEF File
  <2> QED
    BY <1>1, <2>1, <2>2
<1> QED
    BY <1>2 DEF Files

\* The history of no reload names no file.
LEMMA NoneIsNoFile == "none" \notin File
    BY DEF File

\* Nothing is a function to zero.
LEMMA NothingIsZero ==
    /\ Nothing \in [File -> Version]
    /\ \A f \in File : Nothing[f] = 0
    BY ReloadAssumption DEF Nothing, Version

\* A process that has not started satisfies the invariant.
LEMMA InitInv == Init => IInv
<1> SUFFICES ASSUME Init PROVE IInv
    OBVIOUS
<1>0. 0 \in Version /\ 1 \in Version
    BY ReloadAssumption DEF Version
<1>1. /\ user \in Users
      /\ Files(user) \subseteq File
      /\ \A f \in File : delivered[f] = 0 /\ disk[f] = 0 /\ inForce[f] = 0 /\ previous[f] = 0
      /\ \A f, g \in File : candidate[f][g] = 0
      /\ watcher = [f \in File |-> "idle"]
      /\ readers = {} /\ asking = {}
    BY FilesAreFiles, NothingIsZero DEF Init
<1>2. ~alive /\ ~overlapped /\ solo = "none" /\ \A f \in File : ~retried[f]
    BY DEF Init
<1>3. TypeOK
  <2>1. /\ published \in [File -> Version] /\ delivered \in [File -> Version]
        /\ disk \in [File -> Version] /\ inForce \in [File -> Version]
        /\ previous \in [File -> Version]
    BY <1>0, NothingIsZero DEF Init
  <2>2. /\ watcher \in [File -> {"idle", "read", "lock"}]
        /\ candidate \in [File -> [File -> Version]]
        /\ judgedBy \in [Request -> [File -> Version]]
    BY NothingIsZero DEF Init
  <2>3. /\ alive \in BOOLEAN /\ overlapped \in BOOLEAN /\ retried \in [File -> BOOLEAN]
        /\ solo \in File \cup {"none"}
    BY DEF Init
  <2> QED
    BY <1>1, <2>1, <2>2, <2>3 DEF TypeOK
<1>4. GoodInv
    BY <1>1 DEF GoodInv
<1>5. OwnInv
    BY <1>1 DEF OwnInv, Init
<1>6. PlaceInv
    BY <1>1, <1>2 DEF PlaceInv
<1>7. AgreeInv /\ SoloInv /\ JudgedByTheEnforcerInForce
    BY <1>1, <1>2 DEF AgreeInv, SoloInv, JudgedByTheEnforcerInForce
<1> QED
    BY <1>3, <1>4, <1>5, <1>6, <1>7 DEF IInv

\* A publication and the end of a stream touch nothing of the process.
LEMMA StreamInv ==
    ASSUME IInv, NEW f \in File, Publish(f) \/ StreamEnds(f)
    PROVE  IInv'
<1>0. MaxVersion \in Nat /\ 0 \in Version
    BY ReloadAssumption DEF Version
<1>1. /\ UNCHANGED <<user, alive, disk, inForce, watcher, previous, candidate, retried, asking,
                     readers, judgedBy, overlapped, solo>>
      /\ \A g \in File : g \notin Files(user) => published'[g] = published[g]
    BY DEF Publish, StreamEnds, pipe, reload, requests, history, IInv, TypeOK
<1>2. published' \in [File -> Version] /\ delivered' \in [File -> Version]
  <2>1. published \in [File -> Version] /\ delivered \in [File -> Version]
    BY DEF IInv, TypeOK
  <2>2. CASE Publish(f)
    <3>1. published[f] + 1 \in Version
      BY <1>0, <2>1, <2>2 DEF Publish, Version
    <3> QED
      BY <2>1, <2>2, <3>1 DEF Publish
  <2>3. CASE StreamEnds(f)
    BY <1>0, <2>1, <2>3 DEF StreamEnds, pipe
  <2> QED
    BY <2>2, <2>3
<1>3. TypeOK'
    BY <1>1, <1>2 DEF IInv, TypeOK
<1>4. GoodInv' /\ OwnInv'
    BY <1>1 DEF IInv, GoodInv, OwnInv
<1>5. PlaceInv' /\ AgreeInv' /\ SoloInv' /\ JudgedByTheEnforcerInForce'
    BY <1>1 DEF IInv, PlaceInv, AgreeInv, SoloInv, JudgedByTheEnforcerInForce
<1> QED
    BY <1>3, <1>4, <1>5 DEF IInv

\* The process dies and leaves the files.
LEMMA CrashInv == IInv /\ Crash => IInv'
<1> SUFFICES ASSUME IInv, Crash PROVE IInv'
    OBVIOUS
<1>1. /\ UNCHANGED <<user, published, disk>>
      /\ \A f \in File : inForce'[f] = 0 /\ previous'[f] = 0
      /\ \A f, g \in File : candidate'[f][g] = 0
      /\ watcher' = [f \in File |-> "idle"]
      /\ readers' = {} /\ asking' = {}
    BY NothingIsZero DEF Crash, Restarted, pipe
<1>2. ~alive' /\ \A f \in File : ~retried'[f]
    BY DEF Crash, Restarted
<1>3. TypeOK'
  <2>1. /\ inForce' \in [File -> Version] /\ previous' \in [File -> Version]
        /\ delivered' \in [File -> Version]
        /\ candidate' \in [File -> [File -> Version]]
        /\ judgedBy' \in [Request -> [File -> Version]]
        /\ watcher' \in [File -> {"idle", "read", "lock"}]
    BY NothingIsZero DEF Crash, Restarted
  <2>2. /\ alive' \in BOOLEAN /\ overlapped' \in BOOLEAN /\ retried' \in [File -> BOOLEAN]
        /\ solo' \in File \cup {"none"}
    BY DEF Crash, Restarted
  <2> QED
    BY <1>1, <2>1, <2>2 DEF IInv, TypeOK
<1>4. GoodInv' /\ OwnInv'
    BY <1>1, FilesAreFiles DEF IInv, TypeOK, GoodInv, OwnInv
<1>5. PlaceInv' /\ AgreeInv' /\ SoloInv' /\ JudgedByTheEnforcerInForce'
    BY <1>1, <1>2 DEF PlaceInv, AgreeInv, SoloInv, JudgedByTheEnforcerInForce
<1> QED
    BY <1>3, <1>4, <1>5 DEF IInv

\* A start syncs the files and builds from them, or fails.
LEMMA StartInv == IInv /\ Start => IInv'
<1> SUFFICES ASSUME IInv, Start PROVE IInv'
    OBVIOUS
<1>0. /\ Files(user) \subseteq File
      /\ \A f \in Files(user) : \E i \in 1..Len(Order(user)) : f = Order(user)[i]
    BY FilesAreFiles DEF IInv, TypeOK
<1>1. UNCHANGED <<user, published, delivered, watcher, previous, candidate, retried, asking,
                  readers, judgedBy, overlapped, solo>>
    BY DEF Start, pipe, reload, requests, history
<1>2. /\ disk' \in [File -> Version]
      /\ \A f \in File : disk'[f] = published[f] \/ disk'[f] = disk[f]
      /\ \A f \in File \ Files(user) : disk'[f] = disk[f]
    BY DEF Start, SyncFiles, IInv, TypeOK
<1>3. \A f \in Files(user) : disk'[f] # disk[f] => ~Malformed(f, disk'[f])
  <2> SUFFICES ASSUME NEW f \in Files(user), disk'[f] # disk[f]
               PROVE  ~Malformed(f, disk'[f])
    OBVIOUS
  <2>1. PICK i \in 1..Len(Order(user)) : f = Order(user)[i]
    BY <1>0
  <2>2. /\ disk'[f] = published[f]
        /\ \A k, j \in 1..Len(Order(user)) :
              Order(user)[k] = f /\ j >= k => ~Malformed(Order(user)[j], published[Order(user)[j]])
    BY <1>0 DEF Start, SyncFiles
  <2> QED
    BY <2>1, <2>2
<1>4. /\ inForce' \in [File -> Version]
      /\ \A f \in File \ Files(user) : inForce'[f] = 0
      /\ alive' => inForce' = disk'
    BY <1>2, NothingIsZero DEF Start, IInv, OwnInv
<1>5. alive' \in BOOLEAN
    BY DEF Start
<1>6. TypeOK'
  <2>1. \A f \in Files(user) : disk'[f] # 0 => ~Malformed(f, disk'[f])
    BY <1>3 DEF IInv, TypeOK
  <2> QED
    BY <1>1, <1>2, <1>4, <1>5, <2>1 DEF IInv, TypeOK
<1>7. GoodInv' /\ OwnInv'
    BY <1>1, <1>2, <1>4 DEF IInv, GoodInv, OwnInv
<1>8. /\ ~alive /\ readers = {} /\ asking = {}
      /\ \A f \in File : watcher[f] = "idle"
    BY DEF Start, IInv, PlaceInv
<1>9. PlaceInv' /\ JudgedByTheEnforcerInForce'
    BY <1>1, <1>8 DEF IInv, PlaceInv, JudgedByTheEnforcerInForce
<1>10. AgreeInv' /\ SoloInv'
    BY <1>1, <1>4, <1>8 DEF IInv, PlaceInv, AgreeInv, SoloInv
<1> QED
    BY <1>6, <1>7, <1>9, <1>10 DEF IInv

\* An event puts new contents in place, or is refused.
LEMMA EventInv ==
    ASSUME IInv, NEW f \in File, Event(f)
    PROVE  IInv'
<1>0. Files(user) \subseteq File
    BY FilesAreFiles DEF IInv, TypeOK
<1>1. /\ UNCHANGED <<user, published, alive, inForce, asking, readers, judgedBy, candidate, retried>>
      /\ alive /\ f \in Files(user) /\ watcher[f] = "idle"
    BY DEF Event, pipe, requests, reload
<1>2. delivered' \in [File -> Version]
    BY DEF Event, IInv, TypeOK
<1>3. CASE Malformed(f, published[f])
  <2>1. UNCHANGED <<disk, watcher, previous, overlapped, solo>>
    BY <1>3 DEF Event, ValidateFile, reload, history
  <2> QED
    BY <1>1, <1>2, <2>1 DEF IInv, TypeOK, GoodInv, OwnInv, PlaceInv, AgreeInv, SoloInv,
                            JudgedByTheEnforcerInForce
<1>4. CASE ~Malformed(f, published[f])
  <2>1. /\ disk' = [disk EXCEPT ![f] = published[f]]
        /\ previous' = [previous EXCEPT ![f] = disk[f]]
        /\ watcher' = [watcher EXCEPT ![f] = "read"]
    BY <1>4 DEF Event, ValidateFile, SnapshotFile, ReplaceFile, Goto
  <2>2. overlapped' = (overlapped \/ Overlaps(f)) /\ solo' = IF Overlaps(f) THEN "none" ELSE f
    BY <1>4 DEF Event, ValidateFile, RecordOverlap
  <2>3. /\ disk' \in [File -> Version] /\ previous' \in [File -> Version]
        /\ watcher' \in [File -> {"idle", "read", "lock"}]
        /\ \A g \in File : /\ disk'[g] = IF g = f THEN published[f] ELSE disk[g]
                           /\ previous'[g] = IF g = f THEN disk[f] ELSE previous[g]
                           /\ watcher'[g] = IF g = f THEN "read" ELSE watcher[g]
    BY <2>1 DEF IInv, TypeOK
  <2>4. overlapped' \in BOOLEAN /\ solo' \in File \cup {"none"}
    BY <2>2
  <2>5. TypeOK'
    <3>1. \A g \in Files(user) : disk'[g] # 0 => ~Malformed(g, disk'[g])
      BY <1>0, <1>4, <2>3 DEF IInv, TypeOK
    <3> QED
      BY <1>1, <1>2, <2>3, <2>4, <3>1 DEF IInv, TypeOK
  <2>6. GoodInv'
    BY <1>0, <1>1, <2>3 DEF IInv, TypeOK, GoodInv
  <2>7. OwnInv'
    BY <1>1, <2>3 DEF IInv, OwnInv
  <2>8. PlaceInv'
    BY <1>1, <2>3 DEF IInv, PlaceInv
  <2>9. AgreeInv'
    <3> SUFFICES ASSUME ~overlapped' PROVE AgreeInv'
      BY DEF AgreeInv
    <3>1. alive /\ ~overlapped /\ \A g \in File \ {f} : watcher[g] = "idle"
      BY <1>1, <2>2 DEF Overlaps, IInv, OwnInv
    <3>2. \A g, h \in File : watcher'[g] # "idle" /\ watcher'[h] # "idle" => g = h
      BY <2>3, <3>1
    <3>3. /\ \A g \in File : watcher'[g] = "idle" => inForce'[g] = disk'[g]
          /\ \A g \in File : watcher'[g] # "idle" => previous'[g] = inForce'[g]
      BY <1>1, <2>3, <3>1 DEF IInv, AgreeInv
    <3>4. \A g \in File : ~retried'[g] /\ \A h \in File : candidate'[g][h] = 0
      BY <1>1, <3>1 DEF IInv, PlaceInv
    <3> QED
      BY <3>2, <3>3, <3>4 DEF AgreeInv
  <2>10. JudgedByTheEnforcerInForce'
    BY <1>1 DEF IInv, JudgedByTheEnforcerInForce
  <2>11. SoloInv'
    <3> SUFFICES ASSUME solo' # "none" PROVE SoloInv'
      BY NoneIsNoFile DEF SoloInv
    <3>1. solo' = f /\ \A g \in File \ {f} : watcher[g] = "idle"
      BY <1>1, <2>2 DEF Overlaps, IInv, OwnInv
    <3>2. \A g \in File : candidate'[f][g] = 0
      BY <1>1 DEF IInv, PlaceInv
    <3> QED
      BY <2>3, <3>1, <3>2 DEF SoloInv
  <2> QED
    BY <2>5, <2>6, <2>7, <2>8, <2>9, <2>10, <2>11 DEF IInv
<1> QED
    BY <1>3, <1>4

\* The user reads its next file.
LEMMA ReadNextInv ==
    ASSUME IInv, NEW f \in File, ReadNext(f)
    PROVE  IInv'
<1>0. /\ Files(user) \subseteq File
      /\ \A i \in 1..Len(Order(user)) : Order(user)[i] \in Files(user)
    BY FilesAreFiles DEF IInv, TypeOK
<1>1. /\ UNCHANGED <<user, published, delivered, alive, disk, inForce, watcher, previous, retried,
                     asking, readers, judgedBy, overlapped, solo>>
      /\ watcher[f] = "read"
    BY DEF ReadNext, pipe, requests, history
<1>2. PICK o \in Files(user) : candidate' = [candidate EXCEPT ![f][o] = disk[o]]
    BY <1>0 DEF ReadNext, Unread
<1>3. candidate[f] \in [File -> Version] /\ candidate \in [File -> [File -> Version]] /\ o \in File
    BY <1>0 DEF IInv, TypeOK
<1>4. /\ candidate' \in [File -> [File -> Version]]
      /\ candidate'[f] = [candidate[f] EXCEPT ![o] = disk[o]]
      /\ \A g \in File : g # f => candidate'[g] = candidate[g]
    BY <1>2, <1>3 DEF IInv, TypeOK
<1>5. \A g, h \in File : candidate'[g][h] = IF g = f /\ h = o THEN disk[o] ELSE candidate[g][h]
    BY <1>3, <1>4
<1>6. TypeOK'
    BY <1>1, <1>4 DEF IInv, TypeOK
<1>7. GoodInv' /\ JudgedByTheEnforcerInForce'
    BY <1>1 DEF IInv, GoodInv, JudgedByTheEnforcerInForce
<1>8. OwnInv'
    BY <1>1, <1>5 DEF IInv, OwnInv
<1>9. PlaceInv'
    BY <1>1, <1>4 DEF IInv, PlaceInv
<1>10. AgreeInv' /\ SoloInv'
    BY <1>1, <1>5 DEF IInv, AgreeInv, SoloInv
<1> QED
    BY <1>6, <1>7, <1>8, <1>9, <1>10 DEF IInv

\* The watcher has what it needs and calls for the lock.
LEMMA BuildSucceedsInv ==
    ASSUME IInv, NEW f \in File, BuildSucceeds(f)
    PROVE  IInv'
<1>0. \A g \in Files(user) : \E i \in 1..Len(Order(user)) : g = Order(user)[i]
    BY FilesAreFiles DEF IInv, TypeOK
<1>1. /\ UNCHANGED <<user, published, delivered, alive, disk, inForce, previous, candidate, retried,
                     asking, readers, judgedBy, overlapped, solo>>
      /\ watcher[f] = "read"
    BY DEF BuildSucceeds, pipe, requests, history
<1>2. /\ watcher' \in [File -> {"idle", "read", "lock"}]
      /\ \A g \in File : watcher'[g] = IF g = f THEN "lock" ELSE watcher[g]
    BY DEF BuildSucceeds, Goto, IInv, TypeOK
<1>3. \A g \in Files(user) : candidate[f][g] # 0
    BY <1>0 DEF BuildSucceeds, Unread
<1>4. TypeOK'
    BY <1>1, <1>2 DEF IInv, TypeOK
<1>5. GoodInv' /\ JudgedByTheEnforcerInForce'
    BY <1>1 DEF IInv, GoodInv, JudgedByTheEnforcerInForce
<1>6. OwnInv'
    BY <1>1, <1>2 DEF IInv, OwnInv
<1>7. PlaceInv'
    BY <1>1, <1>2, <1>3 DEF IInv, PlaceInv
<1>8. AgreeInv' /\ SoloInv'
    BY <1>1, <1>2 DEF IInv, AgreeInv, SoloInv
<1> QED
    BY <1>4, <1>5, <1>6, <1>7, <1>8 DEF IInv

\* What a watcher that is done leaves.
LEMMA Returned ==
    ASSUME TypeOK, NEW f \in File, WatcherReturns(f)
    PROVE  /\ watcher' \in [File -> {"idle", "read", "lock"}]
           /\ previous' \in [File -> Version]
           /\ candidate' \in [File -> [File -> Version]]
           /\ retried' \in [File -> BOOLEAN]
           /\ \A g \in File : /\ watcher'[g] = IF g = f THEN "idle" ELSE watcher[g]
                              /\ previous'[g] = IF g = f THEN 0 ELSE previous[g]
                              /\ g # f => candidate'[g] = candidate[g]
           /\ \A g \in File : candidate'[f][g] = 0
           /\ ~retried'[f]
           /\ \A g \in File : g # f => retried'[g] = retried[g]
<1>1. /\ watcher' \in [File -> {"idle", "read", "lock"}]
      /\ previous' \in [File -> Version]
      /\ candidate' \in [File -> [File -> Version]]
      /\ \A g \in File : /\ watcher'[g] = IF g = f THEN "idle" ELSE watcher[g]
                         /\ previous'[g] = IF g = f THEN 0 ELSE previous[g]
                         /\ g # f => candidate'[g] = candidate[g]
      /\ candidate'[f] = Nothing
    BY NothingIsZero, ReloadAssumption DEF TypeOK, WatcherReturns, Goto, Version
<1>2. /\ retried' \in [File -> BOOLEAN]
      /\ ~retried'[f]
      /\ \A g \in File : g # f => retried'[g] = retried[g]
    BY Zenon DEF TypeOK, WatcherReturns
<1> QED
    BY <1>1, <1>2, NothingIsZero

\* The contents cannot be built from: the file is restored, once.
LEMMA BuildFailsInv ==
    ASSUME IInv, NEW f \in File, BuildFails(f)
    PROVE  IInv'
<1>0. Files(user) \subseteq File
    BY FilesAreFiles DEF IInv, TypeOK
<1>1. /\ UNCHANGED <<user, published, delivered, alive, inForce, asking, readers, judgedBy, overlapped, solo>>
      /\ watcher[f] = "read"
    BY DEF BuildFails, pipe, requests, history
<1>2. f \in Files(user)
    BY <1>1 DEF IInv, OwnInv
<1>3. JudgedByTheEnforcerInForce'
    BY <1>1 DEF IInv, JudgedByTheEnforcerInForce
<1>4. CASE retried[f] /\ WatcherReturns(f) /\ UNCHANGED disk
  <2>0. TypeOK /\ WatcherReturns(f) /\ disk' = disk
    BY <1>4 DEF IInv
  <2>1. TypeOK' /\ GoodInv' /\ OwnInv'
    <3>1. TypeOK'
      BY <1>1, <2>0, Returned DEF TypeOK
    <3>2. GoodInv'
      BY <1>0, <1>1, <2>0, Returned DEF IInv, GoodInv
    <3>3. OwnInv'
      <4> SUFFICES ASSUME NEW h \in File \ Files(user)
                   PROVE  /\ watcher'[h] = "idle"
                          /\ published[h] = 0 /\ disk[h] = 0 /\ inForce[h] = 0
                          /\ \A g \in File : candidate'[g][h] = 0
        BY <1>1, <2>0 DEF OwnInv
      <4>1. h # f /\ watcher'[h] = watcher[h]
        BY <1>2, <2>0, Returned
      <4>2. \A g \in File : candidate'[g][h] = 0
        BY <2>0, Returned DEF IInv, OwnInv
      <4> QED
        BY <4>1, <4>2 DEF IInv, OwnInv
    <3> QED
      BY <3>1, <3>2, <3>3
  <2>2. PlaceInv'
    BY <1>1, <2>0, Returned DEF IInv, PlaceInv
  <2>3. AgreeInv'
    <3> SUFFICES ASSUME alive, ~overlapped PROVE AgreeInv'
      BY <1>1 DEF AgreeInv
    <3>1. disk[f] = inForce[f] /\ \A g \in File : g # f => watcher[g] = "idle"
      BY <1>1, <1>4 DEF IInv, AgreeInv
    <3>2. \A g \in File : watcher'[g] = "idle" /\ inForce'[g] = disk'[g]
      BY <1>1, <2>0, <3>1, Returned DEF IInv, AgreeInv
    <3>3. \A g \in File : ~retried'[g] /\ \A h \in File : candidate'[g][h] = 0
      BY <2>2, <3>2 DEF PlaceInv
    <3> QED
      BY <3>2, <3>3 DEF AgreeInv
  <2>4. SoloInv'
    BY <1>1, <2>0, Returned DEF IInv, SoloInv
  <2> QED
    BY <1>3, <2>1, <2>2, <2>3, <2>4 DEF IInv
<1>5. CASE /\ RestoreFile(f)
           /\ candidate' = [candidate EXCEPT ![f] = Nothing]
           /\ retried' = [retried EXCEPT ![f] = TRUE]
           /\ UNCHANGED <<watcher, previous>>
  <2>1. /\ disk' \in [File -> Version] /\ candidate' \in [File -> [File -> Version]]
        /\ \A g \in File : /\ disk'[g] = IF g = f THEN previous[f] ELSE disk[g]
                           /\ g # f => candidate'[g] = candidate[g]
        /\ \A g \in File : candidate'[f][g] = 0
    BY <1>5, NothingIsZero DEF IInv, TypeOK, RestoreFile, ReplaceFile
  <2>2. /\ retried' \in [File -> BOOLEAN]
        /\ \A g \in File : g # f => retried'[g] = retried[g]
    BY <1>5, Zenon DEF IInv, TypeOK
  <2>3. TypeOK'
    <3>1. \A g \in Files(user) : disk'[g] # 0 => ~Malformed(g, disk'[g])
      BY <1>0, <2>1 DEF IInv, TypeOK, GoodInv
    <3> QED
      BY <1>1, <1>5, <2>1, <2>2, <3>1 DEF IInv, TypeOK
  <2>4. GoodInv' /\ OwnInv'
    BY <1>1, <1>2, <1>5, <2>1 DEF IInv, GoodInv, OwnInv
  <2>5. PlaceInv'
    BY <1>1, <1>5, <2>1, <2>2 DEF IInv, PlaceInv
  <2>6. AgreeInv'
    <3> SUFFICES ASSUME alive, ~overlapped PROVE AgreeInv'
      BY <1>1 DEF AgreeInv
    <3>1. \A g \in File : g # f => watcher[g] = "idle"
      BY <1>1 DEF IInv, AgreeInv
    <3>2. \A g \in File : retried'[g] => disk'[g] = previous'[g]
      BY <1>5, <2>1, <2>2, <3>1 DEF IInv, PlaceInv
    <3>3. \A g, h \in File : candidate'[g][h] = 0
      BY <2>1, <3>1 DEF IInv, PlaceInv
    <3> QED
      BY <1>1, <1>5, <2>1, <3>1, <3>2, <3>3 DEF IInv, AgreeInv
  <2>7. SoloInv'
    BY <1>1, <1>5, <2>1 DEF IInv, SoloInv
  <2> QED
    BY <1>3, <2>3, <2>4, <2>5, <2>6, <2>7 DEF IInv
<1> QED
    BY <1>4, <1>5 DEF BuildFails

\* The new enforcer or key comes into force when no request holds the lock.
LEMMA SwapInv ==
    ASSUME IInv, NEW f \in File, Swap(f)
    PROVE  IInv'
<1>0. Files(user) \subseteq File
    BY FilesAreFiles DEF IInv, TypeOK
<1>1. /\ UNCHANGED <<user, published, delivered, alive, disk, asking, readers, judgedBy, solo>>
      /\ watcher[f] = "lock" /\ readers = {}
      /\ inForce' = candidate[f]
      /\ overlapped' = (overlapped /\ solo # f)
      /\ WatcherReturns(f)
    BY DEF Swap, RecordSwap, pipe, requests
<1>2. TypeOK'
  <2>1. overlapped' \in BOOLEAN
    BY <1>1
  <2> QED
    BY <1>1, <2>1, Returned DEF IInv, TypeOK
<1>3. GoodInv' /\ OwnInv'
  <2>0. TypeOK /\ WatcherReturns(f)
    BY <1>1 DEF IInv
  <2>1. GoodInv'
    BY <1>0, <1>1, <2>0, Returned DEF IInv, GoodInv
  <2>2. OwnInv'
    <3> SUFFICES ASSUME NEW h \in File \ Files(user)
                 PROVE  /\ watcher'[h] = "idle"
                        /\ published[h] = 0 /\ disk[h] = 0 /\ inForce'[h] = 0
                        /\ \A g \in File : candidate'[g][h] = 0
      BY <1>1 DEF OwnInv
    <3>1. h # f /\ watcher'[h] = watcher[h]
      BY <1>1, <2>0, Returned DEF IInv, OwnInv
    <3>2. \A g \in File : candidate'[g][h] = 0
      BY <2>0, Returned DEF IInv, OwnInv
    <3>3. inForce'[h] = 0
      BY <1>1 DEF IInv, OwnInv
    <3> QED
      BY <3>1, <3>2, <3>3 DEF IInv, OwnInv
  <2> QED
    BY <2>1, <2>2
<1>4. PlaceInv'
  <2>1. TypeOK /\ PlaceInv /\ WatcherReturns(f) /\ UNCHANGED <<user, alive, asking, readers>>
    BY <1>1 DEF IInv
  <2>2. /\ \A g \in File : watcher'[g] = IF g = f THEN "idle" ELSE watcher[g]
        /\ \A g \in File : g # f => candidate'[g] = candidate[g] /\ retried'[g] = retried[g]
        /\ ~retried'[f] /\ \A g \in File : candidate'[f][g] = 0
    BY <2>1, Returned
  <2> QED
    BY <2>1, <2>2 DEF PlaceInv
<1>5. JudgedByTheEnforcerInForce'
    BY <1>1 DEF JudgedByTheEnforcerInForce
<1>6. AgreeInv'
  <2> SUFFICES ASSUME alive, ~overlapped \/ solo = f PROVE AgreeInv'
    BY <1>1 DEF AgreeInv
  <2>1. /\ \A g \in File : watcher[g] # "idle" => g = f
        /\ \A g \in File : candidate[f][g] \in {0, disk[g]}
    BY <1>1 DEF IInv, AgreeInv, SoloInv
  <2>2. \A g \in File : candidate[f][g] = disk[g]
    BY <1>1, <2>1 DEF IInv, PlaceInv, OwnInv
  <2>3. \A g \in File : watcher'[g] = "idle"
    BY <1>1, <2>1, Returned DEF IInv
  <2>4. \A g \in File : ~retried'[g] /\ \A h \in File : candidate'[g][h] = 0
    BY <1>4, <2>3 DEF PlaceInv
  <2> QED
    BY <1>1, <2>2, <2>3, <2>4 DEF AgreeInv
<1>7. SoloInv'
    BY <1>1, Returned DEF IInv, SoloInv
<1> QED
    BY <1>2, <1>3, <1>4, <1>5, <1>6, <1>7 DEF IInv

\* Requests take and release the read lock.
LEMMA RequestInv ==
    ASSUME IInv, NEW q \in Request, GetUserRoles(q) \/ Deny(q) \/ Allow(q) \/ RoundTripReturns(q)
    PROVE  IInv'
<1>1. UNCHANGED <<user, published, delivered, alive, disk, inForce, watcher, previous, candidate,
                  retried, overlapped, solo>>
    BY DEF GetUserRoles, Deny, Allow, RoundTripReturns, pipe, reload, history
<1>2. /\ asking' \subseteq Request /\ readers' \subseteq Request
      /\ judgedBy' \in [Request -> [File -> Version]]
    BY NothingIsZero DEF GetUserRoles, Deny, Allow, RoundTripReturns, IInv, TypeOK
<1>3. TypeOK'
    BY <1>1, <1>2 DEF IInv, TypeOK
<1>4. GoodInv' /\ OwnInv' /\ AgreeInv' /\ SoloInv'
    BY <1>1 DEF IInv, GoodInv, OwnInv, AgreeInv, SoloInv
<1>5. alive
    BY DEF GetUserRoles, Deny, Allow, RoundTripReturns, IInv, PlaceInv
<1>6. PlaceInv'
    BY <1>1, <1>5 DEF IInv, PlaceInv
<1>7. JudgedByTheEnforcerInForce'
    BY <1>1 DEF GetUserRoles, Deny, Allow, RoundTripReturns, IInv, TypeOK, JudgedByTheEnforcerInForce
<1> QED
    BY <1>3, <1>4, <1>6, <1>7 DEF IInv

\* Every step keeps the invariant.
LEMMA NextInv == IInv /\ [Next]_vars => IInv'
<1> SUFFICES ASSUME IInv, [Next]_vars PROVE IInv'
    OBVIOUS
<1>1. CASE Crash \/ Start
    BY <1>1, CrashInv, StartInv
<1>2. ASSUME NEW f \in File, Publish(f) \/ StreamEnds(f) \/ WatchFile(f) PROVE IInv'
    BY <1>2, StreamInv, EventInv, ReadNextInv, BuildSucceedsInv, BuildFailsInv, SwapInv DEF WatchFile
<1>3. ASSUME NEW q \in Request, GetUserRoles(q) \/ Deny(q) \/ Allow(q) \/ RoundTripReturns(q) PROVE IInv'
    BY <1>3, RequestInv
<1>4. CASE UNCHANGED vars
  <2>1. TypeOK' /\ GoodInv' /\ OwnInv'
    BY <1>4 DEF vars, IInv, TypeOK, GoodInv, OwnInv
  <2>2. PlaceInv' /\ AgreeInv' /\ SoloInv' /\ JudgedByTheEnforcerInForce'
    BY <1>4 DEF vars, IInv, PlaceInv, AgreeInv, SoloInv, JudgedByTheEnforcerInForce
  <2> QED
    BY <2>1, <2>2 DEF IInv
<1> QED
    BY <1>1, <1>2, <1>3, <1>4 DEF Next

\* The inductive invariant holds throughout.
THEOREM Invariance == Spec => []IInv
    BY InitInv, NextInv, PTL DEF Spec

\* Files, watchers and requests keep their types, and no file ever holds
\* contents that validate refuses (source.go:256-300).
THEOREM TypeCorrect == Spec => []TypeOK
<1>1. IInv => TypeOK
    BY DEF IInv
<1> QED
    BY <1>1, Invariance, PTL

\* Reloads that do not overlap leave files and memory in agreement, whether
\* they succeed or are taken back (source.go:325-333), and what overlapping
\* ones have left apart is together again after the next that ran alone.
THEOREM FilesAndMemoryAgree == Spec => []SequentialReloadsAgree
<1>1. IInv => SequentialReloadsAgree
  <2> SUFFICES ASSUME IInv, alive, ~overlapped, \A f \in File : watcher[f] = "idle"
               PROVE  inForce = disk
    BY DEF SequentialReloadsAgree
  <2>1. \A f \in File : inForce[f] = disk[f]
    BY DEF IInv, AgreeInv
  <2>2. inForce \in [File -> Version] /\ disk \in [File -> Version]
    BY DEF IInv, TypeOK
  <2> QED
    BY <2>1, <2>2
<1> QED
    BY <1>1, Invariance, PTL

\* The enforcer that allowed a request is in force until the request returns
\* (rbac.go:327-343, 171-175).
THEOREM EnforcerStays == Spec => []JudgedByTheEnforcerInForce
<1>1. IInv => JudgedByTheEnforcerInForce
    BY DEF IInv
<1> QED
    BY <1>1, Invariance, PTL
=============================================================================
